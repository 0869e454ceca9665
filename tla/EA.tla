--------------------------------- MODULE EA ---------------------------------
(***************************************************************************)
(* The effective-address value type of src/src/EA.cpp and its text forms.  *)
(*                                                                         *)
(* An EA holds one uint64_t; its arithmetic wraps modulo 2^64, modelled    *)
(* with a width of W bits.  operator<<(ostream&, const EA&) writes "0x"    *)
(* and the value in hex, saving and restoring the stream's format flags.   *)
(* operator std::string() streams `this`, a const EA*, which selects       *)
(* ostream::operator<< for a const void pointer: the object's address.      *)
(* The integer conversion operators are stateless and not modelled.      *)
(***************************************************************************)
EXTENDS Integers, Sequences

CONSTANTS
    W,          \* the width of EA::ea in bits (64 in the code)
    Deltas,     \* the operands passed to += and -=
    ObjectAddr, \* the address the EA object lives at (its `this`)
    NoText      \* no text produced yet

ASSUME W \in Nat \ {0} /\ ObjectAddr \in Nat

Modulus == 2 ^ W
Word == 0 .. Modulus - 1

VARIABLES
    ea,          \* EA::ea
    written,     \* the text operator<< last wrote, or NoText
    str,         \* the last result of operator std::string(), or NoText
    strValue     \* ghost: the EA value str was produced from

vars == <<ea, written, str, strValue>>

-----------------------------------------------------------------------------
(***************************************************************************)
(* Text.                                                                   *)
(***************************************************************************)

\* The digits of n in base b, most significant first; "0" for zero, as a
\* num_put writes it.
RECURSIVE DigitsOf(_, _)
DigitsOf(n, b) ==
    IF n < b THEN <<n>> ELSE Append(DigitsOf(n \div b, b), n % b)

\* std::hex output of n, no show-base flag set.
HexDigits(n) == DigitsOf(n, 16)

\* operator<<(ostream&, const EA&): "0x" then ea in hex.
EAText(x) == <<"0x">> \o HexDigits(x)

\* ostream::operator<<(const void*) (libstdc++): "0x" then the address in hex.
PointerText(p) == <<"0x">> \o HexDigits(p)

-----------------------------------------------------------------------------
(***************************************************************************)
(* Operations.                                                             *)
(***************************************************************************)

Init ==
    /\ ea \in Word
    /\ written = NoText
    /\ str = NoText
    /\ strValue = 0

\* EA::set(x), EA::operator=(EA).
Set(x) ==
    /\ ea' = x
    /\ UNCHANGED <<written, str, strValue>>

\* Mutant: the sum kept unreduced (a wider accumulator).
AddUnreduced(a, x) == a + x

\* uint64_t addition and subtraction wrap modulo 2^64.
Add(a, x) == (a + x) % Modulus
Sub(a, x) == (a + Modulus - x) % Modulus

\* EA::operator+=(uint64_t), EA::operator+=(EA).
AddAssign(x) ==
    /\ ea' = Add(ea, x)
    /\ UNCHANGED <<written, str, strValue>>

\* EA::operator-=(uint64_t), EA::operator-=(EA).
SubAssign(x) ==
    /\ ea' = Sub(ea, x)
    /\ UNCHANGED <<written, str, strValue>>

\* operator<<(ostream&, const EA&): the stream's flags are saved, std::hex
\* set for the write and the saved flags put back, so the stream's state
\* after the call is that before it.
WriteEA ==
    /\ written' = EAText(ea)
    /\ UNCHANGED <<ea, str, strValue>>

\* EA::operator std::string(): ss << this.
OperatorString ==
    /\ str' = PointerText(ObjectAddr)
    /\ strValue' = ea
    /\ UNCHANGED <<ea, written>>

Next ==
    \/ \E x \in Word : Set(x)
    \/ \E x \in Deltas : AddAssign(x) \/ SubAssign(x)
    \/ WriteEA
    \/ OperatorString

Spec == Init /\ [][Next]_vars

-----------------------------------------------------------------------------
(***************************************************************************)
(* Properties.                                                             *)
(***************************************************************************)

TypeOK ==
    /\ ea \in Word
    /\ written = NoText \/ written[1] = "0x"
    /\ strValue \in Word

\* operator std::string() converts an EA to the text operator<< writes for
\* it, "0x" and the value in hex, whatever object holds that value.
OperatorStringIsStreamText ==
    str # NoText => str = EAText(strValue)

=============================================================================
