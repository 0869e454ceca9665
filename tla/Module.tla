------------------------------- MODULE Module -------------------------------
(***************************************************************************)
(* The address-indexed collections of a Module (Module.hpp) and the        *)
(* Symbols they index.                                                     *)
(*                                                                         *)
(* Symbols is a std::multimap<Addr, Symbol*>: addSymbol files a symbol     *)
(* under the address it has at the moment of the call, and findSymbols    *)
(* returns the equal_range of a key.  A Symbol's address is either         *)
(* explicit or derived from its referent block; the Symbol class is not    *)
(* in this repository's sources, so its setters follow spec section 4.4    *)
(* and the expectations of Symbol.test.cpp.  Data and Sections are         *)
(* vectors appended to; SymbolicOperands is a std::map<Addr, Expr>.        *)
(***************************************************************************)
EXTENDS Naturals, Sequences, SequencesExt, FiniteSets

CONSTANTS
    Syms,          \* the Symbol nodes a loader can create
    Blocks,        \* the blocks a Symbol can refer to
    BlockAddr,     \* BlockAddr[b]: the address of block b, NoAddr for a ProxyBlock
    Addrs,         \* addresses (naturals)
    DataObjects,   \* DataObject nodes
    SectionNodes,  \* Section nodes
    Exprs,         \* symbolic expressions
    ExprAddrs,     \* the addresses symbolic expressions are added at
    StorageKinds,  \* Undefined, Static, Extern, Local
    Extern,        \* the default storage kind
    NoAddr,        \* an absent optional<Addr>
    NoReferent,    \* a Symbol bound to no block
    NoExpr,        \* no symbolic expression at an address
    MaxAdds        \* bound on each of addSymbol, addData, addSection

ASSUME Addrs \subseteq Nat /\ NoAddr \notin Addrs /\ ExprAddrs \subseteq Addrs
ASSUME BlockAddr \in [Blocks -> Addrs \cup {NoAddr}]
ASSUME Extern \in StorageKinds /\ MaxAdds \in Nat

VARIABLES
    created,     \* Symbols created so far in the Context
    symAddr,     \* symAddr[s]: the explicit address of s, or NoAddr
    referent,    \* referent[s]: the block s refers to, or NoReferent
    storage,     \* storage[s]: the StorageKind of s
    symbols,     \* Module::Symbols: a sequence of <<key, symbol>> in multimap order
    data,        \* Module::Data
    sections,    \* Module::Sections
    symExprs,    \* Module::SymbolicOperands: [ExprAddrs -> Exprs \cup {NoExpr}]
    addLog,      \* ghost: the <<key, symbol>> pairs addSymbol emplaced, in call order
    lastAdded    \* ghost: lastAdded[X], the expression last passed for address X

symbolVars == <<created, symAddr, referent, storage>>
vars == <<created, symAddr, referent, storage, symbols, data, sections, symExprs, addLog, lastAdded>>

Keys == Addrs \cup {NoAddr}

-----------------------------------------------------------------------------
(***************************************************************************)
(* Symbol (spec 4.4, Symbol.test.cpp).                                     *)
(***************************************************************************)

\* Mutant: the referent itself returned where its address is meant.
GetAddressOfReferent(s) ==
    IF referent[s] # NoReferent THEN referent[s] ELSE symAddr[s]

\* Symbol::getAddress(): the referent's address when a referent is bound
\* (none for a ProxyBlock), otherwise the explicit address.
GetAddress(s) ==
    IF referent[s] # NoReferent THEN BlockAddr[referent[s]] ELSE symAddr[s]

\* Symbol::Create(C, name), Create(C, Addr, name) or Create(C, Block, name):
\* storage kind Extern, and at most one of an address and a referent.
CreateSymbol(s, a, b) ==
    /\ s \notin created
    /\ a = NoAddr \/ b = NoReferent
    /\ created' = created \cup {s}
    /\ symAddr' = [symAddr EXCEPT ![s] = a]
    /\ referent' = [referent EXCEPT ![s] = b]
    /\ storage' = [storage EXCEPT ![s] = Extern]
    /\ UNCHANGED <<symbols, data, sections, symExprs, addLog, lastAdded>>

\* Symbol::setAddress: an explicit address replaces the referent.
SetAddress(s, a) ==
    /\ s \in created
    /\ symAddr' = [symAddr EXCEPT ![s] = a]
    /\ referent' = [referent EXCEPT ![s] = NoReferent]
    /\ UNCHANGED <<created, storage, symbols, data, sections, symExprs, addLog, lastAdded>>

\* Symbol::setReferent(b): binds b and clears the explicit address.
SetReferent(s, b) ==
    /\ s \in created
    /\ referent' = [referent EXCEPT ![s] = b]
    /\ symAddr' = [symAddr EXCEPT ![s] = NoAddr]
    /\ UNCHANGED <<created, storage, symbols, data, sections, symExprs, addLog, lastAdded>>

\* Symbol::setStorageKind.
SetStorageKind(s, k) ==
    /\ s \in created
    /\ storage' = [storage EXCEPT ![s] = k]
    /\ UNCHANGED <<created, symAddr, referent, symbols, data, sections, symExprs, addLog, lastAdded>>

-----------------------------------------------------------------------------
(***************************************************************************)
(* Module collections (Module.hpp).                                        *)
(***************************************************************************)

\* The multimap's key order: an absent address sorts first, then by value.
KeyLeq(k1, k2) == k1 = NoAddr \/ (k2 # NoAddr /\ k1 <= k2)

\* Mutant: insertion at the lower bound of the equal range (before the
\* symbols already filed under the same address).
EmplaceLowerBound(seq, k, s) ==
    LET i == Cardinality({j \in 1 .. Len(seq) : KeyLeq(seq[j][1], k) /\ seq[j][1] # k})
    IN InsertAt(seq, i + 1, <<k, s>>)

\* std::multimap::emplace inserts at the upper bound of the equal range:
\* after every element whose key is not greater than k.
Emplace(seq, k, s) ==
    LET i == Cardinality({j \in 1 .. Len(seq) : KeyLeq(seq[j][1], k)})
    IN InsertAt(seq, i + 1, <<k, s>>)

\* Module::addSymbol(initializer_list<Symbol*> Ss), which addSymbol(S)
\* calls with {S}: for each S in turn, Symbols.emplace(S->getAddress(), S).
AddSymbol(Ss) ==
    /\ ToSet(Ss) \subseteq created
    /\ Len(addLog) + Len(Ss) <= MaxAdds
    /\ symbols' = FoldLeft(LAMBDA acc, s : Emplace(acc, GetAddress(s), s), symbols, Ss)
    /\ addLog' = addLog \o [i \in 1 .. Len(Ss) |-> <<GetAddress(Ss[i]), Ss[i]>>]
    /\ UNCHANGED <<symbolVars, data, sections, symExprs, lastAdded>>

\* Module::findSymbols(X): the symbols of Symbols.equal_range(X), in order.
FindSymbols(X) ==
    LET range == SelectSeq(symbols, LAMBDA e : e[1] = X)
    IN [i \in 1 .. Len(range) |-> range[i][2]]

\* Module::symbols(): every symbol of the multimap, in key order.
SymbolRange == [i \in 1 .. Len(symbols) |-> symbols[i][2]]

\* Module::findSymbolicExpression(X): SymbolicOperands.find(X).
FindSymbolicExpression(X) == symExprs[X]

\* Module::addData(initializer_list<DataObject*> Ds), and addData(DO)
\* with {DO}: Data.insert(Data.end(), Ds), no deduplication.
AddData(Ds) ==
    /\ Len(data) + Len(Ds) <= MaxAdds
    /\ data' = data \o Ds
    /\ UNCHANGED <<symbolVars, symbols, sections, symExprs, addLog, lastAdded>>

\* Module::addSection(initializer_list<Section*> Ss), and addSection(S)
\* with {S}: Sections.insert(Sections.end(), Ss), no deduplication.
AddSection(Ss) ==
    /\ Len(sections) + Len(Ss) <= MaxAdds
    /\ sections' = sections \o Ss
    /\ UNCHANGED <<symbolVars, symbols, data, symExprs, addLog, lastAdded>>

\* Module::addSymbolicExpression(X, SE): SymbolicOperands.emplace(X, SE),
\* which leaves the map unchanged when X already has an expression.
AddSymbolicExpression(X, SE) ==
    /\ symExprs' = IF symExprs[X] = NoExpr THEN [symExprs EXCEPT ![X] = SE] ELSE symExprs
    /\ lastAdded' = [lastAdded EXCEPT ![X] = SE]
    /\ UNCHANGED <<symbolVars, symbols, data, sections, addLog>>

-----------------------------------------------------------------------------

Init ==
    /\ created = {}
    /\ symAddr = [s \in Syms |-> NoAddr]
    /\ referent = [s \in Syms |-> NoReferent]
    /\ storage = [s \in Syms |-> Extern]
    /\ symbols = <<>>
    /\ data = <<>>
    /\ sections = <<>>
    /\ symExprs = [a \in ExprAddrs |-> NoExpr]
    /\ addLog = <<>>
    /\ lastAdded = [a \in ExprAddrs |-> NoExpr]

\* The initializer lists a caller passes: one or two elements.
CallLists(S) == BoundedSeq(S, 2) \ {<<>>}

Next ==
    \/ \E s \in Syms, a \in Keys, b \in Blocks \cup {NoReferent} : CreateSymbol(s, a, b)
    \/ \E s \in Syms, a \in Addrs : SetAddress(s, a)
    \/ \E s \in Syms, b \in Blocks : SetReferent(s, b)
    \/ \E s \in Syms, k \in StorageKinds : SetStorageKind(s, k)
    \/ \E Ss \in CallLists(Syms) : AddSymbol(Ss)
    \/ \E Ds \in CallLists(DataObjects) : AddData(Ds)
    \/ \E Ss \in CallLists(SectionNodes) : AddSection(Ss)
    \/ \E X \in ExprAddrs, SE \in Exprs : AddSymbolicExpression(X, SE)

Spec == Init /\ [][Next]_vars

-----------------------------------------------------------------------------
(***************************************************************************)
(* Properties.                                                             *)
(***************************************************************************)

TypeOK ==
    /\ created \subseteq Syms
    /\ symAddr \in [Syms -> Keys]
    /\ referent \in [Syms -> Blocks \cup {NoReferent}]
    /\ storage \in [Syms -> StorageKinds]
    /\ symbols \in Seq(Keys \X Syms)
    /\ data \in Seq(DataObjects)
    /\ sections \in Seq(SectionNodes)
    /\ symExprs \in [ExprAddrs -> Exprs \cup {NoExpr}]
    /\ addLog \in Seq(Keys \X Syms)
    /\ lastAdded \in [ExprAddrs -> Exprs \cup {NoExpr}]

\* The Symbols multimap: findSymbols(X) returns every addSymbol call that
\* filed a symbol under X, duplicates included, in the order of the calls
\* (spec section 3: "insertion order among duplicates preserved").
EqualRangeInCallOrder ==
    \A X \in Keys :
        FindSymbols(X) = LET calls == SelectSeq(addLog, LAMBDA e : e[1] = X)
                         IN [i \in 1 .. Len(calls) |-> calls[i][2]]

\* Spec section 8: findSymbols(addr) returns exactly the added symbols whose
\* effective address equals addr, also after a setter moved a symbol.
FindSymbolsExact ==
    \A X \in Addrs :
        ToSet(FindSymbols(X)) = {s \in ToSet(SymbolRange) : GetAddress(s) = X}

\* Spec section 4.3: addSymbolicExpression(address, expr) overwrites any
\* existing entry, so findSymbolicExpression(address) yields the expression
\* last added at that address.
AddSymbolicExpressionOverwrites ==
    \A X \in ExprAddrs : lastAdded[X] # NoExpr => FindSymbolicExpression(X) = lastAdded[X]

=============================================================================
