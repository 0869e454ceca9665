------------------------------- MODULE MC_CFG -------------------------------
(***************************************************************************)
(* Model-checking instance of CFG: three UUIDs, graphs of up to two blocks  *)
(* and two edges, and every foreign message of at most one block and one   *)
(* edge (which includes a dangling edge and an edge with no blocks).       *)
(***************************************************************************)
EXTENDS CFG, TLC

CONSTANTS u1, u2, u3

MC_UUIDs == {u1, u2, u3}

MC_ForeignMessages ==
    [blocks : BoundedSeq(MC_UUIDs, 1), edges : BoundedSeq(MC_UUIDs \X MC_UUIDs, 1)]

\* One message of each decode behaviour, closed under renaming UUIDs: no
\* blocks with no edge or with an edge (every edge end decodes to
\* descriptor 0, so which UUIDs it names changes nothing), one block with
\* no edge, with a self-loop on it, or with an edge from it to a UUID no
\* block carries (the other dangling shapes also decode to a self-loop on
\* vertex 0, and all of them mean Unspecified).
MC_RoundTripMessages ==
    {[blocks |-> <<>>, edges |-> <<>>]}
    \cup {[blocks |-> <<>>, edges |-> <<<<a, a>>>>] : a \in MC_UUIDs}
    \cup UNION {{[blocks |-> <<u>>, edges |-> es] :
                   es \in {<<>>, <<<<u, u>>>>} \cup {<<<<u, v>>>> : v \in MC_UUIDs \ {u}}} :
                 u \in MC_UUIDs}

Symmetry == Permutations(MC_UUIDs)

=============================================================================
