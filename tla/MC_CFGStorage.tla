--------------------------- MODULE MC_CFGStorage ---------------------------
(***************************************************************************)
(* Model-checking instance of CFGStorage: four addBlock calls, so that     *)
(* the vertex vector reallocates at sizes 0, 1 and 2 and the fourth        *)
(* block goes into the spare slot of capacity 4.  One holder suffices: its *)
(* reference may be taken at any size and read after any adds.             *)
(***************************************************************************)
EXTENDS CFGStorage, TLC

CONSTANTS u1, u2, u3, u4, h1

MC_UUIDs == {u1, u2, u3, u4}
MC_Holders == {h1}

Symmetry == Permutations(MC_UUIDs)

=============================================================================
