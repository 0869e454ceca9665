------------------------------- MODULE MC_Node -------------------------------
(***************************************************************************)
(* Model-checking instance of Node: three Nodes of one Context (so an      *)
(* archive can be loaded while its source and another node are live), one  *)
(* property name with two values (overwrite is visible), three UUIDs.      *)
(***************************************************************************)
EXTENDS Node

CONSTANTS n1, n2, n3, u1, u2, u3, u4, k1, v1, v2

MC_NodeIds == {n1, n2, n3}
MC_UUIDs == {u1, u2, u3, u4}


=============================================================================
