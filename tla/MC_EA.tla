------------------------------- MODULE MC_EA -------------------------------
(***************************************************************************)
(* Model-checking instance of EA: a 5-bit address word (two hex digits,   *)
(* so digit order matters), increments that wrap in both directions, and  *)
(* an EA object at 0x1000.                                                 *)
(***************************************************************************)
EXTENDS EA

MC_Deltas == {1, 2 ^ W - 1}

=============================================================================
