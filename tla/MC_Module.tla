----------------------------- MODULE MC_Module -----------------------------
(***************************************************************************)
(* Model-checking instance of Module: two symbols, the three block kinds   *)
(* of Symbol.test.cpp's setReferent test (a DataBlock at address 0, a      *)
(* CodeBlock at address 1, a ProxyBlock with none), two addresses, so that *)
(* two symbols can share an address and a symbol can move between them.   *)
(***************************************************************************)
EXTENDS Module, TLC

CONSTANTS s1, s2, dataBlock, codeBlock, proxyBlock, d1, sec1, e1, e2, Static

MC_Syms == {s1, s2}
MC_Blocks == {dataBlock, codeBlock, proxyBlock}
MC_BlockAddr == (dataBlock :> 0) @@ (codeBlock :> 1) @@ (proxyBlock :> NoAddr)

=============================================================================
