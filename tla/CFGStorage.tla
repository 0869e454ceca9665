----------------------------- MODULE CFGStorage -----------------------------
(***************************************************************************)
(* Where the blocks of a CFG live (src/src/CFG.cpp), and the references    *)
(* clients hold into them.                                                 *)
(*                                                                         *)
(* addBlock moves a Block into a new vertex of the adjacency_list; with    *)
(* the vecS vertex list the vertices are the elements of a std::vector,    *)
(* so add_vertex may reallocate it and move every Block.  blocks(cfg) and  *)
(* cfg[d] hand out Block& into that vector.  A descriptor stays valid      *)
(* across addBlock; a Block& stays valid only while the vector does not    *)
(* reallocate.  The vector's storage is identified by `gen`, bumped at     *)
(* each reallocation; a read through a reference into an older storage is  *)
(* a read of freed memory, modelled as any UUID at all.                    *)
(***************************************************************************)
EXTENDS Naturals, Sequences, SequencesExt

CONSTANTS
    UUIDs,      \* the identifiers a block can carry
    Holders,    \* client code holding a Block& across calls
    MaxBlocks,  \* bound on addBlock calls
    NoRef,      \* a holder with no reference
    NoRead      \* no read through the holder's reference yet

ASSUME MaxBlocks \in Nat

VARIABLES
    blocks,     \* the UUIDs of the Blocks in the vertex vector, vertex order
    capacity,   \* the vertex vector's capacity
    gen,        \* the vertex vector's current storage (bumped on reallocation)
    ref,        \* ref[h]: [vertex, gen] or NoRef
    lastRead    \* lastRead[h]: the last getUUID through ref[h]: [got, want]

vars == <<blocks, capacity, gen, ref, lastRead>>

-----------------------------------------------------------------------------

\* add_vertex grows m_vertices by one (resize(size() + 1)): the vector
\* reallocates when it is full.
NeedsGrowth(n, cap) == n = cap

\* Mutant: the new storage sized exactly to the old size.
NewCapacityNoGrowth(n) == n

\* libstdc++'s growth on resize/push_back: size + max(size, 1).
NewCapacity(n) == IF n = 0 THEN 1 ELSE 2 * n

\* getUUID() through a Block& into storage r.gen: the block's UUID while
\* that storage is current; any value once it has been freed.
ReadThrough(r) == IF r.gen = gen THEN {blocks[r.vertex + 1]} ELSE UUIDs

Init ==
    /\ blocks = <<>>
    /\ capacity = 0
    /\ gen = 0
    /\ ref = [h \in Holders |-> NoRef]
    /\ lastRead = [h \in Holders |-> NoRead]

\* addBlock(cfg, Block&&): add_vertex, then the Block (random UUID) is
\* moved into the new vertex.  A reallocation moves every Block.
AddBlock ==
    /\ Len(blocks) < MaxBlocks
    /\ \E u \in UUIDs \ ToSet(blocks) : blocks' = Append(blocks, u)
    /\ IF NeedsGrowth(Len(blocks), capacity)
          THEN /\ capacity' = NewCapacity(Len(blocks))
               /\ gen' = gen + 1
          ELSE UNCHANGED <<capacity, gen>>
    /\ UNCHANGED <<ref, lastRead>>

\* cfg[d].setUUID(x): a write through a reference made on the spot.
SetUUID(d, x) ==
    /\ blocks' = [blocks EXCEPT ![d + 1] = x]
    /\ UNCHANGED <<capacity, gen, ref, lastRead>>

\* A holder keeps the Block& of vertex d (from blocks(cfg) or cfg[d]).
TakeRef(h, d) ==
    /\ ref' = [ref EXCEPT ![h] = [vertex |-> d, gen |-> gen]]
    /\ UNCHANGED <<blocks, capacity, gen, lastRead>>

\* getUUID() through the held reference.
ReadUUID(h) ==
    /\ ref[h] # NoRef
    /\ \E got \in ReadThrough(ref[h]) :
          lastRead' = [lastRead EXCEPT ![h] =
                         [got |-> got, want |-> blocks[ref[h].vertex + 1]]]
    /\ UNCHANGED <<blocks, capacity, gen, ref>>

Vertices == 0 .. Len(blocks) - 1

Next ==
    \/ AddBlock
    \/ \E d \in Vertices, x \in UUIDs : SetUUID(d, x)
    \/ \E h \in Holders, d \in Vertices : TakeRef(h, d)
    \/ \E h \in Holders : ReadUUID(h)

Spec == Init /\ [][Next]_vars

-----------------------------------------------------------------------------
(***************************************************************************)
(* Properties.                                                             *)
(***************************************************************************)

\* Types, and the vector never holds more Blocks than it has room for.
TypeOK ==
    /\ blocks \in Seq(UUIDs)
    /\ capacity \in Nat /\ Len(blocks) <= capacity
    /\ gen \in Nat
    /\ \A h \in Holders : ref[h] = NoRef \/ ref[h].vertex \in Vertices
    /\ \A h \in Holders : lastRead[h] = NoRead \/ lastRead[h].got \in UUIDs

\* Spec section 5: entities hold non-owning references into blocks, and
\* such a reference is good for as long as its owner (the CFG) lives.
HeldReferenceReadsItsBlock ==
    \A h \in Holders :
        lastRead[h] # NoRead => lastRead[h].got = lastRead[h].want

=============================================================================
