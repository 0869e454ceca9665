---------------------------- MODULE AbstractCFG ----------------------------
(***************************************************************************)
(* What the control-flow graph and its wire form promise (spec sections    *)
(* 4.2 and 4.5), with no descriptors on the wire and no blockMap.          *)
(*                                                                         *)
(* A graph is its blocks in vertex order and, for every vertex, the        *)
(* targets of its out-edges in the order they were added: the traversal    *)
(* order spec 4.2 exposes.  A message whose block UUIDs are distinct and   *)
(* whose edges name only those blocks means exactly one such graph, and    *)
(* decoding it yields that graph, or appends it to the graph decoded into. *)
(* What any other message decodes to is left open, as is the encoding of  *)
(* a graph two of whose blocks share a UUID (a caller precondition         *)
(* violation, spec 4.1).                                                   *)
(***************************************************************************)
EXTENDS Naturals, Sequences, SequencesExt, Functions

CONSTANTS
    UUIDs,        \* the identifiers a block can carry
    NoMsg,        \* nothing on the wire yet
    NoRes,        \* nothing decoded yet
    Unspecified   \* a message whose meaning the protocol does not fix

VARIABLES
    graph,   \* [blocks : Seq(UUIDs), out : Seq(Seq(descriptor))]
    msg,     \* the graph the message on the wire denotes, Unspecified or NoMsg
    local,   \* whether that message was encoded from this graph
    res      \* the graph the last decode produced, or NoRes

vars == <<graph, msg, local, res>>

AbsGraph == [blocks : Seq(UUIDs), out : Seq(Seq(Nat))]

\* The graph a well-formed message denotes: the edges leaving the block
\* with UUID blocks[i], in message order, each pointing at the vertex of
\* the block its target UUID names.
MessageGraph(m) ==
    [blocks |-> m.blocks,
     out    |-> [i \in 1 .. Len(m.blocks) |->
                   LET es == SelectSeq(m.edges, LAMBDA e : e[1] = m.blocks[i])
                   IN  [k \in 1 .. Len(es) |-> SelectInSeq(m.blocks, LAMBDA u : u = es[k][2]) - 1]]]

\* Distinct block UUIDs, and every edge end is one of them.
WellFormedMessage(m) ==
    /\ IsInjective(m.blocks)
    /\ \A k \in 1 .. Len(m.edges) : {m.edges[k][1], m.edges[k][2]} \subseteq ToSet(m.blocks)

Meaning(m) == IF WellFormedMessage(m) THEN MessageGraph(m) ELSE Unspecified

Vertices == 0 .. Len(graph.blocks) - 1

\* Graph h placed after graph g: its vertices numbered from Len(g.blocks).
Appended(g, h) ==
    [blocks |-> g.blocks \o h.blocks,
     out    |-> g.out \o [i \in DOMAIN h.out |->
                           [k \in DOMAIN h.out[i] |-> h.out[i][k] + Len(g.blocks)]]]

Init ==
    /\ graph = [blocks |-> <<>>, out |-> <<>>]
    /\ msg = NoMsg
    /\ local = FALSE
    /\ res = NoRes

\* A block with a UUID no block of the graph has joins as the last vertex.
NewBlock ==
    /\ \E u \in UUIDs \ ToSet(graph.blocks) :
          graph' = [blocks |-> Append(graph.blocks, u), out |-> Append(graph.out, <<>>)]
    /\ UNCHANGED <<msg, local, res>>

\* An edge from vertex i to vertex j, last among i's out-edges.
NewEdge(i, j) ==
    /\ graph' = [graph EXCEPT !.out[i + 1] = Append(@, j)]
    /\ UNCHANGED <<msg, local, res>>

\* A block takes another identity; the edges stay with the vertex.
Rename(i, x) ==
    /\ graph' = [graph EXCEPT !.blocks[i + 1] = x]
    /\ UNCHANGED <<msg, local, res>>

\* Encoding a graph with distinct block UUIDs puts that very graph on the
\* wire.
Send ==
    /\ local' = TRUE
    /\ UNCHANGED <<graph, res>>
    /\ msg' = IF IsInjective(graph.blocks) THEN graph ELSE Unspecified

\* Another writer's message: any graph, or one of unspecified meaning.
Deliver ==
    /\ local' = FALSE
    /\ UNCHANGED <<graph, res>>
    /\ msg' \in AbsGraph \cup {Unspecified}

\* Decoding yields the graph the message means.
Decode ==
    /\ msg # NoMsg
    /\ UNCHANGED <<graph, msg, local>>
    /\ \/ msg # Unspecified /\ res' = msg
       \/ msg = Unspecified /\ res' \in AbsGraph

\* Decoding into the graph itself keeps its vertices and edges and adds the
\* message's graph after them; a message of unspecified meaning may leave
\* any graph at all.
DecodeInto ==
    /\ msg # NoMsg
    /\ UNCHANGED <<msg, local, res>>
    /\ \/ msg # Unspecified /\ graph' = Appended(graph, msg)
       \/ msg = Unspecified /\ graph' \in AbsGraph

Next ==
    \/ Deliver
    \/ Decode
    \/ Send
    \/ DecodeInto
    \/ NewBlock
    \/ \E i, j \in Vertices : NewEdge(i, j)
    \/ \E i \in Vertices, x \in UUIDs : Rename(i, x)

Spec == Init /\ [][Next]_vars

=============================================================================
