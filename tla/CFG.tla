-------------------------------- MODULE CFG --------------------------------
(***************************************************************************)
(* The control-flow graph of src/src/CFG.cpp and its protobuf round trip.  *)
(*                                                                         *)
(* A CFG is a boost adjacency_list whose vertices hold Block values.  With *)
(* the vecS vertex list a vertex_descriptor is an index 0..n-1, so a graph *)
(* is modelled as the sequence of the UUIDs of its blocks (vertex d holds  *)
(* blocks[d+1]) and the sequence of its edges as <<source, target>>        *)
(* descriptor pairs in the order add_edge appended them.  A block's other  *)
(* scalar fields are abstracted away: only its UUID takes part in the      *)
(* reference graph.                                                        *)
(*                                                                         *)
(* The in-memory graph `cfg` is built by addBlock/add_edge and by the      *)
(* Node UUID setters of its blocks; toProtobuf writes it to `message`;     *)
(* the transport may instead deliver a message written elsewhere;         *)
(* fromProtobuf decodes `message` into a fresh graph `result`.             *)
(***************************************************************************)
EXTENDS Naturals, Sequences, SequencesExt, FiniteSets

CONSTANTS
    UUIDs,            \* the identifiers a Node can carry
    MaxBlocks,        \* bound on addBlock calls on the in-memory graph
    MaxEdges,         \* bound on add_edge calls on the in-memory graph
    ForeignMessages,  \* wire messages the transport can deliver from other writers
    NoGraph,          \* "no graph decoded yet"
    NoMessage,        \* "nothing on the wire yet"
    Unspecified       \* the abstract view of a message whose meaning is not fixed

ASSUME MaxBlocks \in Nat /\ MaxEdges \in Nat

VARIABLES
    cfg,          \* the CFG being built: [blocks, edges]
    message,      \* the proto::CFG on the wire: [blocks: UUIDs, edges: UUID pairs]
    result,       \* the CFG fromProtobuf built from the last decoded message
    msgSource,    \* ghost: the graph `message` was encoded from, or NoGraph
    resultSource, \* ghost: msgSource of the message `result` was decoded from
    resultMessage \* ghost: the message `result` was decoded from

vars == <<cfg, message, result, msgSource, resultSource, resultMessage>>

Graph == [blocks : Seq(UUIDs), edges : Seq(Nat \X Nat)]
WireCFG == [blocks : Seq(UUIDs), edges : Seq(UUIDs \X UUIDs)]

EmptyGraph == [blocks |-> <<>>, edges |-> <<>>]

NumVertices(g) == Len(g.blocks)
Descriptors(g) == 0 .. NumVertices(g) - 1

\* The UUID of the block held by vertex d (cfg[d].getUUID()).
UUIDOf(g, d) == g.blocks[d + 1]

\* The out-edges of vertex d, in the order they were added.
OutEdges(g, d) == SelectSeq(g.edges, LAMBDA e : e[1] = d)

\* A UUID no block of g carries.  boost's random_generator draws 122 random
\* bits, so a generated UUID is modelled as one that differs from every
\* UUID of the graph it joins (collisions with graphs of other Contexts
\* are harmless: they never meet in one blockMap).
FreshUUIDs(g) == UUIDs \ ToSet(g.blocks)

-----------------------------------------------------------------------------
(***************************************************************************)
(* Encoding: toProtobuf(const CFG&).                                       *)
(***************************************************************************)

\* edges(cfg) visits the vertices in order and each out-edge list in order.
EdgesInIterationOrder(g) ==
    FlattenSeq([i \in 1 .. NumVertices(g) |-> OutEdges(g, i - 1)])

\* Blocks are written once each, in vertex order; an edge is written as
\* the UUIDs of the blocks at its two ends (nodeUUIDToBytes).
Encode(g) ==
    [blocks |-> g.blocks,
     edges  |-> LET es == EdgesInIterationOrder(g)
                IN [k \in 1 .. Len(es) |-> <<UUIDOf(g, es[k][1]), UUIDOf(g, es[k][2])>>]]

-----------------------------------------------------------------------------
(***************************************************************************)
(* Decoding: fromProtobuf(CFG&, const proto::CFG&).                        *)
(***************************************************************************)

\* Mutant: the descriptor taken as the block's index in the message, right
\* only when the CFG decoded into is empty.
BlockMapEntryIndex(g, m, u) ==
    Max({d \in 0 .. Len(m.blocks) - 1 : m.blocks[d + 1] = u})

\* blockMap after the block loop: blockMap[id] = addBlock(result, ...) runs
\* once per block and addBlock appends after the vertices `result` already
\* has, so for a UUID held by several blocks the last descriptor wins.
BlockMapEntry(g, m, u) ==
    NumVertices(g) + Max({d \in 0 .. Len(m.blocks) - 1 : m.blocks[d + 1] = u})

\* blockMap[uuid] in the edge loop: std::map::operator[] inserts and returns
\* a value-initialised descriptor, 0, for a UUID no block carries.
Lookup(g, m, u) ==
    IF u \in ToSet(m.blocks) THEN BlockMapEntry(g, m, u) ELSE 0

\* Mutant: the edge's target looked up with the source UUID.
DecodedEdgesCopyPaste(g, m) ==
    [k \in 1 .. Len(m.edges) |-> <<Lookup(g, m, m.edges[k][1]), Lookup(g, m, m.edges[k][1])>>]

DecodedEdges(g, m) ==
    [k \in 1 .. Len(m.edges) |-> <<Lookup(g, m, m.edges[k][1]), Lookup(g, m, m.edges[k][2])>>]

\* Mutant: add_edge assumed never to grow the vertex list.
DecodeNoGrowth(g, m, fresh) ==
    [blocks |-> g.blocks \o m.blocks, edges |-> g.edges \o DecodedEdges(g, m)]

\* The graph fromProtobuf leaves in the CFG g it is given: g's blocks and
\* edges, then the message's.  add_edge on a vecS vertex list grows it to
\* cover a descriptor past the end: an edge decoded with no vertex at all
\* adds vertex 0 holding a default Block, whose Node() constructor draws a
\* new random UUID `fresh`.
Decode(g, m, fresh) ==
    LET blocks == g.blocks \o m.blocks
    IN  [blocks |-> IF blocks = <<>> /\ m.edges # <<>> THEN <<fresh>> ELSE blocks,
         edges  |-> g.edges \o DecodedEdges(g, m)]

-----------------------------------------------------------------------------
(***************************************************************************)
(* Operations.                                                             *)
(***************************************************************************)

Init ==
    /\ cfg = EmptyGraph
    /\ message = NoMessage
    /\ result = NoGraph
    /\ msgSource = NoGraph
    /\ resultSource = NoGraph
    /\ resultMessage = NoMessage

\* addBlock(cfg, Block&&): a Block created by its constructor (random UUID)
\* is moved into a new vertex appended to the vertex list.
AddBlock ==
    /\ NumVertices(cfg) < MaxBlocks
    /\ \E u \in FreshUUIDs(cfg) :
          cfg' = [cfg EXCEPT !.blocks = Append(@, u)]
    /\ UNCHANGED <<message, result, msgSource, resultSource, resultMessage>>

\* add_edge(s, t, cfg) on two existing vertices.
AddEdge(s, t) ==
    /\ Len(cfg.edges) < MaxEdges
    /\ cfg' = [cfg EXCEPT !.edges = Append(@, <<s, t>>)]
    /\ UNCHANGED <<message, result, msgSource, resultSource, resultMessage>>

\* Node::setUUID() on the block of vertex d: a new random UUID.
SetUUIDRandom(d) ==
    /\ \E u \in FreshUUIDs(cfg) :
          cfg' = [cfg EXCEPT !.blocks[d + 1] = u]
    /\ UNCHANGED <<message, result, msgSource, resultSource, resultMessage>>

\* Node::setUUID(UUID x) on the block of vertex d: any UUID, unchecked.
SetUUID(d, x) ==
    /\ cfg' = [cfg EXCEPT !.blocks[d + 1] = x]
    /\ UNCHANGED <<message, result, msgSource, resultSource, resultMessage>>

\* toProtobuf(cfg), the message handed to the transport.
ToProtobuf ==
    /\ message' = Encode(cfg)
    /\ msgSource' = cfg
    /\ UNCHANGED <<cfg, result, resultSource, resultMessage>>

\* The transport delivers a proto::CFG written by some other program.
Receive(m) ==
    /\ message' = m
    /\ msgSource' = NoGraph
    /\ UNCHANGED <<cfg, result, resultSource, resultMessage>>

\* fromProtobuf(result, message) into a fresh CFG.
FromProtobuf ==
    /\ message # NoMessage
    /\ \E fresh \in FreshUUIDs(message) :
          result' = Decode(EmptyGraph, message, fresh)
    /\ resultSource' = msgSource
    /\ resultMessage' = message
    /\ UNCHANGED <<cfg, message, msgSource>>

\* fromProtobuf(cfg, message) into the graph being built, which keeps its
\* blocks and edges; the result must stay within the graph bounds.
FromProtobufInto ==
    /\ message # NoMessage
    /\ NumVertices(cfg) + Len(message.blocks) <= MaxBlocks
    /\ Len(cfg.edges) + Len(message.edges) <= MaxEdges
    /\ \E fresh \in FreshUUIDs(cfg) : cfg' = Decode(cfg, message, fresh)
    /\ UNCHANGED <<message, result, msgSource, resultSource, resultMessage>>

Next ==
    \/ AddBlock
    \/ \E s, t \in Descriptors(cfg) : AddEdge(s, t)
    \/ \E d \in Descriptors(cfg) : SetUUIDRandom(d)
    \/ \E d \in Descriptors(cfg), x \in UUIDs : SetUUID(d, x)
    \/ ToProtobuf
    \/ \E m \in ForeignMessages : Receive(m)
    \/ FromProtobuf
    \/ FromProtobufInto

Spec == Init /\ [][Next]_vars

-----------------------------------------------------------------------------
(***************************************************************************)
(* Properties.                                                             *)
(***************************************************************************)

\* Types, and every edge of the built and of the decoded graph joins two of
\* its vertices (add_edge on a vecS list grows it to cover its ends).
TypeOK ==
    /\ cfg \in Graph
    /\ \A e \in ToSet(cfg.edges) : e[1] \in Descriptors(cfg) /\ e[2] \in Descriptors(cfg)
    /\ message \in WireCFG \cup {NoMessage}
    /\ result \in Graph \cup {NoGraph}
    /\ result # NoGraph =>
          \A e \in ToSet(result.edges) : e[1] \in Descriptors(result) /\ e[2] \in Descriptors(result)
    /\ msgSource \in Graph \cup {NoGraph}
    /\ resultSource \in Graph \cup {NoGraph}
    /\ resultMessage \in WireCFG \cup {NoMessage}

\* Two graphs with the same blocks in the same vertex order and, at every
\* vertex, the same out-edges in the same order.
SameGraph(g, h) ==
    /\ g.blocks = h.blocks
    /\ \A d \in Descriptors(g) : OutEdges(g, d) = OutEdges(h, d)
    /\ Len(g.edges) = Len(h.edges)

EdgesResolveByUUID(g, m) ==
    \A k \in 1 .. Len(m.edges) :
        /\ UUIDOf(g, g.edges[k][1]) = m.edges[k][1]
        /\ UUIDOf(g, g.edges[k][2]) = m.edges[k][2]

\* A message whose edges only name UUIDs of its own blocks (any message
\* toProtobuf writes, and well-formed foreign ones) decodes to edges that
\* join exactly the named blocks, even when two blocks share a UUID.
ClosedMessageResolves ==
    (resultMessage # NoMessage
        /\ \A k \in 1 .. Len(resultMessage.edges) :
              {resultMessage.edges[k][1], resultMessage.edges[k][2]} \subseteq ToSet(resultMessage.blocks))
        => EdgesResolveByUUID(result, resultMessage)

\* Spec sections 4.5 and 7: a reference whose UUID is not in the message
\* fails the decode; no graph with a silently rebound edge is returned.
\* fromProtobuf has no failure path, so any decoded graph must resolve.
NoSilentlyReboundEdge ==
    resultMessage # NoMessage => EdgesResolveByUUID(result, resultMessage)

-----------------------------------------------------------------------------
(***************************************************************************)
(* Refinement of AbstractCFG.                                              *)
(***************************************************************************)

\* A graph as spec 4.2 exposes it: blocks in vertex order and, per vertex,
\* the targets of its out-edges in the order they were added.
Canon(g) ==
    [blocks |-> g.blocks,
     out    |-> [i \in 1 .. NumVertices(g) |->
                   LET es == OutEdges(g, i - 1) IN [k \in 1 .. Len(es) |-> es[k][2]]]]

\* The wire format's meaning of a message, a constant-level use of the
\* abstract module.
Wire == INSTANCE AbstractCFG
            WITH graph <- NoGraph, msg <- NoMessage, local <- FALSE, res <- NoGraph,
                 NoMsg <- NoMessage, NoRes <- NoGraph

Abs == INSTANCE AbstractCFG
           WITH graph <- Canon(cfg),
                msg   <- IF message = NoMessage THEN NoMessage ELSE Wire!Meaning(message),
                local <- msgSource # NoGraph,
                res   <- IF result = NoGraph THEN NoGraph ELSE Canon(result),
                NoMsg <- NoMessage, NoRes <- NoGraph

\* toProtobuf and fromProtobuf implement the abstract protocol: encoding a
\* graph with distinct block UUIDs writes a message that means that graph,
\* whatever is done to the graph afterwards, and decoding any well-formed
\* message (ours or another writer's) builds exactly the graph it means,
\* with every block's out-edges in their original order.
ImplementsAbstractCFG == Abs!Spec

=============================================================================
