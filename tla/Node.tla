-------------------------------- MODULE Node --------------------------------
(***************************************************************************)
(* The Node base of every IR object (src/src/Node.cpp): its UUID and its   *)
(* local property bag, a std::map<std::string, variant>, and the boost     *)
(* serialize() that saves and loads both.                                  *)
(*                                                                         *)
(* A few Nodes of one Context are modelled.  An archive saved from one     *)
(* node can be loaded into a node newly constructed in the same Context,   *)
(* the way boost::serialization restores an object: default construction  *)
(* (a random UUID) followed by serialize() on the input archive.           *)
(***************************************************************************)
EXTENDS Naturals, FiniteSets

CONSTANTS
    NodeIds,     \* the Node objects of the Context
    UUIDs,       \* the identifiers a Node can carry
    PropKeys,    \* property names
    PropValues,  \* property values (gtirb::variant)
    Absent,      \* no entry for a key in the property map
    OutOfRange,  \* std::out_of_range, thrown by map::at
    NoArchive,   \* no archive saved yet
    NoCall       \* no getLocalProperty call made yet

ASSUME Absent \notin PropValues /\ OutOfRange \notin PropValues

VARIABLES
    live,        \* nodes constructed so far
    uuid,        \* uuid[n]: Node::uuid
    props,       \* props[n]: Node::localProperties, [PropKeys -> PropValues \cup {Absent}]
    archive,     \* the last archive saved: [props, uuid]
    getResult,   \* the outcome of the last getLocalProperty call
    explicit     \* ghost: the UUIDs callers have passed to setUUID(UUID)

vars == <<live, uuid, props, archive, getResult, explicit>>

EmptyBag == [k \in PropKeys |-> Absent]

\* Node(): a UUID from boost's random_generator, modelled as one no live
\* Node carries (122 random bits).
FreshUUIDs == UUIDs \ {uuid[n] : n \in live}

Init ==
    /\ live = {}
    /\ uuid = [n \in NodeIds |-> CHOOSE u \in UUIDs : TRUE]
    /\ props = [n \in NodeIds |-> EmptyBag]
    /\ archive = NoArchive
    /\ getResult = NoCall
    /\ explicit = {}

\* Node::Node(): construction in the Context with a random UUID.
Construct(n) ==
    /\ n \notin live
    /\ \E u \in FreshUUIDs : uuid' = [uuid EXCEPT ![n] = u]
    /\ live' = live \cup {n}
    /\ props' = [props EXCEPT ![n] = EmptyBag]
    /\ UNCHANGED <<archive, getResult, explicit>>

\* Node::setUUID(): a new random UUID.
SetUUIDRandom(n) ==
    /\ n \in live
    /\ \E u \in FreshUUIDs : uuid' = [uuid EXCEPT ![n] = u]
    /\ UNCHANGED <<live, props, archive, getResult, explicit>>

\* Node::setUUID(UUID x): the caller's identifier, unchecked against the
\* Context.
SetUUID(n, x) ==
    /\ n \in live
    /\ uuid' = [uuid EXCEPT ![n] = x]
    /\ explicit' = explicit \cup {x}
    /\ UNCHANGED <<live, props, archive, getResult>>

\* Node::setLocalProperty(name, value): localProperties[name] = value,
\* overwriting silently.
SetLocalProperty(n, name, value) ==
    /\ n \in live
    /\ props' = [props EXCEPT ![n][name] = value]
    /\ UNCHANGED <<live, uuid, archive, getResult, explicit>>

\* Mutant: operator[] in place of at(): an absent key is inserted with a
\* default-constructed value, which is returned.
GetLocalPropertyByIndex(n, x) ==
    /\ n \in live
    /\ getResult' = props[n][x]
    /\ UNCHANGED <<live, uuid, props, archive, explicit>>

\* Node::getLocalProperty(x): localProperties.at(x), which throws
\* std::out_of_range for an absent key.
GetLocalProperty(n, x) ==
    /\ n \in live
    /\ getResult' = IF props[n][x] = Absent THEN OutOfRange ELSE props[n][x]
    /\ UNCHANGED <<live, uuid, props, archive, explicit>>

\* Node::removeLocalProperty(x): erases the entry when found (the returned
\* bool tells whether it was).
RemoveLocalProperty(n, x) ==
    /\ n \in live
    /\ props[n][x] # Absent
    /\ props' = [props EXCEPT ![n][x] = Absent]
    /\ UNCHANGED <<live, uuid, archive, getResult, explicit>>

\* Node::clearLocalProperties().
ClearLocalProperties(n) ==
    /\ n \in live
    /\ props' = [props EXCEPT ![n] = EmptyBag]
    /\ UNCHANGED <<live, uuid, archive, getResult, explicit>>

\* Node::serialize on an output archive: ar & localProperties; ar & uuid.data.
Save(n) ==
    /\ n \in live
    /\ archive' = [props |-> props[n], uuid |-> uuid[n]]
    /\ UNCHANGED <<live, uuid, props, getResult, explicit>>

\* Loading the archive into a Node newly constructed in the Context:
\* Node() draws a UUID, then serialize on the input archive restores the
\* properties and overwrites the UUID, with no check against the Context.
Load(n) ==
    /\ archive # NoArchive
    /\ n \notin live
    /\ uuid' = [uuid EXCEPT ![n] = archive.uuid]
    /\ live' = live \cup {n}
    /\ props' = [props EXCEPT ![n] = archive.props]
    /\ UNCHANGED <<archive, getResult, explicit>>

Next ==
    \E n \in NodeIds :
        \/ Construct(n)
        \/ SetUUIDRandom(n)
        \/ \E x \in UUIDs : SetUUID(n, x)
        \/ \E k \in PropKeys, v \in PropValues : SetLocalProperty(n, k, v)
        \/ \E k \in PropKeys : GetLocalProperty(n, k)
        \/ \E k \in PropKeys : RemoveLocalProperty(n, k)
        \/ ClearLocalProperties(n)
        \/ Save(n)
        \/ Load(n)

Spec == Init /\ [][Next]_vars

-----------------------------------------------------------------------------
(***************************************************************************)
(* Properties.                                                             *)
(***************************************************************************)

TypeOK ==
    /\ live \subseteq NodeIds
    /\ uuid \in [NodeIds -> UUIDs]
    /\ props \in [NodeIds -> [PropKeys -> PropValues \cup {Absent}]]
    /\ archive \in [props : [PropKeys -> PropValues \cup {Absent}], uuid : UUIDs] \cup {NoArchive}
    /\ getResult \in PropValues \cup {OutOfRange, NoCall}
    /\ explicit \subseteq UUIDs

\* Spec sections 3 and 8: two distinct nodes of one Context never carry
\* the same UUID, except one a caller supplied through setUUID(UUID), the
\* only way section 4.1 gives a caller to break uniqueness.  Construction,
\* setUUID() and serialize's load are the other ways a UUID is assigned.
UniqueUUIDs ==
    \A n1, n2 \in live :
        (n1 # n2 /\ uuid[n1] = uuid[n2]) => uuid[n1] \in explicit

=============================================================================
