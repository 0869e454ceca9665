CONSTANTS
    u1 = u1
    u2 = u2
    u3 = u3
    UUIDs <- MC_UUIDs
    MaxBlocks = 2
    MaxEdges = 2
    ForeignMessages <- MC_ForeignMessages
    NoGraph = NoGraph
    NoMessage = NoMessage
    Unspecified = Unspecified
SPECIFICATION Spec
SYMMETRY Symmetry
INVARIANTS
    NoSilentlyReboundEdge
