CONSTANTS
    u1 = u1
    u2 = u2
    u3 = u3
    u4 = u4
    h1 = h1
    UUIDs <- MC_UUIDs
    Holders <- MC_Holders
    MaxBlocks = 4
    NoRef = NoRef
    NoRead = NoRead
SPECIFICATION Spec
SYMMETRY Symmetry
INVARIANTS
    TypeOK
