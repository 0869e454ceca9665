CONSTANTS
    n1 = n1
    n2 = n2
    n3 = n3
    u1 = u1
    u2 = u2
    u3 = u3
    u4 = u4
    k1 = k1
    v1 = v1
    v2 = v2
    NodeIds <- MC_NodeIds
    UUIDs <- MC_UUIDs
    PropKeys = {k1}
    PropValues = {v1, v2}
    Absent = Absent
    OutOfRange = OutOfRange
    NoArchive = NoArchive
    NoCall = NoCall
SPECIFICATION Spec
INVARIANTS
    TypeOK
