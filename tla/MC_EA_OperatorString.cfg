CONSTANTS
    W = 5
    Deltas <- MC_Deltas
    ObjectAddr = 4096
    NoText = NoText
SPECIFICATION Spec
INVARIANTS
    OperatorStringIsStreamText
