CONSTANTS
    s1 = s1
    s2 = s2
    dataBlock = dataBlock
    codeBlock = codeBlock
    proxyBlock = proxyBlock
    d1 = d1
    sec1 = sec1
    e1 = e1
    e2 = e2
    Static = Static
    Extern = Extern
    Syms <- MC_Syms
    Blocks <- MC_Blocks
    BlockAddr <- MC_BlockAddr
    StorageKinds = {Extern, Static}
    Addrs = {0, 1}
    DataObjects = {d1}
    SectionNodes = {sec1}
    Exprs = {e1, e2}
    ExprAddrs = {0}
    NoAddr = NoAddr
    NoReferent = NoReferent
    NoExpr = NoExpr
    MaxAdds = 2
SPECIFICATION Spec
INVARIANTS
    FindSymbolsExact
