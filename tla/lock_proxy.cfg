SPECIFICATION Spec
CONSTANTS
    t1 = t1  t2 = t2  t3 = t3  t4 = t4  p1 = p1  p2 = p2
    Tokens <- TwoTokens
    TypeOf <- TwoTypes
    OwnerOf <- TwoOwners
    NameOf <- TwoNames
    Procs <- MCProcs
    CounterMod = 4
    ForceSleep = FALSE
    AllowProxy = TRUE
    HoldMayFail = FALSE
    UnholdMayFail = FALSE
INVARIANTS TypeOK ProxyCountMatches
