SPECIFICATION Spec
CONSTANTS
    t1 = t1  t2 = t2  t3 = t3  t4 = t4  p1 = p1  p2 = p2
    Tokens <- FourTokens
    TypeOf <- FourTypes
    OwnerOf <- FourOwners
    NameOf <- FourNames
    Procs <- MCProcs
    CounterMod = 6
    ForceSleep = TRUE
    AllowProxy = FALSE
    HoldMayFail = TRUE
    UnholdMayFail = FALSE
INVARIANTS EnabledIsHeld NothingHeldInVain TimedLockHasTimer
