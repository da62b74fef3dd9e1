----------------------------- MODULE MCRunningLock -----------------------------
\* Small instances of RunningLock.
EXTENDS RunningLock, TLC

CONSTANTS t1, t2, t3, t4, p1, p2

MCProcs == {p1, p2}

\* Four locks with every kind of counter action; three reach the BACKGROUND_TASK counter, two have
\* the same name.
FourTokens == {t1, t2, t3, t4}
FourTypes == t1 :> "SCREEN" @@ t2 :> "TASK" @@ t3 :> "USER_IDLE" @@ t4 :> "COORDINATION"
FourOwners == t1 :> p1 @@ t2 :> p1 @@ t3 :> p2 @@ t4 :> p2
FourNames == t1 :> "a" @@ t2 :> "a" @@ t3 :> "b" @@ t4 :> "c"

\* Two locks of two processes that proxying connects through their work sources.
TwoTokens == {t1, t2}
TwoTypes == t1 :> "TASK" @@ t2 :> "TASK"
TwoOwners == t1 :> p1 @@ t2 :> p2
TwoNames == t1 :> "a" @@ t2 :> "a"

================================================================================
