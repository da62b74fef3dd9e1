CONSTANTS
    Clients = {c1, c2}
    queue = queue
    NoThread = NoThread
    WaitMayTimeOut = FALSE
    Callers = {t1, t2}
    DirectCallers = {d1}
    Listeners = {k1}
    MaxCalls = 2

SPECIFICATION FairSpec
PROPERTIES EveryCallReturns ScreenGoesOff CancelIsAnswered ForcedRebootHappens
CHECK_DEADLOCK FALSE
