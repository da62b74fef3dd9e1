CONSTANTS
    Clients = {c1, c2}
    queue = queue
    NoThread = NoThread
    Ops = {"wakeupDevice", "handleWakeup", "suspendDevice", "forceSuspendDevice", "monitor", "switch"}
    Actions = {"AUTO", "FORCE"}
    SetStateMayFail = TRUE

SPECIFICATION Spec
SYMMETRY Symmetry
INVARIANT AwakeIsNotAutoSuspended
INVARIANT SleepTimeHasTimer
