CONSTANTS
    Clients = {c1, c2}
    queue = queue
    NoThread = NoThread
    Ops = {"screenLock", "setForceTimingOut"}
    DisplayMayFail = FALSE

SPECIFICATION Spec
SYMMETRY Symmetry
INVARIANT ForcedTimeoutHasTimer
