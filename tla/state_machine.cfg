CONSTANTS
    Clients = {c1, c2}
    queue = queue
    NoThread = NoThread
    Ops = {"refresh", "lockScreenAfterTimingOut", "wakeup", "suspend", "setDisplayOffTime"}
    TimerOps = {"refresh", "wakeup", "suspend", "screenLock", "setForceTimingOut"}
    DisplayMayFail = TRUE

SPECIFICATION PartSpec
SYMMETRY Symmetry
INVARIANTS TypeOK StateMatchesDisplay OvertakenTaskIsDropped AwakeAtRestHasTimer
PROPERTY TransitionsAreAllowed
