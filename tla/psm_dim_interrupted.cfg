CONSTANTS
    Clients = {c1, c2}
    queue = queue
    NoThread = NoThread
    Ops = {"refresh"}
    DisplayMayFail = FALSE

SPECIFICATION Spec
SYMMETRY Symmetry
INVARIANT InterruptedDimIsUndone
