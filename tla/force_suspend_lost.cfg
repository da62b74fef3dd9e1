CONSTANTS
    Clients = {c1, c2}
    queue = queue
    NoThread = NoThread
    Ops = {"wakeupDevice", "suspendDevice", "forceSuspendDevice"}
    Actions = {"AUTO"}
    SetStateMayFail = FALSE

SPECIFICATION Spec
SYMMETRY Symmetry
INVARIANT ForceSuspendIsCarriedOut
