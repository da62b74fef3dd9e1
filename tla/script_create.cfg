CONSTANTS
    Calls = {c1, c2}
    MaxRefs = 0
    MaxEvents = 0

SPECIFICATION Spec
INVARIANT CreatedIsNotNull
CHECK_DEADLOCK FALSE
