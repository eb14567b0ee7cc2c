\* Three commands of one device on three slots.
CONSTANTS
    Tags = {t1, t2, t3}
    Devices = {d1}
    NumSlots = 3
    SCB_LIST_NULL = NULL
    Twin = FALSE
SPECIFICATION Spec
VIEW LiveState
CONSTRAINT Followed
INVARIANT
    RestartLeaksNone
