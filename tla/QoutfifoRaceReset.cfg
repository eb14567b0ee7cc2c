CONSTANTS
    Tags = {t1, t2, t3}
    RingSize = 8
    SCB_LIST_NULL = NULL
    RaceReset = TRUE
SPECIFICATION Spec
INVARIANT
    CheckSeesPosted
