\* Three commands and an output queue of eight entries, the smallest that wraps
\* from one group into another; two commands for two devices and an input queue
\* of three entries.  Liveness, so without symmetry.
CONSTANTS
    Tags = {t1, t2, t3}
    RingSize = 8
    SCB_LIST_NULL = NULL
    RaceReset = FALSE
    Reqs = {r1, r2}
    Scbs = {s1, s2, s3}
    HardwareScbs = {h1, h2, h3}
    next_queued_scb = s3
    QinfifoSize = 3
    None = None
VIEW LiveState
SPECIFICATION QueuesSpec
INVARIANTS
    PostLandsOnEmptyEntry
    EveryEntryHasItsScb
    NoLostInterrupt
    CheckSeesPosted
PROPERTIES
    ImplementsChannel
    QueueMoves
