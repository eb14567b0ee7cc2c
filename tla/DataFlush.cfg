\* The contexts of a command on both FIFOs, while the host flushes them.
CONSTANTS
    SgLists <- MCFifoLists
    MaxContexts = 3
    PointerLists <- MCPointerLists
    AfterResidue = {}
    MaxPhases = 1
SPECIFICATION FamilySpec
CHECK_DEADLOCK FALSE
INVARIANT
    FlushedLikeFirmware
