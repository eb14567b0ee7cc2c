\* The target saves its pointers after an IGNORE WIDE RESIDUE has taken a byte
\* back, and then goes on with the data.
CONSTANTS
    SgLists <- MCFifoLists
    MaxContexts = 1
    PointerLists <- MCPointerLists
    AfterResidue = {"save"}
    MaxPhases = 3
SPECIFICATION FamilySpec
CHECK_DEADLOCK FALSE
INVARIANT
    BytesInPlace
