\* Three commands for two targets.  On the aic7xxx they share three slots, which
\* rejected negotiations and restarts may lose; on the aic79xx each target has
\* two units, and there is one freeze that nobody will handle.
CONSTANTS
    Scbs = {s1, s2, s3}
    Targets = {T1, T2}
    Luns = {l1, l2}
    SCB_LIST_NULL = NULL
    MaxLost = 1
    NumSlots = 3
    Twin = TRUE
SPECIFICATION FamilySpec
VIEW FamilyState
CONSTRAINT Followed
SYMMETRY Symmetries
INVARIANTS
    SlotsConsistent
    AlwaysAScb
    DataPointersSurvive
    InOrder
    ListsConsistent
    SelectionStays
    FrozenUntilHandled
