\* Two commands for one target of the aic7xxx, one for one of the aic79xx, on wide
\* adapters.
CONSTANTS
    Scbs = {s1, s2}
    AhdScbs = {t1}
    WIDE = TRUE
    MaxErrors = 1
    AhdMaxErrors = 1
    None = None
SPECIFICATION FamilySpec
SYMMETRY Symmetries
CHECK_DEADLOCK FALSE
INVARIANTS
    SessionHasMessage
    AtnFollowsTheMessage
    SettingsKnown
    AhdReportsStay
PROPERTY
    AhdErrorIsReported
