\* Four alignments of the extension, both sizes of an S/G list; pool memory runs
\* out once on the aic7xxx, twice on the aic79xx.  Firmware of up to five
\* instructions, with three conditions, two critical sections and a jump.
CONSTANTS
    Bases <- MCBases
    PoolFailures = 1
    AhdPoolFailures = 2
    SgListSizes = {1024, 2048}
    Funcs = {f1, f2, f3}
    Labels = {"l1"}
    MaxInstr = 5
    MaxScopes = 4
    MaxSections = 2
    MaxJumps = 1
    MaxSize = 8
    EmptyBodies = FALSE
    RamSize = 4
    MaxSteps = 2
    MaxPauses = 1
SPECIFICATION StartSpec
SYMMETRY Symmetries
\* A firmware that does not fit is refused, and nothing happens any more.
CHECK_DEADLOCK FALSE
INVARIANTS
    NoOverlap
    InsideExtension
    AhdPiecesApart
    ImageIsSelected
    JumpsReachTheirLabel
    PausedOutsideSections
PROPERTY
    AhdNothingIsLost
