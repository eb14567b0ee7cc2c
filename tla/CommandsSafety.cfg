\* Five lists and three data phases on the aic7xxx, four lists and three
\* contexts on the aic79xx.  When an IGNORE WIDE RESIDUE has taken a byte back
\* the target does not save its pointers before the next data phase, nor go
\* back to what it saved before: what happens when it does is what
\* DataResidueSaved.cfg shows.  Three commands of one device end.  Liveness, so
\* without symmetry.
CONSTANTS
    SgLists <- MCFifoLists
    MaxContexts = 3
    PointerLists <- MCPointerLists
    AfterResidue = {}
    MaxPhases = 3
    Commands = {c1, c2, c3}
SPECIFICATION CommandsSpec
\* Nothing is left to do when the command has ended.
CHECK_DEADLOCK FALSE
INVARIANTS
    BytesInPlace
    ResidualIsRight
    DataComesFirst
    UploadTellsResidual
    AnswersAreTrue
    FailedSenseIsACheck
PROPERTY
    StatusCompletes
