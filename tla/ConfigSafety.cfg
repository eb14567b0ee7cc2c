CONSTANTS
    Targets = {0, 1}
    Boards <- MCBoards
    Extras = {}
    MaxRestarts = 1
    Reload = {"seeprom"}
    LostInSleep = {}
    Starts = {0, 62}
    Count = 2
    Words = {4660, 43981}
    MaxCalls = 3
    Scbs = {s1, s2}
    RingSize = 3
    MaxOps = 5
    AhdBoards <- MCAhdBoards
SPECIFICATION ConfigSpec
CHECK_DEADLOCK FALSE
INVARIANTS
    SettingsTaken
    BoardRuns
    BoardsHold
PROPERTY
    EepromHolds
