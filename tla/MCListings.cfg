\* Walks over orders, markets and the leaderboard under changes.
SPECIFICATION Spec
CONSTANTS
    MaxRows = 3
    MaxScore = 2
    MaxChanges = 3
    MaxPages = 5
    Asked <- MCAsked
    Default = 2
    Cap = 2
CHECK_DEADLOCK FALSE
INVARIANTS
    ListedOnceUnlessMoved
    UnrivalledListedOnce
