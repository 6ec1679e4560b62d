\* Orders of the status asked for, as the interface describes it: violated, the filter is dropped.
SPECIFICATION Spec
CONSTANTS
    MaxRows = 3
    MaxScore = 2
    MaxChanges = 3
    MaxPages = 5
    Asked <- MCAsked
    Default = 2
    Cap = 2
CHECK_DEADLOCK FALSE
INVARIANTS
    OnlyMatchesListed
