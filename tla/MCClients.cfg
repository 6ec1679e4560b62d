\* Two calls of any clients, a retry, and a fault anywhere.
SPECIFICATION Spec
CONSTANTS
    Calls = {c1, c2}
    MaxRetries = 1
    Funds = 2
    MaxFaults = 1
SYMMETRY Symmetry
CONSTRAINT Explored
CHECK_DEADLOCK FALSE
INVARIANTS
    NeverTwice
    ReportIsTrue
