\* One call, an order of an earlier day, one restart and two signals, kills,
\* failures or clients that leave.
SPECIFICATION Spec
CONSTANTS
    Calls = {c1}
    OldOrders = {o1}
    MaxStarts = 6
    MaxEvents = 2
CHECK_DEADLOCK FALSE
CONSTRAINT Explored
INVARIANTS
    BooksAreRestored
    StopsLoseNothing
PROPERTIES
    StopsWhenTold
