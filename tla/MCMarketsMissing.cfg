\* Requests for a market that does not exist.
CONSTANTS
  Calls = {c1}
  Markets = {m1}
  MaxOutcomes = 3
  MaxFaults = 0
SPECIFICATION Spec
CHECK_DEADLOCK FALSE
INVARIANTS
  MissingIsNotFound
