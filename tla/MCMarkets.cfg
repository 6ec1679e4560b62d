\* Three overlapping calls on a market in any state, one fault anywhere.
CONSTANTS
  Calls = {c1, c2, c3}
  Markets = {m1}
  MaxOutcomes = 3
  MaxFaults = 1
SPECIFICATION Spec
SYMMETRY Symmetry
CHECK_DEADLOCK FALSE
INVARIANTS
  AnswersTellTheOutcome
  ResolvedShowsItsWinner
PROPERTIES
  ImplementsLifecycle
