SPECIFICATION Spec
CONSTANTS
  TransitionBudget = 5
  IterationBudget = 3
  Documents <- MCDocuments
INVARIANTS
  OwnersExact
  NeverStuck
  ResultAllowed
PROPERTY ReportedOnce
CHECK_DEADLOCK FALSE
