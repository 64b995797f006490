SPECIFICATION DelegationSpec
CONSTANTS
  Budgets = {1}
  MaxMishaps = 2
  MaxRuns = 1
  MaxRevokes = 1
  Nothing = Nothing
CHECK_DEADLOCK FALSE
INVARIANT RulesDoNotStack
PROPERTY LinkedMeansDelegated
PROPERTY RerunRepairs
