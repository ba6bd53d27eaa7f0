SPECIFICATION Spec
CONSTANTS
  Handoffs = {1}
  Scopes = {}
  Blueprints = {blueprint}
  Watermarks = {m1}
  Gone = Gone
  Workers = {w1, w2}
  Admins = {a1}
  Nobody = Nobody
  Idle = Idle
  InitialAttempts = 2
  RedriveStep = 1
  Lifetime = 4
  ScanLimit = 1
  MaxBudget = 4
INVARIANTS
  OneResultPerJob
  AccountsBalance
PROPERTIES
  ResultsAreFresh
  JobsSettle
  ImplementsFencedLease
CHECK_DEADLOCK FALSE
