SPECIFICATION MCSpec
CONSTANTS
  user = user
  session1 = session1
  session2 = session2
  Users = {user}
  Sessions = {session1, session2}
  OwnerOf <- MCOwner
  Works = {}
  WorkClass <- MCWorkClass
  Classes = {0}
  Reports <- MCReports
  Policies <- MCPolicies
  DefaultPolicy <- MCDefault
  MaxOpenPerUser = 2
  MaxLive = 2
  MaxRecent = 2
  Minute = 1
  PruneLimit = 1
  None = None
  MaxTime = 3
  MaxSequence = 2
  MaxVersion = 2
  Reporters = {user}
  Runs = {run1, run2}
  RunOwner <- MCRunOwner
  RunClasses = {0}
  Sent <- MCSent
  UsagePolicies <- MCUsagePolicies
  DefaultUsagePolicy <- MCDefaultUsage
  MaxIdentities = 2
  MaxLiveRuns = 2
  MaxRegistered = 2
  MaxReceipts = 3
  MaxRevisions = 3
  MaxReported = 3
  UsageMinute = 1
  Skew = 0
  PruneRunsLimit = 1
  Nothing = Nothing
  MaxClock = 2
  MaxRunSequence = 3
  MaxUsagePolicy = 1
SYMMETRY Symmetric
INVARIANTS
  IdleIsObserved
  SessionsAreSound
  LedgerIsSound
  CountedOnce
PROPERTIES
  GuardNeverRefuses
  RunsNeverRegress
CHECK_DEADLOCK FALSE
