SPECIFICATION Spec
CONSTANTS
  Handoffs = {h1}
  Actors = {a1, a2}
  Tokens = {t1, t2}
  Reasons = {retryable, shutdown}
  Connections = {c1, c2}
  NoActor = NoActor
  NoToken = NoToken
  NoReason = NoReason
  Idle = Idle
  Retention = 3
  MaxLease = 2
  MaxTime = 4
  MaxGeneration = 3
SYMMETRY Symmetry
INVARIANTS
  SettlementsAreFinal
  OwnerIsEntitled
  AnswersStand
  ViewsAgree
PROPERTIES
  PromotedIsFrozen
  ImplementsFencedLease
