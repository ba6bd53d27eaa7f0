SPECIFICATION Spec
CONSTANTS
  Boss = boss
  Alice = alice
  Bob = bob
  Users = {boss, alice, bob}
  Admins = {boss}
  Checkpoints = {c1}
  Handovers = {}
  Works = {w1}
  Classes = {1}
  UnitKeys = {k1}
  Tokens = {t1, t2}
  PolicyBodies <- Bodies3
  NoUser = NoUser
  NoToken = NoToken
  NoPlan = NoPlan
  HandoverRetention = 2
  MaxUnits = 2
  MaxTime = 4
  MaxGeneration = 3
  MaxVersion = 2
  MaxPolicy = 2
  Senders = {alice}
SYMMETRY Symmetry
CHECK_DEADLOCK FALSE
INVARIANTS
  WorkIsOwned
  ClaimsAreUnique
  ErasureIsComplete
PROPERTIES
  TakeoverWasSeen
  ImplementsFencedLease
