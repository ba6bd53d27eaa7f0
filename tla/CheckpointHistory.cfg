SPECIFICATION Spec
CONSTANTS
  Boss = boss
  Alice = alice
  Bob = bob
  Users = {boss, alice, bob}
  Admins = {boss}
  Senders = {alice, bob}
  Checkpoints = {c1, c2, c3}
  Handovers = {}
  Works = {w1, w2}
  Classes = {1, 2}
  UnitKeys = {}
  Tokens = {t1}
  PolicyBodies <- Usual
  NoUser = NoUser
  NoToken = NoToken
  NoPlan = NoPlan
  HandoverRetention = 1
  MaxUnits = 1
  MaxTime = 3
  MaxGeneration = 1
  MaxVersion = 2
  MaxPolicy = 1
CHECK_DEADLOCK FALSE
INVARIANTS
  ClassificationNeverDrops
