SPECIFICATION Spec
CONSTANTS
  Boss = boss
  Alice = alice
  Bob = bob
  Users = {boss, alice, bob}
  Admins = {boss}
  Senders = {alice}
  Checkpoints = {}
  Handovers = {h1}
  Works = {w1}
  Classes = {1}
  UnitKeys = {k1, k2}
  Tokens = {t1}
  PolicyBodies <- Lasting
  NoUser = NoUser
  NoToken = NoToken
  NoPlan = NoPlan
  HandoverRetention = 2
  MaxUnits = 2
  MaxTime = 3
  MaxGeneration = 2
  MaxVersion = 2
  MaxPolicy = 1
SYMMETRY Symmetry
CHECK_DEADLOCK FALSE
INVARIANTS
  WorkIsReachable
  SenderNeverSucceeds
PROPERTIES
  TerminalIsFinal
