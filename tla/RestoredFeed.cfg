SPECIFICATION RestoreSpec
CONSTANTS
  sender = sender
  receiver = receiver
  admin = admin
  checkpoint = checkpoint
  bundle = bundle
  contract = contract
  Checkpoints = {}
  Bundles = {}
  SourceOf <- MCSourceOf
  Sessions = {session}
  Runs = {}
  Policy = policy
  Users = {sender, receiver, admin}
  Admins = {admin}
  Classes = {0, 1}
  Readers <- MCReaders
  Writers = {w1, w2}
  Signal = Signal
  None = None
  Deadlines = {}
  Retention = 1
  MaxEvents = 2
  PurgeBatch = 1
  PageLimit = 1
  MaxTime = 2
  MaxPosition = 3
INVARIANTS
  RestoreIsNoticed
CHECK_DEADLOCK FALSE
