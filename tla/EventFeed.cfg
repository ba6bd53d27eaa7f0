SPECIFICATION MCSpec
CONSTANTS
  sender = sender
  receiver = receiver
  admin = admin
  checkpoint = checkpoint
  bundle = bundle
  contract = contract
  Checkpoints = {checkpoint}
  Bundles = {bundle, contract}
  SourceOf <- MCSourceOf
  Sessions = {session}
  Runs = {run}
  Policy = policy
  Users = {sender, receiver, admin}
  Admins = {admin}
  Classes = {0, 1}
  Readers <- MCReaders
  Writers = {w1, w2}
  Signal = Signal
  None = None
  Deadlines = {1, 3}
  Retention = 1
  MaxEvents = 2
  PurgeBatch = 1
  PageLimit = 1
  MaxTime = 2
  MaxPosition = 3
SYMMETRY WriterSymmetry
INVARIANTS
  FeedIsSound
  NoSilentChange
CHECK_DEADLOCK FALSE
