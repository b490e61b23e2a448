SPECIFICATION FairSpec
CONSTANTS
  ann = ann
  root = root
  mbox = mbox
  old = old
  new = new
  r1 = r1
  r2 = r2
  NoBox = NoBox
  Malformed = Malformed
  Absent = Absent
  Users <- TwoUsers
  Mailboxes <- OneBox
  Passwords <- TwoPasswords
  Requests <- TwoRequests
  Excluded <- Root
  DeleteMailboxes = TRUE
  MaxAttempts = 3
  MaxEvents = 2
  MaxFaults = 3
INVARIANTS
  TypeOK
  InStep
  DeleteNeedsRemoval
PROPERTIES
  EveryRequestReturns
CHECK_DEADLOCK FALSE
