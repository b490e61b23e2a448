SPECIFICATION Spec
CONSTANTS
  ann = ann
  inbox = inbox
  junk = junk
  idleInbox = idleInbox
  catchUp = catchUp
  training = training
  NoOne = NoOne
  Accounts <- OneAccount
  Folders <- JustInboxFolder
  Watches <- JustInbox
  Loops <- JustCatchUp
  AccountOf <- AnnsThreads
  FolderOf <- Scanned
  StopOnAuth = FALSE
  MaxReconnects = 1
  MaxPower = 1
  MaxTrouble = 3
INVARIANTS
  LoopsSurvive
