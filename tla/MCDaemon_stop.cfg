SPECIFICATION FairSpec
CONSTANTS
  ann = ann
  inbox = inbox
  junk = junk
  idleInbox = idleInbox
  catchUp = catchUp
  training = training
  NoOne = NoOne
  Accounts <- OneAccount
  Folders <- JustInboxFolder
  Watches <- JustInbox
  Loops <- Schedulers
  AccountOf <- AnnsThreads
  FolderOf <- Scanned
  StopOnAuth = TRUE
  MaxReconnects = 1
  MaxPower = 2
  MaxTrouble = 2
INVARIANTS
  TypeOK
  OneScanPerAccount
  ExitCodeTellsWhy
PROPERTIES
  RejectionIsRetried
  ArrivalIsScanned
