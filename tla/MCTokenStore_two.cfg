SPECIFICATION Spec
CONSTANTS
  ann = ann
  bob = bob
  idle = idle
  loop = loop
  i1 = i1
  i2 = i2
  i3 = i3
  i4 = i4
  buy = buy
  NoOne = NoOne
  NoFile = NoFile
  Torn = Torn
  NoLesson = NoLesson
  Words <- OneWord
  Lessons <- OneSpam
  Accounts <- TwoAccounts
  Workers <- Threads
  AccountOf <- AccountEach
  Inodes <- FourInodes
  MaxReports = 2
SYMMETRY Alike
INVARIANTS
  FileIsWhole
