SPECIFICATION ClassificationSpec
CONSTANTS
  ann = ann
  bob = bob
  idle = idle
  loop = loop
  i1 = i1
  i2 = i2
  evil = evil
  shop = shop
  brand = brand
  f1 = f1
  f2 = f2
  offer1 = offer1
  notice = notice
  buyNow = buyNow
  nowCheap = nowCheap
  newTerms = newTerms
  buy = buy
  now = now
  terms = terms
  NoOne = NoOne
  NoFile = NoFile
  Torn = Torn
  NoHost = NoHost
  NoText = NoText
  NoSeed = NoSeed
  NoMail = NoMail
  NoLesson = NoLesson
  Accounts <- TwoAccounts
  Workers <- Threads
  AccountOf <- AnnTrains
  Inodes <- TwoInodes
  MaxReports = 2
  Users <- TwoAccounts
  Hosts <- TwoHosts
  Brands <- OneBrand
  OwnHosts <- ShopOfBrand
  Texts <- SomeTexts
  Shingles <- SomePairs
  PairsOf <- PairsIn
  Mails <- SomeMails
  Feeds <- TwoFeeds
  Offers <- Published
  Perms <- TwoPerms
  Mix <- Hashes
  Limit = 2
  SameSenderMax = 2
  Words <- ThreeWords
  Lessons <- TwoLabels
  Seed <- Seeds
  Chi2 <- Combined
  Threshold = 6500
  MinUserCounts = 2
  MaxChanges = 2
SYMMETRY Alike
INVARIANTS
  TypeOK
  FileIsWhole
  NothingForgotten
  DetectorsTypeOK
  RefreshIsComplete
  RepeatedIsReported
  NothingMissed
  NoFalseAlarm
PROPERTIES
  ImplementsAtomicReports
