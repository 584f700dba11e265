\* The territory loop: two territories, one of them reached through the EU group
\* only, that fail, are carried over, drop out of the list of the lists and return,
\* while the operator switches between two files, one with a certificate that expires.
SPECIFICATION ServiceFairSpec
CONSTANTS
  t1 = t1
  t2 = t2
  a = a
  old = old
  new = new
  pid = pid
  wallet = wallet
  NoSnapshot = NoSnapshot
  NoList = NoList
  NoDate = NoDate
  NoReason = NoReason
  NotDeclared = NotDeclared
  LoadError = LoadError
  NoBootstrap = NoBootstrap
  Free = Free
  Territories = {t1, t2}
  Fingerprints = {a}
  DeclaredRoles <- AllRoles
  SkippedServices <- Skips
  Labels <- AllLabels
  Reasons = {"fetch"}
  Lists <- TwoLists
  Lotls <- TwoLotls
  Declarations <- AllDeclarations
  Configured = {t1}
  EUGroup = TRUE
  ActivationMode = "auto"
  HoldAutoRelease = 1
  StaleGrace = 0
  Goroutines = {"task"}
  Seeds = {"seed"}
  StoreFaults = {"failed", "landed"}
  MaxFaults = 0
  Crashes = TRUE
  MaxTime = 1
  Certs = {old, new}
  CertNotAfter <- OldExpires
  AnchorTypes = {pid, wallet}
  Untyped = untyped
  UnknownType = unknownType
  Names = {"old CA", "new CA"}
  Codes = {"LV", "EE"}
  BadCode = badCode
  NoKey = NoKey
  Unparseable = Unparseable
  Unreadable = Unreadable
  Malformed = Malformed
  NotConfigured = NotConfigured
  Files <- OperatorFiles
  TypeOf <- AllUntyped
INVARIANTS
  StoredIsServed
  DeclaredIsLastGood
  GaugesTellServed
PROPERTIES
  OnlyListsRemove
  SequencesNeverRegress
  EditIsServedOrShown
