\* The change events and the termination of the calls, with declared certificates,
\* hold mode and failing saves.
SPECIFICATION FairSpec
CONSTANTS
  t1 = t1
  a = a
  b = b
  role = role
  name1 = name1
  name2 = name2
  NoSnapshot = NoSnapshot
  NoList = NoList
  NoDate = NoDate
  NoReason = NoReason
  NotDeclared = NotDeclared
  LoadError = LoadError
  NoBootstrap = NoBootstrap
  Free = Free
  Territories = {t1}
  Fingerprints = {a, b}
  DeclaredRoles = {role}
  SkippedServices = {}
  Labels = {name1}
  Reasons = {"fetch"}
  Lists <- TwoLists
  Lotls <- OneLotl
  Declarations <- AllDeclarations
  Configured = {t1}
  EUGroup = FALSE
  ActivationMode = "hold"
  HoldAutoRelease = 1
  StaleGrace = 0
  Goroutines = {"task", "admin"}
  Seeds = {"seed"}
  StoreFaults = {"failed", "landed"}
  MaxFaults = 1
  Crashes = FALSE
  MaxTime = 1
INVARIANTS
  EventsTellServed
PROPERTIES
  HolderAdvances
  OneOperationAtATime
  EveryCallReturns
