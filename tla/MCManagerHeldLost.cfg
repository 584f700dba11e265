\* What hold mode promises about an addition nobody decided on.
SPECIFICATION Spec
CONSTANTS
  t1 = t1
  a = a
  b = b
  role = role
  name1 = name1
  name2 = name2
  NoSnapshot = NoSnapshot
  NoList = NoList
  NoDate = NoDate
  NoReason = NoReason
  NotDeclared = NotDeclared
  LoadError = LoadError
  NoBootstrap = NoBootstrap
  Free = Free
  Territories = {t1}
  Fingerprints = {a, b}
  DeclaredRoles = {}
  SkippedServices = {}
  Labels = {}
  Reasons = {"fetch"}
  Lists <- HoldLists
  Lotls <- OneLotl
  Declarations <- NoDeclarations
  Configured = {t1}
  EUGroup = FALSE
  ActivationMode = "hold"
  HoldAutoRelease = 2
  StaleGrace = 0
  Goroutines = {"task"}
  Seeds = {"seed"}
  StoreFaults = {"failed", "landed"}
  MaxFaults = 0
  Crashes = FALSE
  MaxTime = 2
INVARIANTS
  ListedIsServedOrHeld
