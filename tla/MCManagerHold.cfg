\* Hold mode: additions, removals, carry-over, approval and auto-release, with
\* two callers, crashes, one save that goes wrong and edits of the seed file.
SPECIFICATION Spec
CONSTANTS
  t1 = t1
  a = a
  b = b
  role = role
  name1 = name1
  name2 = name2
  NoSnapshot = NoSnapshot
  NoList = NoList
  NoDate = NoDate
  NoReason = NoReason
  NotDeclared = NotDeclared
  LoadError = LoadError
  NoBootstrap = NoBootstrap
  Free = Free
  Territories = {t1}
  Fingerprints = {a, b}
  DeclaredRoles = {}
  SkippedServices = {}
  Labels = {}
  Reasons = {"fetch"}
  Lists <- HoldLists
  Lotls <- OneLotl
  Declarations <- NoDeclarations
  Configured = {t1}
  EUGroup = FALSE
  ActivationMode = "hold"
  HoldAutoRelease = 2
  StaleGrace = 0
  Goroutines = {"task", "admin"}
  Seeds = {"seed1", "seed2"}
  StoreFaults = {"failed", "landed"}
  MaxFaults = 1
  Crashes = TRUE
  MaxTime = 3
INVARIANTS
  TypeOK
  BuiltOnServed
  ServedIsListed
  StoredIsServed
PROPERTIES
  StoreMovesForward
  
  SequencesNeverRegress
  HoldGate
  SeededOnce
