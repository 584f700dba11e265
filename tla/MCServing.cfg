\* Clients that poll for bundles while snapshots are replaced and grow stale.
SPECIFICATION FairSpec
CONSTANTS
  LV = LV
  EE = EE
  ca = ca
  ec = ec
  granted = granted
  national = national
  access = access
  seal = seal
  alice = alice
  bob = bob
  untyped = untyped
  Signature = signature
  Authentication = authentication
  AnyUse = anyUse
  Untyped = untyped
  NoSnapshot = NoSnapshot
  NoCache = NoCache
  NoDate = NoDate
  Territories = {LV, EE}
  Certs = {ca, ec}
  HeldKeys = {ec}
  Statuses = {granted, national}
  Uses = {signature, seal}
  Types = {access}
  Names = {alice, bob}
  Clients = {client}
  Contents <- Edits
  Queries <- AllQueries
  StaleGrace = 1
  MaxTime = 5
INVARIANT
  CachedPEMIsCurrent
  CachedJSONIsCurrent
PROPERTY
  StaleIsNoticed
