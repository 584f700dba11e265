SPECIFICATION Spec
CONSTANTS
  Lists <- AllLists
  NoProviderList = NoProviderList
  AcceptedTypes = {"CA/QC", "EAA/Q", "EAA"}
  QualifiedTypes = {"CA/QC", "EAA/Q"}
  AcceptedStatuses = {"granted"}
  National <- NationalStatus
  TypeKey <- Key
  Uses = {"signature", "seal", "website"}
  Qscd = {"QSCD"}
INVARIANT
  ServedIffAgreed
  NothingSilent
  FlagsAreUnion
  NamedByFirstEntry
CHECK_DEADLOCK FALSE
