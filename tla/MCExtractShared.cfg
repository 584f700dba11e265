SPECIFICATION Spec
CONSTANTS
  Lists <- SharedLists
  NoProviderList = NoProviderList
  AcceptedTypes = {"CA/QC", "EAA/Q", "EAA"}
  QualifiedTypes = {"CA/QC", "EAA/Q"}
  AcceptedStatuses = {"granted"}
  National <- NationalStatus
  TypeKey <- Key
  Uses = {"signature", "seal", "website"}
  Qscd = {"QSCD"}
INVARIANT
  QualifiersAreUnion
CHECK_DEADLOCK FALSE
