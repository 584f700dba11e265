\* The lists of MCExtract.cfg; one value that is not base64 is among them.
SPECIFICATION Spec
CONSTANTS
  Lists <- AllLists
  NoProviderList = NoProviderList
  AcceptedTypes = {"CA/QC", "EAA/Q", "EAA"}
  QualifiedTypes = {"CA/QC", "EAA/Q"}
  AcceptedStatuses = {"granted"}
  National <- NationalStatus
  TypeKey <- Key
  Uses = {"signature", "seal", "website"}
  Qscd = {"QSCD"}
INVARIANT
  FriendlierHalfNotServed
CHECK_DEADLOCK FALSE
