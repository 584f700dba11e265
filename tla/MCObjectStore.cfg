SPECIFICATION Spec
CONSTANTS
  s1 = s1
  s2 = s2
  s3 = s3
  k1 = k1
  k2 = k2
  Snapshots = {s1, s2, s3}
  Keys = {k1, k2}
  KeyOf <- SharedKey
  LatestKey = LatestKey
  Missing = Missing
  Torn = Torn
  NoSave = NoSave
INVARIANTS
  NothingTorn
  LatestIsVersioned
PROPERTIES
  IsRegister
