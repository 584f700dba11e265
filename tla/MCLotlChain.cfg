\* A publisher that makes mistakes, one that rotates cleanly and often and one that
\* leaves dates out, with an expiring key, stale answers and restarts.
SPECIFICATION FairSpec
CONSTANTS
  Keys = {1, 2, 3}
  BootstrapSigners = {1}
  NotAfter <- OldKeyExpires
  Validity = 1
  Publishers <- ThreePublishers
  NoHeld = NoHeld
  NoDate = NoDate
  MaxTime = 2
INVARIANTS
  TypeOK
  HeldVerifies
  NoExpiredList
  SignersEndorsed
  NeverLockedOut
PROPERTIES
  HandoversFollowed
