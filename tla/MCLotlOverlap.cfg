\* After a rotation, lists may still be signed by a key of the set before it.
SPECIFICATION FairSpec
CONSTANTS
  Keys = {1, 2}
  BootstrapSigners = {1}
  NotAfter <- KeysLast
  Validity = 1
  Publishers <- OverlappingOnly
  NoHeld = NoHeld
  NoDate = NoDate
  MaxTime = 0
PROPERTIES
  RotationsFollowed
