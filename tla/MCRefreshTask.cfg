\* The refresh loop: wake-ups, triggers, admin refreshes and stopping.
SPECIFICATION FairSpec
CONSTANTS
  Interval = 4
  MinWake = 2
  Nothing = Nothing
  NoDate = NoDate
  MaxTime = 7
INVARIANTS
  NextUpdateHonored
PROPERTIES
  NoBusyLoop
  TriggerIsServed
  StopReturns
