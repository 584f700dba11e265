----------------------------- MODULE TaskProofs -----------------------------
(***************************************************************************)
(* The safety properties of the refresh loop, for every interval, every    *)
(* MinWake and every horizon.                                              *)
(***************************************************************************)
EXTENDS RefreshTask, TLAPS

\* What the loop knows while it sleeps: the timer was armed for the date that
\* nextWake read and has not been missed.
SleepInv ==
  /\ TypeOK
  /\ loop = "sleep" => /\ armed <= now
                       /\ armed + MinWake <= deadline
                       /\ deadline = armed + NextWake(armed, read)
                       /\ now <= deadline

\* nextWake never answers less than MinWake, never more than the interval (or
\* MinWake), and never a time after the date.
LEMMA NextWakeBounds ==
  ASSUME NEW time \in Date, NEW date \in Date \cup {NoDate, Nothing}
  PROVE  /\ NextWake(time, date) \in Nat
         /\ NextWake(time, date) >= MinWake
         /\ NextWake(time, date) <= Later(Interval, MinWake)
         /\ date \in Date
            => time + NextWake(time, date) <= Later(date, time + MinWake)
<1> DEFINE until == IF date \in Date /\ date - time < Interval
                    THEN date - time ELSE Interval
<1>1. NextWake(time, date) = IF until < MinWake THEN MinWake ELSE until
  BY DEF NextWake
<1>2. /\ time \in Int /\ Interval \in Nat /\ MinWake \in Nat
      /\ date \in Date => date \in Int
  BY TaskAssumption DEF Date
<1>3. until \in Int /\ until <= Interval
      /\ (date \in Date => until <= date - time)
  BY <1>2
<1> HIDE DEF until
<1>4. date \in Date
      => time + NextWake(time, date) <= Later(date, time + MinWake)
  BY <1>1, <1>2, <1>3 DEF Later
<1>5. NextWake(time, date) <= Later(Interval, MinWake)
  BY <1>1, <1>2, <1>3 DEF Later
<1> QED BY <1>1, <1>2, <1>3, <1>4, <1>5

LEMMA SleepInitial == Init => SleepInv
<1> SUFFICES ASSUME Init PROVE SleepInv
  OBVIOUS
<1>1. 0 \in Date /\ 0 \in Int
  BY TaskAssumption DEF Date
<1>2. loop # "sleep"
  BY DEF Init
<1>3. TypeOK
  BY <1>1 DEF Init, TypeOK
<1> QED BY <1>2, <1>3 DEF SleepInv

LEMMA SleepInductive == SleepInv /\ [Next]_vars => SleepInv'
<1> SUFFICES ASSUME SleepInv, [Next]_vars PROVE SleepInv'
  OBVIOUS
<1> USE TaskAssumption DEF SleepInv, TypeOK, Date
<1>1. CASE FirstCycle
  BY <1>1 DEF FirstCycle, Run
<1>2. CASE SkipFirstCycle
  BY <1>2 DEF SkipFirstCycle
<1>3. CASE Arm
  <2>1. NextWake(now, due) \in Nat /\ NextWake(now, due) >= MinWake
    BY NextWakeBounds
  <2> QED BY <1>3, <2>1 DEF Arm
<1>4. CASE SelectDone
  BY <1>4 DEF SelectDone
<1>5. CASE SelectKick
  BY <1>5 DEF SelectKick, Run
<1>6. CASE SelectTimer
  BY <1>6 DEF SelectTimer, Run
<1>7. CASE CycleSucceeds
  BY <1>7 DEF CycleSucceeds
<1>8. CASE CycleFails
  BY <1>8 DEF CycleFails
<1>9. CASE TriggerRefresh
  BY <1>9 DEF TriggerRefresh
<1>10. CASE AdminLock
  BY <1>10 DEF AdminLock
<1>11. CASE AdminReturns
  BY <1>11 DEF AdminReturns
<1>12. CASE LockRefresh
  BY <1>12 DEF LockRefresh
<1>13. CASE Stop
  BY <1>13 DEF Stop
<1>14. CASE Tick
  BY <1>14 DEF Tick
<1>15. CASE UNCHANGED vars
  BY <1>15 DEF vars
<1> QED
  BY <1>1, <1>2, <1>3, <1>4, <1>5, <1>6, <1>7, <1>8, <1>9, <1>10, <1>11,
     <1>12, <1>13, <1>14, <1>15 DEF Next, Loop

LEMMA SleepInvariant == Spec => []SleepInv
BY SleepInitial, SleepInductive, PTL DEF Spec

\* The loop honours the earliest NextUpdate it read when it went to sleep, and
\* sleeps no longer than the interval whatever dates are installed meanwhile
\* (nextWake, tasks/refresh.go).
THEOREM NextUpdateIsHonored == Spec => []NextUpdateHonored
<1>1. SleepInv => NextUpdateHonored
  <2> SUFFICES ASSUME SleepInv, loop = "sleep"
               PROVE  /\ read \in Date => now <= Later(read, armed + MinWake)
                      /\ now <= armed + Later(Interval, MinWake)
    BY DEF NextUpdateHonored
  <2> DEFINE wake == NextWake(armed, read)
  <2>1. /\ wake \in Nat
        /\ wake <= Later(Interval, MinWake)
        /\ read \in Date => armed + wake <= Later(read, armed + MinWake)
    BY NextWakeBounds DEF SleepInv, TypeOK
  <2>2. now <= armed + wake
    BY DEF SleepInv
  <2>3. /\ now \in Int /\ armed \in Int
        /\ read \in Date => Later(read, armed + MinWake) \in Int
        /\ Later(Interval, MinWake) \in Int
    BY TaskAssumption DEF SleepInv, TypeOK, Date, Later
  <2> HIDE DEF wake
  <2> QED BY <2>1, <2>2, <2>3
<1> QED BY <1>1, SleepInvariant, PTL

\* However often a NextUpdate lies in the past, cycles started by the timer
\* keep MinWake apart (tasks/refresh.go, minWake).
THEOREM TimerKeepsDistance == Spec => NoBusyLoop
<1>1. SleepInv /\ [Next]_vars
      => [loop = "sleep" /\ loop' = "waiting" /\ ~kick
          => now >= armed + MinWake]_vars
  <2> SUFFICES ASSUME SleepInv, Next, loop = "sleep", loop' = "waiting", ~kick
               PROVE  now >= armed + MinWake
    OBVIOUS
  <2>1. SelectTimer
    BY DEF Next, Loop, FirstCycle, SkipFirstCycle, Arm, SelectDone, SelectKick,
           LockRefresh, CycleSucceeds, CycleFails, TriggerRefresh, AdminLock,
           AdminReturns, Stop, Tick
  <2> QED BY <2>1, TaskAssumption DEF SelectTimer, SleepInv, TypeOK, Date
<1> QED BY <1>1, SleepInvariant, PTL DEF Spec, NoBusyLoop
=============================================================================
