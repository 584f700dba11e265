---------------------------- MODULE RefreshTask -----------------------------
(***************************************************************************)
(* The background refresh loop (tasks/refresh.go): when a cycle starts.    *)
(* What a cycle does is the subject of Manager; here it waits for the      *)
(* manager's mutex, takes some time and either fails or replaces the       *)
(* served snapshot, of which the loop only reads the earliest NextUpdate   *)
(* (Snapshot.EarliestNextUpdate).  Admin requests take the same mutex.     *)
(*                                                                         *)
(* Time passes in whole units.  A timer that is due fires before the next  *)
(* unit passes, and arming it takes no time; a cycle takes any time.       *)
(***************************************************************************)
EXTENDS Integers

CONSTANTS
  Interval,        \* TRUST_REFRESH_INTERVAL
  MinWake,         \* minWake
  Nothing,         \* no snapshot is served
  NoDate,          \* the served snapshot states no NextUpdate
  MaxTime          \* bound on the clock and on the dates

Date == 0 .. MaxTime

ASSUME TaskAssumption ==
  /\ Interval \in Nat
  /\ MinWake \in Nat \ {0}
  /\ MaxTime \in Nat
  /\ NoDate \notin Int
  /\ Nothing \notin Int \cup {NoDate}

VARIABLES
  now,        \* the clock
  loop,       \* where the loop's goroutine is
  admin,      \* an admin request has Manager.mu
  due,        \* EarliestNextUpdate of the served snapshot
  read,       \* the date nextWake read when the timer was armed
  armed,      \* when the timer was armed
  deadline,   \* when it fires
  kick,       \* Manager.kick, a channel that holds at most one token
  cancelled,  \* the task's context is cancelled
  owed        \* a trigger was requested and no cycle started since

vars == <<now, loop, admin, due, read, armed, deadline, kick, cancelled, owed>>

TypeOK ==
  /\ now \in Date
  /\ loop \in {"start", "arm", "sleep", "waiting", "running", "done"}
  /\ admin \in BOOLEAN
  /\ due \in Date \cup {NoDate, Nothing}
  /\ read \in Date \cup {NoDate, Nothing}
  /\ armed \in Date
  /\ deadline \in Int
  /\ kick \in BOOLEAN
  /\ cancelled \in BOOLEAN
  /\ owed \in BOOLEAN

\* A fresh install (Nothing) or a restored snapshot.
Init ==
  /\ now = 0
  /\ loop = "start"
  /\ admin = FALSE
  /\ due \in Date \cup {NoDate, Nothing}
  /\ read = Nothing
  /\ armed = 0
  /\ deadline = 0
  /\ kick = FALSE
  /\ cancelled = FALSE
  /\ owed = FALSE

-----------------------------------------------------------------------------
\* Mutant: no lower bound.
NextWakeUnbounded(time, date) ==
  IF date \in Date /\ date - time < Interval THEN date - time ELSE Interval

\* Mutant: the dates are not looked at.
NextWakeInterval(time, date) == IF Interval < MinWake THEN MinWake ELSE Interval

\* nextWake: the interval, cut to the earliest NextUpdate, at least MinWake.
NextWake(time, date) ==
  LET until == IF date \in Date /\ date - time < Interval
               THEN date - time ELSE Interval
  IN  IF until < MinWake THEN MinWake ELSE until

\* run: unless the context is cancelled, Manager.Refresh is called, which waits
\* for the mutex.  A token that woke the loop is gone either way.
Run(consumed) ==
  /\ loop' = IF cancelled THEN "arm" ELSE "waiting"
  /\ kick' = (kick /\ ~consumed)
  /\ UNCHANGED owed

\* The goroutine's first statement: a cycle right away when nothing is served.
FirstCycle ==
  /\ loop = "start"
  /\ due = Nothing
  /\ Run(FALSE)
  /\ UNCHANGED <<now, admin, due, read, armed, deadline, cancelled>>

SkipFirstCycle ==
  /\ loop = "start"
  /\ due # Nothing
  /\ loop' = "arm"
  /\ UNCHANGED <<now, admin, due, read, armed, deadline, kick, cancelled, owed>>

Arm ==
  /\ loop = "arm"
  /\ loop' = "sleep"
  /\ read' = due
  /\ armed' = now
  /\ deadline' = now + NextWake(now, due)
  /\ UNCHANGED <<now, admin, due, kick, cancelled, owed>>

\* Mutant: the loop does not wait for the cancellation.
SelectDoneMissing == FALSE /\ UNCHANGED vars

\* The three branches of the select; a ready one is chosen at random.
SelectDone ==
  /\ loop = "sleep"
  /\ cancelled
  /\ loop' = "done"
  /\ UNCHANGED <<now, admin, due, read, armed, deadline, kick, cancelled, owed>>

SelectKick ==
  /\ loop = "sleep"
  /\ kick
  /\ Run(TRUE)
  /\ UNCHANGED <<now, admin, due, read, armed, deadline, cancelled>>

SelectTimer ==
  /\ loop = "sleep"
  /\ now >= deadline
  /\ Run(FALSE)
  /\ UNCHANGED <<now, admin, due, read, armed, deadline, cancelled>>

\* Manager.Refresh gets the mutex.  It detaches from the context of the task: a
\* cycle may start, and succeed, after Stop.
LockRefresh ==
  /\ loop = "waiting"
  /\ ~admin
  /\ loop' = "running"
  /\ owed' = FALSE
  /\ UNCHANGED <<now, admin, due, read, armed, deadline, kick, cancelled>>

\* Manager.Refresh returns: it replaced the snapshot, or the cycle failed.
CycleSucceeds ==
  /\ loop = "running"
  /\ loop' = "arm"
  /\ due' \in Date \cup {NoDate}
  /\ UNCHANGED <<now, admin, read, armed, deadline, kick, cancelled, owed>>

CycleFails ==
  /\ loop = "running"
  /\ loop' = "arm"
  /\ UNCHANGED <<now, admin, due, read, armed, deadline, kick, cancelled, owed>>

-----------------------------------------------------------------------------
(***************************************************************************)
(* The environment.                                                        *)
(***************************************************************************)
\* Mutant: a channel without a buffer; nobody receives while a cycle runs.
TriggerRefreshUnbuffered ==
  /\ kick' = (kick \/ loop = "sleep")
  /\ owed' = TRUE
  /\ UNCHANGED <<now, loop, admin, due, read, armed, deadline, cancelled>>

\* TriggerRefresh: a send that never blocks.  The manager offers it; the admin
\* routes do not use it.
TriggerRefresh ==
  /\ kick' = TRUE
  /\ owed' = TRUE
  /\ UNCHANGED <<now, loop, admin, due, read, armed, deadline, cancelled>>

\* POST /v1/refresh runs a cycle in the request's goroutine, past the loop, and
\* an approval works under the mutex as well.
AdminLock ==
  /\ ~admin
  /\ loop # "running"
  /\ admin' = TRUE
  /\ UNCHANGED <<now, loop, due, read, armed, deadline, kick, cancelled, owed>>

AdminReturns ==
  /\ admin
  /\ admin' = FALSE
  /\ due' \in Date \cup {NoDate, due}
  /\ UNCHANGED <<now, loop, read, armed, deadline, kick, cancelled, owed>>

\* Stop: cancel, then wait for the loop to end.
Stop ==
  /\ ~cancelled
  /\ cancelled' = TRUE
  /\ UNCHANGED <<now, loop, admin, due, read, armed, deadline, kick, owed>>

Tick ==
  /\ now < MaxTime
  /\ \/ loop \in {"waiting", "running", "done"}
     \/ loop = "sleep" /\ now < deadline
  /\ now' = now + 1
  /\ UNCHANGED <<loop, admin, due, read, armed, deadline, kick, cancelled, owed>>

Loop ==
  \/ FirstCycle \/ SkipFirstCycle
  \/ Arm
  \/ SelectDone \/ SelectKick \/ SelectTimer
  \/ LockRefresh \/ CycleSucceeds \/ CycleFails

Next ==
  Loop \/ TriggerRefresh \/ AdminLock \/ AdminReturns \/ Stop \/ Tick

Spec == Init /\ [][Next]_vars

\* The goroutine runs, a cycle and an admin request end (every fetch has a
\* timeout, and saves are taken to end), a mutex is not denied for ever to a
\* goroutine that waits for it (sync.Mutex hands it over to one that has waited
\* long), and a select that finds its context cancelled over and over takes
\* that branch at last.
Fairness ==
  /\ WF_vars(Loop)
  /\ WF_vars(AdminReturns)
  /\ SF_vars(LockRefresh)
  /\ SF_vars(SelectDone)

FairSpec == Spec /\ Fairness

-----------------------------------------------------------------------------
(***************************************************************************)
(* Properties.                                                             *)
(***************************************************************************)
Later(a, b) == IF a > b THEN a ELSE b

\* The loop does not sleep past the earliest NextUpdate that was served when it
\* armed the timer: it wakes when that date comes, or MinWake after it armed
\* the timer when the date was closer than that or had passed.  A date that an
\* admin refresh installs while it sleeps is not read before it wakes, which it
\* does at the latest when the interval (or MinWake) is over (nextWake).
NextUpdateHonored ==
  loop = "sleep" =>
    /\ read \in Date => now <= Later(read, armed + MinWake)
    /\ now <= armed + Later(Interval, MinWake)

\* A cycle that the timer starts is at least MinWake away from the moment the
\* loop went to sleep, however far in the past a NextUpdate is: an upstream
\* that stopped publishing is not asked in a tight loop.
NoBusyLoop ==
  [][loop = "sleep" /\ loop' = "waiting" /\ ~kick => now >= armed + MinWake]_vars

\* No trigger is lost: after TriggerRefresh a cycle starts that did not run
\* yet when it was called, also when it is called during a cycle or while the
\* loop waits for the mutex; unless the task is stopped.
TriggerIsServed == owed ~> (~owed \/ cancelled)

\* Stop returns, whenever it is called: the loop it waits for may be asleep,
\* with the timer and a trigger ready too, may have passed run's test of the
\* context and wait for the mutex behind admin requests, or be in a cycle.
StopReturns == cancelled ~> (loop = "done")
=============================================================================
