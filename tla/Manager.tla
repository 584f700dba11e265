------------------------------ MODULE Manager -------------------------------
(***************************************************************************)
(* The snapshot manager (ingest/manager.go): the served snapshot, the      *)
(* store behind it, and the goroutines that replace it: the refresh task   *)
(* and the admin requests, serialized by the mutex mu.  The boot sequence  *)
(* of app.go is here too, and the process may crash at any step.           *)
(*                                                                         *)
(* A goroutine's steps are separated where another goroutine, a reader or  *)
(* a crash can tell them apart: taking the mutex, persisting a snapshot,   *)
(* activating it, answering the caller.                                    *)
(***************************************************************************)
EXTENDS Pipeline

CONSTANTS
  Goroutines,   \* callers of Refresh and ApprovePending, and the boot sequence
  Seeds,        \* signer sets LOTL_BOOTSTRAP_CERTS_PATH can hold
  NoBootstrap,  \* the store holds no bootstrap
  Free,         \* the mutex is not held
  StoreFaults,  \* how a save can go wrong: a subset of {"failed", "landed"}
  MaxFaults,    \* bound on the number of saves that go wrong
  Crashes,      \* whether the process can crash
  MaxTime       \* bound on the clock

ASSUME ManagerAssumption ==
  /\ Free \notin Goroutines
  /\ NoBootstrap \notin Seeds
  /\ StoreFaults \subseteq {"failed", "landed"}
  /\ Crashes \in BOOLEAN
  /\ MaxFaults \in Nat
  /\ MaxTime \in Nat

VARIABLES
  now,        \* the clock
  phase,      \* "down", "boot" (App.Start before the server listens), "up"
  mu,         \* Manager.mu: who holds it
  active,     \* Manager.active
  bootstrap,  \* Manager.bootstrap
  stored,     \* the latest snapshot in the store
  storedBoot, \* the latest bootstrap in the store
  pc,         \* pc[g]: where goroutine g is
  prev,       \* prev[g]: the snapshot g builds on
  next,       \* next[g]: the snapshot g built, or (in "respond") reports
  announced,  \* the anchor set a reader of the change events has
  faults,     \* how many saves went wrong
  behind      \* the last save of a snapshot went wrong

vars == <<now, phase, mu, active, bootstrap, stored, storedBoot, pc, prev,
          next, announced, faults, behind>>

\* The steps a goroutine takes with the mutex held.
Critical == {"reconcile", "reconcileActivate", "cycle", "activate",
             "approveActivate"}

Steps == Critical \cup {"idle", "lockRefresh", "lockApprove", "respond"}

TypeOK ==
  /\ now \in 0 .. MaxTime
  /\ phase \in {"down", "boot", "up"}
  /\ mu \in Goroutines \cup {Free}
  /\ active \in SnapshotOrNil
  /\ bootstrap \in Seeds \cup {NoBootstrap}
  /\ stored \in SnapshotOrNil
  /\ storedBoot \in Seeds \cup {NoBootstrap}
  /\ pc \in [Goroutines -> Steps]
  /\ prev \in [Goroutines -> SnapshotOrNil]
  /\ next \in [Goroutines -> SnapshotOrNil]
  /\ announced \subseteq AnchorKeys
  /\ faults \in 0 .. MaxFaults
  /\ behind \in BOOLEAN

Init ==
  /\ now = 0
  /\ phase = "down"
  /\ mu = Free
  /\ active = NoSnapshot
  /\ bootstrap = NoBootstrap
  /\ stored = NoSnapshot
  /\ storedBoot = NoBootstrap
  /\ pc = [g \in Goroutines |-> "idle"]
  /\ prev = [g \in Goroutines |-> NoSnapshot]
  /\ next = [g \in Goroutines |-> NoSnapshot]
  /\ announced = {}
  /\ faults = 0
  /\ behind = FALSE

-----------------------------------------------------------------------------
(***************************************************************************)
(* Helpers.                                                                *)
(***************************************************************************)
\* What a save can do.  "failed" leaves the store as it was; "landed" reports
\* an error although the write became the latest one.
Faults == IF faults < MaxFaults THEN StoreFaults ELSE {}

SaveOutcomes == {"ok"} \cup Faults

Count(outcome) == faults' = IF outcome = "ok" THEN faults ELSE faults + 1

\* Store.SaveSnapshot.
SaveSnapshot(s, outcome) ==
  /\ stored' = IF outcome = "failed" THEN stored ELSE s
  /\ behind' = (outcome # "ok")
  /\ Count(outcome)

\* The AnchorChange events of one diff.  (The events applyHoldMode emits for a
\* held addition are marked as pending and change nobody's anchor set.)
Announce(from, to) ==
  LET diff == ComputeDiff(from, to)
  IN  announced' = (announced \ diff.removed) \cup diff.added

Goto(g, step) == pc' = [pc EXCEPT ![g] = step]

Unlock == mu' = Free

\* A goroutine that is done drops its references.
Forget(g) ==
  /\ prev' = [prev EXCEPT ![g] = NoSnapshot]
  /\ next' = [next EXCEPT ![g] = NoSnapshot]

\* Whether Refresh persists what the cycle built.
MustSave(from, to) == CycleChanged(from, to) \/ LOTLInputChanged(from, to)
-----------------------------------------------------------------------------
(***************************************************************************)
(* Refresh: the refresh task's cycle and POST /v1/refresh.                 *)
(***************************************************************************)
CallRefresh(g) ==
  /\ phase = "up"
  /\ pc[g] = "idle"
  /\ Goto(g, "lockRefresh")
  /\ UNCHANGED <<now, phase, mu, active, bootstrap, stored, storedBoot, prev,
                 next, announced, faults, behind>>

\* Mutant: the mutex is not waited for.
LockRefreshBarging(g) ==
  /\ pc[g] = "lockRefresh"
  /\ mu' = g
  /\ prev' = [prev EXCEPT ![g] = active]
  /\ Goto(g, "reconcile")
  /\ UNCHANGED <<now, phase, active, bootstrap, stored, storedBoot, next,
                 announced, faults, behind>>

LockRefresh(g) ==
  /\ pc[g] = "lockRefresh"
  /\ mu = Free
  /\ mu' = g
  /\ prev' = [prev EXCEPT ![g] = active]
  /\ Goto(g, "reconcile")
  /\ UNCHANGED <<now, phase, active, bootstrap, stored, storedBoot, next,
                 announced, faults, behind>>

\* Mutant: the cycle builds on the snapshot loaded before the reconcile.
AfterReconcileStale(g) ==
  IF phase = "boot"
  THEN Goto(g, "idle") /\ Unlock /\ phase' = "up" /\ Forget(g)
  ELSE /\ Goto(g, "cycle")
       /\ next' = [next EXCEPT ![g] = NoSnapshot]
       /\ UNCHANGED <<mu, phase, prev>>

\* Where a goroutine goes after reconcileDeclared: the cycle in Refresh, and
\* the end in ReconcileDeclared, which only the boot sequence calls.
AfterReconcile(g) ==
  IF phase = "boot"
  THEN Goto(g, "idle") /\ Unlock /\ phase' = "up" /\ Forget(g)
  ELSE /\ Goto(g, "cycle")
       /\ prev' = [prev EXCEPT ![g] = active']
       /\ next' = [next EXCEPT ![g] = NoSnapshot]
       /\ UNCHANGED <<mu, phase>>

\* reconcileDeclared, nothing served yet or the content unchanged.
ReconcileUnchanged(g, load) ==
  /\ pc[g] = "reconcile"
  /\ prev[g] # NoSnapshot
     => ComputeID(RefreshDeclared(prev[g], load)) = ComputeID(prev[g])
  /\ UNCHANGED active
  /\ AfterReconcile(g)
  /\ UNCHANGED <<now, bootstrap, stored, storedBoot, announced, faults, behind>>

\* reconcileDeclared, content changed: persist; an error does not stop it.
ReconcileChanged(g, load) ==
  /\ pc[g] = "reconcile"
  /\ prev[g] # NoSnapshot
  /\ ComputeID(RefreshDeclared(prev[g], load)) # ComputeID(prev[g])
  /\ \E outcome \in SaveOutcomes :
       SaveSnapshot(RefreshDeclared(prev[g], load), outcome)
  /\ next' = [next EXCEPT ![g] = RefreshDeclared(prev[g], load)]
  /\ Goto(g, "reconcileActivate")
  /\ UNCHANGED <<now, phase, mu, active, bootstrap, storedBoot, prev,
                 announced>>

\* reconcileDeclared: activate and emit the diff's events.
ReconcileActivate(g) ==
  /\ pc[g] = "reconcileActivate"
  /\ active' = next[g]
  /\ Announce(prev[g], next[g])
  /\ AfterReconcile(g)
  /\ UNCHANGED <<now, bootstrap, stored, storedBoot, faults, behind>>

\* Mutant: the error return leaves the mutex locked.
CycleFailsLocked(g) ==
  /\ pc[g] = "cycle"
  /\ Goto(g, "respond")
  /\ next' = [next EXCEPT ![g] = prev[g]]
  /\ prev' = [prev EXCEPT ![g] = NoSnapshot]
  /\ UNCHANGED <<now, phase, mu, active, bootstrap, stored, storedBoot,
                 announced, faults, behind>>

\* The cycle fails: Refresh returns with what was served before.
CycleFails(g) ==
  /\ pc[g] = "cycle"
  /\ Unlock
  /\ Goto(g, "respond")
  /\ next' = [next EXCEPT ![g] = prev[g]]
  /\ prev' = [prev EXCEPT ![g] = NoSnapshot]
  /\ UNCHANGED <<now, phase, active, bootstrap, stored, storedBoot, announced,
                 faults, behind>>

\* The cycle builds a snapshot, and persists it when something changed.
Cycle(g, load) ==
  /\ pc[g] = "cycle"
  /\ \E lotl \in LOTLResults(prev[g]) :
     \E terr \in TerritoryResults(lotl.pointers, prev[g], now) :
       LET built == BuildSnapshot(lotl, terr, load, prev[g], now)
       IN  /\ next' = [next EXCEPT ![g] = built]
           /\ IF MustSave(prev[g], built)
              THEN \E outcome \in SaveOutcomes : SaveSnapshot(built, outcome)
              ELSE UNCHANGED <<stored, faults, behind>>
  /\ Goto(g, "activate")
  /\ UNCHANGED <<now, phase, mu, active, bootstrap, storedBoot, prev,
                 announced>>

\* The end of Refresh: activate always, announce the diff of a changed cycle.
Activate(g) ==
  /\ pc[g] = "activate"
  /\ active' = next[g]
  /\ IF CycleChanged(prev[g], next[g])
     THEN Announce(prev[g], next[g])
     ELSE UNCHANGED announced
  /\ prev' = [prev EXCEPT ![g] = NoSnapshot]
  /\ Unlock
  /\ Goto(g, "respond")
  /\ UNCHANGED <<now, phase, bootstrap, stored, storedBoot, next, faults,
                 behind>>

\* The caller uses what Refresh returned: the route writes its answer.
Respond(g) ==
  /\ pc[g] = "respond"
  /\ Goto(g, "idle")
  /\ Forget(g)
  /\ UNCHANGED <<now, phase, mu, active, bootstrap, stored, storedBoot,
                 announced, faults, behind>>

-----------------------------------------------------------------------------
(***************************************************************************)
(* ApprovePending: POST /v1/pending/{fingerprint}/approve.                 *)
(***************************************************************************)
CallApprove(g) ==
  /\ phase = "up"
  /\ pc[g] = "idle"
  /\ Goto(g, "lockApprove")
  /\ UNCHANGED <<now, phase, mu, active, bootstrap, stored, storedBoot, prev,
                 next, announced, faults, behind>>

\* A territory with one more anchor; it is created when there is no entry.
WithAnchor(e, f) ==
  [e EXCEPT !.health = IF @ = "absent" THEN "fresh" ELSE @,
            !.anchors = @ \cup {f}]

\* The snapshot with one held anchor moved into its territory.
Approved(s, p) ==
  [s EXCEPT !.pending = @ \ {p},
            !.terr = [s.terr EXCEPT ![p.territory] = WithAnchor(@, p.fp)]]

\* Nothing is served, no such fingerprint is pending, or the save fails: the
\* caller gets an error and the served snapshot stays.
ApproveFails(g) ==
  /\ pc[g] = "lockApprove"
  /\ mu = Free
  /\ \/ /\ active = NoSnapshot
        /\ UNCHANGED <<stored, faults, behind>>
     \/ /\ active # NoSnapshot
        /\ \E f \in Fingerprints : \A p \in active.pending : p.fp # f
        /\ UNCHANGED <<stored, faults, behind>>
     \/ /\ active # NoSnapshot
        /\ \E p \in active.pending, outcome \in Faults :
             SaveSnapshot(Approved(active, p), outcome)
  /\ Goto(g, "idle")
  /\ UNCHANGED <<now, phase, mu, active, bootstrap, storedBoot, prev, next,
                 announced>>

\* Mutant: the approved anchor stays pending.
ApproveKeepsPending(g) ==
  /\ pc[g] = "lockApprove"
  /\ mu = Free
  /\ active # NoSnapshot
  /\ mu' = g
  /\ prev' = [prev EXCEPT ![g] = active]
  /\ \E p \in active.pending :
       LET s == [Approved(active, p) EXCEPT !.pending = active.pending]
       IN  next' = [next EXCEPT ![g] = s] /\ SaveSnapshot(s, "ok")
  /\ Goto(g, "approveActivate")
  /\ UNCHANGED <<now, phase, active, bootstrap, storedBoot, announced>>

\* The fingerprint names any of the held anchors: the territory is not part of
\* the request.
Approve(g) ==
  /\ pc[g] = "lockApprove"
  /\ mu = Free
  /\ active # NoSnapshot
  /\ mu' = g
  /\ prev' = [prev EXCEPT ![g] = active]
  /\ \E p \in active.pending :
       /\ next' = [next EXCEPT ![g] = Approved(active, p)]
       /\ SaveSnapshot(Approved(active, p), "ok")
  /\ Goto(g, "approveActivate")
  /\ UNCHANGED <<now, phase, active, bootstrap, storedBoot, announced>>

\* Activate, and one event for the approved anchor.
ApproveActivate(g) ==
  /\ pc[g] = "approveActivate"
  /\ active' = next[g]
  /\ announced' = announced
                    \cup (PendingKeys(prev[g]) \ PendingKeys(next[g]))
  /\ Unlock
  /\ Goto(g, "idle")
  /\ Forget(g)
  /\ UNCHANGED <<now, phase, bootstrap, stored, storedBoot, faults, behind>>
-----------------------------------------------------------------------------
(***************************************************************************)
(* Boot, crash and the clock.                                              *)
(***************************************************************************)
\* Initialize seeds an empty store; an error stops the start.  ("landed" also
\* stands for a start that fails later, when the snapshot does not load.)
SeedFails ==
  /\ phase = "down"
  /\ storedBoot = NoBootstrap
  /\ \E seed \in Seeds, outcome \in Faults :
       /\ storedBoot' = IF outcome = "landed" THEN seed ELSE storedBoot
       /\ Count(outcome)
  /\ UNCHANGED <<now, phase, mu, active, bootstrap, stored, pc, prev, next,
                 announced, behind>>

\* Mutant: the seed file wins over the store.
BootReseeds(g) ==
  /\ phase = "down"
  /\ \E seed \in Seeds : storedBoot' = seed
  /\ bootstrap' = storedBoot'
  /\ active' = stored
  /\ IF stored = NoSnapshot
     THEN phase' = "up" /\ UNCHANGED <<mu, pc, prev>>
     ELSE /\ phase' = "boot"
          /\ mu' = g
          /\ prev' = [prev EXCEPT ![g] = stored]
          /\ Goto(g, "reconcile")
  /\ behind' = FALSE
  /\ UNCHANGED <<now, stored, next, announced, faults>>

\* Mutant: the stored snapshot is not loaded.
BootForgets(g) ==
  /\ phase = "down"
  /\ \E seed \in Seeds :
       storedBoot' = IF storedBoot = NoBootstrap THEN seed ELSE storedBoot
  /\ bootstrap' = storedBoot'
  /\ phase' = "up"
  /\ behind' = FALSE
  /\ UNCHANGED <<now, mu, active, stored, pc, prev, next, announced, faults>>

\* Initialize, then ReconcileDeclared when a snapshot was restored.
Boot(g) ==
  /\ phase = "down"
  /\ \E seed \in Seeds :
       storedBoot' = IF storedBoot = NoBootstrap THEN seed ELSE storedBoot
  /\ bootstrap' = storedBoot'
  /\ active' = stored
  /\ IF stored = NoSnapshot
     THEN phase' = "up" /\ UNCHANGED <<mu, pc, prev>>
     ELSE /\ phase' = "boot"
          /\ mu' = g
          /\ prev' = [prev EXCEPT ![g] = stored]
          /\ Goto(g, "reconcile")
  /\ behind' = FALSE
  /\ UNCHANGED <<now, stored, next, announced, faults>>

Crash ==
  /\ Crashes
  /\ phase # "down"
  /\ phase' = "down"
  /\ mu' = Free
  /\ active' = NoSnapshot
  /\ bootstrap' = NoBootstrap
  /\ pc' = [g \in Goroutines |-> "idle"]
  /\ prev' = [g \in Goroutines |-> NoSnapshot]
  /\ next' = [g \in Goroutines |-> NoSnapshot]
  /\ UNCHANGED <<now, stored, storedBoot, announced, faults, behind>>

Tick ==
  /\ now < MaxTime
  /\ now' = now + 1
  /\ UNCHANGED <<phase, mu, active, bootstrap, stored, storedBoot, pc, prev,
                 next, announced, faults, behind>>

\* The steps of g that a running process takes without outside help.
Work(g) ==
  \/ \E load \in Declarations \cup {LoadError} :
       \/ ReconcileUnchanged(g, load)
       \/ ReconcileChanged(g, load)
       \/ Cycle(g, load)
  \/ ReconcileActivate(g)
  \/ CycleFails(g)
  \/ Activate(g)
  \/ Respond(g)
  \/ ApproveActivate(g)

Lock(g) == LockRefresh(g) \/ ApproveFails(g) \/ Approve(g)

Next ==
  \/ \E g \in Goroutines :
       \/ CallRefresh(g)
       \/ CallApprove(g)
       \/ Lock(g)
       \/ Work(g)
       \/ Boot(g)
  \/ SeedFails
  \/ Crash
  \/ Tick

Spec == Init /\ [][Next]_vars

\* A goroutine past its lock goes on to its next step.  It has one wherever it
\* is, and only a crash takes that away, so this is fairness of Work(g).
GoesOn(g) ==
  /\ pc[g] \in Critical \cup {"respond"}
  /\ \E step \in Steps \ {pc[g]} : pc' = [pc EXCEPT ![g] = step]

\* Every step ends (each request to upstream has a timeout; a save, which has
\* none, is taken to end), and sync.Mutex hands the lock to a waiter that has
\* waited long enough.
Fairness ==
  \A g \in Goroutines : WF_pc(GoesOn(g)) /\ SF_vars(Lock(g))

FairSpec == Spec /\ Fairness

-----------------------------------------------------------------------------
(***************************************************************************)
(* Safety.                                                                 *)
(***************************************************************************)
\* Mutations are serialized (mu): from the moment a goroutine loads the served
\* snapshot to the moment it activates its own, nobody else activates one, so
\* no activation undoes a refresh or an approval it has not seen.
BuiltOnServed ==
  \A g \in Goroutines : pc[g] \in Critical => mu = g /\ prev[g] = active

\* No unverified or partial data is served or persisted (the doc of Refresh):
\* whatever mix of failed territories, carried-over territories, held anchors
\* and approvals led here, every served anchor is on the verified list its
\* territory's entry stands for.  An approval cannot bring back an anchor that
\* the list has dropped since it was held, and removals apply at once.
ServedIsListed ==
  \A s \in {active, stored} : s # NoSnapshot => Listed(s)

\* What a consumer is served never goes back in time while the process lives:
\* neither the list of the lists nor a territory that stays in the snapshot
\* moves to a lower sequence number, by any interleaving of refreshes,
\* approvals and reconciles (the regression checks of Pipeline.Refresh and
\* nationalTLSource.Verify, which see only the snapshot they build on).
SequencesNeverRegress ==
  [][active # NoSnapshot /\ active' # NoSnapshot
     => NotOlder(active, active')]_vars

\* Hold mode: an anchor enters a bundle only out of the pending set of the
\* snapshot it replaces, by an approval or because its hold window elapsed
\* (applyHoldMode, ApprovePending).
HoldGate ==
  [][ActivationMode = "hold" /\ active # NoSnapshot /\ active' # NoSnapshot
     => AddsOnly(active, active',
                 IF \E g \in Goroutines : pc[g] = "approveActivate"
                 THEN active.pending
                 ELSE ReleasedIn(active, now))]_vars

\* A restart resumes from what was being served, unless the last save went
\* wrong: the comparisons that let Refresh skip the save (pendingEqual,
\* territoryStateChanged, lotlInputChanged) never skip one that matters, and
\* store and memory agree again after the next save or restart.
StoredIsServed ==
  phase = "up" /\ mu = Free /\ ~behind /\ active # NoSnapshot
  => stored # NoSnapshot /\ SameState(stored, active)

\* The change events tell the whole story: whoever applies every emitted
\* anchor_change has the anchor set that is served (README: "Every anchor-set
\* change emits a trust.anchor_change event").
EventsTellServed ==
  phase = "up" /\ mu = Free => announced = AnchorIndex(active)

\* How many steps at most a goroutine still takes before it unlocks.
StepsLeft ==
  [reconcile |-> 4, reconcileActivate |-> 3, cycle |-> 2, activate |-> 1,
   approveActivate |-> 1]

\* Whoever has the mutex comes closer to unlocking it with each of its steps,
\* on the error paths too, and nobody takes it away: it never returns, waits or
\* starts over with the mutex locked (the deferred Unlocks of manager.go).
HolderAdvances ==
  [][\A g \in Goroutines :
       mu = g =>
         /\ pc[g] \in Critical
         /\ \/ mu' = Free
            \/ /\ mu' = g
               /\ pc'[g] \in Critical
               /\ pc'[g] # pc[g] => StepsLeft[pc'[g]] < StepsLeft[pc[g]]]_vars

\* The first seed that reaches the store is the bootstrap for good: no restart,
\* failed save or changed seed file replaces it (the doc of Initialize).
SeededOnce ==
  [][storedBoot # NoBootstrap
     => /\ storedBoot' = storedBoot
        /\ bootstrap' \in {storedBoot, NoBootstrap}]_vars

\* Every anchor that s serves and r does not has been taken off a list that r
\* accepted, or r has no place for its territory any more.
RemovesOnlyUnlisted(s, r) ==
  \A t \in Territories :
  \A f \in s.terr[t].anchors \ r.terr[t].anchors :
    \/ t \notin ExpandTerritories(r.lotl.pointers)
    \/ r.terr[t].health = "fresh" /\ f \notin r.terr[t].list.anchors

\* Fail-safe (README: "a per-territory failure carries that territory's previous
\* data over"): no failed fetch, hold, approval, reconcile or mix of them takes
\* an anchor out of what is served.  Only a list that verification accepted and
\* that names it no more does, or the end of the territory.
OnlyListsRemove ==
  [][active # NoSnapshot /\ active' # NoSnapshot
     => RemovesOnlyUnlisted(active, active')]_vars

\* The same across restarts: unless the last save went wrong, the next one moves
\* what a restart would resume from to no older list, and takes an anchor out of
\* it only for a list, however many restarts and edits lie between two saves.
StoreMovesForward ==
  [][~behind /\ stored # NoSnapshot
     => NotOlder(stored, stored') /\ RemovesOnlyUnlisted(stored, stored')]_vars

\* What r makes of an anchor that s holds: it is held as before, with the time it
\* was first seen; or it is served; or the territory is gone or has a list
\* without it; or the entry stands for the same list as before and holds it no
\* more.
KeepsHeld(s, r) ==
  \A p \in s.pending :
    LET e == r.terr[p.territory]
    IN  \/ p \in r.pending
        \/ p.fp \in e.anchors
        \/ e.list = NoList
        \/ p.fp \notin e.list.anchors
        \/ /\ e.list = s.terr[p.territory].list
           /\ p.fp \notin HeldIn(r, p.territory)

\* Hold mode: a held anchor stays held, its window neither restarted nor cut
\* short, until it is served or off the list, with one exception: a cycle that
\* carries the territory over, or reuses its list on a ".sha2" match, may drop
\* it.  No download, approval of another anchor or reconcile loses or alters it.
\* (What the exception means for the doc of applyHoldMode is the subject of
\* ListedIsServedOrHeld; a later download holds the dropped anchor anew, with a
\* new window.)
HeldIsKept ==
  [][active # NoSnapshot /\ active' # NoSnapshot
     => KeepsHeld(active, active')]_vars

\* Hold mode: until it is approved or released, an anchor of the accepted list
\* is either served or visible as pending (the doc of applyHoldMode).
ListedIsServedOrHeld ==
  active # NoSnapshot =>
    \A t \in Territories :
      active.terr[t].list # NoList =>
        active.terr[t].list.anchors
          \subseteq active.terr[t].anchors \cup HeldIn(active, t)

-----------------------------------------------------------------------------
(***************************************************************************)
(* The manager as one object (Bundle).                                     *)
(***************************************************************************)
\* A cycle at the given time turns s into r.
CycledFrom(s, r, time) ==
  \E load \in Declarations \cup {LoadError}, lotl \in LOTLResults(s) :
  \E terr \in TerritoryResults(lotl.pointers, s, time) :
    r = BuildSnapshot(lotl, terr, load, s, time)

ReconciledFrom(s, r) ==
  \E load \in Declarations \cup {LoadError} : r = RefreshDeclared(s, load)

ApprovedFrom(s, r) == \E p \in s.pending : r = Approved(s, p)

Atomic == INSTANCE Bundle WITH
            None <- NoSnapshot, served <- active, kept <- stored,
            Refreshed <- CycledFrom, Reconciled <- ReconciledFrom,
            Approves <- ApprovedFrom

\* However the goroutines interleave, whatever saves fail and wherever the
\* process crashes, every change of what is served or stored is one whole
\* refresh, reconcile or approval of the snapshot served at that moment, or a
\* restart ("Mutations are serialized", the doc of Manager).
OneOperationAtATime == Atomic!Spec

-----------------------------------------------------------------------------
(***************************************************************************)
(* Liveness.                                                               *)
(***************************************************************************)
\* No caller waits forever: every Refresh and ApprovePending returns, on its
\* error paths too, whatever the others do with the mutex.
EveryCallReturns ==
  \A g \in Goroutines : pc[g] # "idle" ~> pc[g] = "idle"
=============================================================================
