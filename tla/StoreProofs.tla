----------------------------- MODULE StoreProofs ----------------------------
(***************************************************************************)
(* Theorems about what the manager keeps in the store and what it tells    *)
(* the readers of its change events; that it is one object whose           *)
(* operations are atomic (Bundle); what an operation may take out of a     *)
(* snapshot; and that the mutex is given back.                             *)
(***************************************************************************)
EXTENDS ManagerProofs

\* A restart from the store would resume with s.
Saved(s) == stored # NoSnapshot /\ SameState(stored, s)

\* Unless the last save went wrong, what is served is saved, and so is a snapshot
\* that waits to be activated.
PersistInv ==
  ~behind
  => /\ active # NoSnapshot /\ (\A g \in Goroutines : pc[g] \notin Activating)
        => Saved(active)
     /\ \A g \in Goroutines : pc[g] \in Activating => Saved(next[g])

\* While one goroutine is in a critical step, no other one is.
LEMMA OnlyOneCritical ==
  ASSUME LockInv, NEW g \in Goroutines, pc[g] \in Critical,
         NEW h \in Goroutines, h # g
  PROVE  pc[h] \notin Critical /\ pc[h] \notin Activating
BY DEF LockInv, BuiltOnServed, Critical, Activating

\* A save that went well has stored what it was given.
LEMMA SaveStores ==
  ASSUME TypeOK, NEW s \in SnapshotType, NEW outcome \in SaveOutcomes,
         SaveSnapshot(s, outcome), ~behind'
  PROVE  stored' = s /\ stored' # NoSnapshot /\ SameState(stored', s)
<1>1. outcome = "ok"
  BY Zenon DEF SaveSnapshot
<1>2. stored' = s
  BY <1>1 DEF SaveSnapshot
<1>q. QED
  BY <1>2, SentinelsAssumption DEF SameState

LEMMA PersistInductive ==
  ASSUME TypeOK, LockInv, GoodInv, PersistInv, [Next]_vars
  PROVE  PersistInv'
<1> SUFFICES ASSUME ~behind'
             PROVE  /\ active' # NoSnapshot
                       /\ (\A g \in Goroutines : pc'[g] \notin Activating)
                       => Saved(active)'
                    /\ \A g \in Goroutines :
                         pc'[g] \in Activating => Saved(next[g])'
  BY DEF PersistInv
<1>0. ASSUME behind' = behind
      PROVE  /\ active # NoSnapshot
                /\ (\A g \in Goroutines : pc[g] \notin Activating)
                => Saved(active)
             /\ \A g \in Goroutines : pc[g] \in Activating => Saved(next[g])
  BY <1>0, Zenon DEF PersistInv
<1> DEFINE Done == /\ active' # NoSnapshot
                      /\ (\A g \in Goroutines : pc'[g] \notin Activating)
                      => Saved(active)'
                   /\ \A g \in Goroutines :
                        pc'[g] \in Activating => Saved(next[g])'
<1> SUFFICES Done
  OBVIOUS
<1> USE DEF Goto, Unlock
\* Nothing is saved or activated, and nobody is about to.
<1>q1. ASSUME NEW g \in Goroutines, UNCHANGED <<active, stored, behind>>,
              pc[g] \notin Activating, pc'[g] \notin Activating,
              \A h \in Goroutines \ {g} :
                pc'[h] = pc[h] /\ next'[h] = next[h]
       PROVE  Done
  BY <1>0, <1>q1 DEF Saved
\* A snapshot is activated.
<1>q2. ASSUME NEW g \in Goroutines, pc[g] \in Activating, active' = next[g],
              UNCHANGED <<stored, behind>>, pc'[g] \notin Activating,
              \A h \in Goroutines \ {g} : pc'[h] = pc[h]
       PROVE  Done
  <2>1. pc[g] \in Critical
    BY <1>q2 DEF Activating, Critical
  <2>2. \A h \in Goroutines : pc'[h] \notin Activating
    BY <1>q2, <2>1, OnlyOneCritical
  <2>3. Saved(active)'
    BY <1>0, <1>q2 DEF Saved
  <2>q. QED BY <2>2, <2>3
\* A snapshot is built, and what is stored is the same.
<1>q3. ASSUME NEW g \in Goroutines,
              \A h \in Goroutines \ {g} : pc[h] \notin Activating,
              \A h \in Goroutines \ {g} : pc'[h] = pc[h],
              pc'[g] \in Activating,
              stored' # NoSnapshot, SameState(stored', next'[g])
       PROVE  Done
  BY <1>q3 DEF Saved
<1> HIDE DEF Done
<1>1. ASSUME NEW g \in Goroutines,
             NEW load \in Declarations \cup {LoadError},
             CallRefresh(g) \/ CallApprove(g) \/ LockRefresh(g)
             \/ ReconcileUnchanged(g, load)
      PROVE  Done
  BY <1>1, <1>q1
  DEF CallRefresh, CallApprove, LockRefresh, ReconcileUnchanged,
      AfterReconcile, Forget, TypeOK, Activating
<1>2. ASSUME NEW g \in Goroutines, CycleFails(g) \/ Respond(g)
      PROVE  Done
  BY <1>2, <1>q1 DEF CycleFails, Respond, Forget, TypeOK, Activating
<1>3. ASSUME NEW g \in Goroutines, ReconcileActivate(g)
      PROVE  Done
  BY <1>3, <1>q2
  DEF ReconcileActivate, AfterReconcile, TypeOK, Activating
<1>4. ASSUME NEW g \in Goroutines, Activate(g) \/ ApproveActivate(g)
      PROVE  Done
  BY <1>4, <1>q2 DEF Activate, ApproveActivate, TypeOK, Activating
<1>5. ASSUME NEW g \in Goroutines,
             NEW load \in Declarations \cup {LoadError},
             ReconcileChanged(g, load)
      PROVE  Done
  <2>1. PICK outcome \in SaveOutcomes :
          /\ SaveSnapshot(RefreshDeclared(prev[g], load), outcome)
          /\ next' = [next EXCEPT ![g] = RefreshDeclared(prev[g], load)]
    BY <1>5 DEF ReconcileChanged
  <2>2. RefreshDeclared(prev[g], load) \in SnapshotType
    BY <1>5, RefreshDeclaredType DEF ReconcileChanged, TypeOK, SnapshotOrNil
  <2>3. next'[g] = RefreshDeclared(prev[g], load)
    BY <2>1 DEF TypeOK
  <2>4. stored' # NoSnapshot /\ SameState(stored', next'[g])
    BY <2>1, <2>2, <2>3, SaveStores
  <2>5. pc[g] \in Critical
    BY <1>5 DEF ReconcileChanged, Critical
  <2>6. \A h \in Goroutines \ {g} : pc[h] \notin Activating
    BY <2>5, OnlyOneCritical
  <2>q. QED
    BY <1>5, <1>q3, <2>4, <2>6 DEF ReconcileChanged, TypeOK, Activating
<1>6. ASSUME NEW g \in Goroutines,
             NEW load \in Declarations \cup {LoadError},
             Cycle(g, load)
      PROVE  Done
  <2>1. PICK lotl \in LOTLResults(prev[g]) :
          \E terr \in TerritoryResults(lotl.pointers, prev[g], now) :
            LET built == BuildSnapshot(lotl, terr, load, prev[g], now)
            IN  /\ next' = [next EXCEPT ![g] = built]
                /\ IF MustSave(prev[g], built)
                   THEN \E outcome \in SaveOutcomes :
                          SaveSnapshot(built, outcome)
                   ELSE UNCHANGED <<stored, faults, behind>>
    BY <1>6 DEF Cycle
  <2>2. PICK terr \in TerritoryResults(lotl.pointers, prev[g], now) :
            LET built == BuildSnapshot(lotl, terr, load, prev[g], now)
            IN  /\ next' = [next EXCEPT ![g] = built]
                /\ IF MustSave(prev[g], built)
                   THEN \E outcome \in SaveOutcomes :
                          SaveSnapshot(built, outcome)
                   ELSE UNCHANGED <<stored, faults, behind>>
    BY <2>1
  <2> DEFINE built == BuildSnapshot(lotl, terr, load, prev[g], now)
  <2>3. CycleInputs(prev[g], lotl, terr, load, now)
    BY CycleInputsHold
  <2>4. built \in SnapshotType
    BY <2>3, BuiltType
  <2>5. ASSUME ~MustSave(prev[g], built), NEW s, SameState(s, prev[g])
        PROVE  SameState(s, built)
    <3>1. ~CycleChanged(prev[g], built) /\ ~LOTLInputChanged(prev[g], built)
      BY <2>5 DEF MustSave
    <3>2. prev[g] # NoSnapshot
      BY <3>1 DEF CycleChanged
    <3>q. QED BY <2>3, <2>5, <3>1, <3>2, UnchangedIsSame
  <2>6. ~MustSave(prev[g], built) => prev[g] # NoSnapshot
    BY DEF MustSave, CycleChanged
  <2> HIDE DEF built
  <2>7. next'[g] = built
    BY <2>2 DEF built, TypeOK
  <2>8. pc[g] \in Critical /\ pc[g] \notin Activating /\ prev[g] = active
    BY <1>6 DEF Cycle, Critical, Activating, LockInv, BuiltOnServed
  <2>9. \A h \in Goroutines \ {g} : pc[h] \notin Activating
    BY <2>8, OnlyOneCritical
  <2>10. stored' # NoSnapshot /\ SameState(stored', built)
    <3>1. CASE MustSave(prev[g], built)
      <4>1. PICK outcome \in SaveOutcomes : SaveSnapshot(built, outcome)
        BY <2>2, <3>1 DEF built
      <4>q. QED BY <2>4, <4>1, SaveStores
    <3>2. CASE ~MustSave(prev[g], built)
      <4>1. stored' = stored /\ behind' = behind
        BY <2>2, <3>2 DEF built
      <4>2. Saved(active)
        BY <1>0, <2>6, <2>8, <2>9, <3>2, <4>1
      <4>3. stored # NoSnapshot /\ SameState(stored, prev[g])
        BY <2>8, <4>2 DEF Saved
      <4>q. QED BY <2>5, <3>2, <4>1, <4>3
    <3>q. QED BY <3>1, <3>2
  <2>q. QED
    BY <1>6, <1>q3, <2>7, <2>9, <2>10 DEF Cycle, TypeOK, Activating
<1>a. ASSUME active # NoSnapshot, NEW p \in active.pending
      PROVE  Approved(active, p) \in SnapshotType
  <2>1. active \in SnapshotType
    BY <1>a DEF TypeOK, SnapshotOrNil
  <2>q. QED BY <2>1, ApprovedType
<1>7. ASSUME NEW g \in Goroutines, ApproveFails(g)
      PROVE  Done
  <2>1. ASSUME NEW s, NEW outcome \in Faults, SaveSnapshot(s, outcome)
        PROVE  FALSE
    <3>1. outcome = "ok"
      BY <2>1, Zenon DEF SaveSnapshot
    <3>q. QED BY <3>1, ManagerAssumption DEF Faults
  <2>2. stored' = stored /\ behind' = behind
    BY <1>7, <2>1 DEF ApproveFails
  <2>q. QED
    BY <1>7, <1>q1, <2>2 DEF ApproveFails, TypeOK, Activating
<1>8. ASSUME NEW g \in Goroutines, Approve(g)
      PROVE  Done
  <2>1. PICK p \in active.pending :
          /\ next' = [next EXCEPT ![g] = Approved(active, p)]
          /\ SaveSnapshot(Approved(active, p), "ok")
    BY <1>8 DEF Approve
  <2>2. Approved(active, p) \in SnapshotType
    BY <1>8, <1>a DEF Approve
  <2>3. next'[g] = Approved(active, p)
    BY <2>1 DEF TypeOK
  <2>4. stored' # NoSnapshot /\ SameState(stored', next'[g])
    BY <2>1, <2>2, <2>3, SaveStores DEF SaveOutcomes
  <2>5. \A h \in Goroutines \ {g} : pc[h] \notin Activating
    BY <1>8, ManagerAssumption
    DEF Approve, LockInv, BuiltOnServed, Critical, Activating
  <2>q. QED
    BY <1>8, <1>q3, <2>4, <2>5 DEF Approve, TypeOK, Activating
<1>9. CASE SeedFails
  BY <1>9, <1>0 DEF SeedFails, Saved, Done
<1>10. ASSUME NEW g \in Goroutines, Boot(g)
       PROVE  Done
  <2>1. \A h \in Goroutines : pc'[h] \notin Activating
    BY <1>10 DEF Boot, LockInv, TypeOK, Activating
  <2>2. active' = stored /\ stored' = stored
    BY <1>10 DEF Boot
  <2>q. QED BY <2>1, <2>2 DEF Done, Saved, SameState
<1>11. CASE Crash
  BY <1>11 DEF Crash, Activating, Done
<1>12. CASE Tick \/ UNCHANGED vars
  BY <1>12, <1>0 DEF Tick, vars, Saved, Done
<1>q. QED
  BY <1>1, <1>2, <1>3, <1>4, <1>5, <1>6, <1>7, <1>8, <1>9, <1>10, <1>11,
     <1>12
  DEF Next, Work, Lock

\* Unless the last save went wrong, a restart resumes from what was being served:
\* one good save makes up for any number of failed ones, and the comparisons with
\* which Refresh decides to skip the save (pendingEqual, territoryStateChanged,
\* lotlInputChanged) miss nothing.
THEOREM RestartResumes == Spec => []StoredIsServed
<1>1. Init => PersistInv
  BY DEF Init, PersistInv, Activating
<1>2. TypeOK /\ LockInv /\ GoodInv /\ PersistInv /\ [Next]_vars => PersistInv'
  BY PersistInductive
<1>3. TypeOK /\ LockInv /\ PersistInv => StoredIsServed
  <2> SUFFICES ASSUME LockInv, PersistInv, mu = Free, ~behind,
                      active # NoSnapshot
               PROVE  Saved(active)
    BY DEF StoredIsServed, Saved
  <2>1. \A g \in Goroutines : pc[g] \notin Activating
    BY ManagerAssumption DEF LockInv, BuiltOnServed, Critical, Activating
  <2>q. QED BY <2>1 DEF PersistInv
<1>q. QED
  BY <1>1, <1>2, <1>3, TypeLockGood, PTL DEF Spec
-----------------------------------------------------------------------------
(***************************************************************************)
(* The change events.                                                      *)
(***************************************************************************)
\* An approval adds the key of the anchor it names, and nothing else.
LEMMA ApprovedIndex ==
  ASSUME NEW s \in SnapshotType, Listed(s), UniquePending(s),
         NEW p \in s.pending
  PROVE  AnchorIndex(Approved(s, p))
           = AnchorIndex(s)
               \cup (PendingKeys(s) \ PendingKeys(Approved(s, p)))
<1> DEFINE r == Approved(s, p)
<1>1. /\ r \in SnapshotType
      /\ r.pending = s.pending \ {p}
      /\ r.internal = s.internal
  BY ApprovedType, Zenon DEF Approved, SnapshotType
<1>2. s # NoSnapshot /\ r # NoSnapshot
  BY <1>1, SentinelsAssumption
<1>3. p.territory \in Territories
  BY DEF SnapshotType, PendingAnchor
<1>4. \A t \in Territories :
        r.terr[t].anchors = s.terr[t].anchors \cup AddedBy(p, t)
  BY ApprovedTerritory, Zenon
<1> HIDE DEF r
<1>5. PendingKeys(s) \ PendingKeys(r) = {<<p.territory, p.fp>>}
  <2>1. ASSUME NEW q \in s.pending, q # p
        PROVE  <<q.territory, q.fp>> \in PendingKeys(r)
    BY <1>1, <2>1 DEF PendingKeys
  <2>2. ASSUME NEW q \in r.pending
        PROVE  <<q.territory, q.fp>> # <<p.territory, p.fp>>
    BY <1>1, <2>2 DEF UniquePending
  <2>3. <<p.territory, p.fp>> \notin PendingKeys(r)
    BY <2>2 DEF PendingKeys
  <2>4. <<p.territory, p.fp>> \in PendingKeys(s)
    BY DEF PendingKeys
  <2>5. ASSUME NEW k \in PendingKeys(s), k \notin PendingKeys(r)
        PROVE  k = <<p.territory, p.fp>>
    <3>1. PICK q \in s.pending : k = <<q.territory, q.fp>>
      BY DEF PendingKeys
    <3>q. QED BY <2>1, <2>5, <3>1
  <2>q. QED BY <2>3, <2>4, <2>5
<1>6. ListedIndex(r) = ListedIndex(s) \cup {<<p.territory, p.fp>>}
  <2>1. ASSUME NEW k \in ListedIndex(r)
        PROVE  k \in ListedIndex(s) \cup {<<p.territory, p.fp>>}
    <3>1. PICK t \in Territories : k \in {t} \X r.terr[t].anchors
      BY DEF ListedIndex
    <3>2. PICK f \in r.terr[t].anchors : k = <<t, f>>
      BY <3>1
    <3>3. f \in s.terr[t].anchors \/ (t = p.territory /\ f = p.fp)
      BY <1>4, <3>2 DEF AddedBy
    <3>4. f \in s.terr[t].anchors => k \in ListedIndex(s)
      BY <3>2 DEF ListedIndex
    <3>q. QED BY <3>2, <3>3, <3>4
  <2>2. ASSUME NEW t \in Territories, NEW f \in r.terr[t].anchors
        PROVE  <<t, f>> \in ListedIndex(r)
    BY DEF ListedIndex
  <2>3. ASSUME NEW k \in ListedIndex(s)
        PROVE  k \in ListedIndex(r)
    <3>1. PICK t \in Territories : k \in {t} \X s.terr[t].anchors
      BY DEF ListedIndex
    <3>2. PICK f \in s.terr[t].anchors : k = <<t, f>>
      BY <3>1
    <3>3. f \in r.terr[t].anchors
      BY <1>4, <3>2
    <3>q. QED BY <2>2, <3>2, <3>3
  <2>4. <<p.territory, p.fp>> \in ListedIndex(r)
    BY <1>3, <1>4, <2>2 DEF AddedBy
  <2>q. QED BY <2>1, <2>3, <2>4
<1>7. DeclaredIndex(r) = DeclaredIndex(s)
  BY <1>1 DEF DeclaredIndex, DeclaredIn
<1>8. AnchorIndex(r) = AnchorIndex(s) \cup (PendingKeys(s) \ PendingKeys(r))
  BY <1>2, <1>5, <1>6, <1>7 DEF AnchorIndex
<1>q. QED BY <1>8 DEF r

\* In a process that does not crash, the events told so far give what is
\* served, the store is empty when the process starts, and an approval that
\* waits to be activated is one of a held anchor.
EventsInv ==
  ~Crashes
  => /\ announced = AnchorIndex(active)
     /\ phase = "down" => stored = NoSnapshot
     /\ \A g \in Goroutines :
          pc[g] = "approveActivate"
          => \E p \in prev[g].pending : next[g] = Approved(prev[g], p)

\* Whoever has the index of one snapshot and applies a diff has the next one.
LEMMA AnnounceTells ==
  ASSUME NEW from, NEW to, announced = AnchorIndex(from), Announce(from, to)
  PROVE  announced' = AnchorIndex(to)
BY DEF Announce, ComputeDiff

LEMMA EventsInductive ==
  ASSUME TypeOK, LockInv, GoodInv, EventsInv, [Next]_vars
  PROVE  EventsInv'
<1> SUFFICES ASSUME ~Crashes
             PROVE  EventsInv'
  BY DEF EventsInv
<1>0. /\ announced = AnchorIndex(active)
      /\ phase = "down" => stored = NoSnapshot
      /\ \A g \in Goroutines :
           pc[g] = "approveActivate"
           => \E p \in prev[g].pending : next[g] = Approved(prev[g], p)
  BY DEF EventsInv
<1> USE DEF Goto, Unlock
\* Only phases after the boot, and no new approval.
<1>q1. ASSUME NEW g \in Goroutines, announced' = AnchorIndex(active'),
              phase' # "down", pc'[g] # "approveActivate",
              \A h \in Goroutines \ {g} :
                /\ pc'[h] = pc[h]
                /\ prev'[h] = prev[h]
                /\ next'[h] = next[h]
       PROVE  EventsInv'
  BY <1>0, <1>q1 DEF EventsInv
<1>q2. ASSUME NEW g \in Goroutines, pc[g] # "idle"
       PROVE  phase # "down"
  BY <1>q2 DEF LockInv
<1>1. ASSUME NEW g \in Goroutines,
             NEW load \in Declarations \cup {LoadError},
             CallRefresh(g) \/ CallApprove(g) \/ LockRefresh(g)
             \/ ReconcileUnchanged(g, load)
      PROVE  EventsInv'
  BY <1>0, <1>1, <1>q1, <1>q2
  DEF CallRefresh, CallApprove, LockRefresh, ReconcileUnchanged,
      AfterReconcile, Forget, TypeOK
<1>2. ASSUME NEW g \in Goroutines,
             NEW load \in Declarations \cup {LoadError},
             CycleFails(g) \/ Respond(g) \/ ReconcileChanged(g, load)
      PROVE  EventsInv'
  BY <1>0, <1>2, <1>q1, <1>q2
  DEF CycleFails, Respond, ReconcileChanged, Forget, TypeOK
<1>3. ASSUME NEW g \in Goroutines,
             NEW load \in Declarations \cup {LoadError},
             Cycle(g, load)
      PROVE  EventsInv'
  <2>1. PICK built : next' = [next EXCEPT ![g] = built]
    BY <1>3 DEF Cycle
  <2>q. QED
    BY <1>0, <1>3, <1>q1, <1>q2, <2>1, Zenon DEF Cycle, TypeOK
<1>4. ASSUME NEW g \in Goroutines, ReconcileActivate(g)
      PROVE  EventsInv'
  <2>1. prev[g] = active
    BY <1>4, Zenon DEF ReconcileActivate, LockInv, BuiltOnServed, Critical
  <2>2. announced' = AnchorIndex(active')
    BY <1>0, <1>4, <2>1, AnnounceTells DEF ReconcileActivate
  <2>q. QED
    BY <1>4, <1>q1, <1>q2, <2>2
    DEF ReconcileActivate, AfterReconcile, Forget, TypeOK
<1>5. ASSUME NEW g \in Goroutines, Activate(g)
      PROVE  EventsInv'
  <2>1. prev[g] = active /\ next[g] # NoSnapshot
    BY <1>5 DEF Activate, LockInv, BuiltOnServed, Critical, Activating
  <2>2. announced' = AnchorIndex(active')
    <3>1. CASE CycleChanged(prev[g], next[g])
      BY <1>0, <1>5, <2>1, <3>1, AnnounceTells DEF Activate
    <3>2. CASE ~CycleChanged(prev[g], next[g])
      <4>1. /\ prev[g] # NoSnapshot
            /\ ComputeID(prev[g]) = ComputeID(next[g])
        BY <3>2 DEF CycleChanged
      <4>2. prev[g] \in SnapshotType /\ next[g] \in SnapshotType
        BY <2>1, <4>1 DEF TypeOK, SnapshotOrNil
      <4>3. Listed(prev[g]) /\ Listed(next[g])
        BY <2>1, <4>1 DEF GoodInv, Good
      <4>4. AnchorIndex(prev[g]) = AnchorIndex(next[g])
        BY <4>1, <4>2, <4>3, SameIDSameIndex
      <4>q. QED BY <1>0, <1>5, <2>1, <3>2, <4>4 DEF Activate
    <3>q. QED BY <3>1, <3>2
  <2>q. QED
    BY <1>5, <1>q1, <1>q2, <2>2 DEF Activate, TypeOK
<1>6. ASSUME NEW g \in Goroutines, ApproveActivate(g)
      PROVE  EventsInv'
  <2>1. prev[g] = active /\ prev[g] # NoSnapshot
    BY <1>6 DEF ApproveActivate, LockInv, BuiltOnServed, Critical
  <2>2. PICK p \in prev[g].pending : next[g] = Approved(prev[g], p)
    BY <1>0, <1>6 DEF ApproveActivate
  <2>3. /\ prev[g] \in SnapshotType
        /\ Listed(prev[g])
        /\ UniquePending(prev[g])
    BY <2>1 DEF TypeOK, SnapshotOrNil, GoodInv, Good
  <2>4. AnchorIndex(next[g])
          = AnchorIndex(prev[g])
              \cup (PendingKeys(prev[g]) \ PendingKeys(next[g]))
    BY <2>2, <2>3, ApprovedIndex
  <2>5. announced' = AnchorIndex(active')
    BY <1>0, <1>6, <2>1, <2>4 DEF ApproveActivate
  <2>q. QED
    BY <1>6, <1>q1, <1>q2, <2>5 DEF ApproveActivate, Forget, TypeOK
<1>7. ASSUME NEW g \in Goroutines, ApproveFails(g)
      PROVE  EventsInv'
  BY <1>0, <1>7, <1>q1, <1>q2 DEF ApproveFails, TypeOK
<1>8. ASSUME NEW g \in Goroutines, Approve(g)
      PROVE  EventsInv'
  <2>1. PICK p \in active.pending :
          next' = [next EXCEPT ![g] = Approved(active, p)]
    BY <1>8, Zenon DEF Approve
  <2>2. prev'[g] = active /\ next'[g] = Approved(active, p)
    BY <1>8, <2>1 DEF Approve, TypeOK
  <2>3. \A h \in Goroutines \ {g} :
          pc'[h] = pc[h] /\ prev'[h] = prev[h] /\ next'[h] = next[h]
    BY <1>8, <2>1 DEF Approve, TypeOK
  <2>4. phase' # "down" /\ announced' = AnchorIndex(active')
    BY <1>0, <1>8, <1>q2 DEF Approve
  <2>q. QED BY <1>0, <2>2, <2>3, <2>4, Zenon DEF EventsInv
<1>9. ASSUME NEW g \in Goroutines, Boot(g)
      PROVE  EventsInv'
  <2>1. active = NoSnapshot /\ stored = NoSnapshot
    BY <1>0, <1>9 DEF Boot, LockInv
  <2>q. QED
    BY <1>0, <1>9, <2>1 DEF Boot, EventsInv
<1>10. CASE SeedFails
  BY <1>0, <1>10 DEF SeedFails, EventsInv
<1>11. CASE Crash
  BY <1>11 DEF Crash
<1>12. CASE Tick \/ UNCHANGED vars
  BY <1>0, <1>12 DEF Tick, vars, EventsInv
<1>q. QED
  BY <1>1, <1>2, <1>3, <1>4, <1>5, <1>6, <1>7, <1>8, <1>9, <1>10, <1>11,
     <1>12
  DEF Next, Work, Lock

\* In a process that does not crash, the change events tell the whole story:
\* whoever applies every one of them has the anchor set that is served, and a
\* cycle that emits none because nothing "changed" has changed no anchor.
THEOREM EventsComplete == ~Crashes /\ Spec => []EventsTellServed
<1>1. Init => EventsInv
  BY DEF Init, EventsInv, AnchorIndex
<1>2. TypeOK /\ LockInv /\ GoodInv /\ EventsInv /\ [Next]_vars => EventsInv'
  BY EventsInductive
<1>3. ASSUME ~Crashes
      PROVE  EventsInv => EventsTellServed
  BY <1>3 DEF EventsInv, EventsTellServed
<1>4. ASSUME ~Crashes
      PROVE  Spec => []EventsTellServed
  BY <1>1, <1>2, <1>3, <1>4, TypeLockGood, PTL DEF Spec
<1>q. QED
  BY <1>4
-----------------------------------------------------------------------------
(***************************************************************************)
(* The bootstrap.                                                          *)
(***************************************************************************)
\* What a process uses is what the store holds.
SeedInv == bootstrap \in {storedBoot, NoBootstrap}

\* The first seed that reaches the store is the bootstrap for good: no restart,
\* crash, failed save or changed seed file replaces it (Manager.Initialize).
THEOREM BootstrapIsFinal == Spec => SeededOnce
<1>1. Init => SeedInv
  BY DEF Init, SeedInv
<1>2. SeedInv /\ [Next]_vars => SeedInv'
  <2> SUFFICES ASSUME SeedInv, [Next]_vars
               PROVE  SeedInv'
    OBVIOUS
  <2>1. CASE UNCHANGED <<bootstrap, storedBoot>>
    BY <2>1 DEF SeedInv
  <2>2. ASSUME NEW g \in Goroutines, Boot(g)
        PROVE  SeedInv'
    BY <2>2 DEF Boot, SeedInv
  <2>3. CASE SeedFails
    BY <2>3 DEF SeedFails, SeedInv
  <2>4. CASE Crash
    BY <2>4 DEF Crash, SeedInv
  <2>q. QED
    BY <2>1, <2>2, <2>3, <2>4, Zenon
    DEF Next, Work, Lock, vars, CallRefresh, CallApprove, LockRefresh,
        ReconcileUnchanged, ReconcileChanged, ReconcileActivate, CycleFails,
        Cycle, Activate, Respond, ApproveFails, Approve, ApproveActivate, Tick
<1>3. SeedInv /\ [Next]_vars
      => [storedBoot # NoBootstrap
          => /\ storedBoot' = storedBoot
             /\ bootstrap' \in {storedBoot, NoBootstrap}]_vars
  <2> SUFFICES ASSUME SeedInv, Next, storedBoot # NoBootstrap
               PROVE  /\ storedBoot' = storedBoot
                      /\ bootstrap' \in {storedBoot, NoBootstrap}
    OBVIOUS
  <2>1. CASE UNCHANGED <<bootstrap, storedBoot>>
    BY <2>1 DEF SeedInv
  <2>2. ASSUME NEW g \in Goroutines, Boot(g)
        PROVE  storedBoot' = storedBoot /\ bootstrap' = storedBoot
    BY <2>2 DEF Boot
  <2>3. ~SeedFails
    BY DEF SeedFails
  <2>4. CASE Crash
    BY <2>4 DEF Crash
  <2>q. QED
    BY <2>1, <2>2, <2>3, <2>4, Zenon
    DEF Next, Work, Lock, CallRefresh, CallApprove, LockRefresh,
        ReconcileUnchanged, ReconcileChanged, ReconcileActivate, CycleFails,
        Cycle, Activate, Respond, ApproveFails, Approve, ApproveActivate, Tick
<1>q. QED
  BY <1>1, <1>2, <1>3, PTL DEF Spec, SeededOnce
-----------------------------------------------------------------------------
(***************************************************************************)
(* The manager as one object.                                              *)
(***************************************************************************)
\* One operation makes r of s (Bundle!Operation for the manager).
Made(s, r) ==
  \/ s # NoSnapshot /\ ReconciledFrom(s, r)
  \/ s # NoSnapshot /\ ApprovedFrom(s, r)
  \/ \E time \in 0 .. now : CycledFrom(s, r, time)

LEMMA MadeIsOperation ==
  ASSUME NEW s, NEW r
  PROVE  Made(s, r) <=> Atomic!Operation(s, r)
BY DEF Made, Atomic!Operation

\* A snapshot waiting to be activated was made of the one it was built on.
MadeInv == \A g \in Goroutines : pc[g] \in Activating => Made(prev[g], next[g])

\* The clock does not undo an operation.
LEMMA MadeStays ==
  ASSUME TypeOK, [Next]_vars, NEW s, NEW r, Made(s, r)
  PROVE  Made(s, r)'
<1>0. now' = now \/ now' = now + 1
  BY Zenon
  DEF Next, Work, Lock, vars, CallRefresh, CallApprove, LockRefresh,
      ReconcileUnchanged, ReconcileChanged, ReconcileActivate, CycleFails,
      Cycle, Activate, Respond, ApproveFails, Approve, ApproveActivate,
      SeedFails, Boot, Crash, Tick
<1>1. now \in Nat /\ now' \in {now, now + 1}
  BY <1>0 DEF TypeOK
<1>2. 0 .. now \subseteq 0 .. now'
  BY <1>1
<1>q. QED BY <1>2, Zenon DEF Made

\* What the steps that build a snapshot build, and what they may save.
LEMMA ReconcileMakes ==
  ASSUME TypeOK, NEW g \in Goroutines,
         NEW load \in Declarations \cup {LoadError}, ReconcileChanged(g, load)
  PROVE  /\ Made(prev[g], next'[g])
         /\ prev' = prev /\ now' = now /\ active' = active
         /\ stored' \in {stored, next'[g]}
         /\ \A h \in Goroutines \ {g} : pc'[h] = pc[h] /\ next'[h] = next[h]
<1>1. next'[g] = RefreshDeclared(prev[g], load) /\ prev[g] # NoSnapshot
  BY DEF ReconcileChanged, TypeOK
<1>2. Made(prev[g], next'[g])
  BY <1>1, Zenon DEF Made, ReconciledFrom
<1>q. QED
  BY <1>1, <1>2 DEF ReconcileChanged, SaveSnapshot, TypeOK, Goto

LEMMA CycleMakes ==
  ASSUME TypeOK, NEW g \in Goroutines,
         NEW load \in Declarations \cup {LoadError}, Cycle(g, load)
  PROVE  /\ Made(prev[g], next'[g])
         /\ prev' = prev /\ now' = now /\ active' = active
         /\ stored' \in {stored, next'[g]}
         /\ \A h \in Goroutines \ {g} : pc'[h] = pc[h] /\ next'[h] = next[h]
<1>1. PICK lotl \in LOTLResults(prev[g]) :
        \E terr \in TerritoryResults(lotl.pointers, prev[g], now) :
          LET built == BuildSnapshot(lotl, terr, load, prev[g], now)
          IN  /\ next' = [next EXCEPT ![g] = built]
              /\ IF MustSave(prev[g], built)
                 THEN \E outcome \in SaveOutcomes :
                        SaveSnapshot(built, outcome)
                 ELSE UNCHANGED <<stored, faults, behind>>
  BY DEF Cycle
<1>2. PICK terr \in TerritoryResults(lotl.pointers, prev[g], now) :
          LET built == BuildSnapshot(lotl, terr, load, prev[g], now)
          IN  /\ next' = [next EXCEPT ![g] = built]
              /\ IF MustSave(prev[g], built)
                 THEN \E outcome \in SaveOutcomes :
                        SaveSnapshot(built, outcome)
                 ELSE UNCHANGED <<stored, faults, behind>>
  BY <1>1
<1> DEFINE built == BuildSnapshot(lotl, terr, load, prev[g], now)
<1>3. CycledFrom(prev[g], built, now)
  BY Zenon DEF CycledFrom
<1> HIDE DEF built
<1>4. next' = [next EXCEPT ![g] = built] /\ stored' \in {stored, built}
  BY <1>2 DEF SaveSnapshot, built
<1>5. next'[g] = built /\ \A h \in Goroutines \ {g} : next'[h] = next[h]
  BY <1>4 DEF TypeOK
<1>6. now \in 0 .. now
  BY DEF TypeOK
<1>7. Made(prev[g], next'[g])
  BY <1>3, <1>5, <1>6, Zenon DEF Made
<1>8. \A h \in Goroutines \ {g} : pc'[h] = pc[h]
  BY DEF Cycle, Goto, TypeOK
<1>q. QED
  BY <1>4, <1>5, <1>7, <1>8 DEF Cycle

LEMMA ApproveMakes ==
  ASSUME TypeOK, NEW g \in Goroutines, Approve(g)
  PROVE  /\ Made(active, next'[g]) /\ prev'[g] = active
         /\ now' = now /\ active' = active
         /\ stored' \in {stored, next'[g]}
         /\ \A h \in Goroutines \ {g} :
              pc'[h] = pc[h] /\ prev'[h] = prev[h] /\ next'[h] = next[h]
<1>1. PICK p \in active.pending :
        /\ next' = [next EXCEPT ![g] = Approved(active, p)]
        /\ SaveSnapshot(Approved(active, p), "ok")
  BY DEF Approve
<1>2. Made(active, Approved(active, p))
  BY Zenon DEF Approve, Made, ApprovedFrom
<1>3. next'[g] = Approved(active, p) /\ stored' = Approved(active, p)
  BY <1>1 DEF TypeOK, SaveSnapshot
<1>4. /\ prev'[g] = active /\ now' = now /\ active' = active
      /\ \A h \in Goroutines \ {g} :
           pc'[h] = pc[h] /\ prev'[h] = prev[h] /\ next'[h] = next[h]
  BY <1>1 DEF Approve, Goto, TypeOK
<1>q. QED BY <1>2, <1>3, <1>4

LEMMA ApproveFailsMakes ==
  ASSUME NEW g \in Goroutines, ApproveFails(g), stored' # stored
  PROVE  Made(active, stored')
<1>1. PICK p \in active.pending : \E outcome \in Faults :
        SaveSnapshot(Approved(active, p), outcome)
  BY Zenon DEF ApproveFails
<1>2. active # NoSnapshot
  BY Zenon DEF ApproveFails
<1>3. stored' = Approved(active, p)
  BY <1>1 DEF SaveSnapshot
<1>q. QED BY <1>2, <1>3, Zenon DEF Made, ApprovedFrom

LEMMA MadeInductive ==
  ASSUME TypeOK, LockInv, MadeInv, [Next]_vars
  PROVE  MadeInv'
<1> USE DEF Goto, Unlock
<1> SUFFICES ASSUME NEW h \in Goroutines, pc'[h] \in Activating
             PROVE  Made(prev[h], next[h])'
  BY DEF MadeInv
\* A goroutine that did not move.
<1>f. ASSUME pc'[h] = pc[h], prev'[h] = prev[h], next'[h] = next[h]
      PROVE  Made(prev[h], next[h])'
  <2>1. Made(prev[h], next[h])
    BY <1>f DEF MadeInv
  <2>2. Made(prev[h], next[h])'
    BY <1>f, <2>1, MadeStays, Zenon
  <2>q. QED BY <2>2
<1>1. ASSUME NEW g \in Goroutines,
             NEW load \in Declarations \cup {LoadError},
             CallRefresh(g) \/ CallApprove(g) \/ LockRefresh(g)
             \/ ReconcileUnchanged(g, load) \/ ReconcileActivate(g)
      PROVE  Made(prev[h], next[h])'
  BY <1>1, <1>f, Zenon
  DEF CallRefresh, CallApprove, LockRefresh, ReconcileUnchanged,
      ReconcileActivate, AfterReconcile, Forget, TypeOK, Activating
<1>2. ASSUME NEW g \in Goroutines,
             CycleFails(g) \/ Activate(g) \/ Respond(g) \/ ApproveFails(g)
             \/ ApproveActivate(g)
      PROVE  Made(prev[h], next[h])'
  BY <1>2, <1>f, Zenon
  DEF CycleFails, Activate, Respond, ApproveFails, ApproveActivate, Forget,
      TypeOK, Activating
<1>3. ASSUME NEW g \in Goroutines,
             NEW load \in Declarations \cup {LoadError},
             ReconcileChanged(g, load)
      PROVE  Made(prev[h], next[h])'
  BY <1>3, <1>f, ReconcileMakes, Zenon DEF Made
<1>4. ASSUME NEW g \in Goroutines,
             NEW load \in Declarations \cup {LoadError},
             Cycle(g, load)
      PROVE  Made(prev[h], next[h])'
  BY <1>4, <1>f, CycleMakes, Zenon DEF Made
<1>5. ASSUME NEW g \in Goroutines, Approve(g)
      PROVE  Made(prev[h], next[h])'
  BY <1>5, <1>f, ApproveMakes, Zenon DEF Made
<1>6. CASE SeedFails \/ Tick
  BY <1>6, <1>f, Zenon DEF SeedFails, Tick
<1>7. ASSUME NEW g \in Goroutines, Boot(g)
      PROVE  FALSE
  BY <1>7 DEF Boot, LockInv, TypeOK, Activating
<1>8. CASE Crash
  BY <1>8 DEF Crash, Activating
<1>9. CASE UNCHANGED vars
  BY <1>9, <1>f DEF vars
<1>q. QED
  BY <1>1, <1>2, <1>3, <1>4, <1>5, <1>6, <1>7, <1>8, <1>9
  DEF Next, Work, Lock

LEMMA ServedWasMade == Spec => [](TypeOK /\ LockInv /\ MadeInv)
<1>1. Init => MadeInv
  BY DEF Init, MadeInv, Activating
<1>2. TypeOK /\ LockInv /\ MadeInv /\ [Next]_vars => MadeInv'
  BY MadeInductive
<1>q. QED
  BY <1>1, <1>2, TypeLock, PTL DEF Spec

\* A step that activates what a goroutine built.
LEMMA ActivationReplaces ==
  ASSUME LockInv, MadeInv, NEW g \in Goroutines, pc[g] \in Activating,
         active' = next[g], stored' = stored, now' = now
  PROVE  [Atomic!Next]_(Atomic!vars)
<1>1. prev[g] = active
  BY DEF LockInv, BuiltOnServed, Critical, Activating
<1>2. Atomic!Operation(active, active')
  BY <1>1, MadeIsOperation, Zenon DEF MadeInv
<1>q. QED BY <1>2 DEF Atomic!Next, Atomic!Replace, Atomic!vars

\* A step that may save what an operation makes of the served snapshot.
LEMMA SavingKeeps ==
  ASSUME active' = active, now' = now,
         stored' = stored \/ Made(active, stored')
  PROVE  [Atomic!Next]_(Atomic!vars)
<1>1. CASE stored' = stored
  BY <1>1 DEF Atomic!vars
<1>2. CASE stored' # stored
  <2>1. Atomic!Operation(active, stored')
    BY <1>2, MadeIsOperation, Zenon
  <2>q. QED BY <1>2, <2>1 DEF Atomic!Next, Atomic!Keep
<1>q. QED BY <1>1, <1>2

LEMMA StepOfBundle ==
  ASSUME TypeOK, LockInv, MadeInv, [Next]_vars
  PROVE  [Atomic!Next]_(Atomic!vars)
<1>1. ASSUME NEW g \in Goroutines,
             NEW load \in Declarations \cup {LoadError},
             \/ CallRefresh(g) \/ CallApprove(g) \/ LockRefresh(g)
             \/ ReconcileUnchanged(g, load) \/ CycleFails(g) \/ Respond(g)
      PROVE  [Atomic!Next]_(Atomic!vars)
  BY <1>1, SavingKeeps, Zenon
  DEF CallRefresh, CallApprove, LockRefresh, ReconcileUnchanged, CycleFails,
      Respond
<1>2. ASSUME NEW g \in Goroutines,
             ReconcileActivate(g) \/ Activate(g) \/ ApproveActivate(g)
      PROVE  [Atomic!Next]_(Atomic!vars)
  <2>1. /\ pc[g] \in Activating
        /\ active' = next[g] /\ stored' = stored /\ now' = now
    BY <1>2, Zenon DEF ReconcileActivate, Activate, ApproveActivate, Activating
  <2>q. QED BY <2>1, ActivationReplaces
<1>b. ASSUME NEW g \in Goroutines, pc[g] \in Critical
      PROVE  prev[g] = active
  BY <1>b DEF LockInv, BuiltOnServed
<1>3. ASSUME NEW g \in Goroutines,
             NEW load \in Declarations \cup {LoadError},
             ReconcileChanged(g, load)
      PROVE  [Atomic!Next]_(Atomic!vars)
  <2>1. prev[g] = active
    BY <1>3, <1>b DEF ReconcileChanged, Critical
  <2>2. /\ active' = active /\ now' = now
        /\ stored' = stored \/ Made(active, stored')
    BY <1>3, <2>1, ReconcileMakes, Zenon
  <2>q. QED BY <2>2, SavingKeeps
<1>4. ASSUME NEW g \in Goroutines,
             NEW load \in Declarations \cup {LoadError},
             Cycle(g, load)
      PROVE  [Atomic!Next]_(Atomic!vars)
  <2>1. prev[g] = active
    BY <1>4, <1>b DEF Cycle, Critical
  <2>2. /\ active' = active /\ now' = now
        /\ stored' = stored \/ Made(active, stored')
    BY <1>4, <2>1, CycleMakes, Zenon
  <2>q. QED BY <2>2, SavingKeeps
<1>5. ASSUME NEW g \in Goroutines, Approve(g)
      PROVE  [Atomic!Next]_(Atomic!vars)
  <2>1. /\ active' = active /\ now' = now
        /\ stored' = stored \/ Made(active, stored')
    BY <1>5, ApproveMakes, Zenon
  <2>q. QED BY <2>1, SavingKeeps
<1>6. ASSUME NEW g \in Goroutines, ApproveFails(g)
      PROVE  [Atomic!Next]_(Atomic!vars)
  <2>1. active' = active /\ now' = now
    BY <1>6, Zenon DEF ApproveFails
  <2>q. QED BY <1>6, <2>1, ApproveFailsMakes, SavingKeeps
<1>7. ASSUME NEW g \in Goroutines, Boot(g)
      PROVE  [Atomic!Next]_(Atomic!vars)
  BY <1>7 DEF Boot, LockInv, Atomic!Next, Atomic!Start
<1>8. CASE SeedFails \/ UNCHANGED vars
  BY <1>8, SavingKeeps DEF SeedFails, vars
<1>9. CASE Crash
  BY <1>9 DEF Crash, Atomic!Next, Atomic!Stop
<1>10. CASE Tick
  BY <1>10 DEF Tick, Atomic!Next, Atomic!Pass
<1>q. QED
  BY <1>1, <1>2, <1>3, <1>4, <1>5, <1>6, <1>7, <1>8, <1>9, <1>10
  DEF Next, Work, Lock

\* The manager implements Bundle: every change of what is served or stored is
\* one whole refresh, reconcile or approval of the snapshot served at that
\* moment, or a restart, for any number of goroutines and under any
\* interleaving, failed save and crash ("Mutations are serialized", the doc of
\* Manager).
THEOREM ManagerImplementsBundle == Spec => OneOperationAtATime
<1>1. Init => Atomic!Init
  BY DEF Init, Atomic!Init
<1>2. TypeOK /\ LockInv /\ MadeInv /\ [Next]_vars
      => [Atomic!Next]_(Atomic!vars)
  BY StepOfBundle
<1>q. QED
  BY <1>1, <1>2, ServedWasMade, PTL
  DEF Spec, OneOperationAtATime, Atomic!Spec

LEMMA BuiltRemoves ==
  ASSUME NEW old, NEW lotl, NEW terr, NEW load, NEW time,
         CycleInputs(old, lotl, terr, load, time), old # NoSnapshot,
         Listed(old)
  PROVE  RemovesOnlyUnlisted(old, BuildSnapshot(lotl, terr, load, old, time))
<1> DEFINE built == BuildSnapshot(lotl, terr, load, old, time)
<1>1. built.lotl = lotl
  BY DEF BuildSnapshot
<1>b. ASSUME NEW t \in Territories
      PROVE  /\ built.terr[t].health = terr[t].health
             /\ built.terr[t].list = terr[t].list
             /\ \A f \in terr[t].anchors :
                  Kept(old, t, f, time) => f \in built.terr[t].anchors
  <2>1. built.terr[t]
        = [terr[t] EXCEPT !.anchors = {f \in @ : Kept(old, t, f, time)}]
    BY DEF BuildSnapshot
  <2>2. terr[t] \in TerritoryEntry
    BY TerritoryResultsFunction, IngestTerritoryEntry DEF CycleInputs
  <2> HIDE DEF built
  <2>q. QED BY <2>1, <2>2 DEF TerritoryEntry
<1>2. ASSUME NEW t \in Territories,
             NEW f \in old.terr[t].anchors \ built.terr[t].anchors
      PROVE  \/ t \notin ExpandTerritories(lotl.pointers)
             \/ /\ built.terr[t].health = "fresh"
                /\ f \notin built.terr[t].list.anchors
  <2> DEFINE e == EntryOf(old, t)
  <2>0. e = old.terr[t] /\ e \in TerritoryEntry
    BY EntryOfType DEF EntryOf, CycleInputs
  <2> HIDE DEF built
  <2>1. Kept(old, t, f, time)
    BY <1>2, <2>0 DEF Kept
  <2>2. f \notin terr[t].anchors
    BY <1>b, <1>2, <2>1
  <2>3. f \in e.anchors /\ e.health \notin {"absent", "failed"}
    BY <1>2, <2>0 DEF Listed
  <2>4. terr[t] \in IngestTerritory(lotl.pointers, t, old, time)
    BY TerritoryResultsFunction DEF CycleInputs
  <2> HIDE DEF e
  <2>5. \A r : CarriedOver(e, r).anchors = e.anchors
    BY <2>0 DEF CarriedOver, TerritoryEntry
  <2>6. Reused(e).anchors = e.anchors
    BY <2>0 DEF Reused, TerritoryEntry
  <2>7. terr[t] \notin TerritoryFailure(t, old)
    BY <2>2, <2>3, <2>5, Zenon DEF TerritoryFailure, e
  <2>8. terr[t] # Reused(e)
    BY <2>2, <2>3, <2>6
  <2>9. CASE t \in ExpandTerritories(lotl.pointers)
    <3>1. terr[t] \in FetchTerritory(lotl.pointers, t, old, time)
      BY <2>4, <2>7, <2>9 DEF IngestTerritory
    <3>2. PICK l \in Lists : terr[t] = Downloaded(l)
      BY <2>8, <3>1, Zenon DEF FetchTerritory, e
    <3>3. terr[t].health = "fresh" /\ terr[t].list.anchors = terr[t].anchors
      <4>1. /\ Downloaded(l).health = "fresh" /\ Downloaded(l).list = l
            /\ Downloaded(l).anchors = l.anchors
        BY DEF Downloaded
      <4>q. QED BY <3>2, <4>1, Zenon
    <3>q. QED BY <1>b, <2>2, <3>3
  <2>q. QED BY <2>9
<1> HIDE DEF built
<1>3. RemovesOnlyUnlisted(old, built)
  BY <1>1, <1>2, Zenon DEF RemovesOnlyUnlisted
<1>q. QED BY <1>3 DEF built

LEMMA BuiltKeepsHeld ==
  ASSUME NEW old, NEW lotl, NEW terr, NEW load, NEW time,
         CycleInputs(old, lotl, terr, load, time), old # NoSnapshot
  PROVE  KeepsHeld(old, BuildSnapshot(lotl, terr, load, old, time))
<1> DEFINE built == BuildSnapshot(lotl, terr, load, old, time)
<1>1. ASSUME NEW t \in Territories
      PROVE  /\ terr[t] \in IngestTerritory(lotl.pointers, t, old, time)
             /\ built.terr[t].list = terr[t].list
             /\ \A f \in terr[t].anchors :
                  Kept(old, t, f, time) => f \in built.terr[t].anchors
  <2>1. built.terr[t]
        = [terr[t] EXCEPT !.anchors = {f \in @ : Kept(old, t, f, time)}]
    BY DEF BuildSnapshot
  <2>2. terr[t] \in TerritoryEntry
    BY TerritoryResultsFunction, IngestTerritoryEntry DEF CycleInputs
  <2>3. terr[t] \in IngestTerritory(lotl.pointers, t, old, time)
    BY TerritoryResultsFunction DEF CycleInputs
  <2> HIDE DEF built
  <2>q. QED BY <2>1, <2>2, <2>3 DEF TerritoryEntry
<1>2. ASSUME NEW p \in old.pending, p.territory \in Territories,
             p.fp \in terr[p.territory].anchors
      PROVE  p \in built.pending \/ p.fp \in built.terr[p.territory].anchors
  <2>1. CASE Kept(old, p.territory, p.fp, time)
    <3> HIDE DEF built
    <3>q. QED BY <1>1, <1>2, <2>1
  <2>2. CASE ~Kept(old, p.territory, p.fp, time)
    <3>1. p.fp \in Additions(terr, old, p.territory, time)
      BY <1>2, <2>2 DEF Additions
    <3>2. p \in HeldBefore(old, p.territory, p.fp)
      BY DEF HeldBefore
    <3>3. p \in HoldEntry(old, p.territory, p.fp, time)
      BY <3>2 DEF HoldEntry
    <3>q. QED BY <1>2, <3>1, <3>3 DEF BuildSnapshot
  <2>q. QED BY <2>1, <2>2
<1>3. ASSUME NEW p \in old.pending, p.territory \in Territories,
             p.fp \notin terr[p.territory].anchors
      PROVE  LET l == built.terr[p.territory].list
             IN  \/ l = NoList
                 \/ p.fp \notin l.anchors
                 \/ /\ l = old.terr[p.territory].list
                    /\ p.fp \notin HeldIn(built, p.territory)
  <2> DEFINE t == p.territory
  <2>1. p.fp \notin HeldIn(built, t)
    <3>1. \A q \in built.pending : q.fp \in terr[q.territory].anchors
      BY BuiltPending
    <3> HIDE DEF built
    <3>q. QED BY <1>3, <3>1 DEF HeldIn
  <2> HIDE DEF built
  <2>2. EntryOf(old, t) = old.terr[t] /\ old.terr[t] \in TerritoryEntry
    BY <1>3, EntryOfType DEF EntryOf, CycleInputs
  <2>c. /\ Absent.list = NoList /\ (\A r : Failed(r).list = NoList)
        /\ Reused(old.terr[t]).list = old.terr[t].list
        /\ \A r : CarriedOver(old.terr[t], r).list = old.terr[t].list
    BY <2>2 DEF Absent, Failed, Reused, CarriedOver, TerritoryEntry
  <2>3. \/ terr[t].list = NoList
        \/ terr[t].list = old.terr[t].list
        \/ \E l \in Lists : terr[t] = Downloaded(l)
    <3>1. \/ terr[t] = Absent
          \/ \E r : terr[t] = Failed(r) \/ terr[t] = CarriedOver(old.terr[t], r)
          \/ terr[t] = Reused(old.terr[t])
          \/ \E l \in Lists : terr[t] = Downloaded(l)
      <4>1. \/ terr[t] = Absent
            \/ terr[t] \in FetchTerritory(lotl.pointers, t, old, time)
            \/ terr[t] \in TerritoryFailure(t, old)
        BY <1>1, <1>3, Zenon DEF IngestTerritory
      <4>2. ASSUME terr[t] \in FetchTerritory(lotl.pointers, t, old, time)
            PROVE  \/ terr[t] = Reused(old.terr[t])
                   \/ \E l \in Lists : terr[t] = Downloaded(l)
        BY <2>2, <4>2, Zenon DEF FetchTerritory
      <4>3. ASSUME terr[t] \in TerritoryFailure(t, old)
            PROVE  \E r : \/ terr[t] = Failed(r)
                          \/ terr[t] = CarriedOver(old.terr[t], r)
        BY <2>2, <4>3, Zenon DEF TerritoryFailure
      <4>q. QED BY <4>1, <4>2, <4>3, Zenon
    <3>q. QED BY <2>c, <3>1, Zenon
  <2>4. ASSUME NEW l \in Lists, terr[t] = Downloaded(l)
        PROVE  p.fp \notin terr[t].list.anchors
    <3>1. Downloaded(l).list = l /\ Downloaded(l).anchors = l.anchors
      BY DEF Downloaded
    <3>q. QED BY <1>3, <2>4, <3>1, Zenon
  <2>q. QED BY <1>1, <1>3, <2>1, <2>3, <2>4
<1>4. \A p \in old.pending : p.territory \in Territories
  BY SentinelsAssumption DEF CycleInputs, SnapshotOrNil, SnapshotType, PendingAnchor
<1> HIDE DEF built
<1>5. KeepsHeld(old, built)
  BY <1>2, <1>3, <1>4 DEF KeepsHeld
<1>q. QED BY <1>5 DEF built

\* What one operation may change: it moves to no older list, takes no anchor
\* away that is still listed, and keeps what is held.
LEMMA MadeForward ==
  ASSUME TypeOK, NEW s \in SnapshotType, Good(s), NEW r, Made(s, r)
  PROVE  /\ NotOlder(s, r)
         /\ RemovesOnlyUnlisted(s, r)
         /\ KeepsHeld(s, r)
<1>0. s # NoSnapshot /\ Listed(s) /\ UniquePending(s)
  BY SentinelsAssumption DEF Good
<1>1. CASE ReconciledFrom(s, r)
  <2>1. PICK load \in Declarations \cup {LoadError} : r = RefreshDeclared(s, load)
    BY <1>1 DEF ReconciledFrom
  <2>2. r.lotl = s.lotl /\ r.terr = s.terr /\ r.pending = s.pending
    BY <2>1, RefreshDeclaredType
  <2>3. NotOlder(s, r)
    BY <2>2, NotOlderThanItself, Zenon
  <2>q. QED
    BY <1>0, <2>2, <2>3, Zenon
    DEF RemovesOnlyUnlisted, KeepsHeld
<1>2. CASE ApprovedFrom(s, r)
  <2>1. PICK p \in s.pending : r = Approved(s, p)
    BY <1>2 DEF ApprovedFrom
  <2>2. NotOlder(s, r)
    BY <1>0, <2>1, ApprovedSuccessor, Zenon
  <2>3. r.pending = s.pending \ {p} /\ p \in PendingAnchor
    BY <2>1, ApprovedType, Zenon
  <2>a. ASSUME NEW t \in Territories
        PROVE  r.terr[t].anchors = s.terr[t].anchors \cup AddedBy(p, t)
    <3>1. Approved(s, p).terr[t].anchors
          = s.terr[t].anchors \cup AddedBy(p, t)
      BY <1>0, ApprovedTerritory, Zenon
    <3>q. QED BY <2>1, <3>1, Zenon
  <2>5. p.fp \in r.terr[p.territory].anchors
    <3>1. p.territory \in Territories /\ p.fp \in AddedBy(p, p.territory)
      BY <2>3 DEF PendingAnchor, AddedBy
    <3>q. QED BY <2>a, <3>1, Zenon
  <2>4. ASSUME NEW t \in Territories
        PROVE  s.terr[t].anchors \subseteq r.terr[t].anchors
    BY <2>a, Zenon
  <2>6. RemovesOnlyUnlisted(s, r)
    BY <2>4, Zenon DEF RemovesOnlyUnlisted
  <2>7. ASSUME NEW q \in s.pending
        PROVE  q \in r.pending \/ q.fp \in r.terr[q.territory].anchors
    <3>1. CASE q = p
      BY <2>5, <3>1
    <3>2. CASE q # p
      BY <2>3, <3>2
    <3>q. QED BY <3>1, <3>2
  <2>8. KeepsHeld(s, r)
    BY <2>7, Zenon DEF KeepsHeld
  <2>q. QED BY <2>2, <2>6, <2>8
<1>3. ASSUME NEW time \in 0 .. now, CycledFrom(s, r, time)
      PROVE  /\ NotOlder(s, r)
             /\ RemovesOnlyUnlisted(s, r)
             /\ KeepsHeld(s, r)
  <2>1. PICK load \in Declarations \cup {LoadError}, lotl \in LOTLResults(s) :
          \E terr \in TerritoryResults(lotl.pointers, s, time) :
            r = BuildSnapshot(lotl, terr, load, s, time)
    BY <1>3 DEF CycledFrom
  <2>2. PICK terr \in TerritoryResults(lotl.pointers, s, time) :
          r = BuildSnapshot(lotl, terr, load, s, time)
    BY <2>1
  <2>3. CycleInputs(s, lotl, terr, load, time)
    BY DEF CycleInputs, SnapshotOrNil, TypeOK
  <2>q. QED
    BY <1>0, <2>2, <2>3, BuiltNotOlder, BuiltRemoves, BuiltKeepsHeld, Zenon
<1>q. QED BY <1>1, <1>2, <1>3, Zenon DEF Made

LEMMA GoodMade == Spec => [](TypeOK /\ LockInv /\ GoodInv /\ MadeInv)
BY TypeLockGood, ServedWasMade, PTL

\* Whatever replaces the served snapshot in a running process was made of it.
LEMMA ServedStepMade ==
  ASSUME TypeOK, LockInv, GoodInv, MadeInv, [Next]_vars,
         active # NoSnapshot, active' # NoSnapshot, active' # active
  PROVE  /\ RemovesOnlyUnlisted(active, active')
         /\ KeepsHeld(active, active')
<1>1. PICK g \in Goroutines : /\ pc[g] \in Activating
                              /\ prev[g] = active
                              /\ active' = next[g]
  BY ActiveChanges
<1>2. Made(active, active')
  BY <1>1, Zenon DEF MadeInv
<1>3. active \in SnapshotType /\ Good(active)
  BY DEF TypeOK, SnapshotOrNil, GoodInv
<1>q. QED BY <1>2, <1>3, MadeForward

\* No failed fetch, hold, approval or reconcile takes an anchor out of what is
\* served: only an accepted list that names it no more does, or the end of its
\* territory (Pipeline.ingestTerritory, "fail-safe").
THEOREM OutagesRemoveNothing == Spec => OnlyListsRemove
<1>1. ASSUME TypeOK, LockInv, GoodInv, MadeInv, [Next]_vars,
             active # NoSnapshot, active' # NoSnapshot
      PROVE  RemovesOnlyUnlisted(active, active')
  <2>1. CASE active' = active
    BY <2>1 DEF RemovesOnlyUnlisted
  <2>2. CASE active' # active
    BY <1>1, <2>2, ServedStepMade
  <2>q. QED BY <2>1, <2>2
<1>2. TypeOK /\ LockInv /\ GoodInv /\ MadeInv /\ [Next]_vars
      => [active # NoSnapshot /\ active' # NoSnapshot
          => RemovesOnlyUnlisted(active, active')]_vars
  BY <1>1
<1>q. QED
  BY <1>2, GoodMade, PTL DEF Spec, OnlyListsRemove

\* A held anchor stays held, with the time it was first seen, until it is served
\* or off the list, unless its territory is carried over or reused
\* (Pipeline.applyHoldMode, Manager.ApprovePending).
THEOREM HeldAreKept == Spec => HeldIsKept
<1>1. ASSUME TypeOK, LockInv, GoodInv, MadeInv, [Next]_vars,
             active # NoSnapshot, active' # NoSnapshot
      PROVE  KeepsHeld(active, active')
  <2>1. CASE active' = active
    BY <2>1 DEF KeepsHeld
  <2>2. CASE active' # active
    BY <1>1, <2>2, ServedStepMade
  <2>q. QED BY <2>1, <2>2
<1>2. TypeOK /\ LockInv /\ GoodInv /\ MadeInv /\ [Next]_vars
      => [active # NoSnapshot /\ active' # NoSnapshot
          => KeepsHeld(active, active')]_vars
  BY <1>1
<1>q. QED
  BY <1>2, GoodMade, PTL DEF Spec, HeldIsKept
-----------------------------------------------------------------------------
(***************************************************************************)
(* The store from one save to the next.                                    *)
(***************************************************************************)
\* A process that serves nothing, and is about to serve nothing, has found
\* nothing in the store and put nothing there.
EmptyInv ==
  /\ phase # "down"
  /\ active = NoSnapshot
  /\ \A g \in Goroutines : pc[g] \notin Activating
  => stored = NoSnapshot

LEMMA EmptyInductive ==
  ASSUME TypeOK, LockInv, EmptyInv, [Next]_vars
  PROVE  EmptyInv'
<1> USE DEF Goto, Unlock
<1>q. ASSUME NEW g \in Goroutines, UNCHANGED <<active, stored>>,
             phase # "down", pc[g] \notin Activating,
             \A h \in Goroutines \ {g} : pc'[h] = pc[h]
      PROVE  EmptyInv'
  BY <1>q DEF EmptyInv
<1>1. ASSUME NEW g \in Goroutines, NEW load,
             \/ CallRefresh(g) \/ CallApprove(g) \/ LockRefresh(g)
             \/ ReconcileUnchanged(g, load) \/ CycleFails(g) \/ Respond(g)
      PROVE  EmptyInv'
  BY <1>1, <1>q
  DEF CallRefresh, CallApprove, LockRefresh, ReconcileUnchanged,
      AfterReconcile, CycleFails, Respond, LockInv, TypeOK, Activating
<1>2. ASSUME NEW g \in Goroutines, NEW load,
             ReconcileChanged(g, load) \/ Cycle(g, load) \/ Approve(g)
      PROVE  EmptyInv'
  <2>1. pc'[g] \in Activating
    BY <1>2, Zenon DEF ReconcileChanged, Cycle, Approve, TypeOK, Activating
  <2>q. QED BY <2>1 DEF EmptyInv
<1>3. ASSUME NEW g \in Goroutines,
             ReconcileActivate(g) \/ Activate(g) \/ ApproveActivate(g)
      PROVE  EmptyInv'
  BY <1>3
  DEF ReconcileActivate, Activate, ApproveActivate, LockInv, Activating,
      EmptyInv
<1>4. ASSUME NEW g \in Goroutines, ApproveFails(g)
      PROVE  EmptyInv'
  <2>1. active' = active /\ (active = NoSnapshot => stored' = stored)
    BY <1>4 DEF ApproveFails
  <2>2. phase # "down" /\ phase' = phase
    BY <1>4 DEF ApproveFails, LockInv
  <2>3. \A h \in Goroutines : pc'[h] \notin Activating => pc[h] \notin Activating
    BY <1>4 DEF ApproveFails, TypeOK, Activating
  <2>q. QED BY <2>1, <2>2, <2>3 DEF EmptyInv
<1>5. ASSUME NEW g \in Goroutines, Boot(g)
      PROVE  EmptyInv'
  BY <1>5 DEF Boot, EmptyInv
<1>6. CASE SeedFails \/ Crash
  BY <1>6 DEF SeedFails, Crash, EmptyInv
<1>7. CASE Tick \/ UNCHANGED vars
  BY <1>7 DEF Tick, vars, EmptyInv
<1>x. QED
  BY <1>1, <1>2, <1>3, <1>4, <1>5, <1>6, <1>7 DEF Next, Work, Lock

\* A save stores what an operation made of the served snapshot, while nobody
\* else is about to replace that one.
LEMMA StoreChanges ==
  ASSUME TypeOK, LockInv, [Next]_vars, stored' # stored
  PROVE  /\ phase # "down"
         /\ \A h \in Goroutines : pc[h] \notin Activating
         /\ Made(active, stored')
<1> DEFINE Done == /\ phase # "down"
                   /\ \A h \in Goroutines : pc[h] \notin Activating
                   /\ Made(active, stored')
<1>0. ASSUME NEW g \in Goroutines, pc[g] \in {"reconcile", "cycle"}
      PROVE  /\ phase # "down"
             /\ \A h \in Goroutines : pc[h] \notin Activating
             /\ prev[g] = active
  <2>1. pc[g] \in Critical /\ pc[g] \notin Activating /\ pc[g] # "idle"
    BY <1>0 DEF Critical, Activating
  <2>q. QED BY <2>1, OnlyOneCritical DEF LockInv, BuiltOnServed
<1>1. ASSUME NEW g \in Goroutines,
             NEW load \in Declarations \cup {LoadError},
             ReconcileChanged(g, load)
      PROVE  Done
  <2>1. pc[g] \in {"reconcile", "cycle"}
    BY <1>1 DEF ReconcileChanged
  <2>q. QED BY <1>0, <1>1, <2>1, ReconcileMakes, Zenon
<1>2. ASSUME NEW g \in Goroutines,
             NEW load \in Declarations \cup {LoadError},
             Cycle(g, load)
      PROVE  Done
  <2>1. pc[g] \in {"reconcile", "cycle"}
    BY <1>2 DEF Cycle
  <2>q. QED BY <1>0, <1>2, <2>1, CycleMakes, Zenon
<1>3. ASSUME mu = Free, NEW g \in Goroutines, pc[g] # "idle"
      PROVE  /\ phase # "down"
             /\ \A h \in Goroutines : pc[h] \notin Activating
  BY <1>3, ManagerAssumption
  DEF LockInv, BuiltOnServed, Critical, Activating
<1>4. ASSUME NEW g \in Goroutines, Approve(g)
      PROVE  Done
  <2>1. mu = Free /\ pc[g] # "idle"
    BY <1>4 DEF Approve
  <2>q. QED BY <1>3, <1>4, <2>1, ApproveMakes, Zenon
<1>5. ASSUME NEW g \in Goroutines, ApproveFails(g)
      PROVE  Done
  <2>1. mu = Free /\ pc[g] # "idle"
    BY <1>5 DEF ApproveFails
  <2>q. QED BY <1>3, <1>5, <2>1, ApproveFailsMakes, Zenon
<1> HIDE DEF Done
<1>6. Done
  BY <1>1, <1>2, <1>4, <1>5, Zenon
  DEF Next, Work, Lock, vars, CallRefresh, CallApprove, LockRefresh,
      ReconcileUnchanged, ReconcileActivate, CycleFails, Activate, Respond,
      ApproveActivate, SeedFails, Boot, Crash, Tick
<1>q. QED BY <1>6 DEF Done

\* What follows a snapshot also follows one that a restart may not tell from it.
LEMMA ForwardOfSame ==
  ASSUME NEW s \in SnapshotType, NEW a \in SnapshotType, Listed(s), Listed(a),
         SameState(s, a), NEW r,
         NotOlder(a, r), RemovesOnlyUnlisted(a, r)
  PROVE  NotOlder(s, r) /\ RemovesOnlyUnlisted(s, r)
<1> DEFINE Content(x) == {<<t, TLSequence(x.terr[t]), x.terr[t].anchors>> :
                            t \in {u \in Territories :
                                     x.terr[u].health
                                       \notin {"absent", "failed"}}}
<1>1. Content(s) = Content(a) /\ s.lotl = a.lotl
  BY DEF SameState, ComputeID
<1>2. ASSUME NEW t \in Territories, s.terr[t].list # NoList
      PROVE  /\ a.terr[t].list # NoList
             /\ TLSequence(s.terr[t]) = TLSequence(a.terr[t])
             /\ s.terr[t].anchors = a.terr[t].anchors
  <2>1. s.terr[t].health \notin {"absent", "failed"}
    BY <1>2 DEF Listed
  <2>2. <<t, TLSequence(s.terr[t]), s.terr[t].anchors>> \in Content(a)
    BY <1>1, <2>1
  <2>3. PICK u \in Territories :
          /\ a.terr[u].health \notin {"absent", "failed"}
          /\ <<t, TLSequence(s.terr[t]), s.terr[t].anchors>>
             = <<u, TLSequence(a.terr[u]), a.terr[u].anchors>>
    BY <2>2
  <2>q. QED BY <2>3 DEF Listed
<1>3. NotOlder(s, r)
  BY <1>1, <1>2 DEF NotOlder
<1>4. ASSUME NEW t \in Territories, NEW f \in s.terr[t].anchors
      PROVE  f \in a.terr[t].anchors
  BY <1>2 DEF Listed
<1>5. RemovesOnlyUnlisted(s, r)
  BY <1>4 DEF RemovesOnlyUnlisted
<1>q. QED BY <1>3, <1>5

\* Unless the last save went wrong, the next one moves what a restart would resume
\* from to no older list and takes no anchor out of it that is still listed,
\* through any number of crashes, boots and skipped saves (Manager.Refresh,
\* Manager.Initialize).
THEOREM StoreForward == Spec => StoreMovesForward
<1>1. Init => PersistInv /\ EmptyInv
  BY DEF Init, PersistInv, EmptyInv, Activating
<1>2. TypeOK /\ LockInv /\ GoodInv /\ PersistInv /\ EmptyInv /\ [Next]_vars
      => (PersistInv /\ EmptyInv)'
  BY PersistInductive, EmptyInductive
<1>3. ASSUME TypeOK, LockInv, GoodInv, PersistInv, EmptyInv, [Next]_vars,
             ~behind, stored # NoSnapshot
      PROVE  NotOlder(stored, stored') /\ RemovesOnlyUnlisted(stored, stored')
  <2>1. stored \in SnapshotType /\ Listed(stored)
    BY <1>3 DEF TypeOK, SnapshotOrNil, GoodInv, Good
  <2>2. CASE stored' = stored
    BY <2>1, <2>2, NotOlderThanItself DEF RemovesOnlyUnlisted
  <2>3. CASE stored' # stored
    <3>1. /\ phase # "down"
          /\ \A h \in Goroutines : pc[h] \notin Activating
          /\ Made(active, stored')
      BY <1>3, <2>3, StoreChanges
    <3>2. active # NoSnapshot
      BY <1>3, <3>1 DEF EmptyInv
    <3>3. active \in SnapshotType /\ Good(active) /\ Listed(active)
      BY <1>3, <3>2 DEF TypeOK, SnapshotOrNil, GoodInv, Good
    <3>4. SameState(stored, active)
      BY <1>3, <3>1, <3>2 DEF PersistInv, Saved
    <3>5. NotOlder(active, stored') /\ RemovesOnlyUnlisted(active, stored')
      BY <1>3, <3>1, <3>3, MadeForward
    <3>q. QED BY <2>1, <3>3, <3>4, <3>5, ForwardOfSame
  <2>q. QED BY <2>2, <2>3
<1>4. TypeOK /\ LockInv /\ GoodInv /\ PersistInv /\ EmptyInv /\ [Next]_vars
      => [~behind /\ stored # NoSnapshot
          => NotOlder(stored, stored')
             /\ RemovesOnlyUnlisted(stored, stored')]_vars
  BY <1>3
<1>q. QED
  BY <1>1, <1>2, <1>4, TypeLockGood, PTL DEF Spec, StoreMovesForward
-----------------------------------------------------------------------------
(***************************************************************************)
(* The mutex is given back.                                                *)
(***************************************************************************)
\* Whoever has the mutex is in a critical step.
HolderInv == \A g \in Goroutines : mu = g => pc[g] \in Critical

LEMMA HolderInductive ==
  ASSUME TypeOK, LockInv, HolderInv, [Next]_vars
  PROVE  HolderInv'
<1> USE DEF Goto, Unlock, Critical
<1>1. ASSUME NEW g \in Goroutines,
             NEW load \in Declarations \cup {LoadError},
             \/ CallRefresh(g) \/ CallApprove(g) \/ LockRefresh(g)
             \/ ReconcileUnchanged(g, load) \/ ReconcileChanged(g, load)
             \/ ReconcileActivate(g) \/ Cycle(g, load) \/ Approve(g)
      PROVE  HolderInv'
  BY <1>1, ManagerAssumption
  DEF CallRefresh, CallApprove, LockRefresh, ReconcileUnchanged,
      ReconcileChanged, ReconcileActivate, AfterReconcile, Cycle, Approve,
      TypeOK, HolderInv
<1>2. ASSUME NEW g \in Goroutines,
             CycleFails(g) \/ Activate(g) \/ ApproveActivate(g)
             \/ ApproveFails(g) \/ Respond(g) \/ Boot(g)
      PROVE  HolderInv'
  BY <1>2, ManagerAssumption
  DEF CycleFails, Activate, ApproveActivate, ApproveFails, Respond, Boot,
      TypeOK, LockInv, HolderInv
<1>3. CASE SeedFails \/ Crash \/ Tick \/ UNCHANGED vars
  BY <1>3, ManagerAssumption DEF SeedFails, Crash, Tick, vars, HolderInv
<1>q. QED BY <1>1, <1>2, <1>3 DEF Next, Work, Lock

\* The goroutine that has the mutex gives it back after at most four steps, on
\* every path through Refresh, ReconcileDeclared and ApprovePending, and no
\* other goroutine takes it meanwhile (the deferred Unlocks of manager.go).
THEOREM MutexIsGivenBack == Spec => HolderAdvances
<1> DEFINE Advances(g) ==
      /\ pc[g] \in Critical
      /\ \/ mu' = Free
         \/ /\ mu' = g
            /\ pc'[g] \in Critical
            /\ pc'[g] # pc[g] => StepsLeft[pc'[g]] < StepsLeft[pc[g]]
<1>0. /\ StepsLeft["reconcile"] = 4 /\ StepsLeft["reconcileActivate"] = 3
      /\ StepsLeft["cycle"] = 2 /\ StepsLeft["activate"] = 1
  BY DEF StepsLeft
<1>1. Init => HolderInv
  BY ManagerAssumption DEF Init, HolderInv
<1>2. TypeOK /\ LockInv /\ HolderInv /\ [Next]_vars => HolderInv'
  BY HolderInductive
<1>3. ASSUME TypeOK, LockInv, HolderInv, Next, NEW h \in Goroutines, mu = h
      PROVE  Advances(h)
  <2> USE <1>3 DEF Goto, Unlock
  <2>0. pc[h] \in Critical /\ mu # Free
    BY ManagerAssumption DEF HolderInv
  <2>1. CASE mu' = mu /\ pc'[h] = pc[h]
    BY <2>0, <2>1
  <2>2. ASSUME NEW g \in Goroutines,
               NEW load \in Declarations \cup {LoadError},
               \/ CallRefresh(g) \/ CallApprove(g) \/ Lock(g) \/ Respond(g)
        PROVE  Advances(h)
    BY <2>0, <2>1, <2>2
    DEF CallRefresh, CallApprove, Lock, LockRefresh, ApproveFails, Approve,
        Respond, TypeOK, Critical
  <2>3. ASSUME NEW g \in Goroutines,
               NEW load \in Declarations \cup {LoadError},
               ReconcileUnchanged(g, load) \/ ReconcileActivate(g)
        PROVE  Advances(h)
    <3>1. /\ pc[g] \in {"reconcile", "reconcileActivate"}
          /\ mu' = Free \/ (mu' = mu /\ pc'[g] = "cycle")
      BY <2>3, Zenon
      DEF ReconcileUnchanged, ReconcileActivate, AfterReconcile, TypeOK
    <3>2. g = h
      BY <3>1 DEF LockInv, BuiltOnServed, Critical
    <3>3. CASE mu' = Free
      BY <2>0, <3>3
    <3>4. CASE mu' = mu /\ pc'[h] = "cycle"
      <4>1. pc'[h] \in Critical /\ StepsLeft[pc'[h]] = 2
        BY <1>0, <3>4 DEF Critical
      <4>2. StepsLeft[pc[h]] \in {3, 4}
        BY <1>0, <3>1, <3>2
      <4>3. StepsLeft[pc'[h]] < StepsLeft[pc[h]]
        BY <4>1, <4>2
      <4>q. QED BY <2>0, <3>4, <4>1, <4>3
    <3>q. QED BY <3>1, <3>2, <3>3, <3>4
  <2>4. ASSUME NEW g \in Goroutines,
               NEW load \in Declarations \cup {LoadError},
               ReconcileChanged(g, load) \/ Cycle(g, load)
        PROVE  Advances(h)
    <3>1. /\ mu' = mu
          /\ \/ pc[g] = "reconcile" /\ pc'[g] = "reconcileActivate"
             \/ pc[g] = "cycle" /\ pc'[g] = "activate"
      BY <2>4, Zenon DEF ReconcileChanged, Cycle, TypeOK
    <3>2. g = h
      BY <3>1 DEF LockInv, BuiltOnServed, Critical
    <3>3. pc'[h] \in Critical /\ StepsLeft[pc'[h]] < StepsLeft[pc[h]]
      BY <1>0, <3>1, <3>2 DEF Critical
    <3>q. QED BY <2>0, <3>1, <3>3
  <2>5. ASSUME NEW g \in Goroutines,
               CycleFails(g) \/ Activate(g) \/ ApproveActivate(g)
        PROVE  Advances(h)
    BY <2>0, <2>5 DEF CycleFails, Activate, ApproveActivate
  <2>6. ASSUME NEW g \in Goroutines, Boot(g)
        PROVE  Advances(h)
    BY <2>0, <2>6 DEF Boot, LockInv
  <2>7. CASE SeedFails \/ Tick
    BY <2>1, <2>7 DEF SeedFails, Tick
  <2>8. CASE Crash
    BY <2>0, <2>8 DEF Crash
  <2> HIDE DEF Advances
  <2>q. QED
    BY <2>2, <2>3, <2>4, <2>5, <2>6, <2>7, <2>8 DEF Next, Work
<1>4. TypeOK /\ LockInv /\ HolderInv /\ [Next]_vars
      => [\A g \in Goroutines : mu = g => Advances(g)]_vars
  BY <1>3
<1>q. QED
  BY <1>1, <1>2, <1>4, TypeLock, PTL DEF Spec, HolderAdvances
=============================================================================
