--------------------------- MODULE ServiceProofs ----------------------------
(***************************************************************************)
(* Theorems about the manager together with the operator's file and the    *)
(* gauges, for any files, certificates, territories and goroutines.        *)
(***************************************************************************)
EXTENDS Service, StoreProofs

\* A file that loads declares the roles of all its entries and no other.
LEMMA LoadedRoles ==
  ASSUME NEW f \in Files, NEW time \in 0 .. MaxTime,
         LoadInternal(f, time) # LoadError
  PROVE  {r \in DeclaredRoles : LoadInternal(f, time)[r] # NotDeclared}
           = RolesOf(f)
<1>1. CASE f = NotConfigured
  BY <1>1 DEF LoadInternal, NothingDeclared, RolesOf
<1>2. CASE f # NotConfigured
  <2> DEFINE entries == Range(f)
  <2>1. /\ Accepted(f, time)
        /\ LoadInternal(f, time) = DeclarationOf(entries)
    BY <1>2 DEF LoadInternal
  <2>2. RolesOf(f) = UNION {Roles(e) : e \in entries}
    BY <1>2 DEF RolesOf
  <2>3. \A e \in entries : Roles(e) \subseteq DeclaredRoles /\ Label(e) \in Labels
    BY <1>2, <2>1, FilesAssumption
  <2> HIDE DEF entries
  <2>4. ASSUME NEW r \in DeclaredRoles
        PROVE  DeclarationOf(entries)[r] # NotDeclared
               <=> \E e \in entries : r \in Roles(e)
    <3>1. CASE \E e \in entries : r \in Roles(e)
      <4> DEFINE d == CHOOSE e \in entries : r \in Roles(e)
      <4>1. d \in entries
        BY <3>1
      <4>2. Label(d) # NotDeclared
        BY <2>3, <4>1, SentinelsAssumption
      <4>3. DeclarationOf(entries)[r] = Label(d)
        BY <3>1 DEF DeclarationOf
      <4>q. QED BY <3>1, <4>2, <4>3
    <3>2. CASE ~ \E e \in entries : r \in Roles(e)
      BY <3>2 DEF DeclarationOf
    <3>q. QED BY <3>1, <3>2
  <2>5. ASSUME NEW r
        PROVE  r \in RolesOf(f)
               <=> r \in DeclaredRoles /\ \E e \in entries : r \in Roles(e)
    BY <2>2, <2>3
  <2>q. QED
    BY <2>1, <2>4, <2>5
<1>q. QED BY <1>1, <1>2
-----------------------------------------------------------------------------
(***************************************************************************)
(* The service implements the manager.                                     *)
(***************************************************************************)
\* The file is one that the operator writes.
FileInv == file \in Files

LEMMA FileInductive == FileInv /\ [ServiceNext]_serviceVars => FileInv'
BY DEF FileInv, ServiceNext, serviceVars, Quiet, ServiceWork, Reconcile,
       RunCycle, MakeActive, Start, Die, Edit

\* A step of the service is one of the manager, or leaves the manager alone.
LEMMA StepOfManager ==
  ASSUME TypeOK, FileInv, [ServiceNext]_serviceVars
  PROVE  [Next]_vars
<1>1. LoadInternal(file, now) \in Declarations \cup {LoadError}
  BY FilesAssumption DEF FileInv, TypeOK
<1>2. ASSUME NEW g \in Goroutines, ServiceWork(g)
      PROVE  Work(g)
  BY <1>1, <1>2
  DEF ServiceWork, Reconcile, RunCycle, MakeActive, Quiet, Work
<1>q. QED
  BY <1>2 DEF ServiceNext, serviceVars, Quiet, Start, Die, Edit, Next

LEMMA ServiceTypeLock == ServiceSpec => [](TypeOK /\ LockInv /\ FileInv)
<1>1. ServiceInit => TypeOK /\ LockInv /\ FileInv
  BY InitTypeLock DEF ServiceInit, FileInv
<1>2. TypeOK /\ LockInv /\ FileInv /\ [ServiceNext]_serviceVars
      => (TypeOK /\ LockInv /\ FileInv)'
  BY StepOfManager, FileInductive, TypeInductive, LockInductive
<1>q. QED
  BY <1>1, <1>2, PTL DEF ServiceSpec

\* The manager with the operator's file as its source of declared anchors is
\* the manager whose loads have any outcome: what is proved of that one holds
\* here, the reads of the file (LoadInternal) included.
THEOREM ServiceImplementsManager == ServiceSpec => Spec
<1>1. ServiceInit => Init
  BY DEF ServiceInit
<1>2. TypeOK /\ FileInv /\ [ServiceNext]_serviceVars => [Next]_vars
  BY StepOfManager
<1>q. QED
  BY <1>1, <1>2, ServiceTypeLock, PTL DEF ServiceSpec, Spec
-----------------------------------------------------------------------------
(***************************************************************************)
(* The gauges.                                                             *)
(***************************************************************************)
\* Steps that activate nothing.
LEMMA ActiveStays ==
  ASSUME NEW g \in Goroutines, NEW load,
         \/ CallRefresh(g) \/ CallApprove(g) \/ Lock(g)
         \/ ReconcileUnchanged(g, load) \/ ReconcileChanged(g, load)
         \/ Cycle(g, load) \/ CycleFails(g) \/ Respond(g)
  PROVE  active' = active
BY Zenon DEF CallRefresh, CallApprove, Lock, LockRefresh, ApproveFails, Approve,
       ReconcileUnchanged, ReconcileChanged, Cycle, CycleFails, Respond

\* A series that shows anything is remembered.
SeenInv ==
  /\ \A n \in Series : gauge[n] # 0 => n \in seen
  /\ GaugesTellServed

\* A series without a value in the snapshot has nothing to show.
LEMMA DeadReadsZero ==
  ASSUME NEW s, NEW n \in Series, n \notin Live(s)
  PROVE  Reading(s, n) = 0
BY DEF Live, Reading, Present

LEMMA GaugesSet ==
  ASSUME SeenInv, active' # NoSnapshot, SetGauges(active')
  PROVE  SeenInv'
<1>1. ASSUME NEW n \in Series
      PROVE  gauge'[n] = Reading(active', n)
  <2>1. CASE n \in Live(active')
    BY <2>1 DEF SetGauges
  <2>2. CASE n \notin Live(active')
    <3>1. gauge'[n] = IF n \in seen THEN 0 ELSE gauge[n]
      BY <2>2 DEF SetGauges
    <3>2. gauge'[n] = 0
      BY <3>1 DEF SeenInv
    <3>q. QED BY <2>2, <3>2, DeadReadsZero
  <2>q. QED BY <2>1, <2>2
<1>2. ASSUME NEW n \in Series, gauge'[n] # 0
      PROVE  n \in seen'
  <2>1. n \in Live(active')
    BY <1>1, <1>2, DeadReadsZero
  <2>q. QED BY <2>1 DEF SetGauges
<1>3. GaugesTellServed'
  BY <1>1 DEF GaugesTellServed, Reading
<1>q. QED BY <1>2, <1>3 DEF SeenInv

LEMMA GaugesInductive ==
  ASSUME TypeOK, LockInv, SeenInv, [ServiceNext]_serviceVars
  PROVE  SeenInv'
<1>1. CASE UNCHANGED <<active, gauge, seen>>
  BY <1>1 DEF SeenInv, GaugesTellServed, Reading, Series
<1>2. ASSUME NEW g \in Goroutines, MakeActive(g)
      PROVE  SeenInv'
  <2>1. active' = next[g] /\ next[g] # NoSnapshot
    BY <1>2
    DEF MakeActive, ReconcileActivate, Activate, ApproveActivate, LockInv,
        Activating
  <2>q. QED BY <1>2, <2>1, GaugesSet DEF MakeActive
<1>3. ASSUME NEW g \in Goroutines, Start(g)
      PROVE  SeenInv'
  <2>1. active = NoSnapshot /\ active' = stored
    BY <1>3 DEF Start, Boot, LockInv
  <2>2. CASE stored = NoSnapshot
    BY <1>1, <1>3, <2>1, <2>2 DEF Start
  <2>3. CASE stored # NoSnapshot
    BY <1>3, <2>1, <2>3, GaugesSet DEF Start
  <2>q. QED BY <2>2, <2>3
<1>4. CASE Die
  <2>1. active' = NoSnapshot /\ gauge' = [n \in Series |-> 0]
    BY <1>4 DEF Die, Crash
  <2>q. QED BY <2>1 DEF SeenInv, GaugesTellServed
<1>5. ASSUME NEW g \in Goroutines, Reconcile(g) \/ RunCycle(g)
      PROVE  UNCHANGED <<active, gauge, seen>>
  BY <1>5, ActiveStays DEF Reconcile, RunCycle
<1>6. ASSUME NEW g \in Goroutines,
             Quiet(CallRefresh(g) \/ CallApprove(g) \/ Lock(g))
             \/ Quiet(CycleFails(g) \/ Respond(g))
      PROVE  UNCHANGED <<active, gauge, seen>>
  BY <1>6, ActiveStays DEF Quiet, gauges
<1>7. CASE Edit \/ UNCHANGED serviceVars
  BY <1>1, <1>7 DEF Edit, serviceVars, vars, gauges
<1>8. CASE Quiet(SeedFails \/ Tick)
  BY <1>1, <1>8 DEF Quiet, SeedFails, Tick, gauges
<1>q. QED
  BY <1>1, <1>2, <1>3, <1>4, <1>5, <1>6, <1>7, <1>8
  DEF ServiceNext, ServiceWork

\* The gauges tell what is served, through every activation, restart and crash:
\* every series a snapshot ever had is zeroed once it is gone, because the maps of
\* series seen miss none that shows a value (setTerritoryFailedGauges,
\* setSkippedGauges, setAnchorGauges, Manager.activate).
THEOREM GaugesFollow == ServiceSpec => []GaugesTellServed
<1>1. ServiceInit => SeenInv
  BY DEF ServiceInit, Init, SeenInv, GaugesTellServed
<1>2. TypeOK /\ LockInv /\ SeenInv /\ [ServiceNext]_serviceVars => SeenInv'
  BY GaugesInductive
<1>3. SeenInv => GaugesTellServed
  BY DEF SeenInv
<1>q. QED
  BY <1>1, <1>2, <1>3, ServiceTypeLock, PTL DEF ServiceSpec
-----------------------------------------------------------------------------
(***************************************************************************)
(* The declared anchors.                                                   *)
(***************************************************************************)
\* As long as no save went wrong, the last one did not.
CleanInv == faults = 0 => ~behind

LEMMA FaultsGrow ==
  ASSUME TypeOK, [Next]_vars, faults' = 0
  PROVE  faults = 0 /\ (~behind => ~behind')
<1> DEFINE Clean == faults = 0 /\ (~behind => ~behind')
<1>1. ASSUME NEW outcome, Count(outcome)
      PROVE  faults = 0 /\ outcome = "ok"
  BY <1>1 DEF Count, TypeOK
<1>2. ASSUME NEW s, NEW outcome, SaveSnapshot(s, outcome)
      PROVE  Clean
  <2>1. faults = 0 /\ outcome = "ok"
    BY <1>1, <1>2 DEF SaveSnapshot
  <2>2. ~behind'
    BY <1>2, <2>1, Zenon DEF SaveSnapshot
  <2>q. QED BY <2>1, <2>2
<1>3. ASSUME UNCHANGED <<faults, behind>>
      PROVE  Clean
  BY <1>3
<1> HIDE DEF Clean
<1>4. ASSUME NEW g \in Goroutines, Work(g)
      PROVE  Clean
  <2>1. ASSUME NEW load \in Declarations \cup {LoadError},
               \/ ReconcileUnchanged(g, load)
               \/ ReconcileChanged(g, load)
               \/ Cycle(g, load)
        PROVE  Clean
    BY <1>2, <1>3, <2>1, Zenon
    DEF ReconcileUnchanged, ReconcileChanged, Cycle
  <2>2. CASE \/ ReconcileActivate(g) \/ CycleFails(g) \/ Activate(g)
             \/ Respond(g) \/ ApproveActivate(g)
    BY <1>3, <2>2, Zenon
    DEF ReconcileActivate, CycleFails, Activate, Respond, ApproveActivate
  <2>q. QED BY <1>4, <2>1, <2>2, Zenon DEF Work
<1>5. ASSUME NEW g \in Goroutines, Lock(g)
      PROVE  Clean
  BY <1>2, <1>3, <1>5, Zenon DEF Lock, LockRefresh, ApproveFails, Approve
<1>6. ASSUME NEW g \in Goroutines, CallRefresh(g) \/ CallApprove(g)
      PROVE  Clean
  BY <1>3, <1>6, Zenon DEF CallRefresh, CallApprove
<1>7. ASSUME NEW g \in Goroutines, Boot(g)
      PROVE  Clean
  BY <1>7 DEF Boot, Clean
<1>8. ASSUME SeedFails
      PROVE  Clean
  BY <1>1, <1>8 DEF SeedFails, Clean
<1>9. ASSUME Crash \/ Tick
      PROVE  Clean
  BY <1>3, <1>9 DEF Crash, Tick
<1>10. Clean
  <2>1. ASSUME NEW g \in Goroutines,
               \/ CallRefresh(g) \/ CallApprove(g)
               \/ Lock(g) \/ Work(g) \/ Boot(g)
        PROVE  Clean
    BY <1>4, <1>5, <1>6, <1>7, <2>1, Zenon
  <2>2. CASE UNCHANGED vars
    BY <1>3, <2>2 DEF vars
  <2>3. CASE Next
    BY <1>8, <1>9, <2>1, <2>3, Zenon DEF Next
  <2>q. QED BY <2>2, <2>3, Zenon
<1>q. QED BY <1>10 DEF Clean

LEMMA CleanInductive ==
  ASSUME TypeOK, CleanInv, [Next]_vars
  PROVE  CleanInv'
BY FaultsGrow, Zenon DEF CleanInv

\* As long as no save went wrong, the store has the declaration of the file that
\* was the last to load.
LastGoodInv ==
  faults = 0
  => RolesOf(lastGood) = IF stored = NoSnapshot THEN {} ELSE DeclaredIn(stored)

\* Two snapshots a restart may not tell apart declare the same.
LEMMA SameDeclared ==
  ASSUME NEW s, NEW r, ComputeID(s) = ComputeID(r)
  PROVE  DeclaredIn(s) = DeclaredIn(r)
BY DEF ComputeID

\* What a load makes of the declaration of s, or of none.
LEMMA DeclaredSetRoles ==
  ASSUME FileInv, TypeOK, NEW s, NEW r,
         s.internal = DeclaredSet(r, LoadInternal(file, now)),
         Loaded(LoadInternal(file, now)),
         RolesOf(lastGood) = IF r = NoSnapshot THEN {} ELSE DeclaredIn(r)
  PROVE  DeclaredIn(s) = RolesOf(lastGood')
<1>1. CASE LoadInternal(file, now) = LoadError
  BY <1>1 DEF DeclaredSet, Loaded, DeclaredIn, NothingDeclared
<1>2. CASE LoadInternal(file, now) # LoadError
  <2>1. lastGood' = file /\ s.internal = LoadInternal(file, now)
    BY <1>2 DEF DeclaredSet, Loaded
  <2>2. {r0 \in DeclaredRoles : LoadInternal(file, now)[r0] # NotDeclared}
          = RolesOf(file)
    BY <1>2, LoadedRoles DEF FileInv, TypeOK
  <2>q. QED BY <2>1, <2>2 DEF DeclaredIn
<1>q. QED BY <1>1, <1>2

\* Whoever builds on the served snapshot while no other goroutine has built one
\* builds on the declaration of the last file that loaded.
LEMMA ServedIsLastGood ==
  ASSUME PersistInv, EmptyInv, LastGoodInv, CleanInv, faults = 0, phase # "down",
         \A g \in Goroutines : pc[g] \notin Activating
  PROVE  RolesOf(lastGood) = IF active = NoSnapshot THEN {}
                             ELSE DeclaredIn(active)
<1>1. CASE active = NoSnapshot
  BY <1>1 DEF EmptyInv, LastGoodInv
<1>2. CASE active # NoSnapshot
  <2>1. stored # NoSnapshot /\ ComputeID(stored) = ComputeID(active)
    BY <1>2 DEF CleanInv, PersistInv, Saved, SameState
  <2>q. QED BY <1>2, <2>1, SameDeclared DEF LastGoodInv
<1>q. QED BY <1>1, <1>2

LEMMA LastGoodInductive ==
  ASSUME TypeOK, LockInv, FileInv, PersistInv, EmptyInv, CleanInv, LastGoodInv,
         PersistInv', [Next]_vars, [ServiceNext]_serviceVars
  PROVE  LastGoodInv'
<1> SUFFICES ASSUME faults' = 0
             PROVE  RolesOf(lastGood') = IF stored' = NoSnapshot THEN {}
                                         ELSE DeclaredIn(stored')
  BY DEF LastGoodInv, DeclaredIn
<1>0. faults = 0
  BY FaultsGrow
<1>c. ~behind'
  BY CleanInductive, Zenon DEF CleanInv
<1> USE DEF Goto, Unlock
<1>1. ASSUME UNCHANGED <<stored, lastGood>>
      PROVE  LastGoodInv'
  BY <1>0, <1>1 DEF LastGoodInv, DeclaredIn
\* A snapshot with the declaration of this load waits to be activated.
<1>2. ASSUME NEW g \in Goroutines, pc'[g] \in Activating,
             DeclaredIn(next'[g]) = RolesOf(lastGood')
      PROVE  LastGoodInv'
  <2>1. stored' # NoSnapshot /\ ComputeID(stored') = ComputeID(next'[g])
    BY <1>2, <1>c DEF PersistInv, Saved, SameState
  <2>q. QED BY <1>2, <2>1, SameDeclared DEF LastGoodInv
<1>3. ASSUME NEW g \in Goroutines, pc[g] \in {"reconcile", "cycle"}
      PROVE  /\ prev[g] = active
             /\ RolesOf(lastGood) = IF prev[g] = NoSnapshot THEN {}
                                    ELSE DeclaredIn(prev[g])
  <2>1. pc[g] \in Critical /\ pc[g] \notin Activating
    BY <1>3 DEF Critical, Activating
  <2>2. prev[g] = active
    BY <2>1 DEF LockInv, BuiltOnServed
  <2>3. \A h \in Goroutines : pc[h] \notin Activating
    BY <2>1, OnlyOneCritical
  <2>4. phase # "down"
    BY <1>3 DEF LockInv
  <2>q. QED BY <1>0, <2>2, <2>3, <2>4, ServedIsLastGood
<1> DEFINE load == LoadInternal(file, now)
<1>4. ASSUME NEW g \in Goroutines, Reconcile(g)
      PROVE  LastGoodInv'
  <2>1. pc[g] = "reconcile"
    BY <1>4 DEF Reconcile, ReconcileUnchanged, ReconcileChanged
  <2>2. CASE prev[g] = NoSnapshot
    BY <1>1, <1>4, <2>2, Zenon
    DEF Reconcile, ReconcileUnchanged, ReconcileChanged
  <2>3. CASE prev[g] # NoSnapshot
    <3> DEFINE r == RefreshDeclared(prev[g], load)
    <3>1. prev[g] \in SnapshotType
      BY <2>3 DEF TypeOK, SnapshotOrNil
    <3>2. r.internal = DeclaredSet(prev[g], load)
      BY <3>1 DEF RefreshDeclared, SnapshotType
    <3>3. Loaded(load)
      BY <1>4, <2>3 DEF Reconcile
    <3>4. DeclaredIn(r) = RolesOf(lastGood')
      BY <1>3, <2>1, <3>2, <3>3, DeclaredSetRoles, Zenon
    <3>5. CASE ReconcileUnchanged(g, load)
      <4>1. ComputeID(r) = ComputeID(prev[g]) /\ stored' = stored
        BY <2>3, <3>5, Zenon DEF ReconcileUnchanged
      <4>2. RolesOf(lastGood') = RolesOf(lastGood)
        BY <1>3, <2>1, <2>3, <3>4, <4>1, SameDeclared, Zenon
      <4>q. QED BY <1>0, <4>1, <4>2 DEF LastGoodInv, DeclaredIn
    <3>6. CASE ReconcileChanged(g, load)
      <4>1. pc'[g] \in Activating /\ next'[g] = r
        BY <3>6 DEF ReconcileChanged, TypeOK, Activating
      <4>q. QED BY <1>2, <3>4, <4>1, Zenon
    <3>q. QED BY <1>4, <3>5, <3>6 DEF Reconcile
  <2>q. QED BY <2>2, <2>3
<1>5. ASSUME NEW g \in Goroutines, RunCycle(g)
      PROVE  LastGoodInv'
  <2>1. Cycle(g, load) /\ Loaded(load)
    BY <1>5 DEF RunCycle
  <2>2. pc[g] = "cycle" /\ pc'[g] \in Activating
    BY <2>1 DEF Cycle, TypeOK, Activating
  <2>3. PICK lotl \in LOTLResults(prev[g]) :
          \E terr \in TerritoryResults(lotl.pointers, prev[g], now) :
            next' = [next EXCEPT ![g] =
                       BuildSnapshot(lotl, terr, load, prev[g], now)]
    BY <2>1 DEF Cycle
  <2>4. PICK terr \in TerritoryResults(lotl.pointers, prev[g], now) :
          next' = [next EXCEPT ![g] =
                     BuildSnapshot(lotl, terr, load, prev[g], now)]
    BY <2>3
  <2>5. next'[g].internal = DeclaredSet(prev[g], load)
    BY <2>4 DEF TypeOK, BuildSnapshot
  <2>6. DeclaredIn(next'[g]) = RolesOf(lastGood')
    BY <1>3, <2>1, <2>2, <2>5, DeclaredSetRoles
  <2>q. QED BY <1>2, <2>2, <2>6
<1>6. ASSUME NEW g \in Goroutines, Quiet(Approve(g))
      PROVE  LastGoodInv'
  <2>1. PICK p \in active.pending :
          next' = [next EXCEPT ![g] = Approved(active, p)]
    BY <1>6 DEF Quiet, Approve
  <2>2. active \in SnapshotType /\ active # NoSnapshot
    BY <1>6 DEF Quiet, Approve, TypeOK, SnapshotOrNil
  <2>3. next'[g].internal = active.internal
    BY <2>1, <2>2, ApprovedType DEF TypeOK
  <2>4. phase # "down" /\ \A h \in Goroutines : pc[h] \notin Activating
    BY <1>6, ManagerAssumption
    DEF Quiet, Approve, LockInv, BuiltOnServed, Critical, Activating
  <2>5. DeclaredIn(next'[g]) = RolesOf(lastGood)
    BY <1>0, <2>2, <2>3, <2>4, ServedIsLastGood DEF DeclaredIn
  <2>q. QED
    BY <1>2, <1>6, <2>5 DEF Quiet, Approve, TypeOK, Activating
<1>7. ASSUME NEW g \in Goroutines, Quiet(ApproveFails(g))
      PROVE  LastGoodInv'
  <2>1. ASSUME NEW s, NEW outcome \in Faults, SaveSnapshot(s, outcome)
        PROVE  FALSE
    BY <2>1, ManagerAssumption DEF SaveSnapshot, Count, Faults, TypeOK
  <2>q. QED BY <1>1, <1>7, <2>1 DEF Quiet, ApproveFails
<1>8. ASSUME NEW g \in Goroutines,
             \/ Quiet(CallRefresh(g) \/ CallApprove(g) \/ LockRefresh(g))
             \/ Quiet(CycleFails(g) \/ Respond(g))
             \/ MakeActive(g)
             \/ Start(g)
      PROVE  LastGoodInv'
  <2>1. UNCHANGED lastGood
    BY <1>8 DEF Quiet, MakeActive, Start
  <2>2. UNCHANGED stored
    BY <1>8
    DEF Quiet, CallRefresh, CallApprove, LockRefresh, CycleFails, Respond,
        MakeActive, ReconcileActivate, Activate, ApproveActivate, Start, Boot
  <2>q. QED BY <1>1, <2>1, <2>2
<1>9. ASSUME Quiet(SeedFails \/ Tick) \/ Die \/ Edit \/ UNCHANGED serviceVars
      PROVE  LastGoodInv'
  <2>1. UNCHANGED lastGood
    BY <1>9 DEF Quiet, Die, Edit, serviceVars
  <2>2. UNCHANGED stored
    BY <1>9 DEF Quiet, SeedFails, Tick, Die, Crash, Edit, serviceVars, vars
  <2>q. QED BY <1>1, <2>1, <2>2
<1>10. ASSUME NEW g \in Goroutines,
              Quiet(CallRefresh(g) \/ CallApprove(g) \/ Lock(g))
       PROVE  LastGoodInv'
  BY <1>6, <1>7, <1>8, <1>10 DEF Quiet, Lock
<1>11. LastGoodInv'
  BY <1>4, <1>5, <1>8, <1>9, <1>10 DEF ServiceNext, ServiceWork
<1>q. QED BY <1>11 DEF LastGoodInv

\* Until the boot sequence has reconciled, it has the mutex.
BootInv ==
  phase = "boot"
  => mu \in Goroutines /\ pc[mu] \in {"reconcile", "reconcileActivate"}

LEMMA BootInductive ==
  ASSUME TypeOK, LockInv, BootInv, [Next]_vars
  PROVE  BootInv'
<1> USE DEF Goto, Unlock
<1>1. ASSUME NEW g \in Goroutines, NEW load,
             \/ CallRefresh(g) \/ CallApprove(g) \/ LockRefresh(g)
             \/ ApproveFails(g) \/ Approve(g) \/ Respond(g)
      PROVE  BootInv'
  BY <1>1, ManagerAssumption
  DEF CallRefresh, CallApprove, LockRefresh, ApproveFails, Approve, Respond,
      TypeOK, BootInv
<1>2. ASSUME NEW g \in Goroutines, pc[g] \in Critical
      PROVE  mu = g
  BY <1>2 DEF LockInv, BuiltOnServed
<1>3. ASSUME NEW g \in Goroutines, NEW load,
             ReconcileUnchanged(g, load) \/ ReconcileActivate(g)
      PROVE  phase' # "boot"
  BY <1>3 DEF ReconcileUnchanged, ReconcileActivate, AfterReconcile
<1>4. ASSUME NEW g \in Goroutines, NEW load, ReconcileChanged(g, load)
      PROVE  BootInv'
  <2>1. /\ phase' = phase /\ mu' = mu
        /\ pc[g] \in Critical /\ pc'[g] = "reconcileActivate"
    BY <1>4, Zenon DEF ReconcileChanged, Critical, TypeOK
  <2>q. QED BY <1>2, <2>1 DEF BootInv
<1>5. ASSUME NEW g \in Goroutines, NEW load,
             CycleFails(g) \/ Cycle(g, load) \/ Activate(g)
             \/ ApproveActivate(g)
      PROVE  phase' # "boot"
  <2>1. phase' = phase /\ pc[g] \in {"cycle", "activate", "approveActivate"}
    BY <1>5, Zenon DEF CycleFails, Cycle, Activate, ApproveActivate
  <2>q. QED BY <1>2, <2>1 DEF BootInv, Critical
<1>6. ASSUME NEW g \in Goroutines, Boot(g)
      PROVE  BootInv'
  BY <1>6 DEF Boot, TypeOK, BootInv
<1>7. CASE SeedFails \/ Crash \/ Tick \/ UNCHANGED vars
  BY <1>7 DEF SeedFails, Crash, Tick, vars, BootInv
<1>q. QED
  BY <1>1, <1>3, <1>4, <1>5, <1>6, <1>7 DEF Next, Work, Lock, BootInv

\* Whatever saves went wrong, as long as the gauge shows no failed load, what is
\* served, or waits to be, is the declaration of the last file that loaded.
ShownInv ==
  ~declaredFailed
  => /\ phase = "up" /\ active # NoSnapshot
        /\ (\A g \in Goroutines : pc[g] \notin Activating)
        => DeclaredIn(active) = RolesOf(lastGood)
     /\ \A g \in Goroutines :
          pc[g] \in Activating => DeclaredIn(next[g]) = RolesOf(lastGood)

\* A load that succeeds declares the roles of the file.
LEMMA LoadDeclares ==
  ASSUME FileInv, TypeOK, NEW s, NEW r,
         s.internal = DeclaredSet(r, LoadInternal(file, now)),
         Loaded(LoadInternal(file, now)), ~declaredFailed'
  PROVE  DeclaredIn(s) = RolesOf(lastGood')
<1>1. LoadInternal(file, now) # LoadError
  BY DEF Loaded
<1>2. lastGood' = file /\ s.internal = LoadInternal(file, now)
  BY <1>1 DEF DeclaredSet, Loaded
<1>3. {r0 \in DeclaredRoles : LoadInternal(file, now)[r0] # NotDeclared}
        = RolesOf(file)
  BY <1>1, LoadedRoles DEF FileInv, TypeOK
<1>q. QED BY <1>2, <1>3 DEF DeclaredIn

LEMMA ShownInductive ==
  ASSUME TypeOK, LockInv, BootInv, FileInv, ShownInv,
         [ServiceNext]_serviceVars
  PROVE  ShownInv'
<1> USE DEF Goto, Unlock
<1> DEFINE load == LoadInternal(file, now)
           Shown == /\ phase' = "up" /\ active' # NoSnapshot
                       /\ (\A h \in Goroutines : pc'[h] \notin Activating)
                       => DeclaredIn(active') = RolesOf(lastGood')
                    /\ \A h \in Goroutines :
                         pc'[h] \in Activating
                         => DeclaredIn(next'[h]) = RolesOf(lastGood')
<1> SUFFICES ASSUME ~declaredFailed'
             PROVE  Shown
  BY DEF ShownInv, DeclaredIn
\* Nothing is loaded, built or activated.
<1>q1. ASSUME UNCHANGED <<active, lastGood, declaredFailed>>,
              phase' = phase \/ phase' # "up" \/ active = NoSnapshot,
              NEW g \in Goroutines, pc[g] \notin Activating,
              pc'[g] \notin Activating,
              \A h \in Goroutines \ {g} : pc'[h] = pc[h] /\ next'[h] = next[h]
       PROVE  Shown
  BY <1>q1 DEF ShownInv, DeclaredIn
\* A snapshot with the declaration of this load waits to be activated.
<1>q2. ASSUME NEW g \in Goroutines, pc'[g] \in Activating,
              DeclaredIn(next'[g]) = RolesOf(lastGood'),
              \A h \in Goroutines \ {g} :
                pc'[h] = pc[h] /\ pc[h] \notin Activating
       PROVE  Shown
  BY <1>q2
\* A process that is down.
<1>q3. ASSUME phase' # "up", \A h \in Goroutines : pc'[h] \notin Activating
       PROVE  Shown
  BY <1>q3
<1> HIDE DEF Shown
<1>c. ASSUME NEW g \in Goroutines, pc[g] \in Critical
      PROVE  \A h \in Goroutines \ {g} : pc[h] \notin Activating
  BY <1>c, OnlyOneCritical
<1>1. ASSUME NEW g \in Goroutines, Reconcile(g)
      PROVE  Shown
  <2>1. CASE prev[g] = NoSnapshot
    <3>1. /\ ReconcileUnchanged(g, load)
          /\ UNCHANGED <<declaredFailed, lastGood>>
      BY <1>1, <2>1, Zenon DEF Reconcile, ReconcileChanged
    <3>2. active = NoSnapshot
      BY <2>1, <3>1 DEF ReconcileUnchanged, LockInv, BuiltOnServed, Critical
    <3>q. QED
      BY <1>q1, <3>1, <3>2
      DEF ReconcileUnchanged, AfterReconcile, Forget, TypeOK, Activating
  <2>2. CASE prev[g] # NoSnapshot
    <3> DEFINE r == RefreshDeclared(prev[g], load)
    <3>1. prev[g] \in SnapshotType /\ Loaded(load)
      BY <1>1, <2>2 DEF TypeOK, SnapshotOrNil, Reconcile
    <3>2. r.internal = DeclaredSet(prev[g], load)
      BY <3>1 DEF RefreshDeclared, SnapshotType
    <3>3. DeclaredIn(r) = RolesOf(lastGood')
      BY <3>1, <3>2, LoadDeclares
    <3> HIDE DEF r
    <3>4. CASE ReconcileUnchanged(g, load)
      <4>1. ComputeID(r) = ComputeID(prev[g]) /\ active' = active
        BY <2>2, <3>4, Zenon DEF ReconcileUnchanged, r
      <4>2. pc[g] \in Critical /\ prev[g] = active
        BY <3>4 DEF ReconcileUnchanged, LockInv, BuiltOnServed, Critical
      <4>3. DeclaredIn(active') = RolesOf(lastGood')
        BY <3>3, <4>1, <4>2, SameDeclared, Zenon
      <4>4. \A h \in Goroutines : pc'[h] \notin Activating
        BY <1>c, <3>4, <4>2
        DEF ReconcileUnchanged, AfterReconcile, TypeOK, Activating
      <4>q. QED BY <4>3, <4>4 DEF Shown
    <3>5. CASE ReconcileChanged(g, load)
      <4>1. /\ pc[g] \in Critical /\ pc'[g] \in Activating
            /\ next'[g] = r
            /\ \A h \in Goroutines \ {g} : pc'[h] = pc[h]
        BY <3>5, Zenon DEF ReconcileChanged, TypeOK, Activating, Critical, r
      <4>q. QED BY <1>c, <1>q2, <3>3, <4>1
    <3>q. QED BY <1>1, <3>4, <3>5 DEF Reconcile
  <2>q. QED BY <2>1, <2>2
<1>2. ASSUME NEW g \in Goroutines, RunCycle(g)
      PROVE  Shown
  <2>1. Cycle(g, load) /\ Loaded(load)
    BY <1>2 DEF RunCycle
  <2>2. PICK lotl \in LOTLResults(prev[g]) :
          \E terr \in TerritoryResults(lotl.pointers, prev[g], now) :
            next' = [next EXCEPT ![g] =
                       BuildSnapshot(lotl, terr, load, prev[g], now)]
    BY <2>1 DEF Cycle
  <2>3. PICK terr \in TerritoryResults(lotl.pointers, prev[g], now) :
          next' = [next EXCEPT ![g] =
                     BuildSnapshot(lotl, terr, load, prev[g], now)]
    BY <2>2
  <2>4. next'[g].internal = DeclaredSet(prev[g], load)
    BY <2>3 DEF TypeOK, BuildSnapshot
  <2>5. DeclaredIn(next'[g]) = RolesOf(lastGood')
    BY <2>1, <2>4, LoadDeclares
  <2>6. /\ pc[g] \in Critical /\ pc'[g] \in Activating
        /\ \A h \in Goroutines \ {g} : pc'[h] = pc[h]
    BY <2>1, Zenon DEF Cycle, TypeOK, Activating, Critical
  <2>q. QED BY <1>c, <1>q2, <2>5, <2>6
<1>3. ASSUME NEW g \in Goroutines, MakeActive(g)
      PROVE  Shown
  <2>1. /\ pc[g] \in Activating /\ pc[g] \in Critical
        /\ active' = next[g] /\ UNCHANGED <<lastGood, declaredFailed>>
        /\ pc'[g] \notin Activating
        /\ \A h \in Goroutines \ {g} : pc'[h] = pc[h]
    BY <1>3, Zenon
    DEF MakeActive, ReconcileActivate, Activate, ApproveActivate,
        AfterReconcile, TypeOK, Activating, Critical
  <2>2. DeclaredIn(active') = RolesOf(lastGood')
    BY <2>1 DEF ShownInv
  <2>3. \A h \in Goroutines : pc'[h] \notin Activating
    BY <1>c, <2>1
  <2>q. QED BY <2>2, <2>3 DEF Shown
<1>4. ASSUME NEW g \in Goroutines, Quiet(Approve(g))
      PROVE  Shown
  <2>1. PICK p \in active.pending :
          next' = [next EXCEPT ![g] = Approved(active, p)]
    BY <1>4 DEF Quiet, Approve
  <2>2. active \in SnapshotType /\ active # NoSnapshot
    BY <1>4 DEF Quiet, Approve, TypeOK, SnapshotOrNil
  <2>3. next'[g].internal = active.internal
    BY <2>1, <2>2, ApprovedType DEF TypeOK
  <2>4. phase = "up" /\ \A h \in Goroutines : pc[h] \notin Activating
    BY <1>4, ManagerAssumption
    DEF Quiet, Approve, LockInv, BootInv, BuiltOnServed, Critical, Activating,
        TypeOK
  <2>5. /\ UNCHANGED <<lastGood, declaredFailed>>
        /\ pc'[g] \in Activating
        /\ \A h \in Goroutines \ {g} : pc'[h] = pc[h]
    BY <1>4, Zenon DEF Quiet, gauges, Approve, TypeOK, Activating
  <2>6. DeclaredIn(next'[g]) = RolesOf(lastGood')
    BY <2>2, <2>3, <2>4, <2>5 DEF ShownInv, DeclaredIn
  <2>q. QED BY <1>q2, <2>4, <2>5, <2>6
<1>5. ASSUME NEW g \in Goroutines,
             \/ Quiet(CallRefresh(g) \/ CallApprove(g) \/ LockRefresh(g))
             \/ Quiet(ApproveFails(g)) \/ Quiet(CycleFails(g) \/ Respond(g))
      PROVE  Shown
  <2>1. /\ UNCHANGED <<active, phase, lastGood, declaredFailed>>
        /\ pc[g] \notin Activating /\ pc'[g] \notin Activating
        /\ \A h \in Goroutines \ {g} : pc'[h] = pc[h] /\ next'[h] = next[h]
    BY <1>5, Zenon
    DEF Quiet, gauges, CallRefresh, CallApprove, LockRefresh, ApproveFails,
        CycleFails, Respond, Forget, TypeOK, Activating
  <2>q. QED BY <1>q1, <2>1
<1>6. ASSUME NEW g \in Goroutines, Start(g)
      PROVE  Shown
  <2>1. \A h \in Goroutines : pc'[h] \notin Activating
    BY <1>6 DEF Start, Boot, LockInv, TypeOK, Activating
  <2>2. phase' # "up" \/ active' = NoSnapshot
    BY <1>6 DEF Start, Boot
  <2>q. QED BY <2>1, <2>2 DEF Shown
<1>7. CASE Die
  BY <1>7, <1>q3 DEF Die, Crash, Activating
<1>8. CASE Quiet(SeedFails \/ Tick) \/ Edit \/ UNCHANGED serviceVars
  <2>1. UNCHANGED <<active, phase, lastGood, declaredFailed, pc, next>>
    BY <1>8, Zenon
    DEF Quiet, gauges, SeedFails, Tick, Edit, serviceVars, vars
  <2>q. QED BY <2>1 DEF ShownInv, Shown, DeclaredIn
<1>q. QED
  BY <1>1, <1>2, <1>3, <1>4, <1>5, <1>6, <1>7, <1>8
  DEF ServiceNext, ServiceWork, Quiet, Lock

\* The declared anchors that are served are those of the whole file as it was
\* when it last loaded, for any files, edits, expiries, failed cycles and
\* restarts; after a save that went wrong, unless the gauge shows a failed load
\* (LoadInternal, Pipeline.declaredSet, Manager.reconcileDeclared).
THEOREM DeclaredFollowsFile == ServiceSpec => []DeclaredIsLastGood
<1>1. ServiceInit => PersistInv /\ EmptyInv /\ CleanInv /\ LastGoodInv
                     /\ BootInv /\ ShownInv
  BY DEF ServiceInit, Init, PersistInv, EmptyInv, CleanInv, LastGoodInv,
         BootInv, ShownInv, RolesOf, Activating
<1>2. ASSUME TypeOK, LockInv, GoodInv, FileInv, PersistInv, EmptyInv,
             CleanInv, LastGoodInv, BootInv, ShownInv, [ServiceNext]_serviceVars
      PROVE  (PersistInv /\ EmptyInv /\ CleanInv /\ LastGoodInv /\ BootInv
              /\ ShownInv)'
  <2>1. [Next]_vars
    BY <1>2, StepOfManager
  <2>q. QED
    BY <1>2, <2>1, PersistInductive, EmptyInductive, CleanInductive,
       LastGoodInductive, BootInductive, ShownInductive
<1>3. TypeOK /\ LockInv /\ PersistInv /\ EmptyInv /\ CleanInv /\ LastGoodInv
      /\ ShownInv
      => DeclaredIsLastGood
  <2> SUFFICES ASSUME TypeOK, LockInv, PersistInv, EmptyInv, CleanInv, LastGoodInv,
                      ShownInv, phase = "up", mu = Free, active # NoSnapshot,
                      faults = 0 \/ ~declaredFailed
               PROVE  DeclaredIn(active) = RolesOf(lastGood)
    BY Zenon DEF DeclaredIsLastGood
  <2>1. \A g \in Goroutines : pc[g] \notin Activating
    BY ManagerAssumption DEF LockInv, BuiltOnServed, Critical, Activating
  <2>2. CASE faults = 0
    BY <2>1, <2>2, ServedIsLastGood
  <2>3. CASE ~declaredFailed
    BY <2>1, <2>3 DEF ShownInv
  <2>q. QED BY <2>2, <2>3
<1>4. ServiceSpec => [](TypeOK /\ LockInv /\ GoodInv)
  BY ServiceImplementsManager, TypeLockGood
<1>q. QED
  BY <1>1, <1>2, <1>3, <1>4, ServiceTypeLock, PTL DEF ServiceSpec
=============================================================================
