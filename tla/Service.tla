------------------------------ MODULE Service -------------------------------
(***************************************************************************)
(* The manager together with what it works beside: the file of declared    *)
(* anchors, which the operator edits at any time, and the gauges a monitor *)
(* reads.  Every load reads the file as it is at that moment, so an edit   *)
(* may come between the two loads of one Refresh.                          *)
(*                                                                         *)
(* A step here is a step of Manager with the load and the gauges that go   *)
(* with it, or an edit.  A series nobody has set yet reads as zero.        *)
(***************************************************************************)
EXTENDS Manager, Declared

CONSTANTS
  Files,   \* what the operator writes
  TypeOf   \* the type under which the lists have each anchor

ASSUME FilesAssumption ==
  /\ Files \subseteq File
  /\ \A f \in Files, time \in 0 .. MaxTime :
       LoadInternal(f, time) \in Declarations \cup {LoadError}
  /\ \A f \in Files \ {NotConfigured}, time \in 0 .. MaxTime :
       Accepted(f, time)
       => \A e \in Range(f) : Roles(e) \subseteq DeclaredRoles
                               /\ Label(e) \in Labels

ASSUME SeriesAssumption == TypeOf \in [Fingerprints -> TypeNames]

VARIABLES
  file,             \* what INTERNAL_TRUST_SOURCE names
  declaredFailed,   \* gauge trust_declared_source_failed
  gauge,            \* the gauges of the other metrics, by series
  seen,             \* the series in the three ...GaugeSeen maps
  lastGood          \* the file of the last load that succeeded

gauges == <<declaredFailed, gauge, seen>>

serviceVars == <<vars, file, gauges, lastGood>>

SkipReasons == {k[2] : k \in SkippedServices}

\* The series of trust_territory_failed, of the skipped services by territory and
\* reason, and of trust_anchors_total by source, territory and type.
Series ==
  ({"failed"} \X Territories)
  \cup ({"skipped"} \X Territories \X SkipReasons)
  \cup ({"list"} \X Territories \X TypeNames)
  \cup ({"internal"} \X Codes \X TypeNames)

ServiceInit ==
  /\ Init
  /\ file \in Files
  /\ declaredFailed = FALSE
  /\ gauge = [n \in Series |-> 0]
  /\ seen = {}
  /\ lastGood = NotConfigured

-----------------------------------------------------------------------------
\* declaredSet: the gauge tells how the last load went.
Loaded(load) ==
  /\ declaredFailed' = (load = LoadError)
  /\ lastGood' = IF load = LoadError THEN lastGood ELSE file

\* What a snapshot has of a series.
Reading(s, n) ==
  CASE n[1] = "failed"   -> IF s.terr[n[2]].health = "failed" THEN 1 ELSE 0
    [] n[1] = "skipped"  -> Cardinality({k \in Skipped(s.terr[n[2]]) :
                                           k[2] = n[3]})
    [] n[1] = "list"     -> Cardinality({f \in s.terr[n[2]].anchors :
                                           TypeOf[f] = n[3]})
    [] n[1] = "internal" -> Cardinality({r \in DeclaredIn(s) :
                                           /\ s.internal[r].territory = n[2]
                                           /\ r[2] = n[3]})

\* The series a snapshot gives a value: the failure gauge of each of its
\* territories, and a count where there is something to count.
Live(s) ==
  {n \in Series : IF n[1] = "failed" THEN Present(s.terr[n[2]])
                  ELSE Reading(s, n) # 0}

\* Mutant: a gauge made for a new series is not remembered.
SetGaugesForgets(s) ==
  /\ gauge' = [n \in Series |-> IF n \in Live(s) THEN Reading(s, n)
                                ELSE IF n \in seen THEN 0
                                ELSE gauge[n]]
  /\ UNCHANGED seen

\* setAnchorGauges, setTerritoryFailedGauges and setSkippedGauges: a series that
\* was seen and is not in the snapshot drops to zero; one that is in it is set,
\* and remembered as seen.
SetGauges(s) ==
  /\ gauge' = [n \in Series |-> IF n \in Live(s) THEN Reading(s, n)
                                ELSE IF n \in seen THEN 0
                                ELSE gauge[n]]
  /\ seen' = seen \cup Live(s)

-----------------------------------------------------------------------------
\* Mutant: only a cycle reads the file.
ReconcileSkips(g) ==
  /\ ReconcileUnchanged(g, LoadError)
  /\ UNCHANGED <<file, gauges, lastGood>>

\* reconcileDeclared up to the activation; with nothing served it loads nothing.
Reconcile(g) ==
  LET load == LoadInternal(file, now)
  IN  /\ ReconcileUnchanged(g, load) \/ ReconcileChanged(g, load)
      /\ IF prev[g] = NoSnapshot
         THEN UNCHANGED <<declaredFailed, lastGood>>
         ELSE Loaded(load)
      /\ UNCHANGED <<file, gauge, seen>>

\* The ingestion cycle has its own load.
RunCycle(g) ==
  LET load == LoadInternal(file, now)
  IN  /\ Cycle(g, load)
      /\ Loaded(load)
      /\ UNCHANGED <<file, gauge, seen>>

\* Manager.activate.
MakeActive(g) ==
  /\ ReconcileActivate(g) \/ Activate(g) \/ ApproveActivate(g)
  /\ SetGauges(active')
  /\ UNCHANGED <<file, declaredFailed, lastGood>>

\* Initialize activates what it restores.
Start(g) ==
  /\ Boot(g)
  /\ IF stored = NoSnapshot
     THEN UNCHANGED <<gauge, seen>>
     ELSE SetGauges(stored)
  /\ UNCHANGED <<file, declaredFailed, lastGood>>

\* The gauges end with the process.
Die ==
  /\ Crash
  /\ declaredFailed' = FALSE
  /\ gauge' = [n \in Series |-> 0]
  /\ seen' = {}
  /\ UNCHANGED <<file, lastGood>>

\* The operator replaces the file; to set or unset its path takes a restart.
Edit ==
  /\ file' \in Files \ {file}
  /\ NotConfigured \in {file, file'} => phase = "down"
  /\ UNCHANGED <<vars, gauges, lastGood>>

\* Steps without a load or an activation.
Quiet(A) == A /\ UNCHANGED <<file, gauges, lastGood>>

ServiceWork(g) ==
  \/ Reconcile(g)
  \/ Quiet(CycleFails(g) \/ Respond(g))
  \/ RunCycle(g)
  \/ MakeActive(g)

ServiceNext ==
  \/ \E g \in Goroutines :
       \/ Quiet(CallRefresh(g) \/ CallApprove(g) \/ Lock(g))
       \/ ServiceWork(g)
       \/ Start(g)
  \/ Quiet(SeedFails \/ Tick)
  \/ Die
  \/ Edit

ServiceSpec == ServiceInit /\ [][ServiceNext]_serviceVars

\* Besides Manager.Fairness: the refresh task, which does nothing else, calls
\* Refresh again and again, however many approvals there are.
ServiceFairSpec ==
  /\ ServiceSpec
  /\ \A g \in Goroutines : /\ WF_pc(GoesOn(g))
                           /\ SF_serviceVars(Quiet(Lock(g)))
  /\ SF_serviceVars(\E g \in Goroutines : Quiet(CallRefresh(g)))

-----------------------------------------------------------------------------
(***************************************************************************)
(* Properties.                                                             *)
(***************************************************************************)
\* The roles that the entries of a file declare, all of them.
RolesOf(f) ==
  IF f = NotConfigured THEN {} ELSE UNION {Roles(e) : e \in Range(f)}

\* The declared anchors that are served are those of the whole file as it was
\* when it last loaded: not of a part of it, of an older one or of two versions
\* mixed, whatever was edited between the loads of a refresh, whichever cycles
\* failed, and after any restart (LoadInternal: "ANY invalid entry rejects the
\* WHOLE file"; "the caller carries the previous internal set over instead of
\* adopting a partial one").  Only a restart after a save that went wrong can
\* serve an older declaration, and then the gauge shows that the file of now
\* does not load.
DeclaredIsLastGood ==
  /\ phase = "up" /\ mu = Free /\ active # NoSnapshot
  /\ faults = 0 \/ ~declaredFailed
  => DeclaredIn(active) = RolesOf(lastGood)

\* The gauges tell what is served, every series of them, those of earlier
\* snapshots included: a territory that left while it was failed, a type or
\* territory no anchor has any more, a skip that was mended read zero (activate:
\* "the gauges can never lag what is actually served").
GaugesTellServed ==
  \A n \in Series :
    gauge[n] = IF active = NoSnapshot THEN 0 ELSE Reading(active, n)

\* An operator's edit is not lost, upstream reachable or not: once the file stays
\* as it is, it is served, or, when it does not load (an entry that has expired
\* meanwhile included), the failure gauge says so (README: the file is re-read
\* "on every refresh cycle", which works "with the trusted-list upstream
\* unreachable"; the gauge is 1 "while the last load ... failed").
EditIsServedOrShown ==
  <>[][FALSE]_file /\ <>[](phase = "up")
  => <>[](active # NoSnapshot =>
            IF LoadInternal(file, now) = LoadError
            THEN declaredFailed
            ELSE ~declaredFailed /\ DeclaredIn(active) = RolesOf(file))
=============================================================================
