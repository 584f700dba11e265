------------------------------ MODULE Pipeline ------------------------------
(***************************************************************************)
(* One ingestion cycle (ingest/pipeline.go with its two list adapters,     *)
(* ingest/source_lotl.go and ingest/source_national.go) as operators: from *)
(* the previous snapshot and what upstream answers to the next snapshot,   *)
(* or to no snapshot when the cycle fails.                                 *)
(*                                                                         *)
(* Upstream is unconstrained: a request may fail, a download may be any    *)
(* list (an older one included: caches and mirrors answer too) and the     *)
(* ".sha2" file beside a list may name any list.  What verification of the *)
(* list of the lists accepts is the subject of LotlChain; here it accepts  *)
(* any list of Lotls or fails.                                             *)
(***************************************************************************)
EXTENDS Snapshot

CONSTANTS
  Lists,            \* trusted lists a territory's location can answer with
  Lotls,            \* lists of the lists that verification can accept
  Declarations,     \* declarations the operator's file can hold
  Configured,       \* TRUST_TERRITORIES: the codes named one by one
  EUGroup,          \* TRUST_TERRITORIES names the EU group
  ActivationMode,   \* TRUST_ACTIVATION_MODE: "auto" or "hold"
  HoldAutoRelease,  \* TRUST_HOLD_AUTO_RELEASE, zero to switch it off
  StaleGrace,       \* TRUST_STALE_GRACE
  LoadError         \* the declaration file does not load

ASSUME PipelineAssumption ==
  /\ Lists \subseteq TrustedList
  /\ Lotls \subseteq LOTL
  /\ Declarations \subseteq Declaration
  /\ LoadError \notin Declaration
  /\ Configured \subseteq Territories
  /\ EUGroup \in BOOLEAN
  /\ ActivationMode \in {"auto", "hold"}
  /\ HoldAutoRelease \in Nat
  /\ StaleGrace \in Nat

-----------------------------------------------------------------------------
\* Mutant: no regression check.
LOTLResultsAny(prev) == Lotls

\* ingestLOTL and the regression check: a list carried over on a ".sha2"
\* match, or an accepted one whose sequence number does not go back.
LOTLResults(prev) ==
  IF prev = NoSnapshot THEN Lotls
  ELSE {prev.lotl} \cup {l \in Lotls : l.seq >= prev.lotl.seq}

ExpandTerritories(pointers) ==
  Configured \cup (IF EUGroup THEN pointers ELSE {})

\* prevFresh: the only state in which a ".sha2" match replaces the download.
PrevFresh(e, time) ==
  /\ e.list # NoList
  /\ e.list.nextUpdate # NoDate
  /\ ~StaleAt(e, time, StaleGrace)

\* The ErrUnchanged branch: everything but the health is the previous entry.
Reused(e) == [e EXCEPT !.health = "fresh"]

Downloaded(l) ==
  [health |-> "fresh", list |-> l, anchors |-> l.anchors, reason |-> NoReason]

\* Mutant: no regression check.
FetchTerritoryAny(pointers, t, prev, time) ==
  IF t \notin pointers THEN {} ELSE {Downloaded(l) : l \in Lists}

CarriedOver(e, r) == [e EXCEPT !.health = "carried", !.reason = r]

Failed(r) ==
  [health |-> "failed", list |-> NoList, anchors |-> {}, reason |-> r]

\* fetchTerritory: the entries a fetch that succeeds can return.
FetchTerritory(pointers, t, prev, time) ==
  LET e == EntryOf(prev, t)
  IN  IF t \notin pointers THEN {}
      ELSE (IF PrevFresh(e, time) THEN {Reused(e)} ELSE {})
           \cup {Downloaded(l) : l \in {m \in Lists : m.seq >= TLSequence(e)}}

\* Mutant: nothing is carried over.
TerritoryFailureDrops(t, prev) == {Failed(r) : r \in Reasons}

\* ingestTerritory when the fetch fails: the previous data, marked as carried
\* over, or a failed entry when there is no previous data.
TerritoryFailure(t, prev) ==
  LET e == EntryOf(prev, t)
  IN  IF e.health \in {"absent", "failed"}
      THEN {Failed(r) : r \in Reasons}
      ELSE {CarriedOver(e, r) : r \in Reasons}

\* The territory loop of Pipeline.Refresh, for one territory.
IngestTerritory(pointers, t, prev, time) ==
  IF t \notin ExpandTerritories(pointers) THEN {Absent}
  ELSE FetchTerritory(pointers, t, prev, time) \cup TerritoryFailure(t, prev)

\* The territory loop as a whole.  Every territory failing with nothing to
\* carry over fails the cycle, so that outcome is not among the results.
TerritoryResults(pointers, prev, time) ==
  LET Ingest(t) == IngestTerritory(pointers, t, prev, time)
      wanted == ExpandTerritories(pointers)
  IN  {f \in [Territories -> UNION {Ingest(t) : t \in Territories}] :
         /\ \A t \in Territories : f[t] \in Ingest(t)
         /\ wanted # {} => \E t \in wanted : f[t].health # "failed"}

\* Mutant: a failed load is used like any other.
DeclaredSetUnchecked(prev, load) == load

\* applyDeclaredSources: a failed load carries the previous declaration over.
DeclaredSet(prev, load) ==
  IF load # LoadError THEN load
  ELSE IF prev = NoSnapshot THEN NothingDeclared
  ELSE prev.internal

-----------------------------------------------------------------------------
(***************************************************************************)
(* Hold mode (applyHoldMode).                                              *)
(***************************************************************************)
HeldBefore(prev, t, f) ==
  IF prev = NoSnapshot THEN {}
  ELSE {p \in prev.pending : p.territory = t /\ p.fp = f}

\* The hold window of a held anchor has elapsed.
Released(p, time) ==
  HoldAutoRelease > 0 /\ time - p.firstSeen >= HoldAutoRelease

ReleasedIn(s, time) == {p \in s.pending : Released(p, time)}

AutoReleased(prev, t, f, time) ==
  \E p \in HeldBefore(prev, t, f) : Released(p, time)

\* Mutant: every territory has a baseline of its own.
KeptBaseline(prev, t, f, time) ==
  \/ ActivationMode # "hold"
  \/ EntryOf(prev, t).anchors = {}
  \/ f \in EntryOf(prev, t).anchors
  \/ AutoReleased(prev, t, f, time)

\* The anchors that stay in (or enter) the bundle; the first snapshot ever is
\* the baseline.
Kept(prev, t, f, time) ==
  \/ ActivationMode # "hold"
  \/ prev = NoSnapshot
  \/ f \in EntryOf(prev, t).anchors
  \/ AutoReleased(prev, t, f, time)

\* Mutant: a held anchor is first seen at every cycle.
HoldEntryRestarts(prev, t, f, time) ==
  {[territory |-> t, fp |-> f, firstSeen |-> time]}

\* An anchor that was held keeps the time it was first seen.
HoldEntry(prev, t, f, time) ==
  IF HeldBefore(prev, t, f) # {} THEN HeldBefore(prev, t, f)
  ELSE {[territory |-> t, fp |-> f, firstSeen |-> time]}

\* The additions that a territory's list brings and hold mode keeps out.
Additions(terr, prev, t, time) ==
  {f \in terr[t].anchors : ~Kept(prev, t, f, time)}

\* Mutant: what was held stays held, whether or not it is still listed.
BuildSnapshotHolds(lotl, terr, load, prev, time) ==
  [lotl     |-> lotl,
   terr     |-> [t \in Territories |->
                   [terr[t] EXCEPT !.anchors =
                      {f \in @ : Kept(prev, t, f, time)}]],
   internal |-> DeclaredSet(prev, load),
   pending  |-> (IF prev = NoSnapshot THEN {} ELSE prev.pending)
                \cup UNION {UNION {HoldEntry(prev, t, f, time) :
                                     f \in Additions(terr, prev, t, time)} :
                              t \in Territories}]

\* The tail of Pipeline.Refresh: declared sources, then hold mode.
BuildSnapshot(lotl, terr, load, prev, time) ==
  [lotl     |-> lotl,
   terr     |-> [t \in Territories |->
                   [terr[t] EXCEPT !.anchors =
                      {f \in @ : Kept(prev, t, f, time)}]],
   internal |-> DeclaredSet(prev, load),
   pending  |-> UNION {UNION {HoldEntry(prev, t, f, time) :
                                f \in Additions(terr, prev, t, time)} :
                         t \in Territories}]

\* Pipeline.RefreshDeclared: the previous snapshot with the declaration of now.
RefreshDeclared(prev, load) ==
  [prev EXCEPT !.internal = DeclaredSet(prev, load)]
=============================================================================
