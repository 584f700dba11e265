--------------------------- MODULE ManagerProofs ----------------------------
(***************************************************************************)
(* Theorems about the snapshot manager and the pipeline it calls, for any  *)
(* number of goroutines, territories, lists, seeds and faults.             *)
(***************************************************************************)
EXTENDS Manager, TLAPS

-----------------------------------------------------------------------------
(***************************************************************************)
(* What one ingestion cycle, one reconcile and one approval make of a      *)
(* snapshot.                                                               *)
(***************************************************************************)
\* The entry of a territory serves nothing, or anchors of the list it stands for.
EntryListed(e) ==
  IF e.list = NoList
  THEN e.health \in {"absent", "failed"} /\ e.anchors = {}
  ELSE e.health \in {"fresh", "carried"} /\ e.anchors \subseteq e.list.anchors

\* The sequence number of a list, and of no list, is a natural number.
LEMMA TLSequenceType ==
  ASSUME NEW e \in TerritoryEntry
  PROVE  TLSequence(e) \in Nat
BY DEF TLSequence, TerritoryEntry, TrustedList

LEMMA EntryOfType ==
  ASSUME NEW s \in SnapshotOrNil, NEW t \in Territories
  PROVE  EntryOf(s, t) \in TerritoryEntry
<1>1. Absent \in TerritoryEntry
  BY DEF Absent, TerritoryEntry
<1>2. CASE s = NoSnapshot
  BY <1>1, <1>2 DEF EntryOf
<1>3. CASE s # NoSnapshot
  BY <1>3 DEF EntryOf, SnapshotOrNil, SnapshotType
<1>q. QED BY <1>2, <1>3

LEMMA EntryOfListed ==
  ASSUME NEW s \in SnapshotOrNil, s # NoSnapshot => Listed(s),
         NEW t \in Territories
  PROVE  EntryListed(EntryOf(s, t))
<1>1. CASE s = NoSnapshot
  BY <1>1 DEF EntryOf, Absent, EntryListed
<1>2. CASE s # NoSnapshot
  BY <1>2 DEF EntryOf, EntryListed, Listed
<1>q. QED BY <1>1, <1>2

LEMMA LOTLResultsType ==
  ASSUME NEW old \in SnapshotOrNil, NEW lotl \in LOTLResults(old)
  PROVE  lotl \in LOTL
BY PipelineAssumption DEF LOTLResults, SnapshotOrNil, SnapshotType

\* The loop hands every territory one of its results.
LEMMA TerritoryResultsFunction ==
  ASSUME NEW pointers, NEW old, NEW time,
         NEW terr \in TerritoryResults(pointers, old, time)
  PROVE  /\ DOMAIN terr = Territories
         /\ terr = [t \in Territories |-> terr[t]]
         /\ \A t \in Territories :
              terr[t] \in IngestTerritory(pointers, t, old, time)
BY DEF TerritoryResults

\* What the loop makes of one territory: a well-typed entry.  Out of a snapshot
\* of listed anchors it makes an entry of listed anchors, whose list is not
\* older than the one before.
LEMMA IngestTerritoryEntry ==
  ASSUME NEW pointers, NEW t \in Territories, NEW old \in SnapshotOrNil,
         NEW time \in Nat,
         NEW e \in IngestTerritory(pointers, t, old, time)
  PROVE  /\ e \in TerritoryEntry
         /\ EntryListed(EntryOf(old, t))
            => /\ EntryListed(e)
               /\ EntryOf(old, t).list # NoList /\ Present(e)
                  => TLSequence(e) >= TLSequence(EntryOf(old, t))
<1> DEFINE pe == EntryOf(old, t)
<1>t. pe \in TerritoryEntry
  BY EntryOfType
<1>s. TLSequence(pe) \in Nat
  BY <1>t, TLSequenceType
<1>g. SUFFICES /\ e \in TerritoryEntry
               /\ EntryListed(pe)
                  => /\ EntryListed(e)
                     /\ pe.list # NoList /\ Present(e)
                        => TLSequence(e) >= TLSequence(pe)
  OBVIOUS
<1> HIDE DEF pe
<1>1. CASE e = Absent
  BY <1>1 DEF Absent, TerritoryEntry, EntryListed, Present
<1>2. CASE pe.list # NoList /\ e = Reused(pe)
  <2>1. e \in TerritoryEntry
    BY <1>2, <1>t DEF Reused, TerritoryEntry
  <2>2. e.health = "fresh" /\ e.list = pe.list /\ e.anchors = pe.anchors
    BY <1>2, <1>t DEF Reused, TerritoryEntry
  <2>q. QED
    BY <2>1, <2>2, <1>2, <1>s DEF EntryListed, TLSequence
<1>3. ASSUME NEW l \in Lists, l.seq >= TLSequence(pe), e = Downloaded(l)
      PROVE  /\ e \in TerritoryEntry
             /\ EntryListed(e)
             /\ TLSequence(e) >= TLSequence(pe)
  <2>1. l \in TrustedList /\ l # NoList
    BY PipelineAssumption, SentinelsAssumption
  <2>q. QED
    BY <1>3, <2>1
    DEF Downloaded, TerritoryEntry, TrustedList, EntryListed, TLSequence
<1>4. ASSUME NEW r \in Reasons, pe.health \in {"absent", "failed"},
             e = Failed(r)
      PROVE  /\ e \in TerritoryEntry
             /\ EntryListed(e)
             /\ EntryListed(pe) => pe.list = NoList
  BY <1>4 DEF Failed, TerritoryEntry, EntryListed
<1>5. ASSUME NEW r \in Reasons, pe.health \notin {"absent", "failed"},
             e = CarriedOver(pe, r)
      PROVE  /\ e \in TerritoryEntry
             /\ EntryListed(pe) => EntryListed(e)
             /\ TLSequence(e) = TLSequence(pe)
  <2>1. e \in TerritoryEntry
    BY <1>5, <1>t DEF CarriedOver, TerritoryEntry
  <2>2. e.health = "carried" /\ e.list = pe.list /\ e.anchors = pe.anchors
    BY <1>5, <1>t DEF CarriedOver, TerritoryEntry
  <2>q. QED
    BY <2>1, <2>2, <1>5 DEF EntryListed, TLSequence
<1>6. \/ e = Absent
      \/ pe.list # NoList /\ e = Reused(pe)
      \/ \E l \in Lists : l.seq >= TLSequence(pe) /\ e = Downloaded(l)
      \/ /\ pe.health \in {"absent", "failed"}
         /\ \E r \in Reasons : e = Failed(r)
      \/ /\ pe.health \notin {"absent", "failed"}
         /\ \E r \in Reasons :
              e = CarriedOver(pe, r)
  BY DEF IngestTerritory, FetchTerritory, TerritoryFailure, PrevFresh, pe
<1>q. QED
  BY <1>1, <1>2, <1>3, <1>4, <1>5, <1>6, <1>s
-----------------------------------------------------------------------------
(***************************************************************************)
(* The snapshot a cycle builds.                                            *)
(***************************************************************************)
\* The context every fact about BuildSnapshot is stated in.
CycleInputs(old, lotl, terr, load, time) ==
  /\ old \in SnapshotOrNil
  /\ lotl \in LOTLResults(old)
  /\ terr \in TerritoryResults(lotl.pointers, old, time)
  /\ load \in Declarations \cup {LoadError}
  /\ time \in Nat

LEMMA DeclaredSetType ==
  ASSUME NEW old \in SnapshotOrNil, NEW load \in Declarations \cup {LoadError}
  PROVE  DeclaredSet(old, load) \in Declaration
BY PipelineAssumption
DEF DeclaredSet, NothingDeclared, Declaration, SnapshotOrNil, SnapshotType

\* The territories of the built snapshot: the entries of the loop, less the
\* additions that hold mode keeps out.
LEMMA BuiltTerritory ==
  ASSUME NEW old, NEW lotl, NEW terr, NEW load, NEW time,
         CycleInputs(old, lotl, terr, load, time), NEW t \in Territories
  PROVE  LET e == BuildSnapshot(lotl, terr, load, old, time).terr[t]
         IN  /\ e \in TerritoryEntry
             /\ e.health = terr[t].health
             /\ e.list = terr[t].list
             /\ e.anchors = {f \in terr[t].anchors : Kept(old, t, f, time)}
             /\ terr[t] \in TerritoryEntry
<1>1. terr[t] \in TerritoryEntry
  BY TerritoryResultsFunction, IngestTerritoryEntry DEF CycleInputs
<1>2. BuildSnapshot(lotl, terr, load, old, time).terr[t]
      = [terr[t] EXCEPT !.anchors = {f \in @ : Kept(old, t, f, time)}]
  BY DEF BuildSnapshot
<1>q. QED
  BY <1>1, <1>2 DEF TerritoryEntry

LEMMA BuiltTerritoryListed ==
  ASSUME NEW old, NEW lotl, NEW terr, NEW load, NEW time,
         CycleInputs(old, lotl, terr, load, time),
         old # NoSnapshot => Listed(old), NEW t \in Territories
  PROVE  /\ EntryListed(terr[t])
         /\ EntryOf(old, t).list # NoList /\ Present(terr[t])
            => TLSequence(terr[t]) >= TLSequence(EntryOf(old, t))
<1>1. EntryListed(EntryOf(old, t))
  BY EntryOfListed DEF CycleInputs
<1>q. QED
  BY <1>1, TerritoryResultsFunction, IngestTerritoryEntry DEF CycleInputs

\* A held anchor of the built snapshot is on the territory's list, is kept out
\* of the bundle, and was held before with the same time or is new.
LEMMA BuiltPending ==
  ASSUME NEW old, NEW lotl, NEW terr, NEW load, NEW time,
         CycleInputs(old, lotl, terr, load, time),
         NEW p \in BuildSnapshot(lotl, terr, load, old, time).pending
  PROVE  /\ p \in PendingAnchor
         /\ p.fp \in terr[p.territory].anchors
         /\ ~Kept(old, p.territory, p.fp, time)
         /\ p \in HoldEntry(old, p.territory, p.fp, time)
<1>0. PICK t \in Territories :
        \E f \in Additions(terr, old, t, time) :
          p \in HoldEntry(old, t, f, time)
  BY DEF BuildSnapshot
<1>1. PICK f \in Additions(terr, old, t, time) :
        p \in HoldEntry(old, t, f, time)
  BY <1>0
<1>2. f \in terr[t].anchors /\ ~Kept(old, t, f, time)
  BY <1>1 DEF Additions
<1>3. f \in Fingerprints
  BY <1>2, BuiltTerritory DEF TerritoryEntry
<1>4. p \in PendingAnchor /\ p.territory = t /\ p.fp = f
  <2>1. CASE HeldBefore(old, t, f) # {}
    <3>1. p \in HeldBefore(old, t, f)
      BY <1>1, <2>1 DEF HoldEntry
    <3>q. QED
      BY <3>1 DEF HeldBefore, CycleInputs, SnapshotOrNil, SnapshotType
  <2>2. CASE HeldBefore(old, t, f) = {}
    <3>1. p = [territory |-> t, fp |-> f, firstSeen |-> time]
      BY <1>1, <2>2 DEF HoldEntry
    <3>q. QED
      BY <3>1, <1>3 DEF PendingAnchor, CycleInputs
  <2>q. QED BY <2>1, <2>2
<1>q. QED BY <1>1, <1>2, <1>4

\* A cycle builds a well-typed snapshot (Pipeline.Refresh).
LEMMA BuiltType ==
  ASSUME NEW old, NEW lotl, NEW terr, NEW load, NEW time,
         CycleInputs(old, lotl, terr, load, time)
  PROVE  BuildSnapshot(lotl, terr, load, old, time) \in SnapshotType
<1> DEFINE built == BuildSnapshot(lotl, terr, load, old, time)
<1>1. built.lotl \in LOTL
  BY LOTLResultsType DEF BuildSnapshot, CycleInputs
<1>2. built.internal \in Declaration
  BY DeclaredSetType DEF BuildSnapshot, CycleInputs
<1>3. built.pending \in SUBSET PendingAnchor
  BY BuiltPending
<1>4. built.terr \in [Territories -> TerritoryEntry]
  <2>1. \A t \in Territories : built.terr[t] \in TerritoryEntry
    BY BuiltTerritory
  <2>2. built.terr = [t \in Territories |-> built.terr[t]]
    BY DEF BuildSnapshot
  <2> HIDE DEF built
  <2>q. QED BY <2>1, <2>2
<1>5. built = [lotl |-> built.lotl, terr |-> built.terr,
               internal |-> built.internal, pending |-> built.pending]
  BY DEF BuildSnapshot
<1> HIDE DEF built
<1>6. built \in SnapshotType
  BY <1>1, <1>2, <1>3, <1>4, <1>5 DEF SnapshotType
<1>q. QED BY <1>6 DEF built

\* A cycle builds a snapshot of listed anchors out of one of listed anchors,
\* whatever fails, is carried over, reused, held or released in it.
LEMMA BuiltListed ==
  ASSUME NEW old, NEW lotl, NEW terr, NEW load, NEW time,
         CycleInputs(old, lotl, terr, load, time),
         old # NoSnapshot => Listed(old)
  PROVE  Listed(BuildSnapshot(lotl, terr, load, old, time))
<1> DEFINE built == BuildSnapshot(lotl, terr, load, old, time)
<1>1. ASSUME NEW t \in Territories
      PROVE  /\ built.terr[t].health = terr[t].health
             /\ built.terr[t].list = terr[t].list
             /\ built.terr[t].anchors
                = {f \in terr[t].anchors : Kept(old, t, f, time)}
             /\ EntryListed(terr[t])
             /\ \A f \in HeldIn(built, t) :
                  f \in terr[t].anchors /\ ~Kept(old, t, f, time)
  <2>1. ASSUME NEW f \in HeldIn(built, t)
        PROVE  f \in terr[t].anchors /\ ~Kept(old, t, f, time)
    <3>1. PICK p \in built.pending : p.territory = t /\ f = p.fp
      BY <2>1 DEF HeldIn
    <3>q. QED BY <3>1, BuiltPending
  <2>q. QED BY <2>1, BuiltTerritory, BuiltTerritoryListed
<1> HIDE DEF built
<1>2. Listed(built)
  BY <1>1 DEF Listed, EntryListed
<1>q. QED BY <1>2 DEF built

\* A cycle does not go back: not in the list of the lists, and not in a
\* territory that stays in the snapshot.
LEMMA BuiltNotOlder ==
  ASSUME NEW old, NEW lotl, NEW terr, NEW load, NEW time,
         CycleInputs(old, lotl, terr, load, time), old # NoSnapshot,
         Listed(old)
  PROVE  NotOlder(old, BuildSnapshot(lotl, terr, load, old, time))
<1> DEFINE built == BuildSnapshot(lotl, terr, load, old, time)
<1>1. built.lotl.seq >= old.lotl.seq
  <2>1. built.lotl = lotl
    BY DEF BuildSnapshot
  <2>2. old.lotl.seq \in Nat
    BY DEF CycleInputs, SnapshotOrNil, SnapshotType, LOTL
  <2>q. QED
    BY <2>1, <2>2 DEF LOTLResults, CycleInputs
<1>2. ASSUME NEW t \in Territories, old.terr[t].list # NoList,
             Present(built.terr[t])
      PROVE  TLSequence(built.terr[t]) >= TLSequence(old.terr[t])
  BY <1>2, BuiltTerritory, BuiltTerritoryListed
  DEF Present, TLSequence, EntryOf
<1> HIDE DEF built
<1>3. NotOlder(old, built)
  BY <1>1, <1>2 DEF NotOlder
<1>q. QED BY <1>3 DEF built

\* Hold mode: what a cycle adds to a bundle was held and its window elapsed.
LEMMA BuiltGated ==
  ASSUME NEW old, NEW lotl, NEW terr, NEW load, NEW time,
         CycleInputs(old, lotl, terr, load, time), old # NoSnapshot,
         ActivationMode = "hold"
  PROVE  AddsOnly(old, BuildSnapshot(lotl, terr, load, old, time),
                  ReleasedIn(old, time))
<1> DEFINE built == BuildSnapshot(lotl, terr, load, old, time)
<1>1. ASSUME NEW t \in Territories,
             NEW f \in built.terr[t].anchors \ old.terr[t].anchors
      PROVE  \E p \in ReleasedIn(old, time) : p.territory = t /\ p.fp = f
  <2>1. Kept(old, t, f, time) /\ f \notin EntryOf(old, t).anchors
    BY BuiltTerritory DEF EntryOf
  <2>2. AutoReleased(old, t, f, time)
    BY <2>1 DEF Kept
  <2>q. QED
    BY <2>2 DEF AutoReleased, HeldBefore, ReleasedIn
<1> HIDE DEF built
<1>2. AddsOnly(old, built, ReleasedIn(old, time))
  BY <1>1 DEF AddsOnly
<1>q. QED BY <1>2 DEF built

\* A hold window that has elapsed stays elapsed.
LEMMA ReleasedStays ==
  ASSUME NEW s \in SnapshotType, NEW r, NEW time \in Nat,
         AddsOnly(s, r, ReleasedIn(s, time))
  PROVE  AddsOnly(s, r, ReleasedIn(s, time + 1))
<1>1. ASSUME NEW p \in s.pending, Released(p, time)
      PROVE  Released(p, time + 1)
  <2>1. p.firstSeen \in Nat
    BY DEF SnapshotType, PendingAnchor
  <2>q. QED BY <1>1, <2>1, PipelineAssumption DEF Released
<1>2. ReleasedIn(s, time) \subseteq ReleasedIn(s, time + 1)
  BY <1>1 DEF ReleasedIn
<1>q. QED BY <1>2 DEF AddsOnly

\* A cycle that changed nothing, by the comparisons of Manager.Refresh, built a
\* snapshot that a restart cannot tell from the previous one: skipping the save
\* loses nothing, not even the time a held anchor was first seen.
LEMMA UnchangedIsSame ==
  ASSUME NEW old, NEW lotl, NEW terr, NEW load, NEW time,
         CycleInputs(old, lotl, terr, load, time), old # NoSnapshot,
         ~CycleChanged(old, BuildSnapshot(lotl, terr, load, old, time)),
         ~LOTLInputChanged(old, BuildSnapshot(lotl, terr, load, old, time)),
         NEW s, SameState(s, old)
  PROVE  SameState(s, BuildSnapshot(lotl, terr, load, old, time))
<1> DEFINE built == BuildSnapshot(lotl, terr, load, old, time)
<1>1. ComputeID(s) = ComputeID(built)
  BY DEF CycleChanged, SameState
<1>2. s.lotl = built.lotl
  BY DEF LOTLInputChanged, SameState
<1>3. old.pending = built.pending
  <2>0. PendingKeys(old) = PendingKeys(built)
    BY DEF CycleChanged, PendingEqual
  <2>1. ASSUME NEW p \in old.pending
        PROVE  p \in built.pending
    <3>0. <<p.territory, p.fp>> \in PendingKeys(built)
      BY <2>0 DEF PendingKeys
    <3>1. PICK q \in built.pending :
            q.territory = p.territory /\ q.fp = p.fp
      <4> HIDE DEF built
      <4>q. QED BY <3>0 DEF PendingKeys
    <3>2. p \in HeldBefore(old, q.territory, q.fp)
      BY <3>1 DEF HeldBefore
    <3>3. /\ q.territory \in Territories
          /\ q.fp \in Additions(terr, old, q.territory, time)
      BY BuiltPending DEF PendingAnchor, Additions
    <3>4. p \in HoldEntry(old, q.territory, q.fp, time)
      BY <3>2 DEF HoldEntry
    <3>q. QED BY <3>3, <3>4 DEF BuildSnapshot
  <2>2. ASSUME NEW q \in built.pending
        PROVE  q \in old.pending
    <3>0. <<q.territory, q.fp>> \in PendingKeys(old)
      BY <2>0 DEF PendingKeys
    <3>1. PICK p \in old.pending :
            q.territory = p.territory /\ q.fp = p.fp
      BY <3>0 DEF PendingKeys
    <3>2. p \in HeldBefore(old, q.territory, q.fp)
      BY <3>1 DEF HeldBefore
    <3>3. q \in HoldEntry(old, q.territory, q.fp, time)
      BY BuiltPending
    <3>4. q \in HeldBefore(old, q.territory, q.fp)
      BY <3>2, <3>3 DEF HoldEntry
    <3>q. QED BY <3>4 DEF HeldBefore
  <2>q. QED BY <2>1, <2>2
<1>4. ~TerritoryStateChanged(old, built)
  BY DEF CycleChanged
<1> HIDE DEF built
<1>5. ASSUME NEW t \in Territories, Present(built.terr[t])
      PROVE  /\ s.terr[t].health = built.terr[t].health
             /\ TLSequence(s.terr[t]) = TLSequence(built.terr[t])
             /\ Skipped(s.terr[t]) = Skipped(built.terr[t])
  <2>1. /\ old.terr[t].health = built.terr[t].health
        /\ TLSequence(old.terr[t]) = TLSequence(built.terr[t])
        /\ Skipped(old.terr[t]) = Skipped(built.terr[t])
    BY <1>4, <1>5 DEF TerritoryStateChanged
  <2>q. QED BY <2>1, <1>5 DEF SameState, Present
<1>6. SameState(s, built)
  BY <1>1, <1>2, <1>3, <1>5 DEF SameState
<1>q. QED BY <1>6 DEF built

\* Equal content ids, equal anchor sets (idContent and anchorIndex): a cycle
\* whose id did not change has no change event to emit.
LEMMA SameIDSameIndex ==
  ASSUME NEW s \in SnapshotType, NEW r \in SnapshotType,
         Listed(s), Listed(r), ComputeID(s) = ComputeID(r)
  PROVE  AnchorIndex(s) = AnchorIndex(r)
<1> DEFINE Served(x) == {u \in Territories :
                           x.terr[u].health \notin {"absent", "failed"}}
           Content(x) == {<<t, TLSequence(x.terr[t]), x.terr[t].anchors>> :
                            t \in Served(x)}
<1>1. s # NoSnapshot /\ r # NoSnapshot
  BY SentinelsAssumption
<1>2. DeclaredIn(s) = DeclaredIn(r) /\ Content(s) = Content(r)
  BY DEF ComputeID
<1>3. ASSUME NEW x, NEW y, Listed(x), Content(x) = Content(y),
             NEW t \in Territories, NEW f \in x.terr[t].anchors
      PROVE  f \in y.terr[t].anchors
  <2>1. t \in Served(x)
    BY <1>3 DEF Listed
  <2>2. PICK u \in Served(y) :
          <<t, TLSequence(x.terr[t]), x.terr[t].anchors>>
          = <<u, TLSequence(y.terr[u]), y.terr[u].anchors>>
    BY <2>1, <1>3
  <2>q. QED BY <2>2, <1>3
<1> HIDE DEF Content
<1>4. ASSUME NEW t \in Territories
      PROVE  s.terr[t].anchors = r.terr[t].anchors
  <2>1. \A f \in s.terr[t].anchors : f \in r.terr[t].anchors
    BY <1>2, <1>3
  <2>2. \A f \in r.terr[t].anchors : f \in s.terr[t].anchors
    BY <1>2, <1>3
  <2>q. QED BY <2>1, <2>2
<1>q. QED
  BY <1>1, <1>2, <1>4 DEF AnchorIndex, ListedIndex, DeclaredIndex
\* No anchor is held twice for one territory (applyHoldMode indexes the pending
\* set by territory and fingerprint).
UniquePending(s) ==
  \A p, q \in s.pending : p.territory = q.territory /\ p.fp = q.fp => p = q

\* A cycle holds no anchor twice.
LEMMA BuiltUnique ==
  ASSUME NEW old, NEW lotl, NEW terr, NEW load, NEW time,
         CycleInputs(old, lotl, terr, load, time),
         old # NoSnapshot => UniquePending(old)
  PROVE  UniquePending(BuildSnapshot(lotl, terr, load, old, time))
<1> DEFINE built == BuildSnapshot(lotl, terr, load, old, time)
<1>1. ASSUME NEW p \in built.pending, NEW q \in built.pending,
             p.territory = q.territory, p.fp = q.fp
      PROVE  p = q
  <2>1. /\ p \in HoldEntry(old, p.territory, p.fp, time)
        /\ q \in HoldEntry(old, p.territory, p.fp, time)
    BY <1>1, BuiltPending
  <2>2. ASSUME NEW x \in HeldBefore(old, p.territory, p.fp),
               NEW y \in HeldBefore(old, p.territory, p.fp)
        PROVE  x = y
    BY DEF HeldBefore, UniquePending
  <2>q. QED BY <2>1, <2>2 DEF HoldEntry
<1> HIDE DEF built
<1>2. UniquePending(built)
  BY <1>1 DEF UniquePending
<1>q. QED BY <1>2 DEF built

\* Nothing is older than itself.
LEMMA NotOlderThanItself ==
  ASSUME NEW s \in SnapshotType, NEW r, r.lotl = s.lotl,
         \A t \in Territories : r.terr[t].list = s.terr[t].list
  PROVE  NotOlder(s, r)
<1>1. s.lotl.seq \in Nat
  BY DEF SnapshotType, LOTL
<1>2. ASSUME NEW t \in Territories
      PROVE  TLSequence(r.terr[t]) = TLSequence(s.terr[t])
             /\ TLSequence(s.terr[t]) \in Nat
  <2>1. s.terr[t] \in TerritoryEntry
    BY DEF SnapshotType
  <2>q. QED BY <2>1, TLSequenceType DEF TLSequence
<1>q. QED
  BY <1>1, <1>2 DEF NotOlder

-----------------------------------------------------------------------------
(***************************************************************************)
(* The manager: its steps, its goroutines, its store.                      *)
(***************************************************************************)
LEMMA RefreshDeclaredType ==
  ASSUME NEW s \in SnapshotType, NEW load \in Declarations \cup {LoadError}
  PROVE  /\ RefreshDeclared(s, load) \in SnapshotType
         /\ RefreshDeclared(s, load).lotl = s.lotl
         /\ RefreshDeclared(s, load).terr = s.terr
         /\ RefreshDeclared(s, load).pending = s.pending
BY DeclaredSetType DEF RefreshDeclared, SnapshotType, SnapshotOrNil

LEMMA ApprovedType ==
  ASSUME NEW s \in SnapshotType, NEW p \in s.pending
  PROVE  LET r == Approved(s, p)
         IN  /\ r \in SnapshotType
             /\ r.lotl = s.lotl
             /\ r.internal = s.internal
             /\ r.pending = s.pending \ {p}
             /\ r.terr = [s.terr EXCEPT ![p.territory] = WithAnchor(@, p.fp)]
             /\ p \in PendingAnchor
<1>1. p \in PendingAnchor /\ p.territory \in Territories /\ p.fp \in Fingerprints
  BY DEF SnapshotType, PendingAnchor
<1>2. WithAnchor(s.terr[p.territory], p.fp) \in TerritoryEntry
  <2>1. s.terr[p.territory] \in TerritoryEntry
    BY <1>1 DEF SnapshotType
  <2>q. QED BY <1>1, <2>1 DEF WithAnchor, TerritoryEntry
<1> DEFINE terr == [s.terr EXCEPT ![p.territory] = WithAnchor(@, p.fp)]
<1>3. terr \in [Territories -> TerritoryEntry]
  BY <1>1, <1>2 DEF SnapshotType
<1>4. Approved(s, p) = [s EXCEPT !.pending = s.pending \ {p}, !.terr = terr]
  BY DEF Approved, SnapshotType
<1> HIDE DEF terr
<1>5. /\ Approved(s, p) \in SnapshotType
      /\ Approved(s, p).lotl = s.lotl
      /\ Approved(s, p).internal = s.internal
      /\ Approved(s, p).pending = s.pending \ {p}
      /\ Approved(s, p).terr = terr
  BY <1>3, <1>4 DEF SnapshotType
<1>q. QED BY <1>1, <1>5 DEF terr

LEMMA IndexType ==
  ASSUME NEW s \in SnapshotOrNil
  PROVE  AnchorIndex(s) \subseteq AnchorKeys
<1>1. CASE s = NoSnapshot
  BY <1>1 DEF AnchorIndex
<1>2. CASE s # NoSnapshot
  <2>1. \A t \in Territories : s.terr[t].anchors \subseteq Fingerprints
    BY <1>2 DEF SnapshotOrNil, SnapshotType, TerritoryEntry
  <2>2. DeclaredIn(s) \subseteq DeclaredRoles
    BY DEF DeclaredIn
  <2> DEFINE X(t) == {t} \X s.terr[t].anchors
             TF == Territories \X Fingerprints
  <2>3. ASSUME NEW t \in Territories
        PROVE  X(t) \subseteq TF
    BY <2>1
  <2>4. DeclaredIndex(s) \subseteq {"internal"} \X DeclaredRoles
    BY <2>2 DEF DeclaredIndex
  <2>5. ListedIndex(s) = UNION {X(t) : t \in Territories}
    BY DEF ListedIndex
  <2> HIDE DEF X, TF
  <2>6. ListedIndex(s) \subseteq TF
    BY <2>3, <2>5
  <2>q. QED BY <1>2, <2>4, <2>6 DEF AnchorIndex, AnchorKeys, TF
<1>q. QED BY <1>1, <1>2

LEMMA PendingKeysType ==
  ASSUME NEW s \in SnapshotType
  PROVE  PendingKeys(s) \subseteq AnchorKeys
BY DEF PendingKeys, AnchorKeys, SnapshotType, PendingAnchor

\* The inputs of a cycle are the ones the pipeline lemmas ask for.
LEMMA CycleInputsHold ==
  ASSUME TypeOK, NEW g \in Goroutines, NEW lotl \in LOTLResults(prev[g]),
         NEW terr \in TerritoryResults(lotl.pointers, prev[g], now),
         NEW load \in Declarations \cup {LoadError}
  PROVE  CycleInputs(prev[g], lotl, terr, load, now)
BY DEF CycleInputs, TypeOK
-----------------------------------------------------------------------------
(***************************************************************************)
(* Types and the mutex.                                                    *)
(***************************************************************************)
\* The steps at which a goroutine has built a snapshot it is about to activate.
Activating == {"reconcileActivate", "activate", "approveActivate"}

\* The mutex: a process that is down has no goroutine at work and serves
\* nothing; whoever is in a critical step holds the mutex and builds on what is
\* served; only the first cycle builds on nothing.
LockInv ==
  /\ phase = "down" => /\ active = NoSnapshot
                       /\ mu = Free
                       /\ \A g \in Goroutines : pc[g] = "idle"
  /\ BuiltOnServed
  /\ \A g \in Goroutines :
       /\ pc[g] \in Activating => next[g] # NoSnapshot
       /\ pc[g] \in {"reconcileActivate", "approveActivate"}
          => prev[g] # NoSnapshot

LEMMA AnnounceType ==
  ASSUME TypeOK, NEW from \in SnapshotOrNil, NEW to \in SnapshotOrNil,
         Announce(from, to)
  PROVE  announced' \subseteq AnchorKeys
<1>1. AnchorIndex(to) \subseteq AnchorKeys
  BY IndexType
<1>q. QED
  BY <1>1 DEF Announce, ComputeDiff, TypeOK

LEMMA SaveSnapshotType ==
  ASSUME TypeOK, NEW s \in SnapshotType, NEW outcome \in SaveOutcomes,
         SaveSnapshot(s, outcome)
  PROVE  /\ stored' \in SnapshotOrNil
         /\ faults' \in 0 .. MaxFaults
         /\ behind' \in BOOLEAN
<1>1. stored' \in SnapshotOrNil
  BY DEF SaveSnapshot, TypeOK, SnapshotOrNil
<1>2. faults' \in 0 .. MaxFaults
  BY ManagerAssumption
  DEF SaveSnapshot, Count, SaveOutcomes, Faults, TypeOK
<1>3. behind' \in BOOLEAN
  BY Zenon DEF SaveSnapshot
<1>q. QED BY <1>1, <1>2, <1>3

\* Every step of the manager keeps its state well-typed; in particular no cycle,
\* reconcile or approval activates or stores a malformed snapshot.
LEMMA TypeInductive ==
  ASSUME TypeOK, LockInv, [Next]_vars
  PROVE  TypeOK'
<1> USE DEF Goto, Unlock
<1>1. ASSUME NEW g \in Goroutines, CallRefresh(g) \/ CallApprove(g)
      PROVE  TypeOK'
  BY <1>1 DEF CallRefresh, CallApprove, TypeOK, Steps
<1>2. ASSUME NEW g \in Goroutines, LockRefresh(g)
      PROVE  TypeOK'
  BY <1>2 DEF LockRefresh, TypeOK, Steps, Critical
<1>3. ASSUME NEW g \in Goroutines, active' \in SnapshotOrNil, AfterReconcile(g)
      PROVE  /\ phase' \in {"down", "boot", "up"}
             /\ mu' \in Goroutines \cup {Free}
             /\ pc' \in [Goroutines -> Steps]
             /\ prev' \in [Goroutines -> SnapshotOrNil]
             /\ next' \in [Goroutines -> SnapshotOrNil]
  <2>1. NoSnapshot \in SnapshotOrNil
    BY DEF SnapshotOrNil
  <2>q. QED
    BY <1>3, <2>1 DEF AfterReconcile, Forget, TypeOK, Steps, Critical
<1>4. ASSUME NEW g \in Goroutines,
             NEW load \in Declarations \cup {LoadError},
             ReconcileUnchanged(g, load)
      PROVE  TypeOK'
  BY <1>3, <1>4 DEF ReconcileUnchanged, TypeOK
<1>5. ASSUME NEW g \in Goroutines,
             NEW load \in Declarations \cup {LoadError},
             ReconcileChanged(g, load)
      PROVE  TypeOK'
  <2>1. PICK outcome \in SaveOutcomes :
          /\ SaveSnapshot(RefreshDeclared(prev[g], load), outcome)
          /\ next' = [next EXCEPT ![g] = RefreshDeclared(prev[g], load)]
    BY <1>5 DEF ReconcileChanged
  <2>2. prev[g] \in SnapshotType
    BY <1>5 DEF ReconcileChanged, TypeOK, SnapshotOrNil
  <2>3. RefreshDeclared(prev[g], load) \in SnapshotType
    BY <2>2, RefreshDeclaredType
  <2>4. /\ stored' \in SnapshotOrNil
        /\ faults' \in 0 .. MaxFaults
        /\ behind' \in BOOLEAN
    BY <2>1, <2>3, SaveSnapshotType
  <2>5. next' \in [Goroutines -> SnapshotOrNil]
    BY <2>1, <2>3 DEF TypeOK, SnapshotOrNil
  <2>q. QED
    BY <1>5, <2>4, <2>5 DEF ReconcileChanged, TypeOK, Steps, Critical
<1>6. ASSUME NEW g \in Goroutines, ReconcileActivate(g)
      PROVE  TypeOK'
  <2>1. prev[g] \in SnapshotOrNil /\ next[g] \in SnapshotOrNil
    BY DEF TypeOK
  <2>2. announced' \subseteq AnchorKeys
    BY <1>6, <2>1, AnnounceType DEF ReconcileActivate
  <2>q. QED
    BY <1>3, <1>6, <2>1, <2>2 DEF ReconcileActivate, TypeOK
<1>7. ASSUME NEW g \in Goroutines, CycleFails(g)
      PROVE  TypeOK'
  BY <1>7 DEF CycleFails, TypeOK, Steps, SnapshotOrNil
<1>8. ASSUME NEW g \in Goroutines,
             NEW load \in Declarations \cup {LoadError},
             Cycle(g, load)
      PROVE  TypeOK'
  <2>1. PICK lotl \in LOTLResults(prev[g]) :
          \E terr \in TerritoryResults(lotl.pointers, prev[g], now) :
            LET built == BuildSnapshot(lotl, terr, load, prev[g], now)
            IN  /\ next' = [next EXCEPT ![g] = built]
                /\ IF MustSave(prev[g], built)
                   THEN \E outcome \in SaveOutcomes :
                          SaveSnapshot(built, outcome)
                   ELSE UNCHANGED <<stored, faults, behind>>
    BY <1>8 DEF Cycle
  <2>2. PICK terr \in TerritoryResults(lotl.pointers, prev[g], now) :
            LET built == BuildSnapshot(lotl, terr, load, prev[g], now)
            IN  /\ next' = [next EXCEPT ![g] = built]
                /\ IF MustSave(prev[g], built)
                   THEN \E outcome \in SaveOutcomes :
                          SaveSnapshot(built, outcome)
                   ELSE UNCHANGED <<stored, faults, behind>>
    BY <2>1
  <2> DEFINE built == BuildSnapshot(lotl, terr, load, prev[g], now)
  <2>3. built \in SnapshotType
    BY CycleInputsHold, BuiltType
  <2> HIDE DEF built
  <2>4. /\ stored' \in SnapshotOrNil
        /\ faults' \in 0 .. MaxFaults
        /\ behind' \in BOOLEAN
    BY <2>2, <2>3, SaveSnapshotType DEF built, TypeOK
  <2>5. next' \in [Goroutines -> SnapshotOrNil]
    BY <2>2, <2>3 DEF built, TypeOK, SnapshotOrNil
  <2>q. QED
    BY <1>8, <2>4, <2>5 DEF Cycle, TypeOK, Steps, Critical
<1>9. ASSUME NEW g \in Goroutines, Activate(g)
      PROVE  TypeOK'
  <2>1. prev[g] \in SnapshotOrNil /\ next[g] \in SnapshotOrNil
    BY DEF TypeOK
  <2>2. announced' \subseteq AnchorKeys
    BY <1>9, <2>1, AnnounceType DEF Activate, TypeOK
  <2>q. QED
    BY <1>9, <2>1, <2>2 DEF Activate, TypeOK, Steps, SnapshotOrNil
<1>10. ASSUME NEW g \in Goroutines, Respond(g)
       PROVE  TypeOK'
  BY <1>10 DEF Respond, Forget, TypeOK, Steps, SnapshotOrNil
<1>11. ASSUME NEW g \in Goroutines, ApproveFails(g)
       PROVE  TypeOK'
  <2>1. /\ stored' \in SnapshotOrNil
        /\ faults' \in 0 .. MaxFaults
        /\ behind' \in BOOLEAN
    <3>1. CASE UNCHANGED <<stored, faults, behind>>
      BY <3>1 DEF TypeOK
    <3>2. ASSUME active # NoSnapshot, NEW p \in active.pending,
                 NEW outcome \in Faults,
                 SaveSnapshot(Approved(active, p), outcome)
          PROVE  /\ stored' \in SnapshotOrNil
                 /\ faults' \in 0 .. MaxFaults
                 /\ behind' \in BOOLEAN
      <4>1. active \in SnapshotType
        BY <3>2 DEF TypeOK, SnapshotOrNil
      <4>2. Approved(active, p) \in SnapshotType
        BY <4>1, ApprovedType, Zenon
      <4>3. outcome \in SaveOutcomes
        BY DEF SaveOutcomes
      <4>q. QED BY <3>2, <4>2, <4>3, SaveSnapshotType, Zenon
    <3>q. QED BY <1>11, <3>1, <3>2 DEF ApproveFails
  <2>q. QED
    BY <1>11, <2>1 DEF ApproveFails, TypeOK, Steps
<1>12. ASSUME NEW g \in Goroutines, Approve(g)
       PROVE  TypeOK'
  <2>1. PICK p \in active.pending :
          /\ next' = [next EXCEPT ![g] = Approved(active, p)]
          /\ SaveSnapshot(Approved(active, p), "ok")
    BY <1>12, Zenon DEF Approve
  <2>2. active \in SnapshotType
    BY <1>12 DEF Approve, TypeOK, SnapshotOrNil
  <2>3. Approved(active, p) \in SnapshotType
    BY <2>2, ApprovedType
  <2>4. /\ stored' \in SnapshotOrNil
        /\ faults' \in 0 .. MaxFaults
        /\ behind' \in BOOLEAN
    BY <2>1, <2>3, SaveSnapshotType DEF SaveOutcomes
  <2>5. next' \in [Goroutines -> SnapshotOrNil]
    BY <2>1, <2>3 DEF TypeOK, SnapshotOrNil
  <2>q. QED
    BY <1>12, <2>4, <2>5 DEF Approve, TypeOK, Steps, Critical
<1>13. ASSUME NEW g \in Goroutines, ApproveActivate(g)
       PROVE  TypeOK'
  <2>0. prev[g] \in SnapshotType
    BY <1>13 DEF ApproveActivate, LockInv, TypeOK, SnapshotOrNil
  <2>1. PendingKeys(prev[g]) \subseteq AnchorKeys
    BY <2>0, PendingKeysType
  <2>2. announced' \subseteq AnchorKeys
    BY <1>13, <2>1 DEF ApproveActivate, TypeOK
  <2>q. QED
    BY <1>13, <2>2
    DEF ApproveActivate, Forget, TypeOK, Steps, SnapshotOrNil
<1>14. CASE SeedFails
  BY <1>14, ManagerAssumption DEF SeedFails, Count, Faults, TypeOK
<1>15. ASSUME NEW g \in Goroutines, Boot(g)
       PROVE  TypeOK'
  BY <1>15 DEF Boot, TypeOK, Steps, Critical
<1>16. CASE Crash
  BY <1>16 DEF Crash, TypeOK, Steps, SnapshotOrNil
<1>17. CASE Tick
  BY <1>17, ManagerAssumption DEF Tick, TypeOK
<1>18. CASE UNCHANGED vars
  BY <1>18 DEF vars, TypeOK
<1>q. QED
  BY <1>1, <1>2, <1>4, <1>5, <1>6, <1>7, <1>8, <1>9, <1>10, <1>11, <1>12,
     <1>13, <1>14, <1>15, <1>16, <1>17, <1>18
  DEF Next, Work, Lock
\* The mutex does its work: Refresh, ReconcileDeclared and ApprovePending load
\* the served snapshot with it held, and let go of it only when they are done.
LEMMA LockInductive ==
  ASSUME TypeOK, LockInv, [Next]_vars
  PROVE  LockInv'
<1> USE DEF Goto, Unlock, BuiltOnServed, Critical, Activating
<1>f. Free \notin Goroutines
  BY ManagerAssumption
<1>n. NoSnapshot \notin SnapshotType
  BY SentinelsAssumption
<1>1. ASSUME NEW g \in Goroutines, CallRefresh(g) \/ CallApprove(g)
      PROVE  LockInv'
  BY <1>1 DEF CallRefresh, CallApprove, TypeOK, LockInv
<1>2. ASSUME NEW g \in Goroutines, LockRefresh(g)
      PROVE  LockInv'
  BY <1>2, <1>f DEF LockRefresh, TypeOK, LockInv
<1>4. ASSUME NEW g \in Goroutines,
             NEW load \in Declarations \cup {LoadError},
             ReconcileUnchanged(g, load)
      PROVE  LockInv'
  BY <1>4, <1>f DEF ReconcileUnchanged, AfterReconcile, Forget, TypeOK, LockInv
<1>5. ASSUME NEW g \in Goroutines,
             NEW load \in Declarations \cup {LoadError},
             ReconcileChanged(g, load)
      PROVE  LockInv'
  <2>1. next' = [next EXCEPT ![g] = RefreshDeclared(prev[g], load)]
    BY <1>5 DEF ReconcileChanged
  <2>2. RefreshDeclared(prev[g], load) # NoSnapshot
    BY <1>5, <1>n, RefreshDeclaredType
    DEF ReconcileChanged, TypeOK, SnapshotOrNil
  <2>q. QED
    BY <1>5, <2>1, <2>2 DEF ReconcileChanged, TypeOK, LockInv
<1>6. ASSUME NEW g \in Goroutines, ReconcileActivate(g)
      PROVE  LockInv'
  BY <1>6, <1>f DEF ReconcileActivate, AfterReconcile, Forget, TypeOK, LockInv
<1>7. ASSUME NEW g \in Goroutines, CycleFails(g)
      PROVE  LockInv'
  BY <1>7, <1>f DEF CycleFails, TypeOK, LockInv
<1>8. ASSUME NEW g \in Goroutines,
             NEW load \in Declarations \cup {LoadError},
             Cycle(g, load)
      PROVE  LockInv'
  <2>1. PICK lotl \in LOTLResults(prev[g]) :
          \E terr \in TerritoryResults(lotl.pointers, prev[g], now) :
            next' = [next EXCEPT ![g] =
                       BuildSnapshot(lotl, terr, load, prev[g], now)]
    BY <1>8 DEF Cycle
  <2>2. PICK terr \in TerritoryResults(lotl.pointers, prev[g], now) :
            next' = [next EXCEPT ![g] =
                       BuildSnapshot(lotl, terr, load, prev[g], now)]
    BY <2>1
  <2>3. BuildSnapshot(lotl, terr, load, prev[g], now) # NoSnapshot
    BY <1>n, CycleInputsHold, BuiltType
  <2>q. QED
    BY <1>8, <2>2, <2>3 DEF Cycle, TypeOK, LockInv
<1>9. ASSUME NEW g \in Goroutines, Activate(g)
      PROVE  LockInv'
  BY <1>9, <1>f DEF Activate, TypeOK, LockInv
<1>10. ASSUME NEW g \in Goroutines, Respond(g)
       PROVE  LockInv'
  BY <1>10, <1>f DEF Respond, Forget, TypeOK, LockInv
<1>11. ASSUME NEW g \in Goroutines, ApproveFails(g)
       PROVE  LockInv'
  BY <1>11, <1>f DEF ApproveFails, TypeOK, LockInv
<1>12. ASSUME NEW g \in Goroutines, Approve(g)
       PROVE  LockInv'
  <2>1. PICK p \in active.pending :
          next' = [next EXCEPT ![g] = Approved(active, p)]
    BY <1>12, Zenon DEF Approve
  <2>2. active \in SnapshotType
    BY <1>12 DEF Approve, TypeOK, SnapshotOrNil
  <2>3. Approved(active, p) \in SnapshotType
    BY <2>2, ApprovedType
  <2>4. Approved(active, p) # NoSnapshot
    BY <1>n, <2>3
  <2>q. QED
    BY <1>12, <1>f, <2>1, <2>4 DEF Approve, TypeOK, LockInv
<1>13. ASSUME NEW g \in Goroutines, ApproveActivate(g)
       PROVE  LockInv'
  BY <1>13, <1>f DEF ApproveActivate, Forget, TypeOK, LockInv
<1>14. CASE SeedFails
  BY <1>14, Zenon DEF SeedFails, LockInv
<1>15. ASSUME NEW g \in Goroutines, Boot(g)
       PROVE  LockInv'
  BY <1>15, <1>f DEF Boot, TypeOK, LockInv
<1>16. CASE Crash
  BY <1>16 DEF Crash, LockInv
<1>17. CASE Tick
  BY <1>17 DEF Tick, LockInv
<1>18. CASE UNCHANGED vars
  BY <1>18 DEF vars, LockInv
<1>q. QED
  BY <1>1, <1>2, <1>4, <1>5, <1>6, <1>7, <1>8, <1>9, <1>10, <1>11, <1>12,
     <1>13, <1>14, <1>15, <1>16, <1>17, <1>18
  DEF Next, Work, Lock

LEMMA InitTypeLock ==
  ASSUME Init
  PROVE  TypeOK /\ LockInv
<1>1. behind \in BOOLEAN
  BY Zenon DEF Init
<1>q. QED
  BY <1>1, ManagerAssumption
  DEF Init, TypeOK, LockInv, BuiltOnServed, Critical, Activating, Steps,
      SnapshotOrNil

\* The state stays well-typed and the mutex invariant holds throughout.
LEMMA TypeLock == Spec => [](TypeOK /\ LockInv)
<1>1. Init => TypeOK /\ LockInv
  BY InitTypeLock
<1>2. (TypeOK /\ LockInv) /\ [Next]_vars => (TypeOK /\ LockInv)'
  BY TypeInductive, LockInductive
<1>q. QED
  BY <1>1, <1>2, PTL DEF Spec

\* Type correctness of the manager (Manager.Refresh, ReconcileDeclared,
\* ApprovePending and Initialize never serve or store a malformed snapshot).
THEOREM TypeCorrect == Spec => []TypeOK
BY TypeLock, PTL

\* The mutations of the served snapshot are serialized by Manager.mu: each one
\* is built on the snapshot it replaces.
THEOREM MutationsSerialized == Spec => []BuiltOnServed
<1>1. LockInv => BuiltOnServed
  BY DEF LockInv
<1>q. QED
  BY <1>1, TypeLock, PTL
-----------------------------------------------------------------------------
(***************************************************************************)
(* What is served.                                                         *)
(***************************************************************************)
\* What the approval of p adds to territory t's anchors.
AddedBy(p, t) == IF t = p.territory THEN {p.fp} ELSE {}

\* What an approval makes of a snapshot: the anchor it names moves from the
\* pending set into its territory, and nothing else changes.
LEMMA ApprovedTerritory ==
  ASSUME NEW s \in SnapshotType, Listed(s), NEW p \in s.pending,
         NEW t \in Territories
  PROVE  LET e == Approved(s, p).terr[t]
         IN  /\ e.list = s.terr[t].list
             /\ e.health = s.terr[t].health
             /\ e.anchors = s.terr[t].anchors \cup AddedBy(p, t)
<1>1. s.terr \in [Territories -> TerritoryEntry]
  BY DEF SnapshotType
<1>2. Approved(s, p).terr
      = [s.terr EXCEPT ![p.territory] = WithAnchor(@, p.fp)]
  BY ApprovedType
<1>3. CASE t # p.territory
  <2>1. Approved(s, p).terr[t] = s.terr[t]
    BY <1>1, <1>2, <1>3
  <2>q. QED BY <1>3, <2>1 DEF AddedBy
<1>4. CASE t = p.territory
  <2>1. p.fp \in HeldIn(s, t)
    BY <1>4 DEF HeldIn
  <2>2. s.terr[t].health \in {"fresh", "carried"}
    BY <2>1 DEF Listed
  <2>3. Approved(s, p).terr[t] = WithAnchor(s.terr[t], p.fp)
    BY <1>1, <1>2, <1>4
  <2>4. s.terr[t] \in TerritoryEntry
    BY <1>1
  <2>q. QED
    BY <1>4, <2>2, <2>3, <2>4 DEF WithAnchor, TerritoryEntry, AddedBy
<1>q. QED BY <1>3, <1>4

\* An approval keeps to the list: the anchor it adds is on it, and is no longer
\* held.
LEMMA ApprovedListed ==
  ASSUME NEW s \in SnapshotType, Listed(s), UniquePending(s),
         NEW p \in s.pending
  PROVE  Listed(Approved(s, p)) /\ UniquePending(Approved(s, p))
<1> DEFINE r == Approved(s, p)
<1>1. r.pending = s.pending \ {p}
  BY ApprovedType, Zenon
<1>2. UniquePending(r)
  BY <1>1 DEF UniquePending
<1>3. ASSUME NEW t \in Territories
      PROVE  /\ r.terr[t].list = s.terr[t].list
             /\ r.terr[t].health = s.terr[t].health
             /\ r.terr[t].anchors = s.terr[t].anchors \cup AddedBy(p, t)
  BY ApprovedTerritory, Zenon
<1>4. ASSUME NEW t \in Territories
      PROVE  /\ HeldIn(r, t) \subseteq HeldIn(s, t)
             /\ t = p.territory => p.fp \in HeldIn(s, t)
             /\ t = p.territory => p.fp \notin HeldIn(r, t)
  BY <1>1 DEF HeldIn, UniquePending
<1> HIDE DEF r
<1>5. Listed(r)
  <2> SUFFICES ASSUME NEW t \in Territories
               PROVE  LET e == r.terr[t]
                      IN  IF e.list = NoList
                          THEN /\ e.health \in {"absent", "failed"}
                               /\ e.anchors = {}
                               /\ HeldIn(r, t) = {}
                          ELSE /\ e.health \in {"fresh", "carried"}
                               /\ e.anchors \cup HeldIn(r, t)
                                  \subseteq e.list.anchors
                               /\ e.anchors \cap HeldIn(r, t) = {}
    BY Zenon DEF Listed
  <2>1. LET e == s.terr[t]
        IN  IF e.list = NoList
            THEN /\ e.health \in {"absent", "failed"}
                 /\ e.anchors = {}
                 /\ HeldIn(s, t) = {}
            ELSE /\ e.health \in {"fresh", "carried"}
                 /\ e.anchors \cup HeldIn(s, t) \subseteq e.list.anchors
                 /\ e.anchors \cap HeldIn(s, t) = {}
    BY DEF Listed
  <2>2. CASE s.terr[t].list = NoList
    <3>1. t # p.territory
      BY <1>4, <2>1, <2>2, Zenon
    <3>2. AddedBy(p, t) = {}
      BY <3>1 DEF AddedBy
    <3>q. QED BY <1>3, <1>4, <2>1, <2>2, <3>2, Zenon
  <2>3. CASE s.terr[t].list # NoList
    <3>a. /\ s.terr[t].anchors \cup HeldIn(s, t) \subseteq s.terr[t].list.anchors
          /\ s.terr[t].anchors \cap HeldIn(s, t) = {}
      BY <2>1, <2>3, Zenon
    <3>b. \A x \in r.terr[t].anchors :
            \/ x \in s.terr[t].anchors
            \/ x \in HeldIn(s, t) /\ x \notin HeldIn(r, t)
      <4>1. r.terr[t].anchors = s.terr[t].anchors \cup AddedBy(p, t)
        BY <1>3, Zenon
      <4>2. \A x \in AddedBy(p, t) : x \in HeldIn(s, t) /\ x \notin HeldIn(r, t)
        BY <1>4 DEF AddedBy
      <4>q. QED BY <4>1, <4>2, Zenon
    <3>c. HeldIn(r, t) \subseteq HeldIn(s, t)
      BY <1>4, Zenon
    <3>1. r.terr[t].anchors \cup HeldIn(r, t) \subseteq s.terr[t].list.anchors
      BY <3>a, <3>b, <3>c, Zenon
    <3>2. r.terr[t].anchors \cap HeldIn(r, t) = {}
      BY <3>a, <3>b, <3>c, Zenon
    <3>q. QED BY <1>3, <2>1, <2>3, <3>1, <3>2, Zenon
  <2>q. QED BY <2>2, <2>3, Zenon
<1>q. QED BY <1>2, <1>5 DEF r

\* An approval changes no list and adds only the anchor it names.
LEMMA ApprovedSuccessor ==
  ASSUME NEW s \in SnapshotType, Listed(s), NEW p \in s.pending
  PROVE  /\ NotOlder(s, Approved(s, p))
         /\ AddsOnly(s, Approved(s, p), s.pending)
<1> DEFINE r == Approved(s, p)
<1>1. r.lotl = s.lotl
  BY ApprovedType, Zenon
<1>2. ASSUME NEW t \in Territories
      PROVE  /\ r.terr[t].list = s.terr[t].list
             /\ r.terr[t].anchors = s.terr[t].anchors \cup AddedBy(p, t)
  BY ApprovedTerritory, Zenon
<1> HIDE DEF r
<1>3. NotOlder(s, r)
  <2>1. \A t \in Territories : r.terr[t].list = s.terr[t].list
    BY <1>2, Zenon
  <2>q. QED BY <1>1, <2>1, NotOlderThanItself
<1>4. AddsOnly(s, r, s.pending)
  BY <1>2 DEF AddsOnly, AddedBy
<1>q. QED BY <1>3, <1>4, Zenon DEF r

LEMMA RefreshDeclaredListed ==
  ASSUME NEW s \in SnapshotType, NEW load \in Declarations \cup {LoadError},
         Listed(s), UniquePending(s)
  PROVE  LET r == RefreshDeclared(s, load)
         IN  Listed(r) /\ UniquePending(r)
BY RefreshDeclaredType, Zenon DEF Listed, UniquePending, HeldIn
\* Every snapshot the manager keeps has only listed anchors and holds none twice.
Good(s) == s # NoSnapshot => Listed(s) /\ UniquePending(s)

GoodInv ==
  /\ Good(active)
  /\ Good(stored)
  /\ \A g \in Goroutines : Good(next[g])

LEMMA BuiltGood ==
  ASSUME NEW prv, NEW lotl, NEW terr, NEW load, NEW time,
         CycleInputs(prv, lotl, terr, load, time), Good(prv)
  PROVE  Good(BuildSnapshot(lotl, terr, load, prv, time))
BY BuiltListed, BuiltUnique DEF Good

\* The three ways to build a snapshot keep to the lists, and so does everything
\* else, which only moves snapshots around: a crash between a save and its
\* activation, a restart from either of them, a save that fails or lands.
LEMMA GoodInductive ==
  ASSUME TypeOK, LockInv, GoodInv, [Next]_vars
  PROVE  GoodInv'
<1> USE DEF Goto, Unlock
<1>n. Good(NoSnapshot)
  BY DEF Good
<1>p. ASSUME NEW g \in Goroutines, pc[g] \in Critical
      PROVE  Good(prev[g])
  BY <1>p DEF LockInv, BuiltOnServed, GoodInv
<1> HIDE DEF Good
<1>s. ASSUME NEW s, NEW outcome, Good(s), SaveSnapshot(s, outcome)
      PROVE  Good(stored')
  BY <1>s DEF SaveSnapshot, GoodInv
<1>1. ASSUME NEW g \in Goroutines, CallRefresh(g) \/ CallApprove(g)
      PROVE  GoodInv'
  BY <1>1 DEF CallRefresh, CallApprove, GoodInv
<1>2. ASSUME NEW g \in Goroutines, LockRefresh(g)
      PROVE  GoodInv'
  BY <1>2 DEF LockRefresh, GoodInv
<1>4. ASSUME NEW g \in Goroutines,
             NEW load \in Declarations \cup {LoadError},
             ReconcileUnchanged(g, load)
      PROVE  GoodInv'
  BY <1>4, <1>n
  DEF ReconcileUnchanged, AfterReconcile, Forget, TypeOK, GoodInv
<1>5. ASSUME NEW g \in Goroutines,
             NEW load \in Declarations \cup {LoadError},
             ReconcileChanged(g, load)
      PROVE  GoodInv'
  <2>1. PICK outcome \in SaveOutcomes :
          /\ SaveSnapshot(RefreshDeclared(prev[g], load), outcome)
          /\ next' = [next EXCEPT ![g] = RefreshDeclared(prev[g], load)]
    BY <1>5 DEF ReconcileChanged
  <2>2. prev[g] \in SnapshotType /\ prev[g] # NoSnapshot
    BY <1>5 DEF ReconcileChanged, TypeOK, SnapshotOrNil
  <2>3. Good(prev[g])
    BY <1>5, <1>p DEF ReconcileChanged, Critical
  <2>4. Good(RefreshDeclared(prev[g], load))
    BY <2>2, <2>3, RefreshDeclaredListed DEF Good
  <2>5. Good(stored')
    BY <1>s, <2>1, <2>4
  <2>q. QED
    BY <1>5, <2>1, <2>4, <2>5 DEF ReconcileChanged, TypeOK, GoodInv
<1>6. ASSUME NEW g \in Goroutines, ReconcileActivate(g)
      PROVE  GoodInv'
  BY <1>6, <1>n
  DEF ReconcileActivate, AfterReconcile, Forget, TypeOK, GoodInv
<1>7. ASSUME NEW g \in Goroutines, CycleFails(g)
      PROVE  GoodInv'
  BY <1>7, <1>p DEF CycleFails, Critical, TypeOK, GoodInv
<1>8. ASSUME NEW g \in Goroutines,
             NEW load \in Declarations \cup {LoadError},
             Cycle(g, load)
      PROVE  GoodInv'
  <2>1. PICK lotl \in LOTLResults(prev[g]) :
          \E terr \in TerritoryResults(lotl.pointers, prev[g], now) :
            LET built == BuildSnapshot(lotl, terr, load, prev[g], now)
            IN  /\ next' = [next EXCEPT ![g] = built]
                /\ IF MustSave(prev[g], built)
                   THEN \E outcome \in SaveOutcomes :
                          SaveSnapshot(built, outcome)
                   ELSE UNCHANGED <<stored, faults, behind>>
    BY <1>8 DEF Cycle
  <2>2. PICK terr \in TerritoryResults(lotl.pointers, prev[g], now) :
            LET built == BuildSnapshot(lotl, terr, load, prev[g], now)
            IN  /\ next' = [next EXCEPT ![g] = built]
                /\ IF MustSave(prev[g], built)
                   THEN \E outcome \in SaveOutcomes :
                          SaveSnapshot(built, outcome)
                   ELSE UNCHANGED <<stored, faults, behind>>
    BY <2>1
  <2> DEFINE built == BuildSnapshot(lotl, terr, load, prev[g], now)
  <2>3. Good(prev[g])
    BY <1>8, <1>p DEF Cycle, Critical
  <2>4. Good(built)
    BY <2>3, CycleInputsHold, BuiltGood
  <2>5. Good(stored')
    <3> HIDE DEF built
    <3>q. QED BY <1>s, <2>2, <2>4, Zenon DEF built, GoodInv
  <2>q. QED
    BY <1>8, <2>2, <2>4, <2>5 DEF Cycle, TypeOK, GoodInv
<1>9. ASSUME NEW g \in Goroutines, Activate(g)
      PROVE  GoodInv'
  BY <1>9 DEF Activate, GoodInv
<1>10. ASSUME NEW g \in Goroutines, Respond(g)
       PROVE  GoodInv'
  BY <1>10, <1>n DEF Respond, Forget, TypeOK, GoodInv
<1>a. ASSUME active # NoSnapshot, NEW p \in active.pending
      PROVE  Good(Approved(active, p))
  <2>1. active \in SnapshotType
    BY <1>a DEF TypeOK, SnapshotOrNil
  <2>2. Listed(active) /\ UniquePending(active)
    BY <1>a DEF GoodInv, Good
  <2>q. QED BY <2>1, <2>2, ApprovedListed DEF Good
<1>11. ASSUME NEW g \in Goroutines, ApproveFails(g)
       PROVE  GoodInv'
  <2>1. Good(stored')
    BY <1>11, <1>a, <1>s DEF ApproveFails, GoodInv
  <2>q. QED
    BY <1>11, <2>1, Zenon DEF ApproveFails, GoodInv
<1>12. ASSUME NEW g \in Goroutines, Approve(g)
       PROVE  GoodInv'
  <2>1. PICK p \in active.pending :
          /\ next' = [next EXCEPT ![g] = Approved(active, p)]
          /\ SaveSnapshot(Approved(active, p), "ok")
    BY <1>12 DEF Approve
  <2>2. Good(Approved(active, p))
    BY <1>12, <1>a DEF Approve
  <2>3. Good(stored')
    BY <1>s, <2>1, <2>2
  <2>q. QED
    BY <1>12, <2>1, <2>2, <2>3, Zenon DEF Approve, TypeOK, GoodInv
<1>13. ASSUME NEW g \in Goroutines, ApproveActivate(g)
       PROVE  GoodInv'
  BY <1>13, <1>n DEF ApproveActivate, Forget, TypeOK, GoodInv
<1>14. CASE SeedFails
  BY <1>14 DEF SeedFails, GoodInv
<1>15. ASSUME NEW g \in Goroutines, Boot(g)
       PROVE  GoodInv'
  BY <1>15 DEF Boot, GoodInv
<1>16. CASE Crash
  BY <1>16, <1>n DEF Crash, GoodInv
<1>17. CASE Tick
  BY <1>17 DEF Tick, GoodInv
<1>18. CASE UNCHANGED vars
  BY <1>18 DEF vars, GoodInv
<1>q. QED
  BY <1>1, <1>2, <1>4, <1>5, <1>6, <1>7, <1>8, <1>9, <1>10, <1>11, <1>12,
     <1>13, <1>14, <1>15, <1>16, <1>17, <1>18
  DEF Next, Work, Lock

LEMMA TypeLockGood == Spec => [](TypeOK /\ LockInv /\ GoodInv)
<1>1. Init => GoodInv
  BY DEF Init, GoodInv, Good
<1>2. TypeOK /\ LockInv /\ GoodInv /\ [Next]_vars => GoodInv'
  BY GoodInductive
<1>q. QED
  BY <1>1, <1>2, TypeLock, PTL DEF Spec

\* No unverified or partial data is served or persisted, by any interleaving of
\* refreshes and approvals, any failures of territories and saves, and any
\* crashes: every served or stored anchor is on the verified list its
\* territory's entry stands for (the doc of Manager.Refresh).
THEOREM OnlyListedServed == Spec => []ServedIsListed
<1>1. GoodInv => ServedIsListed
  BY DEF GoodInv, Good, ServedIsListed
<1>q. QED
  BY <1>1, TypeLockGood, PTL
-----------------------------------------------------------------------------
(***************************************************************************)
(* What an activation may change.                                          *)
(***************************************************************************)
\* The held anchors that g may move into the bundle.
Admitted(g) ==
  IF pc[g] = "approveActivate" THEN prev[g].pending
  ELSE ReleasedIn(prev[g], now)

\* A snapshot waiting to be activated is not older than the one it was built on
\* and adds only what hold mode lets it add.
Successor(g) ==
  pc[g] \in Activating /\ prev[g] # NoSnapshot
  => /\ NotOlder(prev[g], next[g])
     /\ ActivationMode = "hold" => AddsOnly(prev[g], next[g], Admitted(g))

SuccessorInv == \A g \in Goroutines : Successor(g)

LEMMA SuccessorInductive ==
  ASSUME TypeOK, LockInv, GoodInv, SuccessorInv, [Next]_vars
  PROVE  SuccessorInv'
<1> USE DEF Goto, Unlock
\* A goroutine that did not move.
<1>f. ASSUME NEW h \in Goroutines, pc'[h] = pc[h], prev'[h] = prev[h],
             next'[h] = next[h], now' = now
      PROVE  Successor(h)'
  <2>1. Successor(h)
    BY DEF SuccessorInv
  <2>2. Admitted(h)' = Admitted(h)
    BY <1>f, Zenon DEF Admitted
  <2>q. QED BY <1>f, <2>1, <2>2, Zenon DEF Successor
\* A goroutine that has nothing to activate.
<1>i. ASSUME NEW h \in Goroutines, pc'[h] \notin Activating
      PROVE  Successor(h)'
  BY <1>i DEF Successor
<1>g. SUFFICES \A h \in Goroutines : Successor(h)'
  BY DEF SuccessorInv
<1>1. ASSUME NEW g \in Goroutines,
             NEW load \in Declarations \cup {LoadError},
             CallRefresh(g) \/ CallApprove(g) \/ LockRefresh(g)
             \/ ReconcileUnchanged(g, load) \/ ReconcileActivate(g)
      PROVE  \A h \in Goroutines : Successor(h)'
  BY <1>1, <1>f, <1>i, Zenon
  DEF CallRefresh, CallApprove, LockRefresh, ReconcileUnchanged,
      ReconcileActivate, AfterReconcile, Forget, TypeOK, Activating
<1>2. ASSUME NEW g \in Goroutines,
             CycleFails(g) \/ Activate(g) \/ Respond(g) \/ ApproveFails(g)
             \/ ApproveActivate(g)
      PROVE  \A h \in Goroutines : Successor(h)'
  BY <1>2, <1>f, <1>i, Zenon
  DEF CycleFails, Activate, Respond, ApproveFails, ApproveActivate, Forget,
      TypeOK, Activating
<1>3. ASSUME NEW g \in Goroutines,
             NEW load \in Declarations \cup {LoadError},
             ReconcileChanged(g, load)
      PROVE  \A h \in Goroutines : Successor(h)'
  <2>1. next' = [next EXCEPT ![g] = RefreshDeclared(prev[g], load)]
    BY <1>3 DEF ReconcileChanged
  <2>2. prev[g] \in SnapshotType
    BY <1>3 DEF ReconcileChanged, TypeOK, SnapshotOrNil
  <2>3. /\ next'[g].lotl = prev[g].lotl
        /\ next'[g].terr = prev[g].terr
        /\ prev'[g] = prev[g]
    BY <1>3, <2>1, <2>2, RefreshDeclaredType DEF ReconcileChanged, TypeOK
  <2>4. NotOlder(prev'[g], next'[g])
    BY <2>2, <2>3, NotOlderThanItself, Zenon
  <2>5. AddsOnly(prev'[g], next'[g], Admitted(g)')
    BY <2>3, Zenon DEF AddsOnly
  <2>6. Successor(g)'
    BY <2>4, <2>5, Zenon DEF Successor
  <2>q. QED
    BY <1>3, <1>f, <2>6 DEF ReconcileChanged, TypeOK
<1>4. ASSUME NEW g \in Goroutines,
             NEW load \in Declarations \cup {LoadError},
             Cycle(g, load)
      PROVE  \A h \in Goroutines : Successor(h)'
  <2>1. PICK lotl \in LOTLResults(prev[g]) :
          \E terr \in TerritoryResults(lotl.pointers, prev[g], now) :
            next' = [next EXCEPT ![g] =
                       BuildSnapshot(lotl, terr, load, prev[g], now)]
    BY <1>4 DEF Cycle
  <2>2. PICK terr \in TerritoryResults(lotl.pointers, prev[g], now) :
            next' = [next EXCEPT ![g] =
                       BuildSnapshot(lotl, terr, load, prev[g], now)]
    BY <2>1
  <2>3. CycleInputs(prev[g], lotl, terr, load, now)
    BY CycleInputsHold
  <2> DEFINE built == BuildSnapshot(lotl, terr, load, prev[g], now)
  <2>4. next'[g] = built /\ prev'[g] = prev[g] /\ now' = now
    BY <1>4, <2>2 DEF Cycle, TypeOK
  <2>5. prev[g] # NoSnapshot => Listed(prev[g])
    BY <1>4, Zenon DEF Cycle, LockInv, BuiltOnServed, Critical, GoodInv, Good
  <2>6. prev[g] # NoSnapshot => NotOlder(prev[g], built)
    BY <2>3, <2>5, BuiltNotOlder
  <2>7. prev[g] # NoSnapshot /\ ActivationMode = "hold"
        => AddsOnly(prev[g], built, ReleasedIn(prev[g], now))
    BY <2>3, BuiltGated
  <2> HIDE DEF built
  <2>8. Admitted(g)' = ReleasedIn(prev[g], now)
    <3>1. pc'[g] = "activate"
      BY <1>4 DEF Cycle, TypeOK
    <3>q. QED BY <2>4, <3>1, Zenon DEF Admitted
  <2>9. Successor(g)'
    BY <2>4, <2>6, <2>7, <2>8, Zenon DEF Successor
  <2>q. QED
    BY <1>4, <1>f, <2>9 DEF Cycle, TypeOK
<1>5. ASSUME NEW g \in Goroutines, Approve(g)
      PROVE  \A h \in Goroutines : Successor(h)'
  <2>1. PICK p \in active.pending :
          next' = [next EXCEPT ![g] = Approved(active, p)]
    BY <1>5, Zenon DEF Approve
  <2>2. active \in SnapshotType /\ Listed(active)
    BY <1>5, Zenon DEF Approve, TypeOK, SnapshotOrNil, GoodInv, Good
  <2>3. /\ next'[g] = Approved(active, p)
        /\ prev'[g] = active
        /\ pc'[g] = "approveActivate"
    BY <1>5, <2>1, Zenon DEF Approve, TypeOK
  <2>4. /\ NotOlder(active, Approved(active, p))
        /\ AddsOnly(active, Approved(active, p), active.pending)
    BY <2>2, ApprovedSuccessor, Zenon
  <2>5. Admitted(g)' = active.pending
    BY <2>3 DEF Admitted
  <2>7. Successor(g)'
    BY <2>3, <2>4, <2>5 DEF Successor
  <2>q. QED
    BY <1>5, <1>f, <2>7, Zenon DEF Approve, TypeOK
<1>6. CASE SeedFails
  BY <1>6, <1>f, Zenon DEF SeedFails
<1>7. ASSUME NEW g \in Goroutines, Boot(g)
      PROVE  \A h \in Goroutines : Successor(h)'
  BY <1>7, <1>i DEF Boot, LockInv, TypeOK, Activating
<1>8. CASE Crash
  BY <1>8, <1>i DEF Crash, Activating
<1>9. CASE Tick
  <2> SUFFICES ASSUME NEW h \in Goroutines, pc[h] \in Activating,
                      prev[h] # NoSnapshot
               PROVE  Successor(h)'
    BY <1>9, <1>i, <1>f, Zenon DEF Tick, Successor
  <2>1. prev[h] \in SnapshotType /\ now \in Nat
    BY DEF TypeOK, SnapshotOrNil
  <2>2. /\ NotOlder(prev[h], next[h])
        /\ ActivationMode = "hold" => AddsOnly(prev[h], next[h], Admitted(h))
    BY Zenon DEF SuccessorInv, Successor
  <2>3. /\ now' = now + 1
        /\ pc' = pc /\ prev' = prev /\ next' = next
    BY <1>9 DEF Tick
  <2>4. ActivationMode = "hold" => AddsOnly(prev[h], next[h], Admitted(h)')
    <3>1. CASE pc[h] = "approveActivate"
      BY <2>2, <2>3, <3>1 DEF Admitted
    <3>2. CASE pc[h] # "approveActivate"
      <4>1. Admitted(h) = ReleasedIn(prev[h], now)
        BY <3>2 DEF Admitted
      <4>2. Admitted(h)' = ReleasedIn(prev[h], now + 1)
        BY <2>3, <3>2 DEF Admitted
      <4>q. QED BY <2>1, <2>2, <4>1, <4>2, ReleasedStays, Zenon
    <3>q. QED BY <3>1, <3>2
  <2>q. QED
    BY <2>2, <2>3, <2>4, Zenon DEF Successor
<1>10. CASE UNCHANGED vars
  BY <1>10, <1>f DEF vars
<1>q. QED
  BY <1>1, <1>2, <1>3, <1>4, <1>5, <1>6, <1>7, <1>8, <1>9, <1>10
  DEF Next, Work, Lock

LEMMA Successors == Spec => [](TypeOK /\ LockInv /\ GoodInv /\ SuccessorInv)
<1>1. Init => SuccessorInv
  BY DEF Init, SuccessorInv, Successor, Activating
<1>2. TypeOK /\ LockInv /\ GoodInv /\ SuccessorInv /\ [Next]_vars
      => SuccessorInv'
  BY SuccessorInductive
<1>q. QED
  BY <1>1, <1>2, TypeLockGood, PTL DEF Spec

\* The served snapshot changes in three ways only: it is activated by whoever
\* built it on what was served, restored by a boot, or lost in a crash.
LEMMA ActiveChanges ==
  ASSUME TypeOK, LockInv, [Next]_vars, active # NoSnapshot,
         active' # NoSnapshot, active' # active
  PROVE  \E g \in Goroutines :
           /\ pc[g] \in Activating
           /\ prev[g] = active
           /\ active' = next[g]
<1> USE DEF Critical, Activating, BuiltOnServed
<1>1. ASSUME NEW g \in Goroutines, ReconcileActivate(g)
      PROVE  pc[g] \in Activating /\ prev[g] = active /\ active' = next[g]
  BY <1>1, Zenon DEF ReconcileActivate, LockInv
<1>2. ASSUME NEW g \in Goroutines, Activate(g)
      PROVE  pc[g] \in Activating /\ prev[g] = active /\ active' = next[g]
  BY <1>2, Zenon DEF Activate, LockInv
<1>3. ASSUME NEW g \in Goroutines, ApproveActivate(g)
      PROVE  pc[g] \in Activating /\ prev[g] = active /\ active' = next[g]
  BY <1>3, Zenon DEF ApproveActivate, LockInv
<1>4. ASSUME NEW g \in Goroutines, Boot(g)
      PROVE  FALSE
  BY <1>4 DEF Boot, LockInv
<1>5. \E g \in Goroutines :
        ReconcileActivate(g) \/ Activate(g) \/ ApproveActivate(g) \/ Boot(g)
  BY Zenon DEF Next, Work, Lock, vars, CallRefresh, CallApprove, LockRefresh,
         ReconcileUnchanged, ReconcileChanged, CycleFails, Cycle, Respond,
         ApproveFails, Approve, SeedFails, Crash, Tick
<1>q. QED BY <1>1, <1>2, <1>3, <1>4, <1>5, Zenon

\* What a consumer is served never goes back to an older list while the process
\* lives (the regression checks of Pipeline.Refresh and
\* nationalTLSource.Verify, under every interleaving).
THEOREM NoRegression == Spec => SequencesNeverRegress
<1>1. ASSUME TypeOK, LockInv, GoodInv, SuccessorInv, [Next]_vars,
             active # NoSnapshot, active' # NoSnapshot
      PROVE  NotOlder(active, active')
  <2>1. CASE active' = active
    <3>1. active \in SnapshotType
      BY <1>1 DEF TypeOK, SnapshotOrNil
    <3>q. QED BY <2>1, <3>1, NotOlderThanItself
  <2>2. CASE active' # active
    <3>1. PICK g \in Goroutines : /\ pc[g] \in Activating
                                  /\ prev[g] = active
                                  /\ active' = next[g]
      BY <1>1, <2>2, ActiveChanges
    <3>q. QED BY <1>1, <3>1, Zenon DEF SuccessorInv, Successor
  <2>q. QED BY <2>1, <2>2
<1>2. TypeOK /\ LockInv /\ GoodInv /\ SuccessorInv /\ [Next]_vars
      => [active # NoSnapshot /\ active' # NoSnapshot
          => NotOlder(active, active')]_vars
  BY <1>1
<1>q. QED
  BY <1>2, Successors, PTL DEF Spec, SequencesNeverRegress

\* Hold mode admits nothing that was not held before and then approved or
\* released (applyHoldMode, ApprovePending).
THEOREM HoldModeGates == Spec => HoldGate
<1> DEFINE Gate == IF \E g \in Goroutines : pc[g] = "approveActivate"
                   THEN active.pending
                   ELSE ReleasedIn(active, now)
<1>1. ASSUME TypeOK, LockInv, GoodInv, SuccessorInv, [Next]_vars,
             ActivationMode = "hold", active # NoSnapshot,
             active' # NoSnapshot
      PROVE  AddsOnly(active, active', Gate)
  <2>1. CASE active' = active
    BY <2>1 DEF AddsOnly
  <2>2. CASE active' # active
    <3>1. PICK g \in Goroutines : /\ pc[g] \in Activating
                                  /\ prev[g] = active
                                  /\ active' = next[g]
      BY <1>1, <2>2, ActiveChanges
    <3>2. AddsOnly(active, active', Admitted(g))
      BY <1>1, <3>1, Zenon DEF SuccessorInv, Successor
    <3>3. Admitted(g) \subseteq Gate
      BY <3>1 DEF Admitted, ReleasedIn
    <3>q. QED BY <3>2, <3>3 DEF AddsOnly
  <2>q. QED BY <2>1, <2>2
<1>2. TypeOK /\ LockInv /\ GoodInv /\ SuccessorInv /\ [Next]_vars
      => [ActivationMode = "hold" /\ active # NoSnapshot
          /\ active' # NoSnapshot
          => AddsOnly(active, active', Gate)]_vars
  BY <1>1
<1>q. QED
  BY <1>2, Successors, PTL DEF Spec, HoldGate
=============================================================================
