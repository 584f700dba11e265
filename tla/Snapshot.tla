------------------------------ MODULE Snapshot ------------------------------
(***************************************************************************)
(* The snapshot: the immutable value the service builds, persists and      *)
(* serves (trust/anchor.go), with the comparisons the manager makes        *)
(* between two of them (trust/diff.go, ingest/manager.go).                 *)
(*                                                                         *)
(* Abstractions.  A certificate is the fingerprint that identifies it.  A  *)
(* trusted list is the record of the fields the service reads from it; its *)
(* SHA-256 digest is the list itself, so two digests are equal exactly     *)
(* when the lists are.  A content hash is the content it hashes.  The      *)
(* order of anchors inside a territory is left out.                        *)
(***************************************************************************)
EXTENDS Integers, FiniteSets

CONSTANTS
  Territories,    \* territory codes a snapshot can have an entry for
  Fingerprints,   \* certificates the trusted lists can carry
  DeclaredRoles,  \* (certificate, type) pairs an operator can declare
  SkippedServices,  \* accepted services that yield no anchor: <<name, reason>>
  Labels,         \* names an operator can give a declared certificate
  Reasons,        \* texts of the errors a territory can fail with
  NoSnapshot,     \* the nil snapshot pointer
  NoList,         \* a territory entry that was built from no list
  NoDate,         \* a list that states no NextUpdate
  NoReason,       \* the empty error text
  NotDeclared     \* a role the declaration does not contain

-----------------------------------------------------------------------------
(***************************************************************************)
(* Types.                                                                  *)
(***************************************************************************)
TrustedList ==
  [seq        : Nat,
   anchors    : SUBSET Fingerprints,
   skipped    : SUBSET SkippedServices,
   nextUpdate : Nat \cup {NoDate}]

LOTL == [seq : Nat, pointers : SUBSET Territories]

\* CarriedOver and Failed are one field here: "carried" and "failed".
TerritoryEntry ==
  [health  : {"absent", "fresh", "carried", "failed"},
   list    : TrustedList \cup {NoList},
   anchors : SUBSET Fingerprints,
   reason  : Reasons \cup {NoReason}]

PendingAnchor ==
  [territory : Territories, fp : Fingerprints, firstSeen : Nat]

Declaration == [DeclaredRoles -> Labels \cup {NotDeclared}]

SnapshotType ==
  [lotl     : LOTL,
   terr     : [Territories -> TerritoryEntry],
   internal : Declaration,
   pending  : SUBSET PendingAnchor]

ASSUME SentinelsAssumption ==
  /\ NoDate \notin Nat
  /\ NoReason \notin Reasons
  /\ NotDeclared \notin Labels
  /\ NoList \notin TrustedList
  /\ NoSnapshot \notin SnapshotType

\* A snapshot pointer.
SnapshotOrNil == SnapshotType \cup {NoSnapshot}

Absent ==
  [health |-> "absent", list |-> NoList, anchors |-> {}, reason |-> NoReason]

NothingDeclared == [r \in DeclaredRoles |-> NotDeclared]

-----------------------------------------------------------------------------
\* Snapshot.Territory(code), with a nil snapshot having no territories.
EntryOf(s, t) == IF s = NoSnapshot THEN Absent ELSE s.terr[t]

Present(e) == e.health # "absent"

\* Territory.TLSequence: zero for an entry that was built from no list.
TLSequence(e) == IF e.list = NoList THEN 0 ELSE e.list.seq

\* Territory.Skipped, which comes from the list and stays with it.
Skipped(e) == IF e.list = NoList THEN {} ELSE e.list.skipped

\* Territory.StaleAt: past NextUpdate + grace, never without a NextUpdate.
StaleAt(e, time, grace) ==
  /\ e.list # NoList
  /\ e.list.nextUpdate # NoDate
  /\ time > e.list.nextUpdate + grace

DeclaredIn(s) == {r \in DeclaredRoles : s.internal[r] # NotDeclared}

\* anchorIndex: the served anchors by territory and fingerprint, declared ones
\* by role.
ListedIndex(s) == UNION {{t} \X s.terr[t].anchors : t \in Territories}

DeclaredIndex(s) == {"internal"} \X DeclaredIn(s)

AnchorIndex(s) ==
  IF s = NoSnapshot THEN {} ELSE ListedIndex(s) \cup DeclaredIndex(s)

AnchorKeys ==
  (Territories \X Fingerprints) \cup ({"internal"} \X DeclaredRoles)

\* ComputeDiff: what a consumer of the change events adds and removes.
ComputeDiff(prev, next) ==
  [added   |-> AnchorIndex(next) \ AnchorIndex(prev),
   removed |-> AnchorIndex(prev) \ AnchorIndex(next)]

\* idContent: a failed territory contributes nothing, and neither health, nor
\* digests, nor what a declaration calls its certificates are part of it.
ComputeID(s) ==
  [lotlSequence |-> s.lotl.seq,
   territories  |-> {<<t, TLSequence(s.terr[t]), s.terr[t].anchors>> :
                       t \in {u \in Territories :
                                s.terr[u].health \notin {"absent", "failed"}}},
   internal     |-> DeclaredIn(s),
   pending      |-> [f \in Fingerprints |->
                       Cardinality({p \in s.pending : p.fp = f})]]

PendingKeys(s) == {<<p.territory, p.fp>> : p \in s.pending}

\* The code compares in the order of the fingerprints, which leaves open how two
\* territories that hold one certificate are ordered: it may see a change, and
\* save, where there is none.
PendingEqual(prev, next) == PendingKeys(prev) = PendingKeys(next)

\* Mutant: a territory that starts or stops being carried over is no change.
TerritoryStateChangedFailed(prev, next) ==
  \E t \in Territories :
    LET e == next.terr[t]
        pe == prev.terr[t]
    IN  /\ Present(e)
        /\ \/ (pe.health = "failed") # (e.health = "failed")
           \/ TLSequence(pe) # TLSequence(e)
           \/ Skipped(pe) # Skipped(e)

\* territoryStateChanged looks only at the territories of next.
TerritoryStateChanged(prev, next) ==
  \E t \in Territories :
    LET e == next.terr[t]
        pe == prev.terr[t]
    IN  /\ Present(e)
        /\ \/ pe.health # e.health
           \/ TLSequence(pe) # TLSequence(e)
           \/ e.health = "failed" /\ pe.reason # e.reason
           \/ Skipped(pe) # Skipped(e)

\* The digest is the list, so a changed digest is a changed list.
LOTLInputChanged(prev, next) == prev.lotl # next.lotl

\* Mutant: only the content id decides.
CycleChangedID(prev, next) ==
  prev = NoSnapshot \/ ComputeID(next) # ComputeID(prev)

\* cycleChanged of Manager.Refresh.
CycleChanged(prev, next) ==
  \/ prev = NoSnapshot
  \/ ComputeID(next) # ComputeID(prev)
  \/ ~PendingEqual(prev, next)
  \/ TerritoryStateChanged(prev, next)

-----------------------------------------------------------------------------
(***************************************************************************)
(* What the properties say about snapshots.                                *)
(***************************************************************************)
HeldIn(s, t) == {p.fp : p \in {q \in s.pending : q.territory = t}}

\* A territory without data (absent or failed) serves and holds nothing; one
\* with data serves and holds, disjointly, only anchors of the list its entry
\* stands for.
Listed(s) ==
  \A t \in Territories :
    LET e == s.terr[t]
    IN  IF e.list = NoList
        THEN /\ e.health \in {"absent", "failed"}
             /\ e.anchors = {}
             /\ HeldIn(s, t) = {}
        ELSE /\ e.health \in {"fresh", "carried"}
             /\ e.anchors \cup HeldIn(s, t) \subseteq e.list.anchors
             /\ e.anchors \cap HeldIn(s, t) = {}

\* Neither the list of the lists of r nor the list of a territory that has data
\* in s and is still in r is older than that of s.
NotOlder(s, r) ==
  /\ r.lotl.seq >= s.lotl.seq
  /\ \A t \in Territories :
       s.terr[t].list # NoList /\ Present(r.terr[t])
       => TLSequence(r.terr[t]) >= TLSequence(s.terr[t])

\* Every anchor that r adds to what s serves is one of the held anchors.
AddsOnly(s, r, held) ==
  \A t \in Territories :
  \A f \in r.terr[t].anchors \ s.terr[t].anchors :
    \E p \in held : p.territory = t /\ p.fp = f

\* Two snapshots a restart may not tell apart: same content id, same held
\* anchors with the times they were first seen, same list of the lists, and the
\* same health, sequence number and skipped services in every territory of the
\* second.  What else a list of the same sequence number may change (NextUpdate,
\* digest), why a territory is carried over, and the names of declared
\* certificates may differ: Refresh saves nothing on their account.
SameState(s, r) ==
  /\ ComputeID(s) = ComputeID(r)
  /\ s.pending = r.pending
  /\ s.lotl = r.lotl
  /\ \A t \in Territories :
       Present(r.terr[t]) => /\ s.terr[t].health = r.terr[t].health
                             /\ TLSequence(s.terr[t]) = TLSequence(r.terr[t])
                             /\ Skipped(s.terr[t]) = Skipped(r.terr[t])
=============================================================================
