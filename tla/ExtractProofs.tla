--------------------------- MODULE ExtractProofs ----------------------------
(***************************************************************************)
(* Theorems about ExtractAnchors, for trusted lists of any length: what    *)
(* the loops leave behind, from invariants over the part read so far.      *)
(***************************************************************************)
EXTENDS Extract, FiniteSetTheorems, TLAPS

Accepted(s) == Admitted(s) /\ StatusOK(s)

\* What the first loop has collected after n entries.
StatusesOfFirst(n, l) ==
  UNION {{<<c.fp, l[m].status>> : c \in Identities(l[m])} :
           m \in {k \in 1 .. n : Admitted(l[k])}}

Merging == loop \in {"dedup", "returned"}

\* The counters, and the anchors as a sequence.
ShapeInv ==
  /\ list \in Lists
  /\ loop \in {"statuses", "select", "identities", "dedup", "returned"}
  /\ i \in Nat \ {0}
  /\ j \in Nat \ {0}
  /\ kept \in Nat
  /\ anchors \in Seq(Range(anchors))
  /\ loop \in {"statuses", "select"} => i <= Len(list) + 1
  /\ loop = "identities"
     => i <= Len(list) /\ j <= Len(list[i].certs) /\ Accepted(list[i])
  /\ loop # "identities" => j = 1
  /\ IF Merging THEN kept < i /\ i <= Len(anchors) + 1 ELSE kept = 0
  /\ loop = "statuses" => anchors = <<>>
  /\ loop = "returned" => i = Len(anchors) + 1

StatusesInv ==
  statuses
    = StatusesOfFirst(IF loop = "statuses" THEN i - 1 ELSE Len(list), list)

AnchorFields ==
  {"fp", "name", "status", "type", "uses", "qscd", "qualifiers"}

\* The anchors that will be returned or are still to be read.
Alive == IF Merging THEN (1 .. kept) \cup (i .. Len(anchors))
         ELSE 1 .. Len(anchors)

\* An anchor says nothing that no entry of its certificate says.
Sourced(a) ==
  /\ DOMAIN a = AnchorFields
  /\ a.qscd \in BOOLEAN
  /\ AcceptedEntries(a.fp) # {}
  /\ \A u \in a.uses : \E s \in AcceptedEntries(a.fp) : u \in s.uses
  /\ a.qscd => \E s \in AcceptedEntries(a.fp) : SaysQscd(s)

SourceInv == \A k \in Alive : Sourced(anchors[k])

\* An anchor says all that an entry of its certificate says.
Covers(a, s, fp) ==
  /\ a.fp = fp
  /\ s.uses \subseteq a.uses
  /\ SaysQscd(s) => a.qscd

\* The second loop is past the l-th certificate of the m-th entry.
CertRead(m, l) ==
  \/ Merging
  \/ loop \in {"select", "identities"} /\ (m < i \/ (m = i /\ l < j))

CoverInv ==
  \A m \in 1 .. Len(list) : \A l \in 1 .. Len(list[m].certs) :
    /\ Accepted(list[m])
    /\ list[m].certs[l] \in Identities(list[m])
    /\ CertRead(m, l)
    => \/ list[m].certs[l].fp \in conflicted
       \/ \E k \in Alive : Covers(anchors[k], list[m], list[m].certs[l].fp)

\* What is kept, and what is dropped.
KeptInv ==
  /\ \A k, l \in 1 .. kept : anchors[k].fp = anchors[l].fp => k = l
  /\ \A k \in 1 .. kept : ~Conflicting(anchors[k].fp)
  /\ \A fp \in conflicted :
       /\ Merging
       /\ Conflicting(fp)
       /\ \E w \in warnings : w[1] = "status_conflict" /\ w[3] = fp

\* The second loop has reported the m-th entry.
EntryRead(m) ==
  \/ Merging
  \/ loop \in {"select", "identities"} /\ m < i
  \/ loop = "identities" /\ m = i

ReportInv ==
  \A m \in 1 .. Len(list) :
    EntryRead(m) => IF Admitted(list[m])
                    THEN StatusOK(list[m])
                         => EntryWarnings(list[m]) \subseteq warnings
                    ELSE list[m].type \in skipped

ExtractInv ==
  ShapeInv /\ StatusesInv /\ SourceInv /\ CoverInv /\ KeptInv /\ ReportInv

-----------------------------------------------------------------------------
(***************************************************************************)
(* Sequences, and what the list says.                                      *)
(***************************************************************************)
LEMMA SeqOfRange ==
  ASSUME NEW S, NEW s \in Seq(S)
  PROVE  s \in Seq(Range(s))
BY DEF Range

LEMMA AppendElements ==
  ASSUME NEW s, s \in Seq(Range(s)), NEW e
  PROVE  LET t == Append(s, e)
         IN  /\ t \in Seq(Range(t))
             /\ Len(t) = Len(s) + 1
             /\ \A k \in 1 .. Len(s) : t[k] = s[k]
             /\ t[Len(s) + 1] = e
<1> DEFINE S == Range(s) \cup {e}
<1>1. s \in Seq(S)
  OBVIOUS
<1> HIDE DEF S
<1>2. e \in S
  BY DEF S
<1>3. Append(s, e) \in Seq(S)
  BY <1>1, <1>2
<1>4. Append(s, e) \in Seq(Range(Append(s, e)))
  BY <1>3, SeqOfRange
<1>5. /\ Len(Append(s, e)) = Len(s) + 1
      /\ \A k \in 1 .. Len(s) : Append(s, e)[k] = s[k]
      /\ Append(s, e)[Len(s) + 1] = e
  BY <1>1, <1>2
<1>q. QED BY <1>4, <1>5

Updated(s, k, e) == [s EXCEPT ![k] = e]

LEMMA UpdatedElements ==
  ASSUME NEW s, s \in Seq(Range(s)), NEW k \in 1 .. Len(s), NEW e
  PROVE  /\ Updated(s, k, e) \in Seq(Range(Updated(s, k, e)))
         /\ Len(Updated(s, k, e)) = Len(s)
         /\ \A l \in 1 .. Len(s) :
              Updated(s, k, e)[l] = IF l = k THEN e ELSE s[l]
<1> DEFINE S == Range(s) \cup {e}
<1>1. s \in Seq(S) /\ e \in S
  OBVIOUS
<1> HIDE DEF S
<1>2. Updated(s, k, e) \in Seq(S) /\ Len(Updated(s, k, e)) = Len(s)
  BY <1>1 DEF Updated
<1>3. Updated(s, k, e) \in Seq(Range(Updated(s, k, e)))
  BY <1>2, SeqOfRange
<1>4. \A l \in 1 .. Len(s) : Updated(s, k, e)[l] = IF l = k THEN e ELSE s[l]
  BY <1>1 DEF Updated
<1>q. QED BY <1>2, <1>3, <1>4

LEMMA ListShape ==
  ASSUME ShapeInv
  PROVE  /\ list \in Seq(Range(list))
         /\ Len(list) \in Nat
         /\ Len(anchors) \in Nat
         /\ \A m \in 1 .. Len(list) : list[m].certs \in Seq(Range(list[m].certs))
         /\ \A m \in 1 .. Len(list) : Len(list[m].certs) \in Nat
<1>1. list \in Seq(Range(list)) /\ Len(list) \in Nat
  BY ListsAssumption DEF ShapeInv
<1>2. Len(anchors) \in Nat
  BY DEF ShapeInv
<1>3. ASSUME NEW m \in 1 .. Len(list)
      PROVE  list[m].certs \in Seq(Range(list[m].certs))
  <2>1. list[m] \in Range(list)
    BY <1>1 DEF Range
  <2>q. QED BY <2>1, ListsAssumption DEF ShapeInv
<1>q. QED BY <1>1, <1>2, <1>3

\* The entries of a certificate depend on the list only.
LEMMA EntriesStay ==
  ASSUME UNCHANGED list
  PROVE  /\ \A fp : AcceptedEntries(fp)' = AcceptedEntries(fp)
         /\ \A a : Sourced(a) => Sourced(a)'
<1>1. \A fp : AcceptedEntries(fp)' = AcceptedEntries(fp)
  BY DEF AcceptedEntries, Entries
<1>q. QED BY <1>1 DEF Sourced

LEMMA ConflictsStay ==
  ASSUME UNCHANGED statuses
  PROVE  \A fp : Conflicting(fp)' = Conflicting(fp)
BY DEF Conflicting, StatusesOf

\* A finite set has more than one element when two of its elements differ.
LEMMA SeveralElements ==
  ASSUME NEW S, IsFiniteSet(S)
  PROVE  Cardinality(S) > 1 <=> \E x, y \in S : x # y
<1>1. Cardinality(S) \in Nat
  BY FS_CardinalityType
<1>2. CASE S = {}
  BY <1>2, FS_EmptySet
<1>3. CASE S # {}
  <2>1. PICK x \in S : TRUE
    BY <1>3
  <2>2. IsFiniteSet(S \ {x}) /\ Cardinality(S \ {x}) = Cardinality(S) - 1
    BY FS_RemoveElement
  <2>3. Cardinality(S \ {x}) \in Nat
    BY <2>2, FS_CardinalityType
  <2>4. Cardinality(S \ {x}) = 0 <=> S \ {x} = {}
    BY <2>2, FS_EmptySet
  <2>5. S \ {x} # {} <=> \E y, z \in S : y # z
    OBVIOUS
  <2>q. QED BY <1>1, <2>2, <2>3, <2>4, <2>5
<1>q. QED BY <1>2, <1>3

\* Once the statuses are collected, they conflict for a certificate exactly
\* when two of its entries disagree.
LEMMA ConflictIsDisagreement ==
  ASSUME ShapeInv, StatusesInv, loop # "statuses", NEW fp
  PROVE  Conflicting(fp) <=> ~Agreed(fp)
<1>1. list \in Seq(Range(list)) /\ Len(list) \in Nat
  BY ListShape
<1>2. statuses = StatusesOfFirst(Len(list), list)
  BY DEF StatusesInv
<1>3. ASSUME NEW st
      PROVE  st \in StatusesOf(fp) <=> \E s \in Entries(fp) : s.status = st
  <2>1. st \in StatusesOf(fp) <=> <<fp, st>> \in statuses
    BY DEF StatusesOf
  <2>2. <<fp, st>> \in statuses
        <=> \E m \in 1 .. Len(list) :
              /\ Admitted(list[m])
              /\ list[m].status = st
              /\ \E c \in Identities(list[m]) : c.fp = fp
    BY <1>2 DEF StatusesOfFirst
  <2>3. \A s : s \in Range(list) <=> \E m \in 1 .. Len(list) : s = list[m]
    BY <1>1 DEF Range
  <2>q. QED BY <2>1, <2>2, <2>3 DEF Entries, HasCert
<1>4. IsFiniteSet(StatusesOf(fp))
  <2> DEFINE T == {list[m].status : m \in 1 .. Len(list)}
  <2>1. IsFiniteSet(1 .. Len(list))
    BY <1>1, FS_Interval
  <2>2. IsFiniteSet(T)
    <3> DEFINE f == [m \in 1 .. Len(list) |-> list[m].status]
    <3>1. T = {f[m] : m \in 1 .. Len(list)}
      OBVIOUS
    <3>2. f \in Surjection(1 .. Len(list), T)
      BY DEF Surjection
    <3> HIDE DEF f, T
    <3>q. QED BY <2>1, <3>2, FS_Surjection
  <2>3. StatusesOf(fp) \subseteq T
    BY <1>1, <1>3 DEF Entries, Range
  <2> HIDE DEF T
  <2>q. QED BY <2>2, <2>3, FS_Subset
<1>5. Conflicting(fp) <=> \E x, y \in StatusesOf(fp) : x # y
  BY <1>4, SeveralElements DEF Conflicting
<1>q. QED BY <1>3, <1>5 DEF Agreed

-----------------------------------------------------------------------------
(***************************************************************************)
(* The first loop.                                                         *)
(***************************************************************************)
\* Before the last loop nothing is kept and no conflict is reported.
LEMMA NothingMerged ==
  ASSUME ExtractInv, ~Merging
  PROVE  kept = 0 /\ conflicted = {}
BY DEF ExtractInv, ShapeInv, KeptInv

LEMMA CollectStep ==
  ASSUME ExtractInv, CollectStatuses
  PROVE  ExtractInv'
<1>1. /\ loop = "statuses" /\ loop' = "statuses"
      /\ i \in Nat \ {0} /\ i <= Len(list) /\ i' = i + 1
      /\ ~Merging /\ ~Merging'
      /\ UNCHANGED <<list, loop, j, anchors, warnings, skipped, kept,
                     conflicted>>
  BY DEF ExtractInv, ShapeInv, CollectStatuses, Merging
<1>2. Len(list) \in Nat
  BY ListShape DEF ExtractInv
<1>3. kept = 0 /\ conflicted = {} /\ anchors = <<>>
  BY <1>1, NothingMerged DEF ExtractInv, ShapeInv
<1>4. ShapeInv'
  BY <1>1, <1>2 DEF ExtractInv, ShapeInv, Accepted
<1>5. StatusesInv'
  <2>1. statuses = StatusesOfFirst(i - 1, list)
    BY <1>1 DEF ExtractInv, StatusesInv
  <2>2. \A m : m \in 1 .. i <=> m \in 1 .. i - 1 \/ m = i
    BY <1>1
  <2>3. StatusesOfFirst(i, list)
          = StatusesOfFirst(i - 1, list) \cup
              (IF Admitted(list[i])
               THEN {<<c.fp, list[i].status>> : c \in Identities(list[i])}
               ELSE {})
    BY <2>2 DEF StatusesOfFirst
  <2>4. statuses' = StatusesOfFirst(i, list)
    BY <2>1, <2>3 DEF CollectStatuses
  <2>5. i' - 1 = i
    BY <1>1
  <2>q. QED BY <1>1, <2>4, <2>5 DEF StatusesInv
<1>6. SourceInv' /\ CoverInv' /\ KeptInv' /\ ReportInv'
  BY <1>1, <1>3
  DEF SourceInv, Alive, CoverInv, CertRead, KeptInv, ReportInv, EntryRead,
      Merging
<1>q. QED BY <1>4, <1>5, <1>6 DEF ExtractInv

LEMMA StartSelectStep ==
  ASSUME ExtractInv, StartSelect
  PROVE  ExtractInv'
<1>1. /\ loop = "statuses" /\ loop' = "select"
      /\ i' = 1 /\ j = 1
      /\ ~Merging /\ ~Merging'
      /\ UNCHANGED <<list, j, statuses, anchors, warnings, skipped, kept,
                     conflicted>>
  BY DEF ExtractInv, ShapeInv, StartSelect, Merging
<1>2. Len(list) \in Nat /\ i = Len(list) + 1
  BY <1>1, ListShape DEF ExtractInv, ShapeInv, StartSelect
<1>3. kept = 0 /\ conflicted = {} /\ anchors = <<>>
  BY <1>1, NothingMerged DEF ExtractInv, ShapeInv
<1>4. ShapeInv'
  BY <1>1, <1>2 DEF ExtractInv, ShapeInv
<1>5. StatusesInv'
  <2>1. statuses = StatusesOfFirst(Len(list), list)
    BY <1>1, <1>2 DEF ExtractInv, StatusesInv
  <2>q. QED BY <1>1, <2>1 DEF StatusesInv
<1>6. SourceInv' /\ CoverInv' /\ KeptInv' /\ ReportInv'
  BY <1>1, <1>3
  DEF SourceInv, Alive, CoverInv, CertRead, KeptInv, ReportInv, EntryRead,
      Merging
<1>q. QED BY <1>4, <1>5, <1>6 DEF ExtractInv

\* After it, the statuses stay what they are, and so do the conflicts.
LEMMA StatusesStay ==
  ASSUME ExtractInv, loop # "statuses", loop' # "statuses",
         UNCHANGED <<list, statuses>>
  PROVE  StatusesInv' /\ \A fp : Conflicting(fp)' = Conflicting(fp)
BY ConflictsStay DEF ExtractInv, StatusesInv

-----------------------------------------------------------------------------
(***************************************************************************)
(* The second loop.                                                        *)
(***************************************************************************)
\* An entry that gives no anchor.
LEMMA SkipStep ==
  ASSUME ExtractInv, SkipType \/ SkipStatus \/ SkipEntry
  PROVE  ExtractInv'
<1>1. /\ loop = "select" /\ loop' = "select"
      /\ i \in Nat \ {0} /\ i <= Len(list) /\ i' = i + 1 /\ j = 1 /\ j' = 1
      /\ ~Merging /\ ~Merging'
      /\ UNCHANGED <<list, statuses, anchors, kept, conflicted>>
  BY DEF ExtractInv, ShapeInv, SkipType, SkipStatus, SkipEntry, Merging
<1>2. Len(list) \in Nat /\ Len(anchors) \in Nat
  BY ListShape DEF ExtractInv
<1>3. kept = 0 /\ conflicted = {}
  BY <1>1, NothingMerged
<1>4. ShapeInv'
  BY <1>1, <1>2 DEF ExtractInv, ShapeInv
<1>5. StatusesInv'
  BY <1>1, StatusesStay
<1>6. Alive' = Alive
  BY <1>1 DEF Alive
<1>7. SourceInv'
  BY <1>1, <1>6, EntriesStay DEF ExtractInv, SourceInv
<1>8. CoverInv'
  <2> SUFFICES ASSUME NEW m \in 1 .. Len(list),
                      NEW l \in 1 .. Len(list[m].certs),
                      Accepted(list[m]),
                      list[m].certs[l] \in Identities(list[m]),
                      CertRead(m, l)'
               PROVE  \E k \in Alive :
                        Covers(anchors[k], list[m], list[m].certs[l].fp)
    BY <1>1, <1>6 DEF CoverInv
  <2>1. m # i
    BY DEF SkipType, SkipStatus, SkipEntry, Accepted
  <2>2. CertRead(m, l)
    BY <1>1, <1>2, <2>1 DEF CertRead
  <2>q. QED BY <1>3, <2>2 DEF ExtractInv, CoverInv
<1>9. KeptInv'
  BY <1>1, <1>3 DEF KeptInv
<1>10. ReportInv'
  <2>1. warnings \subseteq warnings' /\ skipped \subseteq skipped'
    BY DEF SkipType, SkipStatus, SkipEntry
  <2>2. ASSUME NEW m \in 1 .. Len(list), EntryRead(m)', m # i
        PROVE  EntryRead(m)
    BY <1>1, <1>2, <2>2 DEF EntryRead
  <2>3. IF Admitted(list[i])
        THEN StatusOK(list[i]) => EntryWarnings(list[i]) \subseteq warnings'
        ELSE list[i].type \in skipped'
    BY DEF SkipType, SkipStatus, SkipEntry
  <2>q. QED BY <1>1, <2>1, <2>2, <2>3 DEF ExtractInv, ReportInv
<1>q. QED BY <1>4, <1>5, <1>7, <1>8, <1>9, <1>10 DEF ExtractInv

LEMMA SelectStep ==
  ASSUME ExtractInv, Select
  PROVE  ExtractInv'
<1>1. /\ loop = "select" /\ loop' = "identities"
      /\ i \in Nat \ {0} /\ i <= Len(list) /\ j = 1
      /\ ~Merging /\ ~Merging'
      /\ UNCHANGED <<list, i, j, statuses, anchors, skipped, kept, conflicted>>
  BY DEF ExtractInv, ShapeInv, Select, Merging
<1>2. /\ Len(list) \in Nat /\ Len(anchors) \in Nat
      /\ list[i].certs \in Seq(Range(list[i].certs))
      /\ Len(list[i].certs) \in Nat
  BY <1>1, ListShape DEF ExtractInv
<1>3. kept = 0 /\ conflicted = {}
  BY <1>1, NothingMerged
<1>4. ShapeInv'
  <2>1. Range(list[i].certs) # {}
    BY DEF Select, Identities
  <2>2. Len(list[i].certs) >= 1
    BY <1>2, <2>1 DEF Range
  <2>3. Accepted(list[i])
    BY DEF Select, Accepted
  <2>q. QED BY <1>1, <1>2, <2>2, <2>3 DEF ExtractInv, ShapeInv, Accepted
<1>5. StatusesInv'
  BY <1>1, StatusesStay
<1>6. Alive' = Alive
  BY <1>1 DEF Alive
<1>7. SourceInv'
  BY <1>1, <1>6, EntriesStay DEF ExtractInv, SourceInv
<1>8. CoverInv'
  <2>1. \A m, l : CertRead(m, l)' <=> CertRead(m, l)
    BY <1>1 DEF CertRead
  <2>q. QED BY <1>1, <1>6, <2>1 DEF ExtractInv, CoverInv, Covers
<1>9. KeptInv'
  BY <1>1, <1>3 DEF KeptInv
<1>10. ReportInv'
  <2>1. ASSUME NEW m \in 1 .. Len(list), EntryRead(m)', m # i
        PROVE  EntryRead(m)
    BY <1>1, <2>1 DEF EntryRead
  <2>2. /\ Admitted(list[i])
        /\ EntryWarnings(list[i]) \subseteq warnings'
        /\ warnings \subseteq warnings'
    BY DEF Select
  <2>q. QED BY <1>1, <2>1, <2>2 DEF ExtractInv, ReportInv
<1>q. QED BY <1>4, <1>5, <1>7, <1>8, <1>9, <1>10 DEF ExtractInv

\* The next certificate of an accepted entry.
LEMMA AddAnchorStep ==
  ASSUME ExtractInv, AddAnchor
  PROVE  ExtractInv'
<1> DEFINE s == list[i]
           c == s.certs[j]
<1>1. /\ loop = "identities"
      /\ i \in Nat \ {0} /\ i <= Len(list) /\ j \in Nat \ {0}
      /\ j <= Len(s.certs)
      /\ Accepted(s)
      /\ ~Merging
      /\ UNCHANGED <<list, statuses, warnings, skipped, kept, conflicted>>
  BY DEF ExtractInv, ShapeInv, AddAnchor, Merging
<1>2. /\ list \in Seq(Range(list))
      /\ Len(list) \in Nat /\ Len(anchors) \in Nat
      /\ s.certs \in Seq(Range(s.certs))
      /\ Len(s.certs) \in Nat
      /\ anchors \in Seq(Range(anchors))
  BY <1>1, ListShape DEF ExtractInv, ShapeInv
<1>3. kept = 0 /\ conflicted = {}
  BY <1>1, NothingMerged
<1>4. \/ /\ j < Len(s.certs)
         /\ loop' = "identities" /\ i' = i /\ j' = j + 1
      \/ /\ j = Len(s.certs)
         /\ loop' = "select" /\ i' = i + 1 /\ j' = 1
  BY <1>1, <1>2 DEF AddAnchor
<1>5. ~Merging' /\ Alive = 1 .. Len(anchors) /\ Alive' = 1 .. Len(anchors')
  BY <1>1, <1>4 DEF Merging, Alive
<1>6. /\ anchors' \in Seq(Range(anchors'))
      /\ Len(anchors') \in Nat
      /\ Len(anchors) <= Len(anchors')
      /\ \A k \in 1 .. Len(anchors) : anchors'[k] = anchors[k]
      /\ c \in Identities(s) => /\ Len(anchors') = Len(anchors) + 1
                                /\ anchors'[Len(anchors) + 1] = AnchorOf(s, c)
      /\ c \notin Identities(s) => anchors' = anchors
  <2>1. CASE c \in Identities(s)
    <3>1. anchors' = Append(anchors, AnchorOf(s, c))
      BY <2>1 DEF AddAnchor
    <3> HIDE DEF s, c
    <3>q. QED BY <1>2, <2>1, <3>1, AppendElements
  <2>2. CASE c \notin Identities(s)
    BY <1>2, <2>2 DEF AddAnchor
  <2>q. QED BY <2>1, <2>2
<1>7. /\ s \in AcceptedEntries(c.fp) \/ c \notin Identities(s)
      /\ DOMAIN AnchorOf(s, c) = AnchorFields
      /\ AnchorOf(s, c).fp = c.fp
      /\ AnchorOf(s, c).uses = s.uses
      /\ AnchorOf(s, c).qscd = SaysQscd(s)
      /\ SaysQscd(s) \in BOOLEAN
  <2>1. s \in Range(list)
    BY <1>1, <1>2 DEF Range
  <2>2. s \in AcceptedEntries(c.fp) \/ c \notin Identities(s)
    BY <1>1, <2>1 DEF AcceptedEntries, Entries, HasCert, Accepted
  <2>3. DOMAIN AnchorOf(s, c) = AnchorFields
    BY DEF AnchorOf, AnchorFields
  <2>q. QED BY <2>2, <2>3 DEF AnchorOf, SaysQscd
<1> HIDE DEF c
<1>8. ShapeInv'
  BY <1>1, <1>2, <1>3, <1>4, <1>5, <1>6 DEF ExtractInv, ShapeInv
<1>9. StatusesInv'
  BY <1>1, <1>4, StatusesStay
<1>10. SourceInv'
  <2>1. ASSUME NEW k \in Alive'
        PROVE  Sourced(anchors'[k])
    <3>1. CASE k \in 1 .. Len(anchors)
      BY <1>5, <1>6, <3>1 DEF ExtractInv, SourceInv
    <3>2. CASE k \notin 1 .. Len(anchors)
      <4>1. /\ c \in Identities(s)
            /\ anchors'[k] = AnchorOf(s, c)
        BY <1>2, <1>5, <1>6, <3>2
      <4>q. QED BY <1>7, <4>1 DEF Sourced
    <3>q. QED BY <3>1, <3>2
  <2>q. QED BY <1>1, <2>1, EntriesStay DEF SourceInv
<1>11. CoverInv'
  <2> SUFFICES ASSUME NEW m \in 1 .. Len(list),
                      NEW l \in 1 .. Len(list[m].certs),
                      Accepted(list[m]),
                      list[m].certs[l] \in Identities(list[m]),
                      CertRead(m, l)'
               PROVE  \E k \in Alive' :
                        Covers(anchors'[k], list[m], list[m].certs[l].fp)
    BY <1>1 DEF CoverInv
  <2>1. CASE CertRead(m, l)
    <3>1. PICK k \in Alive :
            Covers(anchors[k], list[m], list[m].certs[l].fp)
      BY <1>3, <2>1 DEF ExtractInv, CoverInv
    <3>2. k \in Alive' /\ anchors'[k] = anchors[k]
      BY <1>2, <1>5, <1>6
    <3>q. QED BY <3>1, <3>2
  <2>2. CASE ~CertRead(m, l)
    <3>1. m = i /\ l = j
      BY <1>1, <1>2, <1>4, <1>5, <2>2 DEF CertRead
    <3>2. c \in Identities(s) /\ c = list[m].certs[l]
      BY <3>1 DEF c
    <3>3. Len(anchors) + 1 \in Alive'
      BY <1>2, <1>5, <1>6, <3>2
    <3>4. Covers(AnchorOf(s, c), s, c.fp)
      BY <1>7 DEF Covers
    <3>q. QED BY <1>6, <3>1, <3>2, <3>3, <3>4
  <2>q. QED BY <2>1, <2>2
<1>12. KeptInv'
  BY <1>1, <1>3 DEF KeptInv
<1>13. ReportInv'
  <2>1. \A m \in 1 .. Len(list) : EntryRead(m)' => EntryRead(m)
    BY <1>1, <1>2, <1>4, <1>5 DEF EntryRead
  <2>q. QED BY <1>1, <2>1 DEF ExtractInv, ReportInv
<1>q. QED BY <1>8, <1>9, <1>10, <1>11, <1>12, <1>13 DEF ExtractInv

\* sort.Slice moves the anchors and loses none.
LEMMA SortStep ==
  ASSUME ExtractInv, Sort
  PROVE  ExtractInv'
<1>1. /\ loop = "select" /\ loop' = "dedup" /\ i' = 1 /\ j = 1 /\ j' = 1
      /\ i \in Nat \ {0} /\ i > Len(list)
      /\ ~Merging /\ Merging'
      /\ UNCHANGED <<list, statuses, warnings, skipped, kept, conflicted>>
  BY DEF ExtractInv, ShapeInv, Sort, Merging
<1>2. /\ Len(list) \in Nat /\ Len(anchors) \in Nat
      /\ anchors \in Seq(Range(anchors))
      /\ DOMAIN anchors = 1 .. Len(anchors)
  BY ListShape DEF ExtractInv, ShapeInv
<1>3. kept = 0 /\ conflicted = {}
  BY <1>1, NothingMerged
<1>4. PICK p \in Bijection(1 .. Len(anchors), 1 .. Len(anchors)) :
        anchors' = [k \in 1 .. Len(anchors) |-> anchors[p[k]]]
  BY <1>2 DEF Sort
<1>5. /\ \A k \in 1 .. Len(anchors) : p[k] \in 1 .. Len(anchors)
      /\ \A l \in 1 .. Len(anchors) : \E k \in 1 .. Len(anchors) : p[k] = l
  BY DEF Bijection, Surjection
<1>6. /\ anchors' \in Seq(Range(anchors))
      /\ Len(anchors') = Len(anchors)
  BY <1>2, <1>4, <1>5
<1>7. anchors' \in Seq(Range(anchors'))
  BY <1>6, SeqOfRange
<1>8. Alive = 1 .. Len(anchors) /\ Alive' = 1 .. Len(anchors)
  BY <1>1, <1>2, <1>3, <1>6 DEF Alive
<1>9. ShapeInv'
  BY <1>1, <1>2, <1>3, <1>6, <1>7 DEF ExtractInv, ShapeInv
<1>10. StatusesInv'
  BY <1>1, StatusesStay
<1>11. SourceInv'
  BY <1>1, <1>4, <1>5, <1>8, EntriesStay DEF ExtractInv, SourceInv
<1>12. CoverInv'
  <2> SUFFICES ASSUME NEW m \in 1 .. Len(list),
                      NEW l \in 1 .. Len(list[m].certs),
                      Accepted(list[m]),
                      list[m].certs[l] \in Identities(list[m])
               PROVE  \E k \in Alive' :
                        Covers(anchors'[k], list[m], list[m].certs[l].fp)
    BY <1>1 DEF CoverInv
  <2>1. CertRead(m, l)
    BY <1>1, <1>2 DEF CertRead
  <2>2. PICK k \in Alive : Covers(anchors[k], list[m], list[m].certs[l].fp)
    BY <1>3, <2>1 DEF ExtractInv, CoverInv
  <2>3. PICK n \in 1 .. Len(anchors) : p[n] = k
    BY <1>5, <1>8
  <2>4. anchors'[n] = anchors[k]
    BY <1>4, <2>3
  <2>q. QED BY <1>8, <2>2, <2>4
<1>13. KeptInv'
  BY <1>1, <1>3 DEF KeptInv
<1>14. ReportInv'
  <2>1. \A m \in 1 .. Len(list) : EntryRead(m)
    BY <1>1, <1>2 DEF EntryRead
  <2>q. QED BY <1>1, <2>1 DEF ExtractInv, ReportInv
<1>q. QED BY <1>9, <1>10, <1>11, <1>12, <1>13, <1>14 DEF ExtractInv

-----------------------------------------------------------------------------
(***************************************************************************)
(* The last loop.  What it keeps it writes before the place it reads.      *)
(***************************************************************************)
\* The parts that no step of the last loop touches.
LEMMA MergingStays ==
  ASSUME ExtractInv, loop = "dedup", loop' \in {"dedup", "returned"},
         warnings \subseteq warnings', UNCHANGED <<list, statuses, skipped>>
  PROVE  /\ Merging /\ Merging'
         /\ StatusesInv'
         /\ ReportInv'
         /\ \A fp : Conflicting(fp)' = Conflicting(fp)
         /\ \A a : Sourced(a) => Sourced(a)'
<1>1. Merging /\ Merging'
  BY DEF Merging
<1>2. ReportInv'
  BY <1>1 DEF ExtractInv, ReportInv, EntryRead
<1>q. QED BY <1>1, <1>2, StatusesStay, EntriesStay

\* What the last loop must show of its anchors: each entry stays covered.
LEMMA CoverStays ==
  ASSUME ExtractInv, Merging, UNCHANGED list, conflicted \subseteq conflicted',
         \A k \in Alive :
           \/ anchors[k].fp \in conflicted'
           \/ \E n \in Alive' : \A s : Covers(anchors[k], s, anchors[k].fp)
                                       => Covers(anchors'[n], s, anchors[k].fp)
  PROVE  CoverInv'
<1> SUFFICES ASSUME NEW m \in 1 .. Len(list),
                    NEW l \in 1 .. Len(list[m].certs),
                    Accepted(list[m]),
                    list[m].certs[l] \in Identities(list[m])
             PROVE  \/ list[m].certs[l].fp \in conflicted'
                    \/ \E k \in Alive' :
                         Covers(anchors'[k], list[m], list[m].certs[l].fp)
  BY DEF CoverInv
<1>1. \/ list[m].certs[l].fp \in conflicted
      \/ \E k \in Alive : Covers(anchors[k], list[m], list[m].certs[l].fp)
  BY DEF ExtractInv, CoverInv, CertRead
<1>2. ASSUME NEW k \in Alive,
             Covers(anchors[k], list[m], list[m].certs[l].fp)
      PROVE  \/ list[m].certs[l].fp \in conflicted'
             \/ \E n \in Alive' :
                  Covers(anchors'[n], list[m], list[m].certs[l].fp)
  <2>1. anchors[k].fp = list[m].certs[l].fp
    BY <1>2 DEF Covers
  <2>q. QED BY <1>2, <2>1
<1>q. QED BY <1>1, <1>2

LEMMA DropStep ==
  ASSUME ExtractInv, DropConflicted
  PROVE  ExtractInv'
<1>1. /\ loop = "dedup" /\ loop' = "dedup" /\ j = 1 /\ j' = 1
      /\ i \in Nat \ {0} /\ i <= Len(anchors) /\ i' = i + 1
      /\ kept \in Nat /\ kept < i
      /\ warnings \subseteq warnings'
      /\ conflicted' = conflicted \cup {anchors[i].fp}
      /\ UNCHANGED <<list, statuses, anchors, skipped, kept>>
  BY DEF ExtractInv, ShapeInv, DropConflicted, Merging
<1>2. Len(anchors) \in Nat
  BY ListShape DEF ExtractInv
<1>3. /\ Merging /\ Merging' /\ StatusesInv' /\ ReportInv'
      /\ \A fp : Conflicting(fp)' = Conflicting(fp)
      /\ \A a : Sourced(a) => Sourced(a)'
  BY <1>1, MergingStays
<1>4. /\ Alive = (1 .. kept) \cup (i .. Len(anchors))
      /\ Alive' = (1 .. kept) \cup (i + 1 .. Len(anchors))
  BY <1>1, <1>3 DEF Alive
<1>5. Alive' \subseteq Alive /\ \A k \in Alive : k = i \/ k \in Alive'
  BY <1>1, <1>2, <1>4
<1>6. ShapeInv'
  BY <1>1, <1>2, <1>3 DEF ExtractInv, ShapeInv
<1>7. SourceInv'
  BY <1>1, <1>3, <1>5 DEF ExtractInv, SourceInv
<1>8. CoverInv'
  BY <1>1, <1>3, <1>5, CoverStays
<1>9. KeptInv'
  <2>1. Conflicting(anchors[i].fp)
    BY DEF DropConflicted
  <2>2. ASSUME NEW fp \in conflicted'
        PROVE  \E w \in warnings' : w[1] = "status_conflict" /\ w[3] = fp
    <3>1. CASE fp \in conflicted
      BY <1>1, <3>1 DEF ExtractInv, KeptInv
    <3>2. CASE fp \notin conflicted
      <4> DEFINE w == <<"status_conflict", anchors[i].name, fp>>
      <4>1. fp = anchors[i].fp
        BY <1>1, <3>2
      <4>2. w \in warnings'
        BY <3>2, <4>1 DEF DropConflicted
      <4>3. w[1] = "status_conflict" /\ w[3] = fp
        OBVIOUS
      <4>q. QED BY <4>2, <4>3
    <3>q. QED BY <3>1, <3>2
  <2>q. QED BY <1>1, <1>3, <2>1, <2>2 DEF ExtractInv, KeptInv
<1>q. QED BY <1>3, <1>6, <1>7, <1>8, <1>9 DEF ExtractInv

LEMMA KeepStep ==
  ASSUME ExtractInv, Keep
  PROVE  ExtractInv'
<1>1. /\ loop = "dedup" /\ loop' = "dedup" /\ j = 1 /\ j' = 1
      /\ i \in Nat \ {0} /\ i <= Len(anchors) /\ i' = i + 1
      /\ kept \in Nat /\ kept < i /\ kept' = kept + 1
      /\ anchors' = [anchors EXCEPT ![kept + 1] = anchors[i]]
      /\ UNCHANGED <<list, statuses, warnings, skipped, conflicted>>
  BY DEF ExtractInv, ShapeInv, Keep, Merging
<1>2. Len(anchors) \in Nat /\ anchors \in Seq(Range(anchors))
  BY ListShape DEF ExtractInv, ShapeInv
<1>3. /\ Merging /\ Merging' /\ StatusesInv' /\ ReportInv'
      /\ \A fp : Conflicting(fp)' = Conflicting(fp)
      /\ \A a : Sourced(a) => Sourced(a)'
  BY <1>1, MergingStays
<1>4. kept + 1 \in 1 .. Len(anchors)
  BY <1>1, <1>2
<1>5. /\ anchors' \in Seq(Range(anchors'))
      /\ Len(anchors') = Len(anchors)
      /\ \A l \in 1 .. Len(anchors) :
           anchors'[l] = IF l = kept + 1 THEN anchors[i] ELSE anchors[l]
  <2>1. anchors' = Updated(anchors, kept + 1, anchors[i])
    BY <1>1 DEF Updated
  <2>q. QED BY <1>2, <1>4, <2>1, UpdatedElements
<1>6. /\ Alive = (1 .. kept) \cup (i .. Len(anchors))
      /\ Alive' = (1 .. kept + 1) \cup (i + 1 .. Len(anchors))
  BY <1>1, <1>3, <1>5 DEF Alive
<1>7. /\ \A k \in Alive' : anchors'[k] = IF k = kept + 1 THEN anchors[i]
                                         ELSE anchors[k]
      /\ \A k \in Alive' : k = kept + 1 \/ k \in Alive
      /\ \A k \in Alive : k = i \/ (k \in Alive' /\ k # kept + 1)
      /\ i \in Alive /\ kept + 1 \in Alive'
  BY <1>1, <1>2, <1>4, <1>5, <1>6
<1>8. ShapeInv'
  BY <1>1, <1>2, <1>3, <1>5 DEF ExtractInv, ShapeInv
<1>9. SourceInv'
  BY <1>3, <1>7 DEF ExtractInv, SourceInv
<1>10. CoverInv'
  <2>1. ASSUME NEW k \in Alive
        PROVE  \E n \in Alive' : anchors'[n] = anchors[k]
    BY <1>7
  <2>q. QED BY <1>1, <1>3, <2>1, CoverStays
<1>11. KeptInv'
  <2>1. /\ ~Conflicting(anchors[i].fp)
        /\ \A k \in 1 .. kept : anchors[k].fp # anchors[i].fp
    BY DEF Keep, Seen
  <2>2. \A k \in 1 .. kept' : k \in 1 .. kept \/ k = kept + 1
    BY <1>1
  <2>3. \A k \in 1 .. kept : anchors'[k] = anchors[k]
    BY <1>1, <1>2, <1>5
  <2>4. anchors'[kept + 1] = anchors[i]
    BY <1>4, <1>5
  <2>5. \A k, l \in 1 .. kept' : anchors'[k].fp = anchors'[l].fp => k = l
    BY <2>1, <2>2, <2>3, <2>4 DEF ExtractInv, KeptInv
  <2>6. \A k \in 1 .. kept' : ~Conflicting(anchors'[k].fp)
    BY <2>1, <2>2, <2>3, <2>4 DEF ExtractInv, KeptInv
  <2>q. QED BY <1>1, <1>3, <2>5, <2>6 DEF ExtractInv, KeptInv
<1>q. QED BY <1>3, <1>8, <1>9, <1>10, <1>11 DEF ExtractInv

LEMMA MergeStep ==
  ASSUME ExtractInv, Merge
  PROVE  ExtractInv'
<1>1. /\ loop = "dedup" /\ loop' = "dedup" /\ j = 1 /\ j' = 1
      /\ i \in Nat \ {0} /\ i <= Len(anchors) /\ i' = i + 1
      /\ kept \in Nat /\ kept < i
      /\ UNCHANGED <<list, statuses, warnings, skipped, kept, conflicted>>
  BY DEF ExtractInv, ShapeInv, Merge, Merging
<1>2. Len(anchors) \in Nat /\ anchors \in Seq(Range(anchors))
  BY ListShape DEF ExtractInv, ShapeInv
<1>3. /\ Merging /\ Merging' /\ StatusesInv' /\ ReportInv'
      /\ \A fp : Conflicting(fp)' = Conflicting(fp)
      /\ \A a : Sourced(a) => Sourced(a)'
  BY <1>1, MergingStays
<1>4. PICK k \in Seen(anchors[i].fp) : \E slice :
        anchors' = [anchors EXCEPT ![k] = Merged(anchors[k], anchors[i], slice)]
  BY DEF Merge
<1>5. PICK slice :
        anchors' = [anchors EXCEPT ![k] = Merged(anchors[k], anchors[i], slice)]
  BY <1>4
<1> DEFINE a == anchors[k]
           dup == anchors[i]
           both == Merged(a, dup, slice)
<1>6. k \in 1 .. kept /\ k \in 1 .. Len(anchors) /\ a.fp = dup.fp
  BY <1>1, <1>2 DEF Seen
<1>7. /\ Alive = (1 .. kept) \cup (i .. Len(anchors))
      /\ k \in Alive /\ i \in Alive
  BY <1>1, <1>2, <1>3, <1>6 DEF Alive
<1>8. Sourced(a) /\ Sourced(dup)
  BY <1>7 DEF ExtractInv, SourceInv
<1>9. /\ DOMAIN both = AnchorFields
      /\ both.fp = a.fp
      /\ both.uses = a.uses \cup dup.uses
      /\ both.qscd = (a.qscd \/ dup.qscd)
  <2>1. /\ DOMAIN a = {"fp", "name", "status", "type", "uses", "qscd",
                       "qualifiers"}
        /\ a.qscd \in BOOLEAN /\ dup.qscd \in BOOLEAN
    BY <1>8 DEF Sourced, AnchorFields
  <2> HIDE DEF a, dup
  <2>q. QED BY <2>1 DEF Merged, AnchorFields
<1>10. Sourced(both)
  <2>1. both.qscd \in BOOLEAN
    BY <1>8, <1>9 DEF Sourced
  <2> HIDE DEF both, a, dup
  <2>q. QED BY <1>6, <1>8, <1>9, <2>1 DEF Sourced
<1>11. \A s : /\ Covers(a, s, a.fp) => Covers(both, s, a.fp)
              /\ Covers(dup, s, dup.fp) => Covers(both, s, dup.fp)
  <2> HIDE DEF both, a, dup
  <2>q. QED BY <1>6, <1>8, <1>9 DEF Covers, Sourced
<1>12. /\ anchors' \in Seq(Range(anchors'))
       /\ Len(anchors') = Len(anchors)
       /\ \A l \in 1 .. Len(anchors) :
            anchors'[l] = IF l = k THEN both ELSE anchors[l]
  <2> HIDE DEF both
  <2>1. anchors' = Updated(anchors, k, both)
    BY <1>5 DEF both, a, dup, Updated
  <2>q. QED BY <1>2, <1>6, <2>1, UpdatedElements
<1> HIDE DEF both, a, dup
<1>13. Alive' = (1 .. kept) \cup (i + 1 .. Len(anchors))
  BY <1>1, <1>3, <1>12 DEF Alive
<1>14. /\ \A n \in Alive' : anchors'[n] = IF n = k THEN both ELSE anchors[n]
       /\ Alive' \subseteq Alive
       /\ k \in Alive'
       /\ \A n \in Alive : n = i \/ n \in Alive'
  <2>1. \A n \in Alive' : n \in 1 .. Len(anchors)
    BY <1>1, <1>2, <1>13
  <2>2. Alive' \subseteq Alive /\ \A n \in Alive : n = i \/ n \in Alive'
    BY <1>1, <1>2, <1>7, <1>13
  <2>3. k \in Alive'
    BY <1>6, <1>13
  <2>q. QED BY <1>12, <2>1, <2>2, <2>3
<1>15. ShapeInv'
  BY <1>1, <1>2, <1>3, <1>12 DEF ExtractInv, ShapeInv
<1>16. SourceInv'
  BY <1>3, <1>10, <1>14 DEF ExtractInv, SourceInv
<1>17. CoverInv'
  <2>1. ASSUME NEW n \in Alive
        PROVE  \E o \in Alive' : \A s : Covers(anchors[n], s, anchors[n].fp)
                                        => Covers(anchors'[o], s, anchors[n].fp)
    <3>1. CASE n = i \/ n = k
      <4>1. anchors'[k] = both
        BY <1>14
      <4>q. QED BY <1>11, <1>14, <3>1, <4>1 DEF a, dup
    <3>2. CASE n # i /\ n # k
      BY <1>14, <3>2
    <3>q. QED BY <3>1, <3>2
  <2>q. QED BY <1>1, <1>3, <2>1, CoverStays
<1>18. KeptInv'
  <2>1. \A n \in 1 .. kept : anchors'[n].fp = anchors[n].fp
    BY <1>1, <1>2, <1>9, <1>12 DEF a
  <2>q. QED BY <1>1, <1>3, <2>1 DEF ExtractInv, KeptInv
<1>q. QED BY <1>3, <1>15, <1>16, <1>17, <1>18 DEF ExtractInv

LEMMA ReturnStep ==
  ASSUME ExtractInv, Return
  PROVE  ExtractInv'
<1>1. /\ loop = "dedup" /\ loop' = "returned" /\ j = 1
      /\ i \in Nat /\ i > Len(anchors) /\ i <= Len(anchors) + 1
      /\ UNCHANGED <<list, i, j, statuses, anchors, warnings, skipped, kept,
                     conflicted>>
  BY DEF ExtractInv, ShapeInv, Return, Merging
<1>2. Len(anchors) \in Nat
  BY ListShape DEF ExtractInv
<1>3. /\ Merging /\ Merging' /\ StatusesInv' /\ ReportInv'
      /\ \A fp : Conflicting(fp)' = Conflicting(fp)
      /\ \A a : Sourced(a) => Sourced(a)'
  BY <1>1, MergingStays
<1>4. Alive' = Alive
  BY <1>1, <1>3 DEF Alive
<1>5. ShapeInv'
  BY <1>1, <1>2, <1>3 DEF ExtractInv, ShapeInv
<1>6. SourceInv'
  BY <1>1, <1>3, <1>4 DEF ExtractInv, SourceInv
<1>7. CoverInv'
  BY <1>1, <1>3, <1>4, CoverStays
<1>8. KeptInv'
  BY <1>1, <1>3 DEF ExtractInv, KeptInv
<1>q. QED BY <1>3, <1>5, <1>6, <1>7, <1>8 DEF ExtractInv

-----------------------------------------------------------------------------
(***************************************************************************)
(* The theorems.                                                           *)
(***************************************************************************)
LEMMA ExtractInvariant == Spec => [](loop = "error" \/ ExtractInv)
<1>1. Init => loop = "error" \/ ExtractInv
  <2> SUFFICES ASSUME Init, loop # "error"
               PROVE  ExtractInv
    OBVIOUS
  <2>0. list \in Lists /\ loop = "statuses"
    BY DEF Init
  <2>1. list \in Seq(Range(list)) /\ Len(list) \in Nat
    BY <2>0, ListsAssumption
  <2>2. anchors \in Seq(Range(anchors)) /\ Len(anchors) = 0
    BY DEF Init
  <2>3. ShapeInv
    BY <2>0, <2>1, <2>2 DEF Init, ShapeInv, Merging
  <2>4. StatusesInv
    BY <2>0 DEF Init, StatusesInv, StatusesOfFirst
  <2>5. SourceInv /\ CoverInv /\ KeptInv /\ ReportInv
    BY <2>0, <2>2
    DEF Init, SourceInv, Alive, CoverInv, CertRead, KeptInv, ReportInv,
        EntryRead, Merging
  <2>q. QED BY <2>3, <2>4, <2>5 DEF ExtractInv
<1>2. ExtractInv /\ [Next]_vars => ExtractInv'
  <2> SUFFICES ASSUME ExtractInv, [Next]_vars
               PROVE  ExtractInv'
    OBVIOUS
  <2>1. CASE UNCHANGED vars
    <3>1. Merging' = Merging /\ Alive' = Alive
      BY <2>1 DEF vars, Merging, Alive
    <3>2. ShapeInv' /\ StatusesInv'
      BY <2>1, <3>1 DEF vars, ExtractInv, ShapeInv, StatusesInv
    <3>3. SourceInv'
      BY <2>1, <3>1, EntriesStay DEF vars, ExtractInv, SourceInv
    <3>4. CoverInv'
      BY <2>1, <3>1 DEF vars, ExtractInv, CoverInv, CertRead
    <3>5. KeptInv'
      BY <2>1, <3>1, ConflictsStay DEF vars, ExtractInv, KeptInv
    <3>6. ReportInv'
      BY <2>1, <3>1 DEF vars, ExtractInv, ReportInv, EntryRead
    <3>q. QED BY <3>2, <3>3, <3>4, <3>5, <3>6 DEF ExtractInv
  <2>q. QED
    BY <2>1, CollectStep, StartSelectStep, SkipStep, SelectStep, AddAnchorStep,
       SortStep, DropStep, KeepStep, MergeStep, ReturnStep
    DEF Next
\* A list without a provider list is refused for good.
<1>3. loop = "error" /\ [Next]_vars => (loop = "error")'
  BY DEF Next, vars, CollectStatuses, StartSelect, SkipType, SkipStatus,
         SkipEntry, Select, AddAnchor, Sort, DropConflicted, Keep, Merge, Return
<1>q. QED BY <1>1, <1>2, <1>3, PTL DEF Spec

\* When the function returns, every certificate of an accepted entry is kept
\* with all that its entries say, or was reported as conflicting.
LEMMA EntryIsKept ==
  ASSUME ExtractInv, loop = "returned", NEW s \in Range(list), Accepted(s),
         NEW c \in Identities(s)
  PROVE  \/ c.fp \in conflicted
         \/ \E k \in 1 .. kept : Covers(anchors[k], s, c.fp)
<1>1. /\ list \in Seq(Range(list))
      /\ Len(list) \in Nat /\ Len(anchors) \in Nat
      /\ \A m \in 1 .. Len(list) :
           list[m].certs \in Seq(Range(list[m].certs))
  BY ListShape DEF ExtractInv
<1>2. PICK m \in 1 .. Len(list) : s = list[m]
  BY <1>1 DEF Range
<1>3. c \in Range(s.certs)
  BY DEF Identities
<1>4. PICK l \in 1 .. Len(s.certs) : c = s.certs[l]
  BY <1>1, <1>2, <1>3 DEF Range
<1>5. Merging
  BY DEF Merging
<1>6. Alive = 1 .. kept
  BY <1>1, <1>5 DEF ExtractInv, ShapeInv, Alive
<1>q. QED BY <1>2, <1>4, <1>5, <1>6 DEF ExtractInv, CoverInv, CertRead

\* A kept anchor says nothing that no accepted entry of its certificate says.
LEMMA KeptIsSourced ==
  ASSUME ExtractInv, loop = "returned", NEW k \in 1 .. kept
  PROVE  Sourced(anchors[k]) /\ ~Conflicting(anchors[k].fp)
BY DEF ExtractInv, SourceInv, Alive, Merging, KeptInv

\* A certificate is served, once, exactly when an accepted entry lists it and
\* all its entries of admitted types agree on the status (the two loops of
\* ExtractAnchors and the merging of duplicates), for every list and whatever
\* order sort.Slice leaves equal elements in.
THEOREM ServedExactlyAgreed == Spec => []ServedIffAgreed
<1>1. ASSUME ExtractInv, loop = "returned", NEW fp
      PROVE  Cardinality(Returned(fp))
               = IF Agreed(fp) /\ AcceptedEntries(fp) # {} THEN 1 ELSE 0
  <2>1. Conflicting(fp) <=> ~Agreed(fp)
    BY <1>1, ConflictIsDisagreement DEF ExtractInv
  <2>2. CASE Agreed(fp) /\ AcceptedEntries(fp) # {}
    <3>1. PICK s \in AcceptedEntries(fp) : TRUE
      BY <2>2
    <3>2. PICK c \in Identities(s) : c.fp = fp
      BY <3>1 DEF AcceptedEntries, Entries, HasCert
    <3>3. s \in Range(list) /\ Accepted(s)
      BY <3>1 DEF AcceptedEntries, Entries, Accepted
    <3>4. fp \notin conflicted
      BY <1>1, <2>1, <2>2 DEF ExtractInv, KeptInv
    <3>5. PICK k \in 1 .. kept : anchors[k].fp = fp
      BY <1>1, <3>2, <3>3, <3>4, EntryIsKept DEF Covers
    <3>6. Returned(fp) = {k}
      BY <1>1, <3>5 DEF Returned, Seen, ExtractInv, KeptInv
    <3>q. QED BY <2>2, <3>6, FS_Singleton
  <2>3. CASE ~(Agreed(fp) /\ AcceptedEntries(fp) # {})
    <3>1. ASSUME NEW k \in 1 .. kept, anchors[k].fp = fp
          PROVE  FALSE
      BY <1>1, <2>1, <2>3, <3>1, KeptIsSourced DEF Sourced
    <3>2. Returned(fp) = {}
      BY <3>1 DEF Returned, Seen
    <3>q. QED BY <2>3, <3>2, FS_EmptySet
  <2>q. QED BY <2>2, <2>3
<1>2. (loop = "error" \/ ExtractInv) => ServedIffAgreed
  BY <1>1 DEF ServedIffAgreed
<1>q. QED BY <1>2, ExtractInvariant, PTL

\* Every certificate of an accepted entry is returned or reported, and every
\* type that is not admitted is counted, for every list.
THEOREM NothingLeftOut == Spec => []NothingSilent
<1>1. ASSUME ExtractInv, loop = "returned", NEW s \in Range(list)
      PROVE  IF ~Admitted(s) THEN s.type \in skipped
             ELSE StatusOK(s) => EntryWarnings(s) \subseteq warnings
  <2>1. list \in Seq(Range(list))
    BY <1>1, ListShape DEF ExtractInv
  <2>2. PICK m \in 1 .. Len(list) : s = list[m]
    BY <2>1 DEF Range
  <2>3. EntryRead(m)
    BY <1>1 DEF EntryRead, Merging
  <2>q. QED BY <1>1, <2>2, <2>3 DEF ExtractInv, ReportInv
<1>2. ASSUME ExtractInv, loop = "returned", NEW s \in Range(list), Accepted(s),
             NEW c \in Range(s.certs)
      PROVE  \/ Returned(c.fp) # {} /\ c \in Identities(s)
             \/ <<"invalid_certificate", s.name>> \in warnings
             \/ <<"invalid_certificate", s.name, c.fp>> \in warnings
             \/ \E w \in warnings : w[1] = "status_conflict" /\ w[3] = c.fp
  <2>1. CASE c \in Identities(s)
    <3>1. CASE c.fp \in conflicted
      BY <1>2, <3>1 DEF ExtractInv, KeptInv
    <3>2. CASE \E k \in 1 .. kept : Covers(anchors[k], s, c.fp)
      BY <2>1, <3>2 DEF Returned, Seen, Covers
    <3>q. QED BY <1>2, <2>1, <3>1, <3>2, EntryIsKept
  <2>2. CASE c \notin Identities(s)
    <3>1. EntryWarnings(s) \subseteq warnings
      BY <1>1, <1>2 DEF Accepted
    <3>2. s.certs # <<>>
      BY <1>2 DEF Range
    <3>3. CASE Undecodable(s)
      BY <3>1, <3>2, <3>3 DEF EntryWarnings
    <3>4. CASE ~Undecodable(s)
      <4>1. c.read \notin {"parsed", "held"}
        BY <1>2, <2>2, <3>4 DEF Identities
      <4>2. c \in Refused(s)
        BY <1>2, <3>4, <4>1, ListsAssumption
        DEF Undecodable, Refused, ExtractInv, ShapeInv
      <4>q. QED BY <3>1, <3>2, <3>4, <4>2 DEF EntryWarnings
    <3>q. QED BY <3>3, <3>4
  <2>q. QED BY <2>1, <2>2
<1>3. ASSUME ExtractInv, loop = "returned", NEW s \in Range(list), Accepted(s),
             s.certs = <<>>
      PROVE  <<"no_certificate", s.name>> \in warnings
  BY <1>1, <1>3 DEF EntryWarnings, Accepted
<1>4. (loop = "error" \/ ExtractInv) => NothingSilent
  BY <1>1, <1>2, <1>3, Zenon DEF NothingSilent, Accepted
<1>q. QED BY <1>4, ExtractInvariant, PTL

\* The uses and the QSCD flag of a returned anchor are the union over the
\* accepted entries of its certificate (mergeDuplicateAnchor), for every list.
THEOREM FlagsOfAllEntries == Spec => []FlagsAreUnion
<1>1. ASSUME ExtractInv, loop = "returned", NEW k \in 1 .. kept
      PROVE  /\ anchors[k].uses
                  = UNION {s.uses : s \in AcceptedEntries(anchors[k].fp)}
             /\ anchors[k].qscd
                  = \E s \in AcceptedEntries(anchors[k].fp) : SaysQscd(s)
  <2> DEFINE a == anchors[k]
  <2>1. Sourced(a) /\ ~Conflicting(a.fp)
    BY <1>1, KeptIsSourced
  <2>2. ASSUME NEW s \in AcceptedEntries(a.fp)
        PROVE  s.uses \subseteq a.uses /\ (SaysQscd(s) => a.qscd)
    <3>1. PICK c \in Identities(s) : c.fp = a.fp
      BY <2>2 DEF AcceptedEntries, Entries, HasCert
    <3>2. s \in Range(list) /\ Accepted(s)
      BY <2>2 DEF AcceptedEntries, Entries, Accepted
    <3>3. a.fp \notin conflicted
      BY <1>1, <2>1 DEF ExtractInv, KeptInv
    <3>4. PICK l \in 1 .. kept : Covers(anchors[l], s, a.fp)
      BY <1>1, <3>1, <3>2, <3>3, EntryIsKept
    <3>5. l = k
      BY <1>1, <3>4 DEF Covers, ExtractInv, KeptInv
    <3>q. QED BY <3>4, <3>5 DEF Covers
  <2> HIDE DEF a
  <2>3. a.uses = UNION {s.uses : s \in AcceptedEntries(a.fp)}
    BY <2>1, <2>2 DEF Sourced
  <2>4. a.qscd = \E s \in AcceptedEntries(a.fp) : SaysQscd(s)
    BY <2>1, <2>2 DEF Sourced
  <2>q. QED BY <2>3, <2>4 DEF a
<1>2. (loop = "error" \/ ExtractInv) => FlagsAreUnion
  BY <1>1 DEF FlagsAreUnion
<1>q. QED BY <1>2, ExtractInvariant, PTL
=============================================================================
