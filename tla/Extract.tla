------------------------------ MODULE Extract -------------------------------
(***************************************************************************)
(* ExtractAnchors (trust/extract.go): from the service entries of a        *)
(* verified trusted list to anchors and warnings, loop by loop.  One       *)
(* certificate may be listed under several entries.                        *)
(*                                                                         *)
(* The qualifiers of an anchor are a Go slice, and the anchors of one      *)
(* entry share its array, so slices are modelled with their arrays.  Uses  *)
(* are sets: there are three of them, so that an append to a shared array  *)
(* finds it full.  The last loop writes what it returns into the array it  *)
(* reads, so both are one variable.  Names and fingerprints are numbers,   *)
(* for their order.                                                        *)
(***************************************************************************)
EXTENDS Integers, Sequences, FiniteSets, Functions

CONSTANTS
  Lists,             \* the trusted lists: sequences of service entries
  NoProviderList,    \* a list without a provider list
  AcceptedTypes,     \* TRUST_ACCEPTED_SERVICE_TYPES
  QualifiedTypes,    \* qualifiedSvctypes
  AcceptedStatuses,  \* TRUST_ACCEPTED_STATUSES
  National,          \* nationalStatusEquivalent
  TypeKey,           \* TypeKey: the bundle a service type is served in
  Uses,              \* signature, seal, website
  Qscd               \* the qualifiers that say QSCD

ASSUME ListsAssumption ==
  \A l \in Lists :
    /\ l \in Seq(Range(l))
    /\ \A s \in Range(l) :
         /\ s.certs \in Seq(Range(s.certs))
         /\ \A c \in Range(s.certs) :
              c.read \in {"parsed", "held", "refused", "undecodable"}

VARIABLES
  list,        \* the list that is read
  loop,        \* the loop that runs, or how the call ended
  i,           \* its index
  j,           \* the index of the loop over an entry's certificates
  statuses,    \* statusesByCert, as pairs
  anchors,     \* the anchors found; the first of them are those to return
  arrays,      \* the arrays behind the slices of qualifiers
  warnings,    \* per-service warnings
  skipped,     \* skippedTypes
  kept,        \* len(dedup): how many are to be returned
  conflicted   \* certificates reported for conflicting statuses

vars == <<list, loop, i, j, statuses, anchors, arrays, warnings, skipped, kept,
          conflicted>>

\* A list without a provider list is refused before the first loop.
Init ==
  /\ list \in Lists \cup {NoProviderList}
  /\ loop = IF list = NoProviderList THEN "error" ELSE "statuses"
  /\ i = 1
  /\ j = 1
  /\ statuses = {}
  /\ anchors = <<>>
  /\ arrays = <<>>
  /\ warnings = {}
  /\ skipped = {}
  /\ kept = 0
  /\ conflicted = {}

-----------------------------------------------------------------------------
(***************************************************************************)
(* Go slices of qualifiers: an array, and how much of it is used.          *)
(***************************************************************************)
Unused == "unused"

\* What append grows a slice to: the next power of two, at these sizes.
Capacity(n) ==
  IF n = 0 THEN 0 ELSE CHOOSE c \in {1, 2, 4, 8} : n <= c /\ c < 2 * n

Array(elements) ==
  [k \in 1 .. Capacity(Len(elements)) |->
     IF k <= Len(elements) THEN elements[k] ELSE Unused]

Elements(heap, slice) == [k \in 1 .. slice.len |-> heap[slice.array][k]]

\* append: in place while the array has room, else into a copy.
AppendTo(heap, slice, q) ==
  IF slice.len < Len(heap[slice.array])
  THEN [heap  |-> [heap EXCEPT ![slice.array][slice.len + 1] = q],
        slice |-> [slice EXCEPT !.len = @ + 1]]
  ELSE [heap  |-> Append(heap, Array(Append(Elements(heap, slice), q))),
        slice |-> [array |-> Len(heap) + 1, len |-> slice.len + 1]]

\* The loop over dup.Qualifiers in mergeDuplicateAnchor.
AppendMissing(heap, slice, qualifiers) ==
  LET step[k \in 0 .. Len(qualifiers)] ==
        IF k = 0 THEN [heap |-> heap, slice |-> slice]
        ELSE LET before == step[k - 1]
             IN  IF qualifiers[k] \in Range(Elements(before.heap, before.slice))
                 THEN before
                 ELSE AppendTo(before.heap, before.slice, qualifiers[k])
  IN  step[Len(qualifiers)]

-----------------------------------------------------------------------------
(***************************************************************************)
(* The entries.                                                            *)
(***************************************************************************)
Undecodable(s) == \E c \in Range(s.certs) : c.read = "undecodable"

Refused(s) == {c \in Range(s.certs) : c.read = "refused"}

\* serviceIdentities: the certificates that parse, or whose key is held; none
\* when one of them is not base64.
Identities(s) ==
  IF Undecodable(s) THEN {}
  ELSE {c \in Range(s.certs) : c.read \in {"parsed", "held"}}

Admitted(s) == s.type \in AcceptedTypes

AcceptedNational == {National[st] : st \in AcceptedStatuses \cap DOMAIN National}

StatusOK(s) ==
  \/ s.status \in AcceptedStatuses
  \/ s.type \notin QualifiedTypes /\ s.status \in AcceptedNational

StatusesOf(fp) == {st \in {p[2] : p \in statuses} : <<fp, st>> \in statuses}

\* Mutant: only accepted entries count.
CollectStatusesAccepted ==
  /\ loop = "statuses" /\ i <= Len(list)
  /\ statuses' = statuses \cup
       (IF Admitted(list[i]) /\ StatusOK(list[i])
        THEN {<<c.fp, list[i].status>> : c \in Identities(list[i])} ELSE {})
  /\ i' = i + 1
  /\ UNCHANGED <<list, loop, j, anchors, arrays, warnings, skipped, kept,
                 conflicted>>

\* The first loop: the statuses of every certificate, accepted or not.
CollectStatuses ==
  /\ loop = "statuses" /\ i <= Len(list)
  /\ statuses' = statuses \cup
       (IF Admitted(list[i])
        THEN {<<c.fp, list[i].status>> : c \in Identities(list[i])} ELSE {})
  /\ i' = i + 1
  /\ UNCHANGED <<list, loop, j, anchors, arrays, warnings, skipped, kept,
                 conflicted>>

StartSelect ==
  /\ loop = "statuses" /\ i > Len(list)
  /\ loop' = "select"
  /\ i' = 1
  /\ UNCHANGED <<list, j, statuses, anchors, arrays, warnings, skipped, kept,
                 conflicted>>

SkipType ==
  /\ loop = "select" /\ i <= Len(list)
  /\ ~Admitted(list[i])
  /\ skipped' = skipped \cup {list[i].type}
  /\ i' = i + 1
  /\ UNCHANGED <<list, loop, j, statuses, anchors, arrays, warnings, kept,
                 conflicted>>

SkipStatus ==
  /\ loop = "select" /\ i <= Len(list)
  /\ Admitted(list[i]) /\ ~StatusOK(list[i])
  /\ i' = i + 1
  /\ UNCHANGED <<list, loop, j, statuses, anchors, arrays, warnings, skipped,
                 kept, conflicted>>

\* Mutant: an entry none of whose certificates can be read is passed over.
EntryWarningsNone(s) ==
  IF Identities(s) = {} THEN {}
  ELSE {<<"invalid_certificate", s.name, c.fp>> : c \in Refused(s)}

\* The warnings of serviceIdentities, and the one for no certificate at all.
EntryWarnings(s) ==
  IF s.certs = <<>> THEN {<<"no_certificate", s.name>>}
  ELSE IF Undecodable(s) THEN {<<"invalid_certificate", s.name>>}
  ELSE {<<"invalid_certificate", s.name, c.fp>> : c \in Refused(s)}

\* The second loop: an accepted entry that gives no anchor.
SkipEntry ==
  /\ loop = "select" /\ i <= Len(list)
  /\ Admitted(list[i]) /\ StatusOK(list[i])
  /\ Identities(list[i]) = {}
  /\ warnings' = warnings \cup EntryWarnings(list[i])
  /\ i' = i + 1
  /\ UNCHANGED <<list, loop, j, statuses, anchors, arrays, skipped, kept,
                 conflicted>>

\* An accepted entry that does: serviceQualifications makes the array that the
\* anchors of all its certificates use.
Select ==
  /\ loop = "select" /\ i <= Len(list)
  /\ Admitted(list[i]) /\ StatusOK(list[i])
  /\ Identities(list[i]) # {}
  /\ warnings' = warnings \cup EntryWarnings(list[i])
  /\ arrays' = Append(arrays, Array(list[i].qualifiers))
  /\ loop' = "identities"
  /\ UNCHANGED <<list, i, j, statuses, anchors, skipped, kept, conflicted>>

SaysQscd(s) == Range(s.qualifiers) \cap Qscd # {}

AnchorOf(s, c) ==
  [fp         |-> c.fp,
   name       |-> s.name,
   status     |-> s.status,
   type       |-> TypeKey[s.type],
   uses       |-> s.uses,
   qscd       |-> SaysQscd(s),
   qualifiers |-> [array |-> Len(arrays), len |-> Len(s.qualifiers)]]

\* One certificate of the entry.
AddAnchor ==
  LET s == list[i]
      c == s.certs[j]
  IN  /\ loop = "identities"
      /\ anchors' = IF c \in Identities(s) THEN Append(anchors, AnchorOf(s, c))
                    ELSE anchors
      /\ IF j < Len(s.certs)
         THEN j' = j + 1 /\ UNCHANGED <<loop, i>>
         ELSE j' = 1 /\ loop' = "select" /\ i' = i + 1
      /\ UNCHANGED <<list, statuses, arrays, warnings, skipped, kept,
                     conflicted>>

Less(a, b) == a.name < b.name \/ (a.name = b.name /\ a.fp < b.fp)

\* sort.Slice leaves equal elements in any order.
Sort ==
  /\ loop = "select" /\ i > Len(list)
  /\ \E p \in Bijection(DOMAIN anchors, DOMAIN anchors) :
       LET sorted == [k \in DOMAIN anchors |-> anchors[p[k]]]
       IN  /\ \A k, l \in DOMAIN anchors : k < l => ~Less(sorted[l], sorted[k])
           /\ anchors' = sorted
  /\ loop' = "dedup"
  /\ i' = 1
  /\ UNCHANGED <<list, j, statuses, arrays, warnings, skipped, kept,
                 conflicted>>

-----------------------------------------------------------------------------
(***************************************************************************)
(* The last loop: one anchor per certificate.  dedup is anchors[:0], so    *)
(* keeping an anchor writes into the array the loop reads.                 *)
(***************************************************************************)
Conflicting(fp) == Cardinality(StatusesOf(fp)) > 1

DropConflicted ==
  /\ loop = "dedup" /\ i <= Len(anchors)
  /\ Conflicting(anchors[i].fp)
  /\ warnings' = IF anchors[i].fp \in conflicted THEN warnings
                 ELSE warnings \cup {<<"status_conflict", anchors[i].name,
                                       anchors[i].fp>>}
  /\ conflicted' = conflicted \cup {anchors[i].fp}
  /\ i' = i + 1
  /\ UNCHANGED <<list, loop, j, statuses, anchors, arrays, skipped, kept>>

\* seen: where the anchor of a certificate is kept.
Seen(fp) == {k \in 1 .. kept : anchors[k].fp = fp}

Keep ==
  /\ loop = "dedup" /\ i <= Len(anchors)
  /\ ~Conflicting(anchors[i].fp)
  /\ Seen(anchors[i].fp) = {}
  /\ anchors' = [anchors EXCEPT ![kept + 1] = anchors[i]]
  /\ kept' = kept + 1
  /\ i' = i + 1
  /\ UNCHANGED <<list, loop, j, statuses, arrays, warnings, skipped,
                 conflicted>>

\* Mutant: the flag of the later entry counts.
MergedFlagsLast(a, dup, slice) ==
  [a EXCEPT !.uses = @ \cup dup.uses, !.qscd = dup.qscd, !.qualifiers = slice]

\* Mutant: so does its type.
MergedTypeLast(a, dup, slice) ==
  [a EXCEPT !.uses = @ \cup dup.uses, !.qscd = @ \/ dup.qscd,
            !.qualifiers = slice, !.type = dup.type]

\* mergeDuplicateAnchor, with the slice of the merged qualifiers.
Merged(a, dup, slice) ==
  [a EXCEPT !.uses = @ \cup dup.uses,
            !.qscd = @ \/ dup.qscd,
            !.qualifiers = slice]

Merge ==
  /\ loop = "dedup" /\ i <= Len(anchors)
  /\ ~Conflicting(anchors[i].fp)
  /\ \E k \in Seen(anchors[i].fp) :
       LET dup   == anchors[i]
           union == AppendMissing(arrays, anchors[k].qualifiers,
                                  Elements(arrays, dup.qualifiers))
       IN  /\ arrays' = union.heap
           /\ anchors' = [anchors EXCEPT ![k] = Merged(@, dup, union.slice)]
  /\ i' = i + 1
  /\ UNCHANGED <<list, loop, j, statuses, warnings, skipped, kept, conflicted>>

Return ==
  /\ loop = "dedup" /\ i > Len(anchors)
  /\ loop' = "returned"
  /\ UNCHANGED <<list, i, j, statuses, anchors, arrays, warnings, skipped, kept,
                 conflicted>>

Next ==
  \/ CollectStatuses \/ StartSelect
  \/ SkipType \/ SkipStatus \/ SkipEntry \/ Select \/ AddAnchor \/ Sort
  \/ DropConflicted \/ Keep \/ Merge
  \/ Return

Spec == Init /\ [][Next]_vars

-----------------------------------------------------------------------------
(***************************************************************************)
(* Properties of what is returned.                                         *)
(***************************************************************************)
HasCert(s, fp) == \E c \in Identities(s) : c.fp = fp

\* The entries of a certificate whose type is admitted.
Entries(fp) == {s \in Range(list) : Admitted(s) /\ HasCert(s, fp)}

\* Those an anchor is made of.
AcceptedEntries(fp) == {s \in Entries(fp) : StatusOK(s)}

Fingerprints == {c.fp : c \in UNION {Range(s.certs) : s \in Range(list)}}

Agreed(fp) == \A s, r \in Entries(fp) : s.status = r.status

\* The anchors of a certificate that are returned.
Returned(fp) == Seen(fp)

\* A certificate is served exactly when an entry with an accepted status lists
\* it and all its entries of admitted types, the accepted and the others, have
\* one status: a certificate withdrawn in one entry is not served on another,
\* whatever the order of the entries; and it is served once.
ServedIffAgreed ==
  loop = "returned" =>
    \A fp \in Fingerprints :
      Cardinality(Returned(fp))
        = IF Agreed(fp) /\ AcceptedEntries(fp) # {} THEN 1 ELSE 0

\* Nothing is left out in silence: every certificate of an entry with an
\* accepted status is returned or reported, by itself or with its entry, an
\* entry without any is reported, and a type that is not admitted is counted.
NothingSilent ==
  loop = "returned" =>
    \A s \in Range(list) :
      IF ~Admitted(s) THEN s.type \in skipped
      ELSE StatusOK(s) =>
        /\ s.certs = <<>> => <<"no_certificate", s.name>> \in warnings
        /\ \A c \in Range(s.certs) :
             \/ Returned(c.fp) # {} /\ c \in Identities(s)
             \/ <<"invalid_certificate", s.name>> \in warnings
             \/ <<"invalid_certificate", s.name, c.fp>> \in warnings
             \/ \E w \in warnings : w[1] = "status_conflict" /\ w[3] = c.fp

\* The uses and the QSCD flag of a returned anchor are those of its entries
\* together, whichever of them sort.Slice puts first.
FlagsAreUnion ==
  loop = "returned" =>
    \A k \in 1 .. kept :
      LET entries == AcceptedEntries(anchors[k].fp)
      IN  /\ anchors[k].uses = UNION {s.uses : s \in entries}
          /\ anchors[k].qscd = \E s \in entries : SaysQscd(s)

\* The name and the type of a returned anchor are those of one entry, the first
\* one by name, whichever way the list is ordered and however often a merge or
\* the reuse of the array moved the anchor.  (A certificate with accepted entries
\* of two types is so served under one of them.)
NamedByFirstEntry ==
  loop = "returned" =>
    \A k \in 1 .. kept :
      LET entries == AcceptedEntries(anchors[k].fp)
      IN  \E s \in entries :
            /\ anchors[k].name = s.name
            /\ anchors[k].type = TypeKey[s.type]
            /\ \A r \in entries : s.name <= r.name

\* "Uses, qualifiers and the QSCD flag are unioned - a second entry's metadata
\* is never silently dropped": the qualifiers.
QualifiersAreUnion ==
  loop = "returned" =>
    \A k \in 1 .. kept :
      Range(Elements(arrays, anchors[k].qualifiers))
        = UNION {Range(s.qualifiers) : s \in AcceptedEntries(anchors[k].fp)}

\* "A service is never dropped whole because one of its identities failed": a
\* certificate that can be read counts in every entry that lists it, so that a
\* returned certificate is not withdrawn in any of them ("the friendlier half is
\* never served on its own").
FriendlierHalfNotServed ==
  loop = "returned" =>
    \A k \in 1 .. kept : \A s \in Range(list) :
      /\ Admitted(s)
      /\ \E c \in Range(s.certs) :
           c.fp = anchors[k].fp /\ c.read \in {"parsed", "held"}
      => s.status = anchors[k].status
=============================================================================
