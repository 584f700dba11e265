--------------------------- MODULE ServingProofs ----------------------------
(***************************************************************************)
(* The entity tag determines the certificate bundle, and the anchors of a  *)
(* JSON bundle up to their names, for every territory, certificate, query  *)
(* and snapshot.  The id is a set of projections, so the argument goes     *)
(* through one anchor: two snapshots with equal ids have for each anchor   *)
(* of one an anchor of the other at the same place with the same           *)
(* projection, and the filter looks at nothing else but the kind of key,   *)
(* which the certificate has.                                              *)
(***************************************************************************)
EXTENDS Serving, TLAPS

\* Anchors with equal content are selected alike and are the same certificate
\* (matches reads only what idAnchor has, and KeyCommon the kind of key, which the
\* certificate has).
LEMMA ContentDecides ==
  ASSUME NEW a \in Extracted, NEW b \in Extracted, NEW q \in QueryType,
         IdAnchor(a) = IdAnchor(b)
  PROVE  /\ a.cert = b.cert
         /\ Matches(a, q) = Matches(b, q)
<1>1. /\ a.cert = b.cert
      /\ a.qscd = b.qscd
      /\ a.uses = b.uses
      /\ a.type = b.type
  BY DEF IdAnchor
<1>2. QED
  BY <1>1 DEF Matches, KeyCommon, Extracted

\* Sets of anchors with equal content select the same certificates.
LEMMA ContentSelects ==
  ASSUME NEW A \in SUBSET Extracted, NEW B \in SUBSET Extracted, NEW q \in QueryType,
         IdAnchors(A) = IdAnchors(B),
         NEW a \in A, Matches(a, q)
  PROVE  \E b \in B : IdAnchor(b) = IdAnchor(a) /\ Matches(b, q)
<1>1. PICK b \in B : IdAnchor(b) = IdAnchor(a)
  BY DEF IdAnchors
<1>2. a \in Extracted /\ b \in Extracted
  OBVIOUS
<1>3. a.cert = b.cert /\ Matches(a, q) = Matches(b, q)
  BY <1>1, <1>2, ContentDecides
<1>4. QED
  BY <1>1, <1>3

\* A territory with data in one of two snapshots with equal ids has data in
\* the other, with the same content (ComputeID keys it by its code).
LEMMA ContentPlaced ==
  ASSUME NEW s \in Contents, NEW r \in Contents, ComputeID(s) = ComputeID(r),
         NEW t \in WithContent(s)
  PROVE  IdAnchors(s.terr[t].anchors) = IdAnchors(r.terr[t].anchors)
<1>1. {IdTerritory(s, u) : u \in WithContent(s)}
        = {IdTerritory(r, u) : u \in WithContent(r)}
  BY DEF ComputeID
<1>2. PICK u \in WithContent(r) : IdTerritory(s, t) = IdTerritory(r, u)
  BY <1>1
<1>3. /\ t = u
      /\ IdAnchors(s.terr[t].anchors) = IdAnchors(r.terr[u].anchors)
  BY <1>2 DEF IdTerritory
<1>4. QED
  BY <1>3

\* For every anchor of one bundle the other has one with the same content.
LEMMA BundleIncluded ==
  ASSUME NEW s \in Contents, NEW r \in Contents, ComputeID(s) = ComputeID(r),
         NEW q \in QueryType, NEW a \in Filter(s, q)
  PROVE  \E b \in Filter(r, q) : IdAnchor(b) = IdAnchor(a)
<1>1. /\ s \in SnapshotType /\ WellFormed(s)
      /\ r \in SnapshotType /\ WellFormed(r)
      /\ KeysKnown(s) /\ KeysKnown(r)
  BY ServingAssumption
<1>2. Matches(a, q)
  BY DEF Filter
<1>3. CASE a \in s.internal
  <2>1. s.internal \in SUBSET Extracted /\ r.internal \in SUBSET Extracted
    BY <1>1 DEF KeysKnown
  <2>2. IdAnchors(s.internal) = IdAnchors(r.internal)
    BY DEF ComputeID
  <2>3. PICK b \in r.internal : IdAnchor(b) = IdAnchor(a) /\ Matches(b, q)
    BY <1>2, <1>3, <2>1, <2>2, ContentSelects
  <2>4. QED
    BY <2>3 DEF Filter
<1>4. CASE a \notin s.internal
  <2>1. PICK t \in Territories : Included(q, t) /\ a \in s.terr[t].anchors
    BY <1>4 DEF Filter
  <2>2. /\ s.terr[t].anchors \in SUBSET Extracted
        /\ r.terr[t].anchors \in SUBSET Extracted
    BY <1>1 DEF KeysKnown
  <2>3. t \in WithContent(s)
    BY <1>1, <2>1 DEF WellFormed, WithContent
  <2>4. IdAnchors(s.terr[t].anchors) = IdAnchors(r.terr[t].anchors)
    BY <2>3, ContentPlaced
  <2>5. PICK b \in r.terr[t].anchors :
          IdAnchor(b) = IdAnchor(a) /\ Matches(b, q)
    BY <1>2, <2>1, <2>2, <2>4, ContentSelects
  <2>6. QED
    BY <2>1, <2>5 DEF Filter
<1>5. QED
  BY <1>3, <1>4

\* The entity tag determines the certificate bundle of every query: what
\* idContent says of itself, for the PEM endpoint.
THEOREM TagDeterminesBundle ==
  ASSUME NEW s \in Contents, NEW r \in Contents, ComputeID(s) = ComputeID(r),
         NEW q \in QueryType, q.format = "pem"
  PROVE  Body(s, q) = Body(r, q)
<1>1. ASSUME NEW x \in Body(s, q)
      PROVE  x \in Body(r, q)
  <2>1. PICK a \in Filter(s, q) : x = a.cert
    BY DEF Body
  <2>2. \E b \in Filter(r, q) : b.cert = a.cert
    BY BundleIncluded DEF IdAnchor
  <2>3. QED
    BY <2>1, <2>2 DEF Body
<1>2. ASSUME NEW x \in Body(r, q)
      PROVE  x \in Body(s, q)
  <2>1. PICK a \in Filter(r, q) : x = a.cert
    BY DEF Body
  <2>2. \E b \in Filter(s, q) : b.cert = a.cert
    BY BundleIncluded DEF IdAnchor
  <2>3. QED
    BY <2>1, <2>2 DEF Body
<1>3. QED
  <2> HIDE DEF Body
  <2> QED
    BY <1>1, <1>2, Zenon

\* One half of the same for JSON.
LEMMA JudgedIncluded ==
  ASSUME NEW s \in Contents, NEW r \in Contents, ComputeID(s) = ComputeID(r),
         NEW q \in QueryType, NEW x \in Judged(Filter(s, q))
  PROVE  x \in Judged(Filter(r, q))
<1>1. PICK a \in Filter(s, q) :
        x = <<a.cert, a.status, a.qscd, a.uses, a.type>>
  BY DEF Judged
<1>2. PICK b \in Filter(r, q) : IdAnchor(b) = IdAnchor(a)
  BY BundleIncluded
<1>3. /\ b.cert = a.cert /\ b.status = a.status /\ b.qscd = a.qscd
      /\ b.uses = a.uses /\ b.type = a.type
  BY <1>2 DEF IdAnchor
<1>4. QED
  BY <1>1, <1>3 DEF Judged

\* The entity tag determines the anchors of a JSON bundle but for the fields
\* that idAnchor leaves out.
THEOREM TagDeterminesAnchors ==
  ASSUME NEW s \in Contents, NEW r \in Contents, ComputeID(s) = ComputeID(r),
         NEW q \in QueryType, q.format = "json"
  PROVE  Judged(Body(s, q)) = Judged(Body(r, q))
<1>1. \A x : x \in Judged(Filter(s, q)) <=> x \in Judged(Filter(r, q))
  BY JudgedIncluded
<1>2. Judged(Filter(s, q)) = Judged(Filter(r, q))
  BY <1>1, Zenon
<1>3. QED
  BY <1>2 DEF Body

-----------------------------------------------------------------------------
\* What a client holds was sent to it whole: some snapshot has both its tag
\* and its bundle, because a handler loads the served snapshot once.
Sent(c) ==
  \E s \in Contents : /\ cache[c].etag = ComputeID(s)
                      /\ cache[c].body = Body(s, query[c])

ServingInv ==
  /\ active \in Contents \cup {NoSnapshot}
  /\ query \in [Clients -> Queries]
  /\ loaded \in [Clients -> Contents \cup {NoSnapshot}]
  /\ DOMAIN cache = Clients
  /\ DOMAIN pc = Clients
  /\ \A c \in Clients : pc[c] = "loaded" => loaded[c] \in Contents
  /\ \A c \in Clients : cache[c] # NoCache => Sent(c)

LEMMA ServingInitial == Init => ServingInv
  BY ServingAssumption DEF Init, ServingInv

\* The answers are the only steps that change what a client holds.
LEMMA ServingInductive == ServingInv /\ [Next]_vars => ServingInv'
<1> SUFFICES ASSUME ServingInv, [Next]_vars
             PROVE  ServingInv'
  OBVIOUS
<1>1. CASE Activate
  BY <1>1 DEF ServingInv, Activate, Sent
<1>2. ASSUME NEW c \in Clients, Request(c)
      PROVE  ServingInv'
  BY <1>2 DEF ServingInv, Request, Sent
<1>3. ASSUME NEW c \in Clients, Unavailable(c)
      PROVE  ServingInv'
  BY <1>3 DEF ServingInv, Unavailable, Sent
<1>4. ASSUME NEW c \in Clients, Load(c)
      PROVE  ServingInv'
  BY <1>4 DEF ServingInv, Load, Sent
<1>5. ASSUME NEW c \in Clients, NotModified(c)
      PROVE  ServingInv'
  BY <1>5 DEF ServingInv, NotModified, Done, Sent
<1>6. ASSUME NEW c \in Clients, Answer(c)
      PROVE  ServingInv'
  <2> DEFINE s == loaded[c]
             sent == [etag |-> ComputeID(s), body |-> Body(s, query[c])]
  <2>1. s \in Contents
    BY <1>6 DEF ServingInv, Answer
  <2>2. /\ cache' = [cache EXCEPT ![c] = sent]
        /\ UNCHANGED <<active, query>>
        /\ pc' = [pc EXCEPT ![c] = "idle"]
        /\ loaded' = [loaded EXCEPT ![c] = NoSnapshot]
    BY <1>6 DEF Answer, Done
  <2>3. sent.etag = ComputeID(s) /\ sent.body = Body(s, query[c])
    OBVIOUS
  <2> HIDE DEF sent
  <2>4. ASSUME NEW d \in Clients, cache'[d] # NoCache
        PROVE  Sent(d)'
    <3>1. CASE d = c
      BY <2>1, <2>2, <2>3, <3>1 DEF ServingInv, Sent
    <3>2. CASE d # c
      BY <2>2, <2>4, <3>2 DEF ServingInv, Sent
    <3>3. QED
      BY <3>1, <3>2
  <2>5. QED
    BY <2>2, <2>4 DEF ServingInv
<1>7. CASE Tick
  BY <1>7 DEF ServingInv, Tick, Sent
<1>8. CASE UNCHANGED vars
  BY <1>8 DEF ServingInv, vars, Sent
<1>9. QED
  BY <1>1, <1>2, <1>3, <1>4, <1>5, <1>6, <1>7, <1>8 DEF Next, Poll

LEMMA ServingInvariant == Spec => []ServingInv
  BY ServingInitial, ServingInductive, PTL DEF Spec

\* A bundle whose tag is the service's is the bundle the service would send.
LEMMA SentIsCurrent ==
  ServingInv => CachedPEMIsCurrent /\ CachedJSONIsCurrent
<1> SUFFICES ASSUME ServingInv, NEW c \in Clients, Holds(c)
             PROVE  /\ query[c].format = "pem"
                       => cache[c].body = Body(active, query[c])
                    /\ query[c].format = "json"
                       => Judged(cache[c].body) = Judged(Body(active, query[c]))
  BY DEF CachedPEMIsCurrent, CachedJSONIsCurrent
<1>1. active \in Contents /\ query[c] \in QueryType
  BY ServingAssumption DEF ServingInv, Holds
<1>2. PICK s \in Contents : /\ cache[c].etag = ComputeID(s)
                            /\ cache[c].body = Body(s, query[c])
  BY DEF ServingInv, Holds, HoldsTag, Sent
<1>3. ComputeID(s) = ComputeID(active)
  BY <1>2 DEF Holds, HoldsTag
<1>4. query[c].format = "pem" => Body(s, query[c]) = Body(active, query[c])
  BY <1>1, <1>3, TagDeterminesBundle
<1>5. query[c].format = "json"
      => Judged(Body(s, query[c])) = Judged(Body(active, query[c]))
  BY <1>1, <1>3, TagDeterminesAnchors
<1>6. QED
  BY <1>2, <1>4, <1>5

\* The PEM endpoint never answers 304 to a client whose bundle is not the one
\* it would send, whatever is activated while requests are being answered.
THEOREM PEMCacheIsCurrent == Spec => []CachedPEMIsCurrent
<1>1. ServingInv => CachedPEMIsCurrent
  BY SentIsCurrent
<1>2. QED
  BY <1>1, ServingInvariant, PTL

\* Nor does the JSON endpoint leave a client with an anchor too many, too few or
\* with another status, flag, use or type.
THEOREM JSONCacheIsCurrent == Spec => []CachedJSONIsCurrent
<1>1. ServingInv => CachedJSONIsCurrent
  BY SentIsCurrent
<1>2. QED
  BY <1>1, ServingInvariant, PTL
=============================================================================
