------------------------------ MODULE Serving -------------------------------
(***************************************************************************)
(* The bundle endpoints (routes/anchors.go, trust/filter.go) and clients   *)
(* that poll them with If-None-Match.  A handler loads the served snapshot *)
(* once, without a lock, and answers from it; the manager may activate     *)
(* another one meanwhile.                                                  *)
(*                                                                         *)
(* Anchors have the fields that select them or are shown to a client.  The *)
(* snapshot id is the content it hashes (Snapshot.ComputeID); the source   *)
(* and use cases of an anchor and the pending fingerprints, which select   *)
(* nothing, are left out of it, so that ids equal in the code are equal    *)
(* here.  A bundle is a set: its order, and a certificate repeated because *)
(* two lists have it, are left out.  Requests are authorised and their     *)
(* parameters valid: any other is answered with an error that leaves the   *)
(* client with what it has.                                                *)
(***************************************************************************)
EXTENDS Integers, FiniteSets

CONSTANTS
  Territories,  \* territory codes
  Certs,        \* certificates, each with its fingerprint
  HeldKeys,     \* those whose key not every consumer can parse
  Statuses,     \* service statuses
  Uses,         \* signature, seal, website
  Signature,    \* the use that authentication is an alias of
  Authentication,
  AnyUse,       \* no use is asked for
  Types,        \* EUDI anchor types
  Untyped,      \* the TSL plane
  Names,        \* names of providers
  Contents,     \* snapshots the manager can activate
  NoSnapshot,   \* nothing is served yet
  NoDate,       \* a list that states no NextUpdate
  StaleGrace,   \* TRUST_STALE_GRACE
  Clients,      \* pollers
  Queries,      \* what they ask for
  NoCache,      \* a client that has no bundle yet
  MaxTime       \* bound on the clock

Anchor ==
  [cert   : Certs,
   status : Statuses,
   qscd   : BOOLEAN,
   uses   : SUBSET Uses,
   type   : Types \cup {Untyped},
   key    : {"common", "held", "unknown"},
   name   : Names]

\* The key is read from the certificate when an anchor is extracted; it is
\* unknown in an anchor that was persisted before the field existed.
Extracted ==
  {a \in Anchor : a.key = IF a.cert \in HeldKeys THEN "held" ELSE "common"}

Territory ==
  [health     : {"absent", "ok", "failed"},
   seq        : Nat,
   nextUpdate : Nat \cup {NoDate},
   anchors    : SUBSET Anchor]

SnapshotType ==
  [lotlSequence : Nat,
   terr         : [Territories -> Territory],
   internal     : SUBSET Anchor]

\* Only a territory with data has anchors (Pipeline.Refresh).
WellFormed(s) ==
  \A t \in Territories : s.terr[t].health # "ok" => s.terr[t].anchors = {}

\* What this version of the program extracted or loaded: no anchor is older
\* than the key field.
KeysKnown(s) ==
  /\ s.internal \subseteq Extracted
  /\ \A t \in Territories : s.terr[t].anchors \subseteq Extracted

QueryType ==
  [territories : SUBSET Territories,
   use         : Uses \cup {AnyUse, Authentication},
   qscdOnly    : BOOLEAN,
   type        : Types \cup {Untyped},
   keys        : {"common", "all"},
   format      : {"pem", "json"}]

ASSUME ServingAssumption ==
  /\ Contents \subseteq {s \in SnapshotType : WellFormed(s)}
  /\ \A s \in Contents : KeysKnown(s)
  /\ NoSnapshot \notin Contents
  /\ Queries \subseteq QueryType
  /\ StaleGrace \in Nat
  /\ MaxTime \in Nat
  /\ NoDate \notin Nat

VARIABLES
  now,     \* the serving clock
  active,  \* Manager.active
  pc,      \* pc[c]: where the request of client c is
  loaded,  \* loaded[c]: the snapshot its handler works on
  query,   \* query[c]: the bundle client c keeps asking for
  cache,   \* cache[c]: the entity tag and the bundle client c holds
  stale    \* stale[c]: the X-Trust-Stale header client c saw last

vars == <<now, active, pc, loaded, query, cache, stale>>

Init ==
  /\ now = 0
  /\ active \in Contents \cup {NoSnapshot}
  /\ pc = [c \in Clients |-> "idle"]
  /\ loaded = [c \in Clients |-> NoSnapshot]
  /\ query \in [Clients -> Queries]
  /\ cache = [c \in Clients |-> NoCache]
  /\ stale = [c \in Clients |-> FALSE]

-----------------------------------------------------------------------------
(***************************************************************************)
(* The content id.                                                         *)
(***************************************************************************)
\* Mutant: the status is not part of an anchor's content.
IdAnchorStatusless(a) == [fp |-> a.cert, qscd |-> a.qscd, uses |-> a.uses,
                          type |-> a.type]

\* Mutant: the type is not part of an anchor's content.
IdAnchorUntyped(a) == [fp |-> a.cert, status |-> a.status, qscd |-> a.qscd,
                       uses |-> a.uses]

IdAnchor(a) == [fp |-> a.cert, status |-> a.status, qscd |-> a.qscd,
                uses |-> a.uses, type |-> a.type]

IdAnchors(anchors) == {IdAnchor(a) : a \in anchors}

WithContent(s) == {t \in Territories : s.terr[t].health = "ok"}

IdTerritory(s, t) ==
  [code |-> t, seq |-> s.terr[t].seq, anchors |-> IdAnchors(s.terr[t].anchors)]

ComputeID(s) ==
  [lotlSequence |-> s.lotlSequence,
   territories  |-> {IdTerritory(s, t) : t \in WithContent(s)},
   internal     |-> IdAnchors(s.internal)]

-----------------------------------------------------------------------------
(***************************************************************************)
(* The bundle filter.                                                      *)
(***************************************************************************)
\* An anchor without uses is in the bundles of all uses.
MatchesUse(uses, use) ==
  \/ use = AnyUse
  \/ uses = {}
  \/ (IF use = Authentication THEN Signature ELSE use) \in uses

\* An unknown key is common.
KeyCommon(a) == a.key # "held"

Matches(a, q) ==
  /\ a.type = q.type
  /\ q.qscdOnly => a.qscd
  /\ MatchesUse(a.uses, q.use)
  /\ q.keys = "all" \/ KeyCommon(a)

Included(q, t) == q.territories = {} \/ t \in q.territories

Filter(s, q) ==
  {a \in s.internal \cup UNION {s.terr[t].anchors :
                                  t \in {u \in Territories : Included(q, u)}} :
     Matches(a, q)}

\* PEMBundle has the certificates, NewAnchors all that is known of them.
Body(s, q) ==
  IF q.format = "pem" THEN {a.cert : a \in Filter(s, q)} ELSE Filter(s, q)

\* Territory.StaleAt for any territory asked for.
Stale(s, q, time) ==
  \E t \in Territories :
    /\ Included(q, t)
    /\ s.terr[t].health # "absent"
    /\ s.terr[t].nextUpdate # NoDate
    /\ time > s.terr[t].nextUpdate + StaleGrace

-----------------------------------------------------------------------------
\* Manager.activate.
Activate ==
  /\ active' \in Contents
  /\ UNCHANGED <<now, pc, loaded, query, cache, stale>>

\* A client sends its request, with the entity tag of what it holds.
Request(c) ==
  /\ pc[c] = "idle"
  /\ pc' = [pc EXCEPT ![c] = "sent"]
  /\ UNCHANGED <<now, active, loaded, query, cache, stale>>

\* snapshotForServing: 503 when nothing is served.
Unavailable(c) ==
  /\ pc[c] = "sent"
  /\ active = NoSnapshot
  /\ pc' = [pc EXCEPT ![c] = "idle"]
  /\ UNCHANGED <<now, active, loaded, query, cache, stale>>

Load(c) ==
  /\ pc[c] = "sent"
  /\ active # NoSnapshot
  /\ loaded' = [loaded EXCEPT ![c] = active]
  /\ pc' = [pc EXCEPT ![c] = "loaded"]
  /\ UNCHANGED <<now, active, query, cache, stale>>

HoldsTag(c, id) == cache[c] # NoCache /\ cache[c].etag = id

\* Mutant: the headers are set after the test for 304.
SetHeadersLate(c, s) ==
  stale' = IF HoldsTag(c, ComputeID(s)) THEN stale
           ELSE [stale EXCEPT ![c] = Stale(s, query[c], now)]

\* setBundleHeaders, for a full answer and for a 304.
SetHeaders(c, s) == stale' = [stale EXCEPT ![c] = Stale(s, query[c], now)]

Done(c) ==
  /\ pc' = [pc EXCEPT ![c] = "idle"]
  /\ loaded' = [loaded EXCEPT ![c] = NoSnapshot]
  /\ UNCHANGED <<now, active, query>>

NotModified(c) ==
  /\ pc[c] = "loaded"
  /\ HoldsTag(c, ComputeID(loaded[c]))
  /\ SetHeaders(c, loaded[c])
  /\ UNCHANGED cache
  /\ Done(c)

Answer(c) ==
  /\ pc[c] = "loaded"
  /\ ~HoldsTag(c, ComputeID(loaded[c]))
  /\ SetHeaders(c, loaded[c])
  /\ cache' = [cache EXCEPT ![c] = [etag |-> ComputeID(loaded[c]),
                                    body |-> Body(loaded[c], query[c])]]
  /\ Done(c)

Tick ==
  /\ now < MaxTime
  /\ now' = now + 1
  /\ UNCHANGED <<active, pc, loaded, query, cache, stale>>

Poll(c) ==
  Request(c) \/ Unavailable(c) \/ Load(c) \/ NotModified(c) \/ Answer(c)

Next ==
  \/ Activate
  \/ \E c \in Clients : Poll(c)
  \/ Tick

Spec == Init /\ [][Next]_vars

\* Clients keep polling, and handlers, which wait for nothing, return.
FairSpec == Spec /\ \A c \in Clients : WF_vars(Poll(c))

-----------------------------------------------------------------------------
(***************************************************************************)
(* Properties.                                                             *)
(***************************************************************************)
Holds(c) == active # NoSnapshot /\ HoldsTag(c, ComputeID(active))

\* A certificate bundle whose entity tag is still the service's is the bundle
\* the service would send now, for every combination of filters: a 304 never
\* leaves a client with a certificate too many or too few, whatever was
\* activated while its requests were being answered (idContent has everything
\* trust.Filter looks at; the kind of key is not in it, but follows from the
\* certificate as long as every anchor was extracted with it: KeysKnown).
CachedPEMIsCurrent ==
  \A c \in Clients : query[c].format = "pem" /\ Holds(c)
                     => cache[c].body = Body(active, query[c])

\* What a consumer of anchors decides on.
Judged(anchors) ==
  {<<a.cert, a.status, a.qscd, a.uses, a.type>> : a \in anchors}

\* The same for anchors as JSON: a client that is answered 304 has every anchor
\* that the service would send with its certificate, status, QSCD flag, uses
\* and type, and no other.  (Names are not in idAnchor and may have changed.)
CachedJSONIsCurrent ==
  \A c \in Clients : query[c].format = "json" /\ Holds(c)
                     => Judged(cache[c].body) = Judged(Body(active, query[c]))

\* Once what is served is stale and stays so, a polling client learns it and
\* is not told otherwise again, also when every answer is a 304 (the headers
\* are set before the test for 304).
StaleIsNoticed ==
  \A c \in Clients :
    <>[](active # NoSnapshot /\ Stale(active, query[c], now))
    => <>[](stale[c])
=============================================================================
