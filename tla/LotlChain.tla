----------------------------- MODULE LotlChain ------------------------------
(***************************************************************************)
(* The list of the lists (LOTL) and the signers it is verified against     *)
(* (ingestLOTL, euLOTLSource.Verify, walkPivots).  The signer set starts   *)
(* as the operator's bootstrap; the publisher rotates it with pivots,      *)
(* lists signed under the old set that advertise the new one.              *)
(*                                                                         *)
(* The publisher is outside the program.  It numbers its lists and pivots  *)
(* consecutively and signs them with keys of the current set; one that     *)
(* makes mistakes also publishes what it should not have, which is what    *)
(* the code's consistency checks are for.  A request may be answered with  *)
(* any list published so far (caches), with any ".sha2", or not at all.  A *)
(* cycle that fails changes nothing here, so it has no action.             *)
(*                                                                         *)
(* A pivot's location stands for the pivot, since content whose sequence   *)
(* number differs from the one in the location is refused.  The checks of  *)
(* the document type and of well-formed XML are left out.                  *)
(***************************************************************************)
EXTENDS Integers, FiniteSets

CONSTANTS
  Keys,              \* signing certificates
  BootstrapSigners,  \* the operator-pinned set
  NotAfter,          \* NotAfter[k]: the end of k's validity
  Validity,          \* how long a list is valid (NextUpdate)
  Publishers,        \* the publishers there may be
  NoHeld,            \* no list was accepted yet
  NoDate,            \* the NextUpdate of a list that has none
  MaxTime            \* bound on the clock

\* retireFirst: after a rotation, only keys new with it sign lists.  undated: a
\* list may have no NextUpdate.  maxSeq bounds what is published.
Publisher == [keys : SUBSET Keys, retireFirst : BOOLEAN, mistakes : BOOLEAN,
              undated : BOOLEAN, maxSeq : Nat]

ASSUME LotlAssumption ==
  /\ BootstrapSigners \subseteq Keys
  /\ NotAfter \in [Keys -> Nat]
  /\ Validity \in Nat
  /\ NoDate \notin Nat
  /\ Publishers \subseteq Publisher
  /\ MaxTime \in Nat

VARIABLES
  now,        \* the clock
  publisher,  \* the publisher of this behaviour
  published,  \* the publisher's last sequence number
  signing,    \* the publisher's current signer set
  retired,    \* keys of the earlier signer sets
  pivots,     \* the pivots published so far
  lists,      \* the lists published so far
  held,       \* the list fields of the served snapshot
  saved       \* the list fields of the stored snapshot

vars ==
  <<now, publisher, published, signing, retired, pivots, lists, held, saved>>

Pivot == [seq : Nat, signer : Keys, self : SUBSET Keys, issued : Nat]

List == [seq : Nat, signer : Keys, self : SUBSET Keys, refs : SUBSET Pivot,
         nextUpdate : Nat \cup {NoDate}]

\* LOTLSignersDER, LOTLPivotSeq, GeneratedAt and the list itself.
Held == [list : List, signers : SUBSET Keys, pivotSeq : Nat,
         generatedAt : Nat]

TypeOK ==
  /\ now \in 0 .. MaxTime
  /\ publisher \in Publishers
  /\ published \in 0 .. publisher.maxSeq
  /\ signing \subseteq Keys
  /\ retired \subseteq Keys
  /\ pivots \subseteq Pivot
  /\ lists \subseteq List
  /\ held \in Held \cup {NoHeld}
  /\ saved \in Held \cup {NoHeld}

Init ==
  /\ now = 0
  /\ publisher \in Publishers
  /\ published = 0
  /\ signing = BootstrapSigners
  /\ retired = {}
  /\ pivots = {}
  /\ lists = {}
  /\ held = NoHeld
  /\ saved = NoHeld

-----------------------------------------------------------------------------
(***************************************************************************)
(* The publisher.                                                          *)
(***************************************************************************)
\* Certificate validity, which signature verification checks.
ValidAt(k, time) == time <= NotAfter[k]

PublishList ==
  /\ published < publisher.maxSeq
  /\ \E k \in publisher.keys, self \in SUBSET publisher.keys,
        until \in {now + Validity, NoDate} :
       /\ ValidAt(k, now)
       /\ publisher.retireFirst /\ pivots # {} => k \notin retired
       /\ publisher.mistakes \/ (k \in signing /\ self = signing)
       /\ publisher.undated \/ until # NoDate
       /\ lists' = lists \cup {[seq |-> published + 1, signer |-> k,
                                self |-> self, refs |-> pivots,
                                nextUpdate |-> until]}
  /\ published' = published + 1
  /\ UNCHANGED <<now, publisher, signing, retired, pivots, held, saved>>

\* A rotation: signed under the current set, it advertises the next one.
PublishPivot ==
  /\ published < publisher.maxSeq
  /\ \E k \in signing, self \in SUBSET publisher.keys :
       /\ ValidAt(k, now)
       /\ k \in self
       /\ self # signing
       /\ publisher.retireFirst => ~(self \subseteq signing \cup retired)
       /\ pivots' = pivots \cup {[seq |-> published + 1, signer |-> k,
                                  self |-> self, issued |-> now]}
       /\ signing' = self
  /\ retired' = retired \cup signing
  /\ published' = published + 1
  /\ UNCHANGED <<now, publisher, lists, held, saved>>

\* A pivot that does not continue the chain.
PublishMistakenPivot ==
  /\ publisher.mistakes
  /\ published < publisher.maxSeq
  /\ \E k \in publisher.keys, self \in SUBSET publisher.keys :
       /\ k \notin signing \/ k \notin self
       /\ pivots' = pivots \cup {[seq |-> published + 1, signer |-> k,
                                  self |-> self, issued |-> now]}
  /\ published' = published + 1
  /\ UNCHANGED <<now, publisher, signing, retired, lists, held, saved>>

-----------------------------------------------------------------------------
(***************************************************************************)
(* walkPivots.                                                             *)
(***************************************************************************)
Newest(ps) == CHOOSE p \in ps : \A q \in ps : q.seq <= p.seq

\* Mutant: the first pivot after the processed ones is skipped too.
UnprocessedLate(refs, pivotSeq) == {p \in refs : p.seq > pivotSeq + 1}

\* The references of a list that the walk does not skip.
Unprocessed(refs, pivotSeq) == {p \in refs : p.seq > pivotSeq}

\* The signer set the walk has when it comes to p.
SignersBefore(p, todo, signers) ==
  LET older == {q \in todo : q.seq < p.seq}
  IN  IF older = {} THEN signers ELSE Newest(older).self

\* tsl.Verify and tsl.VerifyAt: signed by a pinned certificate that is valid.
VerifyAt(doc, signers, time) ==
  doc.signer \in signers /\ ValidAt(doc.signer, time)

\* Mutant: a pivot need only be signed by a certificate it advertises itself.
WalkSucceedsUnpinned(todo, signers) ==
  \A p \in todo : VerifyAt(p, p.self, p.issued)

\* Mutant: the signer of a pivot has to be valid at the time of the walk.
WalkSucceedsNow(todo, signers) ==
  \A p \in todo : /\ VerifyAt(p, SignersBefore(p, todo, signers), now)
                  /\ p.signer \in p.self

\* No pivot fails the walk: each one is signed under the set before it, by a
\* certificate valid when it was issued that the pivot itself advertises.
WalkSucceeds(todo, signers) ==
  \A p \in todo : /\ VerifyAt(p, SignersBefore(p, todo, signers), p.issued)
                  /\ p.signer \in p.self

-----------------------------------------------------------------------------
(***************************************************************************)
(* ingestLOTL.                                                             *)
(***************************************************************************)
\* What the list is verified against: the previous snapshot's signers, or the
\* bootstrap.
Pinned == IF held = NoHeld THEN BootstrapSigners ELSE held.signers

PivotSeq == IF held = NoHeld THEN 0 ELSE held.pivotSeq

MaxPivot(refs) == IF refs = {} THEN 0 ELSE Newest(refs).seq

\* euLOTLSource.Verify, direct.
VerifiesDirect(l) == VerifyAt(l, Pinned, now) /\ l.signer \in l.self

\* The signer set that a walk over the list's pivots ends with.
WalkedSigners(l) ==
  LET todo == Unprocessed(l.refs, PivotSeq)
  IN  IF todo = {} THEN Pinned ELSE Newest(todo).self

\* Mutant: the list is not verified again after the walk.
VerifiesByPivotsOnce(l) ==
  /\ ~VerifyAt(l, Pinned, now)
  /\ WalkSucceeds(Unprocessed(l.refs, PivotSeq), Pinned)

\* euLOTLSource.Verify after a pivot walk.
VerifiesByPivots(l) ==
  /\ ~VerifyAt(l, Pinned, now)
  /\ WalkSucceeds(Unprocessed(l.refs, PivotSeq), Pinned)
  /\ VerifyAt(l, WalkedSigners(l), now)

\* Mutant: the newest pivot counts as not processed.
VerifyDirectOffByOne(l) ==
  /\ VerifiesDirect(l)
  /\ held' = [list        |-> l,
              signers     |-> Pinned,
              pivotSeq    |-> MaxPivot(l.refs) - 1,
              generatedAt |-> now]

\* Every pivot of a list that verifies directly counts as processed.
VerifyDirect(l) ==
  /\ VerifiesDirect(l)
  /\ held' = [list        |-> l,
              signers     |-> Pinned,
              pivotSeq    |-> IF MaxPivot(l.refs) > PivotSeq
                              THEN MaxPivot(l.refs) ELSE PivotSeq,
              generatedAt |-> now]

\* After a walk the signers are the newest pivot's.
VerifyByPivots(l) ==
  LET todo == Unprocessed(l.refs, PivotSeq)
  IN  /\ VerifiesByPivots(l)
      /\ held' = [list        |-> l,
                  signers     |-> WalkedSigners(l),
                  pivotSeq    |-> IF todo = {} THEN PivotSeq
                                  ELSE Newest(todo).seq,
                  generatedAt |-> now]

\* The save of what a cycle built may be skipped or fail.
MaySave == saved' \in {saved, held'}

\* A list without a NextUpdate does not expire.
Expired(l, time) == l.nextUpdate # NoDate /\ time > l.nextUpdate

\* A cycle on a downloaded list: verified, not expired, no regression.
Accept(l) ==
  /\ VerifyDirect(l) \/ VerifyByPivots(l)
  /\ ~Expired(l, now)
  /\ held # NoHeld => l.seq >= held.list.seq
  /\ MaySave
  /\ UNCHANGED <<now, publisher, published, signing, retired, pivots, lists>>

\* Mutant: a ".sha2" match is enough.
CarryAlways ==
  /\ held # NoHeld
  /\ held' = [held EXCEPT !.generatedAt = now]
  /\ MaySave
  /\ UNCHANGED <<now, publisher, published, signing, retired, pivots, lists>>

\* A cycle on the held list, without a download: the ".sha2" file names it, and
\* it has a NextUpdate that is not past.
Carry ==
  /\ held # NoHeld
  /\ held.signers # {}
  /\ held.list.nextUpdate # NoDate /\ now < held.list.nextUpdate
  /\ held' = [held EXCEPT !.generatedAt = now]
  /\ MaySave
  /\ UNCHANGED <<now, publisher, published, signing, retired, pivots, lists>>

\* The process restarts from the store.
Restart ==
  /\ held' = saved
  /\ UNCHANGED <<now, publisher, published, signing, retired, pivots, lists,
                 saved>>

Tick ==
  /\ now < MaxTime
  /\ now' = now + 1
  /\ UNCHANGED <<publisher, published, signing, retired, pivots, lists, held,
                 saved>>

Next ==
  \/ PublishList
  \/ PublishPivot
  \/ PublishMistakenPivot
  \/ \E l \in lists : Accept(l)
  \/ Carry
  \/ Restart
  \/ Tick

Spec == Init /\ [][Next]_vars

-----------------------------------------------------------------------------
(***************************************************************************)
(* Safety.                                                                 *)
(***************************************************************************)
\* The served state is consistent: the list it was built from verifies against
\* the signer set it carries, through direct verification, pivot walks,
\* carry-overs and restarts.  (A cycle starts from that pair: a set that does
\* not go with the list would be the wrong one to continue from.)
HeldVerifies == held # NoHeld => held.list.signer \in held.signers

\* No cycle runs on an expired list: neither a download nor a ".sha2" match
\* lets a snapshot be generated from a list past its NextUpdate ("an expired
\* list is refused, never quietly kept", the doc of euLOTLSource.Fetch).
NoExpiredList ==
  held # NoHeld => ~Expired(held.list, held.generatedAt)

\* A collection of signer sets closed under endorsement: a pivot signed under
\* one of them, by a certificate it advertises itself, leads to another one.
Closed(sets) ==
  \A p \in pivots :
    p.signer \in p.self /\ (\E s \in sets : p.signer \in s) => p.self \in sets

\* The signer sets the bootstrap vouches for: the least closed collection.
Endorsed(signers) ==
  \A sets \in SUBSET (SUBSET Keys) :
    BootstrapSigners \in sets /\ Closed(sets) => signers \in sets

\* The root of trust: whatever was published, by mistake or not, whatever was
\* missed and however often the process restarted, the signer set in use goes
\* back to the operator's bootstrap through pivots, each of them signed under
\* the set before it (walkPivots, the pinning rule of tsl.Verify).
SignersEndorsed == held # NoHeld => Endorsed(held.signers)

Current(l) == l \in lists /\ \A m \in lists : m.seq <= l.seq

\* The service never locks itself out: with a publisher that makes no mistakes
\* and retires the keys of a set as soon as it has rotated to the next, every
\* published list that has not expired verifies at every moment, unless it is
\* older than the one held, and the current list never is (walkPivots, over
\* any number of pivots seen or missed, skipped saves, restarts, and signers
\* of earlier pivots that have expired since).
NeverLockedOut ==
  ~publisher.mistakes /\ publisher.retireFirst =>
    \A l \in lists :
      ~Expired(l, now) /\ ValidAt(l.signer, now) =>
        IF held # NoHeld /\ l.seq < held.list.seq THEN ~Current(l)
        ELSE VerifiesDirect(l) \/ VerifiesByPivots(l)

-----------------------------------------------------------------------------
(***************************************************************************)
(* Liveness.                                                               *)
(***************************************************************************)
\* A cycle runs on the current list.
FollowCurrent == \E l \in lists : Current(l) /\ Accept(l)

\* Upstream answers a cycle with its current list again and again.
FairSpec == Spec /\ SF_vars(FollowCurrent)

\* The service is on the current list, if that has not expired.
UpToDate ==
  \A l \in lists :
    Current(l) /\ ~Expired(l, now) /\ ValidAt(l.signer, now)
    => held # NoHeld /\ held.list = l

\* Rotations are followed: with a publisher that makes no mistakes, the service
\* keeps coming back to the current list, over any number of pivots it saw or
\* missed (README: the walk goes on "until the current LOTL verifies again").
RotationsFollowed == ~publisher.mistakes => []<>UpToDate

\* The same for a publisher that retires the keys of a set as soon as it has
\* rotated to the next (walkPivots, over several pivots missed and restarts).
HandoversFollowed ==
  ~publisher.mistakes /\ publisher.retireFirst => []<>UpToDate
=============================================================================
