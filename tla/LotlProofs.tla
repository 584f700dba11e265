----------------------------- MODULE LotlProofs -----------------------------
(***************************************************************************)
(* Theorems about the list of the lists and its signers.                   *)
(***************************************************************************)
EXTENDS LotlChain, WellFoundedInduction, TLAPS

\* The least-number principle, for sets of numbers.
LEMMA LeastNatural ==
  ASSUME NEW T, T \subseteq Nat, T # {}
  PROVE  \E x \in T : \A y \in T : x <= y
<1> DEFINE R == OpToRel(<, Nat)
<1>1. IsWellFoundedOn(R, Nat)
  BY NatLessThanWellFounded, Zenon
<1>2. \A x, y \in Nat : y < x => <<y, x>> \in R
  BY DEF OpToRel
<1> HIDE DEF R
<1>3. PICK x \in T : \A y \in T : ~(<<y, x>> \in R)
  BY <1>1, WFMin
<1>4. ASSUME NEW y \in T
      PROVE  x <= y
  <2>1. x \in Nat /\ y \in Nat
    OBVIOUS
  <2>2. ~(y < x)
    BY <1>2, <1>3, <2>1
  <2>q. QED BY <2>1, <2>2
<1>q. QED BY <1>4

\* The newest of some pivots is one of them, and none of them is newer.
LEMMA NewestIsNewest ==
  ASSUME NEW ps \in SUBSET Pivot, ps # {}, NEW bound \in Nat,
         \A p \in ps : p.seq <= bound
  PROVE  /\ Newest(ps) \in ps
         /\ \A q \in ps : q.seq <= Newest(ps).seq
<1> DEFINE T == {bound - p.seq : p \in ps}
<1>1. \A p \in ps : p.seq \in Nat
  BY DEF Pivot
<1>2. T \subseteq Nat /\ T # {}
  BY <1>1
<1>3. PICK x \in T : \A y \in T : x <= y
  BY <1>2, LeastNatural
<1>4. PICK p \in ps : x = bound - p.seq
  OBVIOUS
<1>5. ASSUME NEW q \in ps
      PROVE  q.seq <= p.seq
  <2>1. bound - q.seq \in T
    OBVIOUS
  <2>2. bound - p.seq <= bound - q.seq
    BY <1>3, <1>4, <2>1
  <2>3. p.seq \in Nat /\ q.seq \in Nat
    BY <1>1
  <2> HIDE DEF T
  <2>q. QED BY <2>2, <2>3
<1>6. Newest(ps) \in ps /\ \A q \in ps : q.seq <= Newest(ps).seq
  BY <1>5 DEF Newest
<1>q. QED BY <1>6
-----------------------------------------------------------------------------
(***************************************************************************)
(* The walk over the pivots.                                               *)
(***************************************************************************)
\* The publisher's documents: the references of a list are published pivots.
PublishedInv ==
  /\ \A p \in pivots : p.seq <= publisher.maxSeq
  /\ \A l \in lists : l.refs \subseteq pivots

LEMMA PublisherType ==
  ASSUME TypeOK
  PROVE  publisher.maxSeq \in Nat /\ publisher.keys \subseteq Keys
BY LotlAssumption DEF TypeOK, Publisher

\* A new pivot takes no endorsement away.
LEMMA EndorsedStays ==
  ASSUME NEW signers, Endorsed(signers), pivots \subseteq pivots'
  PROVE  Endorsed(signers)'
<1>1. ASSUME NEW sets \in SUBSET (SUBSET Keys), Closed(sets)'
      PROVE  Closed(sets)
  BY <1>1 DEF Closed
<1>q. QED BY <1>1 DEF Endorsed

\* A walk that succeeds from an endorsed signer set meets only pivots that
\* advertise endorsed sets.  (The oldest one that does not would be signed
\* under a set that is endorsed.)
LEMMA WalkEndorsed ==
  ASSUME TypeOK, PublishedInv, NEW todo \in SUBSET pivots, NEW signers,
         Endorsed(signers), WalkSucceeds(todo, signers), NEW d \in todo
  PROVE  Endorsed(d.self)
<1> SUFFICES ASSUME NEW sets \in SUBSET (SUBSET Keys),
                    BootstrapSigners \in sets, Closed(sets),
                    d.self \notin sets
             PROVE  FALSE
  BY DEF Endorsed
<1>1. signers \in sets
  BY DEF Endorsed
<1>2. \A p \in todo : p \in Pivot /\ p.seq \in Nat /\ p.seq <= publisher.maxSeq
  BY DEF TypeOK, PublishedInv, Pivot
<1> DEFINE Bad == {p \in todo : p.self \notin sets}
           T == {p.seq : p \in Bad}
<1>3. T \subseteq Nat /\ T # {}
  BY <1>2
<1>4. PICK x \in T : \A y \in T : x <= y
  BY <1>3, LeastNatural
<1>5. PICK p \in Bad : x = p.seq
  OBVIOUS
<1> DEFINE older == {q \in todo : q.seq < p.seq}
<1>6. ASSUME NEW q \in older
      PROVE  q.self \in sets
  <2>1. q \notin Bad
    <3>1. ASSUME q \in Bad
          PROVE  p.seq <= q.seq
      BY <1>4, <1>5, <3>1
    <3>q. QED BY <1>2, <1>5, <3>1
  <2>q. QED BY <2>1
<1>7. older # {} => Newest(older) \in older
  <2>1. older \in SUBSET Pivot /\ \A q \in older : q.seq <= publisher.maxSeq
    BY <1>2
  <2>2. publisher.maxSeq \in Nat
    BY PublisherType
  <2> HIDE DEF older
  <2>q. QED BY <2>1, <2>2, NewestIsNewest
<1>8. SignersBefore(p, todo, signers) \in sets
  BY <1>1, <1>6, <1>7 DEF SignersBefore
<1>9. p.signer \in SignersBefore(p, todo, signers) /\ p.signer \in p.self
  BY <1>5 DEF WalkSucceeds, VerifyAt
<1>10. p \in pivots
  BY <1>5
<1>q. QED BY <1>5, <1>8, <1>9, <1>10 DEF Closed

-----------------------------------------------------------------------------
(***************************************************************************)
(* The served list and its signers.                                        *)
(***************************************************************************)
\* What holds of the served fields has to hold of the stored ones too, which a
\* restart serves again.
Sound(h) ==
  h # NoHeld => /\ h \in Held
                /\ h.list.signer \in h.signers
                /\ ~Expired(h.list, h.generatedAt)
                /\ Endorsed(h.signers)

LotlInv == TypeOK /\ PublishedInv /\ Sound(held) /\ Sound(saved)

\* What a cycle takes from the signer set it starts with.
LEMMA PinnedSound ==
  ASSUME LotlInv
  PROVE  /\ Pinned \subseteq Keys
         /\ PivotSeq \in Nat
         /\ Endorsed(Pinned)
BY LotlAssumption DEF LotlInv, Sound, Held, Pinned, PivotSeq, Endorsed

LEMMA DirectSound ==
  ASSUME LotlInv, NEW l \in lists, VerifyDirect(l), ~Expired(l, now),
         UNCHANGED pivots
  PROVE  Sound(held)'
<1>1. l \in List /\ now \in Nat
  BY DEF LotlInv, TypeOK
<1>2. MaxPivot(l.refs) \in Nat
  <2>1. l.refs \in SUBSET Pivot /\ \A p \in l.refs : p.seq <= publisher.maxSeq
    BY DEF LotlInv, PublishedInv, TypeOK
  <2>2. l.refs # {} => Newest(l.refs) \in l.refs
    BY <2>1, NewestIsNewest, PublisherType DEF LotlInv
  <2>q. QED BY <2>1, <2>2 DEF MaxPivot, Pivot
<1>3. held' \in Held
  BY <1>1, <1>2, PinnedSound DEF VerifyDirect, Held
<1>4. held'.list = l /\ held'.signers = Pinned /\ held'.generatedAt = now
  BY DEF VerifyDirect
<1>5. Endorsed(held'.signers)
  BY <1>4, PinnedSound
<1>6. Endorsed(held.signers)'
  BY <1>5, EndorsedStays
<1>q. QED
  BY <1>3, <1>4, <1>6 DEF VerifyDirect, VerifiesDirect, VerifyAt, Sound

LEMMA ByPivotsSound ==
  ASSUME LotlInv, NEW l \in lists, VerifyByPivots(l), ~Expired(l, now),
         UNCHANGED pivots
  PROVE  Sound(held)'
<1> DEFINE todo == Unprocessed(l.refs, PivotSeq)
           signers == IF todo = {} THEN Pinned ELSE Newest(todo).self
<1>1. l \in List /\ now \in Nat
  BY DEF LotlInv, TypeOK
<1>2. todo \in SUBSET pivots
  BY DEF Unprocessed, LotlInv, PublishedInv
<1>3. todo \in SUBSET Pivot /\ \A p \in todo : p.seq <= publisher.maxSeq
  BY <1>2 DEF LotlInv, PublishedInv, TypeOK
<1>4. /\ WalkSucceeds(todo, Pinned)
      /\ VerifyAt(l, signers, now)
      /\ held' = [list        |-> l,
                  signers     |-> signers,
                  pivotSeq    |-> IF todo = {} THEN PivotSeq
                                  ELSE Newest(todo).seq,
                  generatedAt |-> now]
  BY DEF VerifyByPivots, VerifiesByPivots, WalkedSigners
<1> HIDE DEF todo
<1>5. todo # {} => Newest(todo) \in todo
  BY <1>3, NewestIsNewest, PublisherType DEF LotlInv
<1>6. Endorsed(signers)
  <2>1. CASE todo = {}
    BY <2>1, PinnedSound
  <2>2. CASE todo # {}
    <3>1. Endorsed(Newest(todo).self)
      BY <1>2, <1>4, <1>5, <2>2, PinnedSound, WalkEndorsed DEF LotlInv
    <3>q. QED BY <2>2, <3>1
  <2>q. QED BY <2>1, <2>2
<1>7. signers \in SUBSET Keys
  BY <1>3, <1>5, PinnedSound DEF Pivot
<1>8. (IF todo = {} THEN PivotSeq ELSE Newest(todo).seq) \in Nat
  BY <1>3, <1>5, PinnedSound DEF Pivot
<1> HIDE DEF signers
<1>9. held' \in Held
  BY <1>1, <1>4, <1>7, <1>8 DEF Held
<1>10. held'.list = l /\ held'.signers = signers /\ held'.generatedAt = now
  BY <1>4
<1>11. Endorsed(held'.signers)
  BY <1>6, <1>10
<1>12. Endorsed(held.signers)'
  BY <1>11, EndorsedStays
<1>q. QED BY <1>4, <1>9, <1>10, <1>12 DEF VerifyAt, Sound

\* A snapshot that is kept stays sound.
LEMMA SoundStays ==
  ASSUME NEW h, Sound(h), pivots \subseteq pivots'
  PROVE  Sound(h)'
BY EndorsedStays DEF Sound

LEMMA LotlInductive ==
  ASSUME LotlInv, [Next]_vars
  PROVE  LotlInv'
<1>0. TypeOK /\ PublishedInv /\ Sound(held) /\ Sound(saved)
  BY DEF LotlInv
<1>1. CASE PublishList
  <2>1. TypeOK' /\ PublishedInv'
    BY <1>0, <1>1, LotlAssumption, PublisherType
    DEF PublishList, TypeOK, PublishedInv, List
  <2>2. Sound(held)' /\ Sound(saved)'
    BY <1>0, <1>1 DEF PublishList, Sound, Endorsed, Closed
  <2>q. QED BY <2>1, <2>2 DEF LotlInv
<1>2. CASE PublishPivot \/ PublishMistakenPivot
  <2>1. /\ published < publisher.maxSeq
        /\ published' = published + 1
        /\ UNCHANGED <<now, publisher, lists, held, saved>>
        /\ signing' \subseteq Keys
        /\ retired' \subseteq Keys
    BY <1>0, <1>2, PublisherType DEF PublishPivot, PublishMistakenPivot, TypeOK
  <2>2. PICK k \in Keys, self \in SUBSET Keys :
          pivots' = pivots \cup {[seq |-> published + 1, signer |-> k,
                                  self |-> self, issued |-> now]}
    BY <1>0, <1>2, PublisherType
    DEF PublishPivot, PublishMistakenPivot, TypeOK
  <2>3. TypeOK'
    BY <1>0, <2>1, <2>2, LotlAssumption, PublisherType DEF TypeOK, Pivot
  <2>4. PublishedInv'
    BY <1>0, <2>1, <2>2, PublisherType DEF PublishedInv, TypeOK
  <2>5. Sound(held)' /\ Sound(saved)'
    <3>1. pivots \subseteq pivots'
      BY <2>2
    <3>2. held # NoHeld => Endorsed(held.signers)'
      BY <1>0, <2>1, <3>1, EndorsedStays DEF Sound
    <3>3. saved # NoHeld => Endorsed(saved.signers)'
      BY <1>0, <2>1, <3>1, EndorsedStays DEF Sound
    <3>q. QED BY <1>0, <2>1, <3>2, <3>3 DEF Sound
  <2>q. QED BY <2>3, <2>4, <2>5 DEF LotlInv
<1>3. ASSUME held' \in Held \cup {NoHeld}, Sound(held)', MaySave,
             UNCHANGED <<now, publisher, published, signing, retired, pivots,
                         lists>>
      PROVE  LotlInv'
  <2>1. TypeOK' /\ PublishedInv'
    BY <1>0, <1>3 DEF MaySave, TypeOK, PublishedInv
  <2>2. Sound(saved)'
    BY <1>0, <1>3 DEF MaySave, Sound, Endorsed, Closed
  <2>q. QED BY <1>3, <2>1, <2>2 DEF LotlInv
<1>4. ASSUME NEW l \in lists, Accept(l)
      PROVE  LotlInv'
  <2>1. Sound(held)'
    BY <1>4, DirectSound, ByPivotsSound DEF Accept
  <2>2. held' \in Held \cup {NoHeld}
    BY <2>1 DEF Sound
  <2>q. QED BY <1>3, <1>4, <2>1, <2>2 DEF Accept
<1>5. CASE Carry
  <2>1. /\ held \in Held /\ now \in Nat
        /\ held.list.nextUpdate # NoDate /\ now < held.list.nextUpdate
    BY <1>0, <1>5 DEF Carry, Sound, TypeOK
  <2>2. held.list.nextUpdate \in Nat
    BY <2>1 DEF Held, List
  <2>3. /\ held' \in Held
        /\ held'.list = held.list
        /\ held'.signers = held.signers
        /\ held'.generatedAt = now
    BY <1>5, <2>1 DEF Carry, Held
  <2>4. Endorsed(held.signers)'
    BY <1>0, <1>5, <2>3 DEF Carry, Sound, Endorsed, Closed
  <2>5. Sound(held)'
    BY <1>0, <1>5, <2>1, <2>2, <2>3, <2>4 DEF Carry, Sound, Expired
  <2>q. QED BY <1>3, <1>5, <2>3, <2>5 DEF Carry
<1>6. CASE Restart
  BY <1>0, <1>6
  DEF Restart, LotlInv, TypeOK, PublishedInv, Sound, Endorsed, Closed
<1>7. CASE Tick \/ UNCHANGED vars
  BY <1>0, <1>7, LotlAssumption
  DEF Tick, vars, LotlInv, TypeOK, PublishedInv, Sound, Endorsed, Closed
<1>q. QED
  BY <1>1, <1>2, <1>4, <1>5, <1>6, <1>7 DEF Next

LEMMA LotlInvariant == Spec => []LotlInv
<1>1. Init => LotlInv
  BY LotlAssumption DEF Init, LotlInv, TypeOK, PublishedInv, Sound, Publisher
<1>q. QED
  BY <1>1, LotlInductive, PTL DEF Spec

\* Type correctness.
THEOREM LotlTypeCorrect == Spec => []TypeOK
<1>1. LotlInv => TypeOK
  BY DEF LotlInv
<1>q. QED BY <1>1, LotlInvariant, PTL

\* The list a snapshot is built from verifies against the signers it carries,
\* through direct verification, pivot walks, carry-overs and restarts.
THEOREM HeldListVerifies == Spec => []HeldVerifies
<1>1. LotlInv => HeldVerifies
  BY DEF LotlInv, Sound, HeldVerifies
<1>q. QED BY <1>1, LotlInvariant, PTL

\* No cycle runs on an expired list of the lists, downloaded or carried over
\* on a ".sha2" match.
THEOREM ExpiredListRefused == Spec => []NoExpiredList
<1>1. LotlInv => NoExpiredList
  BY DEF LotlInv, Sound, NoExpiredList
<1>q. QED BY <1>1, LotlInvariant, PTL

\* The signer set in use goes back to the bootstrap, whatever is published and
\* however many pivots a walk goes over.
THEOREM SignersGoBackToBootstrap == Spec => []SignersEndorsed
<1>1. LotlInv => SignersEndorsed
  BY DEF LotlInv, Sound, SignersEndorsed
<1>q. QED BY <1>1, LotlInvariant, PTL
-----------------------------------------------------------------------------
(***************************************************************************)
(* A publisher that makes no mistakes and retires its keys.                *)
(***************************************************************************)
\* The signer set after some pivots, and the pivots before one of them.
After(ps) == IF ps = {} THEN BootstrapSigners ELSE Newest(ps).self

Before(p) == {q \in pivots : q.seq < p.seq}

Clean == ~publisher.mistakes /\ publisher.retireFirst

\* The chain: each pivot is signed under the set before it, which is retired.
ChainInv ==
  /\ \A p, q \in pivots : p.seq = q.seq => p = q
  /\ \A p \in pivots : /\ p.seq \in 1 .. published
                        /\ VerifyAt(p, After(Before(p)), p.issued)
                        /\ p.signer \in p.self
                        /\ After(Before(p)) \subseteq retired
  /\ signing = After(pivots)

\* A list names the pivots before it, advertises the set after them, and is
\* signed by a key of no set before those.
ListsInv ==
  \A l \in lists : /\ l.seq \in 1 .. published
                   /\ l.refs = {p \in pivots : p.seq < l.seq}
                   /\ l.self = After(l.refs)
                   /\ l.signer \in l.self
                   /\ \A p \in l.refs : l.signer \notin After(Before(p))

\* What is held goes with one of the lists.
InStep(h) ==
  h # NoHeld => /\ h.list \in lists
                /\ h.signers = h.list.self
                /\ h.pivotSeq = MaxPivot(h.list.refs)

CleanInv ==
  Clean => ChainInv /\ ListsInv /\ InStep(held) /\ InStep(saved)

\* The newest of some pivots is known by its number.
LEMMA NewestUnique ==
  ASSUME TypeOK, ChainInv, NEW ps \in SUBSET pivots, NEW p \in ps,
         \A q \in ps : q.seq <= p.seq
  PROVE  Newest(ps) = p
<1>1. /\ ps \in SUBSET Pivot /\ ps # {}
      /\ published \in Nat /\ \A q \in ps : q.seq <= published
  BY PublisherType DEF TypeOK, ChainInv
<1>2. Newest(ps) \in ps /\ \A q \in ps : q.seq <= Newest(ps).seq
  BY <1>1, NewestIsNewest
<1>3. Newest(ps).seq \in Nat /\ p.seq \in Nat
  BY <1>1, <1>2 DEF Pivot
<1>4. Newest(ps).seq = p.seq
  BY <1>2, <1>3
<1>q. QED BY <1>2, <1>4 DEF ChainInv

LEMMA NewestExists ==
  ASSUME TypeOK, ChainInv, NEW ps \in SUBSET pivots, ps # {}
  PROVE  Newest(ps) \in ps /\ \A q \in ps : q.seq <= Newest(ps).seq
<1>1. /\ ps \in SUBSET Pivot
      /\ published \in Nat /\ \A q \in ps : q.seq <= published
  BY PublisherType DEF TypeOK, ChainInv
<1>q. QED BY <1>1, NewestIsNewest

\* The pivots that what is held takes as processed.
Base == IF held = NoHeld THEN {} ELSE held.list.refs

\* A cycle on a list that is not older than what is held starts from the signers
\* after the processed pivots, and walks over the others, which are newer.
LEMMA BaseOf ==
  ASSUME TypeOK, ChainInv, ListsInv, InStep(held), NEW l \in lists,
         held # NoHeld => l.seq >= held.list.seq
  PROVE  /\ Pinned = After(Base)
         /\ Base \subseteq l.refs /\ l.refs \subseteq pivots
         /\ \A p \in l.refs \ Base, q \in Base : q.seq < p.seq
         /\ PivotSeq = MaxPivot(Base)
         /\ Unprocessed(l.refs, PivotSeq) = l.refs \ Base
<1>0. l.refs = {p \in pivots : p.seq < l.seq} /\ l.seq \in Nat
  BY DEF ListsInv, TypeOK, List
<1>1. \A p \in pivots : p \in Pivot /\ p.seq \in Nat /\ p.seq >= 1
  BY DEF TypeOK, Pivot, ChainInv
<1>2. Pinned = After(Base) /\ PivotSeq = MaxPivot(Base)
  BY DEF Pinned, PivotSeq, Base, After, MaxPivot, InStep, ListsInv
<1>3. /\ Base \subseteq l.refs
      /\ \A p \in l.refs \ Base, q \in Base : q.seq < p.seq
  <2>1. CASE held = NoHeld
    BY <2>1 DEF Base
  <2>2. CASE held # NoHeld
    <3>1. /\ Base = {p \in pivots : p.seq < held.list.seq}
          /\ held.list.seq \in Nat /\ l.seq >= held.list.seq
      BY <2>2 DEF Base, InStep, ListsInv, TypeOK, List
    <3>q. QED BY <1>0, <1>1, <3>1
  <2>q. QED BY <2>1, <2>2
<1>4. Unprocessed(l.refs, PivotSeq) = l.refs \ Base
  <2>1. CASE Base = {}
    BY <1>0, <1>1, <1>2, <2>1 DEF MaxPivot, Unprocessed
  <2>2. CASE Base # {}
    <3>1. Newest(Base) \in Base /\ \A q \in Base : q.seq <= Newest(Base).seq
      BY <1>0, <1>3, <2>2, NewestExists
    <3>2. PivotSeq = Newest(Base).seq
      BY <1>2, <2>2 DEF MaxPivot
    <3>q. QED BY <1>0, <1>1, <1>3, <3>1, <3>2 DEF Unprocessed
  <2>q. QED BY <2>1, <2>2
<1>q. QED BY <1>0, <1>2, <1>3, <1>4

\* The walk over the other pivots succeeds, and ends with the signer set that
\* the list advertises.
LEMMA CleanWalk ==
  ASSUME TypeOK, ChainInv, ListsInv, InStep(held), NEW l \in lists,
         held # NoHeld => l.seq >= held.list.seq
  PROVE  /\ WalkSucceeds(Unprocessed(l.refs, PivotSeq), Pinned)
         /\ WalkedSigners(l) = l.self
         /\ (IF Unprocessed(l.refs, PivotSeq) = {} THEN PivotSeq
             ELSE Newest(Unprocessed(l.refs, PivotSeq)).seq)
            = MaxPivot(l.refs)
<1> DEFINE todo == Unprocessed(l.refs, PivotSeq)
<1>1. /\ Pinned = After(Base) /\ PivotSeq = MaxPivot(Base)
      /\ Base \subseteq l.refs /\ l.refs \subseteq pivots
      /\ \A p \in l.refs \ Base, q \in Base : q.seq < p.seq
      /\ todo = l.refs \ Base
  BY BaseOf
<1>2. /\ l.refs = {p \in pivots : p.seq < l.seq} /\ l.self = After(l.refs)
      /\ l.seq \in Nat
  BY DEF ListsInv, TypeOK, List
<1>3. \A p \in pivots : p \in Pivot /\ p.seq \in Nat
  BY DEF TypeOK, Pivot
<1> HIDE DEF todo
<1>4. ASSUME NEW p \in todo
      PROVE  SignersBefore(p, todo, Pinned) = After(Before(p))
  <2> DEFINE older == {q \in todo : q.seq < p.seq}
  <2>1. Base \subseteq Before(p) /\ Before(p) = Base \cup older
    BY <1>1, <1>2, <1>3, <1>4 DEF Before
  <2>2. CASE older = {}
    BY <1>1, <2>1, <2>2 DEF SignersBefore
  <2>3. CASE older # {}
    <3>1. older \in SUBSET pivots /\ Before(p) \in SUBSET pivots
      BY <1>1 DEF Before
    <3>2. Newest(older) \in older /\ \A q \in older : q.seq <= Newest(older).seq
      BY <2>3, <3>1, NewestExists
    <3>3. \A q \in Before(p) : q.seq <= Newest(older).seq
      BY <1>1, <1>3, <2>1, <3>2
    <3>4. Newest(Before(p)) = Newest(older)
      BY <2>1, <3>1, <3>2, <3>3, NewestUnique
    <3>q. QED BY <2>1, <2>3, <3>4 DEF SignersBefore, After
  <2>q. QED BY <2>2, <2>3
<1>5. WalkSucceeds(todo, Pinned)
  BY <1>1, <1>4 DEF WalkSucceeds, ChainInv
<1>6. CASE todo = {}
  <2>1. l.refs = Base
    BY <1>1, <1>6
  <2>q. QED
    BY <1>1, <1>2, <1>5, <1>6, <2>1 DEF todo, WalkedSigners
<1>7. CASE todo # {}
  <2>1. Newest(todo) \in todo /\ \A q \in todo : q.seq <= Newest(todo).seq
    BY <1>1, <1>7, NewestExists
  <2>2. ASSUME NEW q \in l.refs
        PROVE  q.seq <= Newest(todo).seq
    <3>1. q.seq \in Nat /\ Newest(todo).seq \in Nat
      BY <1>1, <1>3, <2>1
    <3>2. q \in Base => q.seq < Newest(todo).seq
      BY <1>1, <2>1
    <3>3. q \in todo => q.seq <= Newest(todo).seq
      BY <2>1
    <3>4. q \in todo \/ q \in Base
      BY <1>1
    <3>q. QED BY <3>1, <3>2, <3>3, <3>4
  <2>3. Newest(l.refs) = Newest(todo) /\ l.refs # {}
    BY <1>1, <2>1, <2>2, NewestUnique
  <2>q. QED
    BY <1>2, <1>5, <1>7, <2>3 DEF todo, WalkedSigners, After, MaxPivot
<1>q. QED BY <1>6, <1>7

\* A list that verifies directly brings no pivot: a set before one is retired.
LEMMA CleanDirect ==
  ASSUME TypeOK, ChainInv, ListsInv, InStep(held), NEW l \in lists,
         held # NoHeld => l.seq >= held.list.seq, l.signer \in Pinned
  PROVE  l.refs = Base
<1> SUFFICES ASSUME l.refs # Base
             PROVE  FALSE
  OBVIOUS
<1>1. /\ Pinned = After(Base)
      /\ Base \subseteq l.refs /\ l.refs \subseteq pivots
      /\ \A p \in l.refs \ Base, q \in Base : q.seq < p.seq
  BY BaseOf
<1>2. \A p \in pivots : p \in Pivot /\ p.seq \in Nat
  BY DEF TypeOK, Pivot
<1> DEFINE T == {p.seq : p \in l.refs \ Base}
<1>3. T \subseteq Nat /\ T # {}
  BY <1>1, <1>2
<1>4. PICK x \in T : \A y \in T : x <= y
  BY <1>3, LeastNatural
<1>5. PICK p \in l.refs \ Base : x = p.seq
  OBVIOUS
<1>6. \A q \in l.refs \ Base : p.seq <= q.seq
  BY <1>4, <1>5
<1>7. Before(p) = Base
  <2>1. l.refs = {q \in pivots : q.seq < l.seq} /\ l.seq \in Nat
    BY DEF ListsInv, TypeOK, List
  <2>2. Before(p) \subseteq l.refs
    BY <1>1, <1>2, <2>1 DEF Before
  <2>q. QED BY <1>1, <1>2, <1>6, <2>2 DEF Before
<1>q. QED BY <1>1, <1>7 DEF ListsInv

\* A rotation continues the chain.
LEMMA RotationClean ==
  ASSUME TypeOK, ChainInv, ListsInv, PublishPivot
  PROVE  ChainInv' /\ ListsInv'
<1>1. PICK k \in signing, self \in SUBSET publisher.keys :
        /\ ValidAt(k, now) /\ k \in self
        /\ pivots' = pivots \cup {[seq |-> published + 1, signer |-> k,
                                   self |-> self, issued |-> now]}
        /\ signing' = self
  BY DEF PublishPivot
<1> DEFINE new == [seq |-> published + 1, signer |-> k, self |-> self,
                   issued |-> now]
<1>2. /\ published \in Nat /\ published' = published + 1
      /\ retired' = retired \cup signing /\ lists' = lists
  BY PublisherType DEF PublishPivot, TypeOK
<1>3. /\ new.seq = published + 1 /\ new.signer = k /\ new.self = self
      /\ new.issued = now
  OBVIOUS
<1>4. new \in Pivot
  BY PublisherType, LotlAssumption, <1>2 DEF Pivot, TypeOK
<1>5. pivots' = pivots \cup {new}
  BY <1>1
<1> HIDE DEF new
<1>6. \A p \in pivots : p \in Pivot /\ p.seq \in Nat /\ p.seq <= published
  BY <1>2 DEF TypeOK, Pivot, ChainInv
<1>7. \A p \in pivots : Before(p)' = Before(p)
  BY <1>2, <1>3, <1>5, <1>6 DEF Before
<1>8. {q \in pivots' : q.seq < new.seq} = pivots
  BY <1>2, <1>3, <1>5, <1>6
<1>9. signing = After(pivots)
  BY DEF ChainInv
<1>10. signing' = After(pivots')
  <2>1. /\ pivots' \in SUBSET Pivot /\ pivots' # {} /\ published + 1 \in Nat
        /\ \A p \in pivots' : p.seq <= published + 1
    BY <1>2, <1>3, <1>4, <1>5, <1>6
  <2>2. /\ Newest(pivots') \in pivots'
        /\ \A q \in pivots' : q.seq <= Newest(pivots').seq
    BY <2>1, NewestIsNewest
  <2>3. Newest(pivots') = new
    <3>1. published + 1 <= Newest(pivots').seq
      BY <1>3, <1>5, <2>2, Zenon
    <3>2. Newest(pivots') \notin pivots
      BY <1>2, <1>6, <3>1
    <3>q. QED BY <1>5, <2>2, <3>2, Zenon
  <2>q. QED BY <1>1, <1>3, <2>1, <2>3 DEF After
<1>11. ASSUME NEW p \in pivots'
       PROVE  /\ p.seq \in 1 .. published'
              /\ VerifyAt(p, After(Before(p)'), p.issued)
              /\ p.signer \in p.self
              /\ After(Before(p)') \subseteq retired'
  <2>1. CASE p \in pivots
    BY <1>2, <1>7, <2>1 DEF ChainInv
  <2>2. CASE p = new
    <3>1. After(Before(p)') = signing
      BY <1>8, <1>9, <2>2 DEF Before
    <3>q. QED BY <1>1, <1>2, <1>3, <2>2, <3>1 DEF VerifyAt
  <2>q. QED BY <1>5, <2>1, <2>2
<1>12. \A p, q \in pivots' : p.seq = q.seq => p = q
  BY <1>2, <1>3, <1>5, <1>6 DEF ChainInv
<1>13. ChainInv'
  BY <1>10, <1>11, <1>12 DEF ChainInv, After, VerifyAt, ValidAt
<1>14. ASSUME NEW l \in lists
       PROVE  /\ l.seq \in 1 .. published'
              /\ l.refs = {p \in pivots' : p.seq < l.seq}
              /\ l.self = After(l.refs)
              /\ l.signer \in l.self
              /\ \A p \in l.refs : l.signer \notin After(Before(p)')
  <2>1. /\ l.seq \in 1 .. published
        /\ l.refs = {p \in pivots : p.seq < l.seq}
        /\ l.self = After(l.refs)
        /\ l.signer \in l.self
        /\ \A p \in l.refs : l.signer \notin After(Before(p))
    BY DEF ListsInv
  <2>2. l.refs = {p \in pivots' : p.seq < l.seq}
    BY <1>2, <1>3, <1>5, <2>1
  <2>q. QED BY <1>2, <1>7, <2>1, <2>2
<1>15. ListsInv'
  BY <1>2, <1>14 DEF ListsInv, After
<1>q. QED BY <1>13, <1>15

\* A list that is published is signed by a key of the set it advertises.
LEMMA PublicationClean ==
  ASSUME TypeOK, Clean, ChainInv, ListsInv, PublishList
  PROVE  ChainInv' /\ ListsInv'
<1>1. PICK k \in publisher.keys, self \in SUBSET publisher.keys,
           until \in {now + Validity, NoDate} :
        /\ publisher.retireFirst /\ pivots # {} => k \notin retired
        /\ publisher.mistakes \/ (k \in signing /\ self = signing)
        /\ lists' = lists \cup {[seq |-> published + 1, signer |-> k,
                                 self |-> self, refs |-> pivots,
                                 nextUpdate |-> until]}
  BY DEF PublishList
<1> DEFINE new == [seq |-> published + 1, signer |-> k, self |-> self,
                   refs |-> pivots, nextUpdate |-> until]
<1>2. /\ published \in Nat /\ published' = published + 1
      /\ UNCHANGED <<signing, retired, pivots>>
  BY PublisherType DEF PublishList, TypeOK
<1>3. /\ new.seq = published + 1 /\ new.signer = k /\ new.self = self
      /\ new.refs = pivots /\ lists' = lists \cup {new}
  BY <1>1
<1> HIDE DEF new
<1>4. k \in signing /\ self = signing /\ (pivots # {} => k \notin retired)
  BY <1>1 DEF Clean
<1>5. \A p \in pivots : p.seq \in Nat /\ p.seq <= published
  BY <1>2 DEF TypeOK, Pivot, ChainInv
<1>6. ChainInv'
  <2>1. \A p \in pivots : p.seq \in 1 .. published'
    BY <1>2 DEF ChainInv
  <2>q. QED BY <1>2, <2>1, Zenon DEF ChainInv, After, Before, VerifyAt, ValidAt
<1>7. ASSUME NEW l \in lists'
      PROVE  /\ l.seq \in 1 .. published'
             /\ l.refs = {p \in pivots : p.seq < l.seq}
             /\ l.self = After(l.refs)
             /\ l.signer \in l.self
             /\ \A p \in l.refs : l.signer \notin After(Before(p))
  <2>1. CASE l \in lists
    BY <1>2, <2>1 DEF ListsInv
  <2>2. CASE l = new
    <3>1. l.refs = {p \in pivots : p.seq < l.seq} /\ l.seq \in 1 .. published'
      BY <1>2, <1>3, <1>5, <2>2
    <3>2. l.self = After(l.refs) /\ l.signer \in l.self
      BY <1>3, <1>4, <2>2 DEF ChainInv
    <3>3. \A p \in l.refs : l.signer \notin After(Before(p))
      BY <1>3, <1>4, <2>2 DEF ChainInv
    <3>q. QED BY <3>1, <3>2, <3>3
  <2>q. QED BY <1>3, <2>1, <2>2
<1>8. \A p : Before(p)' = Before(p)
  BY <1>2 DEF Before
<1>9. ListsInv'
  BY <1>2, <1>7, <1>8 DEF ListsInv, After
<1>q. QED BY <1>6, <1>9

\* What a cycle on a list makes goes with that list.
LEMMA CycleClean ==
  ASSUME TypeOK, ChainInv, ListsInv, InStep(held), NEW l \in lists, Accept(l)
  PROVE  InStep(held)'
<1>1. /\ held # NoHeld => l.seq >= held.list.seq
      /\ lists' = lists
  BY DEF Accept
<1>2. CASE VerifyDirect(l)
  <2>1. l.refs = Base
    BY <1>1, <1>2, CleanDirect DEF VerifyDirect, VerifiesDirect, VerifyAt
  <2>2. Pinned = l.self /\ PivotSeq = MaxPivot(l.refs)
    BY <1>1, <2>1, BaseOf DEF ListsInv
  <2>3. held'.list = l /\ held'.signers = Pinned
    BY <1>2 DEF VerifyDirect
  <2>4. held'.pivotSeq = MaxPivot(l.refs)
    BY <1>2, <2>2 DEF VerifyDirect
  <2>q. QED BY <1>1, <2>2, <2>3, <2>4 DEF InStep, MaxPivot, Newest
<1>3. CASE VerifyByPivots(l)
  <2>1. held'.list = l /\ held'.signers = l.self
    BY <1>1, <1>3, CleanWalk DEF VerifyByPivots
  <2>2. held'.pivotSeq = MaxPivot(l.refs)
    BY <1>1, <1>3, CleanWalk DEF VerifyByPivots
  <2>q. QED BY <1>1, <2>1, <2>2 DEF InStep, MaxPivot, Newest
<1>q. QED BY <1>2, <1>3 DEF Accept

LEMMA CleanInductive ==
  ASSUME LotlInv, CleanInv, [Next]_vars
  PROVE  CleanInv'
<1>0. TypeOK
  BY DEF LotlInv
<1>1. publisher' = publisher
  BY DEF Next, PublishList, PublishPivot, PublishMistakenPivot, Accept, Carry,
         Restart, Tick, vars
<1> SUFFICES ASSUME Clean
             PROVE  (ChainInv /\ ListsInv /\ InStep(held) /\ InStep(saved))'
  BY <1>1 DEF CleanInv, Clean
<1>2. ChainInv /\ ListsInv /\ InStep(held) /\ InStep(saved)
  BY DEF CleanInv
<1>3. ASSUME lists \subseteq lists', UNCHANGED <<held, saved>>
      PROVE  InStep(held)' /\ InStep(saved)'
  BY <1>2, <1>3 DEF InStep, MaxPivot, Newest
<1>4. ASSUME UNCHANGED <<published, signing, retired, pivots, lists>>
      PROVE  ChainInv' /\ ListsInv'
  <2>1. \A p : Before(p)' = Before(p)
    BY <1>4 DEF Before
  <2>2. ChainInv'
    BY <1>2, <1>4, <2>1 DEF ChainInv, After, VerifyAt, ValidAt
  <2>3. ListsInv'
    BY <1>2, <1>4, <2>1 DEF ListsInv, After
  <2>q. QED BY <2>2, <2>3
<1>5. ASSUME MaySave, lists' = lists, InStep(held)'
      PROVE  InStep(saved)'
  <2>1. CASE saved' = saved
    BY <1>2, <1>5, <2>1 DEF InStep, MaxPivot, Newest
  <2>2. CASE saved' = held'
    BY <1>5, <2>2 DEF InStep, MaxPivot, Newest
  <2>q. QED BY <1>5, <2>1, <2>2 DEF MaySave
<1>6. CASE PublishList
  <2>1. ChainInv' /\ ListsInv'
    BY <1>0, <1>2, <1>6, PublicationClean
  <2>2. lists \subseteq lists' /\ UNCHANGED <<held, saved>>
    BY <1>6 DEF PublishList
  <2>q. QED BY <1>3, <2>1, <2>2
<1>7. CASE PublishPivot
  <2>1. ChainInv' /\ ListsInv'
    BY <1>0, <1>2, <1>7, RotationClean
  <2>2. lists \subseteq lists' /\ UNCHANGED <<held, saved>>
    BY <1>7 DEF PublishPivot
  <2>q. QED BY <1>3, <2>1, <2>2
<1>8. CASE PublishMistakenPivot
  BY <1>8 DEF PublishMistakenPivot, Clean
<1>9. ASSUME NEW l \in lists, Accept(l)
      PROVE  (ChainInv /\ ListsInv /\ InStep(held) /\ InStep(saved))'
  <2>1. InStep(held)'
    BY <1>0, <1>2, <1>9, CycleClean
  <2>2. /\ MaySave /\ lists' = lists
        /\ UNCHANGED <<published, signing, retired, pivots, lists>>
    BY <1>9 DEF Accept
  <2>q. QED BY <1>4, <1>5, <2>1, <2>2
<1>10. CASE Carry
  <2>1. /\ held # NoHeld /\ held \in Held
        /\ held' = [held EXCEPT !.generatedAt = now]
        /\ MaySave /\ lists' = lists
        /\ UNCHANGED <<published, signing, retired, pivots, lists>>
    BY <1>0, <1>10 DEF Carry, TypeOK
  <2>2. /\ held'.list = held.list /\ held'.signers = held.signers
        /\ held'.pivotSeq = held.pivotSeq
    BY <2>1 DEF Held
  <2>3. InStep(held)'
    BY <1>2, <2>1, <2>2 DEF InStep, MaxPivot, Newest
  <2>q. QED BY <1>4, <1>5, <2>1, <2>3
<1>11. CASE Restart
  <2>1. /\ held' = saved /\ saved' = saved /\ lists' = lists
        /\ UNCHANGED <<published, signing, retired, pivots, lists>>
    BY <1>11 DEF Restart
  <2>2. InStep(held)' /\ InStep(saved)'
    BY <1>2, <2>1 DEF InStep, MaxPivot, Newest
  <2>q. QED BY <1>4, <2>1, <2>2
<1>12. CASE Tick \/ UNCHANGED vars
  <2>1. /\ lists \subseteq lists' /\ UNCHANGED <<held, saved>>
        /\ UNCHANGED <<published, signing, retired, pivots, lists>>
    BY <1>12 DEF Tick, vars
  <2>q. QED BY <1>3, <1>4, <2>1
<1>q. QED
  BY <1>6, <1>7, <1>8, <1>9, <1>10, <1>11, <1>12 DEF Next

\* In a clean chain no list that may be taken is refused.
LEMMA CleanNeverLockedOut ==
  ASSUME LotlInv, CleanInv
  PROVE  NeverLockedOut
<1> SUFFICES ASSUME Clean, NEW l \in lists, ~Expired(l, now),
                    ValidAt(l.signer, now)
             PROVE  IF held # NoHeld /\ l.seq < held.list.seq THEN ~Current(l)
                    ELSE VerifiesDirect(l) \/ VerifiesByPivots(l)
  BY DEF NeverLockedOut, Clean
<1>1. TypeOK /\ ChainInv /\ ListsInv /\ InStep(held)
  BY DEF LotlInv, CleanInv
<1>2. l.seq \in Nat /\ (held # NoHeld => held.list \in lists /\ held.list.seq \in Nat)
  BY <1>1 DEF TypeOK, List, InStep
<1>3. CASE held # NoHeld /\ l.seq < held.list.seq
  <2>1. ~Current(l)
    BY <1>2, <1>3 DEF Current
  <2>q. QED BY <1>3, <2>1
<1>4. CASE ~(held # NoHeld /\ l.seq < held.list.seq)
  <2>1. held # NoHeld => l.seq >= held.list.seq
    BY <1>2, <1>4
  <2>2. /\ WalkSucceeds(Unprocessed(l.refs, PivotSeq), Pinned)
        /\ WalkedSigners(l) = l.self
    BY <1>1, <2>1, CleanWalk
  <2>3. l.signer \in l.self
    BY <1>1 DEF ListsInv
  <2>4. VerifiesDirect(l) \/ VerifiesByPivots(l)
    BY <2>2, <2>3 DEF VerifiesDirect, VerifiesByPivots, VerifyAt
  <2>q. QED BY <1>4, <2>4
<1>q. QED BY <1>3, <1>4

\* The service never locks itself out: whatever it saw, missed, saved or lost,
\* every unexpired list of a publisher that makes no mistakes and retires its
\* keys verifies, directly or by a walk over any number of pivots, unless it is
\* older than the one held, which the current one never is.
THEOREM EveryHandoverVerifies == Spec => []NeverLockedOut
<1>1. Init => CleanInv
  <2>1. Init => ChainInv /\ ListsInv /\ InStep(held) /\ InStep(saved)
    BY DEF Init, ChainInv, ListsInv, InStep, After
  <2>q. QED BY <2>1 DEF CleanInv
<1>q. QED
  BY <1>1, LotlInvariant, CleanInductive, CleanNeverLockedOut, PTL DEF Spec
=============================================================================
