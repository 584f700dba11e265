---------------------------- MODULE MCLotlChain -----------------------------
(***************************************************************************)
(* Small instances of LotlChain.                                           *)
(***************************************************************************)
EXTENDS LotlChain

\* Keys are numbers; key 1 is the bootstrap, and the first to expire.
OldKeyExpires == [k \in Keys |-> IF k = 1 THEN 1 ELSE 9]

KeysLast == [k \in Keys |-> 9]

\* Publishes what it should not have, with two keys, and lists without a
\* NextUpdate.
Mistaken ==
  [keys |-> {1, 2}, retireFirst |-> FALSE, mistakes |-> TRUE,
   undated |-> TRUE, maxSeq |-> 3]

\* Rotates several times, to keys that are new each time.
Retiring ==
  [keys |-> {1, 2, 3}, retireFirst |-> TRUE, mistakes |-> FALSE,
   undated |-> FALSE, maxSeq |-> 5]

\* Rotates as cleanly; some of its lists have no NextUpdate.
Undated ==
  [keys |-> {1, 2}, retireFirst |-> TRUE, mistakes |-> FALSE,
   undated |-> TRUE, maxSeq |-> 3]

\* After a rotation, still signs lists with a key of the set before.
Overlapping ==
  [keys |-> {1, 2}, retireFirst |-> FALSE, mistakes |-> FALSE,
   undated |-> FALSE, maxSeq |-> 3]

ThreePublishers == {Mistaken, Retiring, Undated}

OverlappingOnly == {Overlapping}
=============================================================================
