----------------------------- MODULE MCManager ------------------------------
(***************************************************************************)
(* Small instances of Manager.                                             *)
(***************************************************************************)
EXTENDS Manager

CONSTANTS t1, a, b, role, name1, name2

List(seq, anchors, nextUpdate) ==
  [seq |-> seq, anchors |-> anchors, skipped |-> {}, nextUpdate |-> nextUpdate]

\* An addition, a removal, a list without NextUpdate.
HoldLists == {List(1, {a}, 1), List(2, {a, b}, 1), List(3, {b}, NoDate)}

TwoLists == {List(1, {a}, 0), List(2, {b}, 1)}

OneLotl == {[seq |-> 1, pointers |-> Territories]}

NoDeclarations == {NothingDeclared}

AllDeclarations == Declaration
=============================================================================
