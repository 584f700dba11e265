----------------------------- MODULE MCService ------------------------------
(***************************************************************************)
(* Small instances of Service.                                             *)
(***************************************************************************)
EXTENDS Service

CONSTANTS t1, t2, a, old, new, pid, wallet

List(seq, anchors, skipped, nextUpdate) ==
  [seq |-> seq, anchors |-> anchors, skipped |-> skipped,
   nextUpdate |-> nextUpdate]

Skips == {<<"svc", "status-conflict">>}

\* The second list skips the service the first one has the anchor of.  Neither
\* has a NextUpdate: without hold mode, an entry that is reused is the one a
\* download of the same list gives.
TwoLists == {List(1, {a}, {}, NoDate), List(2, {}, Skips, NoDate)}

AllUntyped == [f \in Fingerprints |-> Untyped]

\* The second list of the lists drops a territory.
TwoLotls == {[seq |-> 1, pointers |-> Territories],
             [seq |-> 2, pointers |-> {t1}]}

\* One certificate expires while the service runs.
OldExpires == [c \in Certs |-> IF c = old THEN 0 ELSE 9]

\* The roles the entries below declare.
AllRoles == {<<old, pid>>, <<new, pid>>, <<new, wallet>>}

AllLabels == [name : Names, territory : Codes, notAfter : {0, 5}]

AllDeclarations == Declaration

OldEntry ==
  [name |-> "old CA", known |-> TRUE, type |-> pid, types |-> NoKey,
   territory |-> "LV", certificate |-> <<old>>, certificateFile |-> NoKey,
   validUntil |-> NoDate]

\* Declared for two roles in another territory, with a date before the
\* certificate's own.
NewEntry ==
  [OldEntry EXCEPT !.name = "new CA", !.type = NoKey,
                   !.types = <<pid, wallet>>, !.territory = "EE",
                   !.certificate = NoKey,
                   !.certificateFile = <<new>>, !.validUntil = 5]

\* A file whose first entry expires, and its successor.
OperatorFiles == {<<OldEntry, NewEntry>>, <<NewEntry>>}
=============================================================================
