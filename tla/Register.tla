------------------------------ MODULE Register ------------------------------
(***************************************************************************)
(* What the manager relies on (store/store.go): the store is a register    *)
(* that holds the latest snapshot.  A save that answers "ok" has replaced  *)
(* it; one that answers "error", or that the process does not survive, has *)
(* replaced it or has done nothing.  There is no third outcome: a reader   *)
(* finds one of the saved snapshots, whole, or none.                       *)
(***************************************************************************)
CONSTANTS
  Snapshots,  \* what can be saved
  Missing,    \* nothing was saved yet
  NoSave      \* no save is running

VARIABLES
  volatile,  \* whether the register is lost with the process
  latest,    \* the latest snapshot
  saving,    \* the snapshot being saved
  answer     \* what the last save answered: "none", "ok" or "error"

vars == <<volatile, latest, saving, answer>>

Init ==
  /\ volatile \in BOOLEAN
  /\ latest = Missing
  /\ saving = NoSave
  /\ answer = "none"

Begin(s) ==
  /\ saving = NoSave
  /\ saving' = s
  /\ answer' = "none"
  /\ UNCHANGED <<volatile, latest>>

Succeed ==
  /\ saving # NoSave
  /\ latest' = saving
  /\ saving' = NoSave
  /\ answer' = "ok"
  /\ UNCHANGED volatile

Fail ==
  /\ saving # NoSave
  /\ latest' \in {latest, saving}
  /\ saving' = NoSave
  /\ answer' = "error"
  /\ UNCHANGED volatile

Crash ==
  /\ IF volatile THEN latest' = Missing
     ELSE \/ UNCHANGED latest
          \/ saving # NoSave /\ latest' = saving
  /\ saving' = NoSave
  /\ answer' = "none"
  /\ UNCHANGED volatile

Next == (\E s \in Snapshots : Begin(s)) \/ Succeed \/ Fail \/ Crash

Spec == Init /\ [][Next]_vars
=============================================================================
