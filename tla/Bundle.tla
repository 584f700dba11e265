------------------------------- MODULE Bundle -------------------------------
(***************************************************************************)
(* What the manager promises (the doc of Manager: "Mutations are           *)
(* serialized"; the doc of Refresh): the served snapshot is one object     *)
(* that a refresh, a reconcile or an approval replaces in a single step by *)
(* what it makes of the very snapshot it replaces.  What is kept for a     *)
(* restart is, whenever it changes, what one such operation makes of the   *)
(* snapshot being served, and a restart begins with what is kept.          *)
(***************************************************************************)
EXTENDS Naturals

CONSTANTS
  None,                \* nothing is served, or kept
  Refreshed(_, _, _),  \* Refreshed(s, r, time): a cycle at time makes r of s
  Reconciled(_, _),    \* Reconciled(s, r): reading the declarations does
  Approves(_, _)       \* Approves(s, r): approving one held anchor does

VARIABLES served, kept, now

vars == <<served, kept, now>>

\* A cycle works for a while, so its time may lie in the past.
Operation(s, r) ==
  \/ s # None /\ Reconciled(s, r)
  \/ s # None /\ Approves(s, r)
  \/ \E time \in 0 .. now : Refreshed(s, r, time)

Init == served = None /\ kept = None /\ now = 0

Keep ==
  /\ UNCHANGED <<served, now>>
  /\ kept' # kept
  /\ Operation(served, kept')

Replace ==
  /\ UNCHANGED <<kept, now>>
  /\ served' # served
  /\ Operation(served, served')

Stop == served' = None /\ UNCHANGED <<kept, now>>

Start == served = None /\ served' = kept /\ UNCHANGED <<kept, now>>

Pass == now' = now + 1 /\ UNCHANGED <<served, kept>>

Next == Stop \/ Start \/ Pass \/ Keep \/ Replace

Spec == Init /\ [][Next]_vars
=============================================================================
