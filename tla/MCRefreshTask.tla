--------------------------- MODULE MCRefreshTask ----------------------------
(***************************************************************************)
(* The refresh loop for TLC.                                               *)
(***************************************************************************)
EXTENDS RefreshTask
=============================================================================
