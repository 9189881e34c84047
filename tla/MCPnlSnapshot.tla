--------------------------- MODULE MCPnlSnapshot ---------------------------
(***************************************************************************)
(* PnlSnapshot for TLC.  Requests are interchangeable: the initial state   *)
(* names none of them.  Users are not, because Idle names one.             *)
(***************************************************************************)
EXTENDS PnlSnapshot, TLC

RequestSymmetry == Permutations(Requests)
=============================================================================
