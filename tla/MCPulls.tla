------------------------------ MODULE MCPulls ------------------------------
(***************************************************************************)
(* Two pulls that overlap, for TLC: clicks while the database fails and    *)
(* the process restarts, or clicks and a warm-up of users who change key,  *)
(* lose it or are deleted.                                                 *)
(***************************************************************************)
EXTENDS OpsSync, TLC

OneLater == <<"finance-monthly">>

Symmetries == Permutations(Syncs) \cup Permutations(Users) \cup Permutations(PfKeys)
=============================================================================
