------------------------------ MODULE MCBoard ------------------------------
(***************************************************************************)
(* Instances of Board for TLC.                                             *)
(***************************************************************************)
EXTENDS Board, TLC

\* Requests, connections, tenants and selections are interchangeable
BoardSymmetry == Permutations(Requests) \cup Permutations(Conns)
                 \cup Permutations(PfKeys) \cup Permutations(Filters)
=============================================================================
