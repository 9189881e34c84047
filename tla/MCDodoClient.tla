--------------------------- MODULE MCDodoClient ---------------------------
(***************************************************************************)
(* Instances of DodoClient for TLC.                                        *)
(***************************************************************************)
EXTENDS DodoClient, TLC

\* Calls of one priority are interchangeable
CallSymmetry == Permutations(Fg) \cup Permutations(Calls \ Fg)
=============================================================================
