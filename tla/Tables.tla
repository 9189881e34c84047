------------------------------- MODULE Tables -------------------------------
(***************************************************************************)
(* Functions as tables: one laid over another, and a row put into one.     *)
(* They are what @@ and :> of the TLC module are, as definitions that      *)
(* proofs can expand.                                                      *)
(***************************************************************************)

\* The rows of f and, of g, those whose key f does not have.
f ++ g == [k \in DOMAIN f \union DOMAIN g |-> IF k \in DOMAIN f THEN f[k] ELSE g[k]]

\* The table f with the row of key k set to v.
Put(f, k, v) == [q \in DOMAIN f \union {k} |-> IF q = k THEN v ELSE f[q]]
=============================================================================
