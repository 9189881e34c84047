--------------------------- MODULE MCLiteRevenue ---------------------------
(***************************************************************************)
(* Three months of two, one and one days, a live window of one month.       *)
(***************************************************************************)
EXTENDS LiteRevenue, TLC

CONSTANTS p1, p2, u1, u2

MCFirst == [m \in 0..3 |-> IF m = 0 THEN 0 ELSE m + 1]

\* Both projects linked, one of them, none.
MCLinks == {[p \in {p1, p2} |-> IF p = p1 THEN u1 ELSE u2],
            [p \in {p1, p2} |-> IF p = p1 THEN u1 ELSE NoUnit],
            [p \in {p1, p2} |-> NoUnit]}

\* A range cut at its first day that runs through three months; a whole month
\* and then the one after it.
MCRequests == {<<[from |-> 1, to |-> 3]>>,
               <<[from |-> 0, to |-> 1], [from |-> 2, to |-> 2]>>}

JobSymmetry == Permutations(Jobs)
=============================================================================
