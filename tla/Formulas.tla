------------------------------ MODULE Formulas ------------------------------
(***************************************************************************)
(* The formulas of the metrics (app/formulas.py): trees over numbers, the  *)
(* lines [N] of the template, a sign and four operations.  Amounts are     *)
(* exact fractions; the absence of a value is the empty tuple.             *)
(***************************************************************************)
EXTENDS Integers, SequencesExt

Number(n)       == [op |-> "number", value |-> n]
LineRef(n)      == [op |-> "line", line_no |-> n]
UnaryMinus(f)   == [op |-> "minus", operand |-> f]
BinOp(o, l, r)  == [op |-> o, left |-> l, right |-> r]

None == <<>>
Whole(n) == <<n, 1>>

\* Fractions as <<numerator, positive denominator>>.
Quotient(a, b) == IF b[1] > 0 THEN <<a[1] * b[2], a[2] * b[1]>>
                  ELSE <<- a[1] * b[2], - a[2] * b[1]>>

Same(a, b) == IF None \in {a, b} THEN a = b ELSE a[1] * b[2] = b[1] * a[2]

AtMost(a, b) == a[1] * b[2] <= b[1] * a[2]

Ratio(n, d) == IF d = 0 THEN None ELSE Quotient(Whole(n), Whole(d))

Applied(o, a, b) ==
    CASE o = "+" -> <<a[1] * b[2] + b[1] * a[2], a[2] * b[2]>>
      [] o = "-" -> <<a[1] * b[2] - b[1] * a[2], a[2] * b[2]>>
      [] o = "*" -> <<a[1] * b[1], a[2] * b[2]>>
      [] o = "/" -> IF b[1] = 0 THEN None ELSE Quotient(a, b)

\* The sum of a sequence of lines, [a] + [b] + ...
LinesSum(lines) ==
    FoldLeft(LAMBDA f, n : BinOp("+", f, LineRef(n)), LineRef(Head(lines)), Tail(lines))
=============================================================================
