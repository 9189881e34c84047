--------------------------- MODULE FormulaValues ---------------------------
(***************************************************************************)
(* What formulas are worth for given amounts of the lines, and the lines   *)
(* they name (app/formulas.py: evaluate, line_refs): recursion over the    *)
(* tree of a formula.  PnlTemplate and PnlFigures take the two as          *)
(* parameters, so that they can be reasoned about.                         *)
(***************************************************************************)
EXTENDS Formulas

\* A line without an amount, or a division by zero, leaves the whole formula
\* without a value.
RECURSIVE Evaluate(_, _)
Evaluate(f, amounts) ==
    CASE f.op = "number" -> Whole(f.value)
      [] f.op = "line"   -> IF f.line_no \in DOMAIN amounts
                            THEN Whole(amounts[f.line_no]) ELSE None
      [] f.op = "minus"  -> LET v == Evaluate(f.operand, amounts)
                            IN IF v = None THEN None ELSE <<- v[1], v[2]>>
      [] OTHER           -> LET a == Evaluate(f.left, amounts)
                                b == Evaluate(f.right, amounts)
                            IN IF None \in {a, b} THEN None ELSE Applied(f.op, a, b)

RECURSIVE LineRefs(_)
LineRefs(f) ==
    CASE f.op = "number" -> {}
      [] f.op = "line"   -> {f.line_no}
      [] f.op = "minus"  -> LineRefs(f.operand)
      [] OTHER           -> LineRefs(f.left) \union LineRefs(f.right)
=============================================================================
