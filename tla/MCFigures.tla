----------------------------- MODULE MCFigures -----------------------------
(***************************************************************************)
(* The figures for TLC: small templates saved at once, the categories and  *)
(* the parts of a month, two templates for it, the days and the minutes of *)
(* the board.                                                              *)
(***************************************************************************)
EXTENDS FiguresParts, FormulaValues

-----------------------------------------------------------------------------
(* Small trees that share paths, change their order, lose a line or have a
   path twice, saved by two administrators at once. *)

Node(path, leaf, code) == [path |-> path, leaf |-> leaf, calc |-> FALSE, code |-> code]

A  == Node(<<"a">>, FALSE, "UC")
AB == Node(<<"a", "b">>, TRUE, "LC")
B  == Node(<<"b">>, TRUE, "REVENUE")
C  == Node(<<"c">>, TRUE, "DC")
SmallTrees == {<<A, AB, B>>, <<B, A, AB>>, <<B, C>>, <<A, B, B>>}

OverlappingSaves == [trees |-> SmallTrees, atOnce |-> 2, saves |-> 3]

AnyAdministrator == Permutations(Admins)

-----------------------------------------------------------------------------
(* A month with a refund, a parent with parts of its own, categories above,
   below and beside the lines of the template, and parts that do not count. *)

Words ==
  [t \in Titles |->
     CASE t = "sales" -> {"revenue"}        [] t = "delivery" -> {"delivery"}
       [] t = "food" -> {"uc"}              [] t = "wages" -> {"lc"}
       [] t = "office" -> {"management"}    [] t = "loan" -> {"interest", "loan"}
       [] t = "dividends" -> {"dividend"}   [] t = "profit" -> {"net profit"}
       [] t = "courier" -> {"dc"}           [] OTHER -> {}]

Cat(path, op, activity) == [path |-> path, op |-> op, activity |-> activity]

MonthCategories ==
  [sales     |-> Cat(<<"sales">>, "Income", "Operating"),
   delivery  |-> Cat(<<"sales", "delivery">>, "Income", "Operating"),
   extra     |-> Cat(<<"extra">>, "Income", "Financial"),
   costs     |-> Cat(<<"costs">>, "Outcome", "Operating"),
   food      |-> Cat(<<"costs", "food">>, "Outcome", "Operating"),
   flour     |-> Cat(<<"costs", "food", "flour">>, "Outcome", "Operating"),
   courier   |-> Cat(<<"courier">>, "Outcome", "Operating"),
   wages     |-> Cat(<<"wages">>, "Outcome", "Operating"),
   office    |-> Cat(<<"wages", "office">>, "Outcome", "Operating"),
   loan      |-> Cat(<<"loan">>, "Outcome", "Financial"),
   vat       |-> Cat(<<"other expenses">>, "Outcome", "Operating"),
   dividends |-> Cat(<<"dividends">>, "Capital", "Financial"),
   deposit   |-> Cat(<<"deposit">>, "Capital", "Financial"),
   ovens     |-> Cat(<<"ovens">>, "Outcome", "Investing"),
   cash      |-> Cat(<<"cash">>, "Assets", "Financial")]

Part(op, pid, cid, value) ==
  [op |-> op, date |-> "in", committed |-> TRUE, pid |-> pid, cid |-> cid, value |-> value]

MonthParts ==
  {Part("Income", "p1", "sales", 7),     Part("Outcome", "p1", "sales", 2),
   Part("Income", "p1", "delivery", 11), Part("Income", "p2", "delivery", 13),
   Part("Income", "p2", "extra", 3),     Part("Outcome", "p1", "costs", 5),
   Part("Outcome", "p1", "food", 17),    Part("Outcome", "p2", "flour", 19),
   Part("Income", "p1", "flour", 1),     Part("Outcome", "p1", "courier", 4),
   Part("Outcome", "p1", "office", 6),   Part("Outcome", "p2", "loan", 8),
   Part("Outcome", "p1", "vat", 9),      Part("Outcome", "p1", "dividends", 10),
   Part("Income", "p1", "deposit", 12),  Part("Outcome", "p2", "ovens", 14),
   Part("Outcome", "p1", "cash", 15),    Part("Income", "p9", "sales", 16),
   Part("Income", "none", "sales", 18),  Part("Move", "p1", "0", 20),
   [Part("Income", "p1", "sales", 22) EXCEPT !.committed = FALSE],
   [Part("Income", "p1", "sales", 23) EXCEPT !.date = "out"]}

Profit == [path |-> <<"expenses", "profit">>, leaf |-> TRUE, calc |-> TRUE, code |-> "none"]

MonthTrees ==
  {<<Node(<<"income">>, FALSE, "none"), Node(<<"income", "sales">>, FALSE, "REVENUE"),
     Node(<<"income", "sales", "delivery">>, TRUE, "REVENUE"),
     Node(<<"costs">>, FALSE, "none"), Node(<<"costs", "food">>, TRUE, "UC"), Profit>>,
   <<Node(<<"costs">>, FALSE, "none"), Node(<<"costs", "courier">>, TRUE, "DC"),
     Node(<<"costs", "ovens">>, TRUE, "OTHER_OPEX"), Node(<<"income">>, FALSE, "none"),
     Node(<<"income", "sales">>, FALSE, "REVENUE"), Node(<<"costs", "food">>, TRUE, "UC"),
     Profit>>}

OneMonth == [trees |-> MonthTrees, atOnce |-> 1, saves |-> 2]

SomeTrees == SmallTrees \union MonthTrees

MonthMetrics == {[code |-> "KC", formula |-> BinOp("/", LineRef(5), LineRef(2)),
                  format |-> "pct", level |-> 30]}

TitleLevels == [t \in Titles |-> IF t = "profit" THEN 60 ELSE 0]
CalcLines   == [t \in Titles |-> IF t = "profit" THEN "NET_PROFIT" ELSE "none"]
CalcShares  == [t \in Titles |-> "none"]

-----------------------------------------------------------------------------
(* Days around a leap day, a year's end and a month's first, minutes around
   the half hours. *)

Day(y, m, d) == [y |-> y, m |-> m, d |-> d]

SomeMoments ==
  [date : {Day(2028, 2, 28), Day(2028, 2, 29), Day(2028, 3, 1), Day(2028, 3, 8),
           Day(2029, 1, 1), Day(2029, 2, 28)},
   min  : {0, 15, 30, 691, 750, 1410, 1411, 1439},
   secs : {FALSE}]

AMoment == [date |-> Day(2028, 2, 28), min |-> 0, secs |-> FALSE]

TakingsRate == [p \in Pizzerias |-> IF p = "p1" THEN 1 ELSE 2]
=============================================================================
