----------------------------- MODULE PnlFigures -----------------------------
(***************************************************************************)
(* The figures of one month's P&L (app/pnl.py, app/pnl_v2.py): from parts  *)
(* of operations, or from PlanFact's report v2, or from the snapshot of a  *)
(* closed month, to lines by code, lines of the template and metrics.      *)
(*                                                                         *)
(* Parts arrive until the month is frozen; the template and the metrics    *)
(* change at any time.  What a request is answered is a function of the    *)
(* state, the projects asked for and the level of the user.  Amounts are   *)
(* whole numbers, shares exact fractions.                                  *)
(***************************************************************************)
EXTENDS PnlTemplate

CONSTANTS
  Projects,     \* the projects of the key as PlanFact lists them
  Categories,   \* the categories: id -> [path, op, activity]
  Parts,        \* the parts there may be: [op, date, committed, pid, cid, value]
  MaxParts,     \* bound: parts of the month
  Filters,      \* the sets of projects asked for; {} is no filter
  Levels,       \* levels of visibility of users
  TitleLevel,   \* HIDDEN_TEMPLATE_TITLES_MIN_LEVEL
  CalcLine,     \* CALC_TITLE_TO_LINE_CODE
  CalcPct,      \* CALC_TITLE_TO_PCT_BASE
  ValueOf(_, _) \* the value of a formula for given amounts: Evaluate

\* A path belongs to one category, and all above it are categories.
CategoriesAreATree ==
    \A c \in DOMAIN Categories :
        LET path == Categories[c].path
        IN /\ path \in Seq(Titles) /\ path # <<>>
           /\ \A d \in DOMAIN Categories : Categories[d].path = path => d = c
           /\ \A n \in DOMAIN path :
                  \E d \in DOMAIN Categories : Categories[d].path = SubSeq(path, 1, n)

ASSUME PnlFiguresAssumption ==
    /\ MaxParts \in Nat
    /\ Filters \subseteq SUBSET Projects
    /\ \A p \in Parts : p.value \in Int
    /\ "none" \notin Projects
    /\ IsFiniteSet(DOMAIN Categories)
    /\ CategoriesAreATree
    /\ TitleLevel \in [Titles -> Nat]
    /\ CalcLine \in [Titles -> STRING] /\ CalcPct \in [Titles -> STRING]

VARIABLES parts,     \* the parts entered so far
          snapshot   \* <<>>, or the aggregates of the frozen month

figuresVars == <<rows, saving, metrics, saves, parts, snapshot>>

Got(f, k) == IF k \in DOMAIN f THEN f[k] ELSE 0

-----------------------------------------------------------------------------
(* From parts to aggregates. *)

\* _build_category_index: the code of each category under the rows R, by the
\* path, else by the last title, else by the rules.
CodesOf(R) ==
    LET byPath  == PathToCode(R)
        byTitle == LeafTitleToCode(R)
    IN [c \in DOMAIN Categories |->
          LET path == Categories[c].path
          IN IF path \in DOMAIN byPath THEN byPath[path]
             ELSE IF Last(path) \in DOMAIN byTitle THEN byTitle[Last(path)]
             ELSE Classify(Categories[c].op, Categories[c].activity, path)]

Channel(cid) ==
    LET w == WordsOf(Categories[cid].path)
    IN CASE "delivery" \in w -> "delivery"
         [] "restaurant" \in w -> "restaurant"
         [] "takeaway" \in w -> "takeaway"
         [] OTHER -> "other"

\* A refund, a part on the other side than its category, is negative; for
\* the capital an outflow is positive.
Signed(p) ==
    LET op == Categories[p.cid].op
    IN IF p.op = (IF op = "Capital" THEN "Outcome" ELSE op) THEN p.value ELSE - p.value

Kept(p, projects, codes) ==
    /\ p.op \in {"Income", "Outcome"}
    /\ p.date = "in" /\ p.committed
    /\ p.pid \in projects
    /\ p.cid \in DOMAIN Categories
    /\ \/ Categories[p.cid].op = "Capital"
       \/ Categories[p.cid].op \in {"Income", "Outcome"} /\ codes[p.cid] # "none"

\* The sums of the amounts by key.
Tally(key, amount) ==
    [k \in Range(key) |-> SumFunctionOnSet(amount, {x \in DOMAIN key : key[x] = k})]

\* The first half of build_pnl, over the parts of the given projects.
Aggregates(P, projects, codes) ==
    LET kept    == {p \in P : Kept(p, projects, codes)}
        coded   == {p \in kept : codes[p.cid] # "none"}
        revenue == {p \in coded : codes[p.cid] = "REVENUE"}
        signed  == [p \in kept |-> Signed(p)]
    IN [cats     |-> Tally([p \in kept |-> <<p.pid, p.cid>>], signed),
        codes    |-> Tally([p \in coded |-> <<p.pid, codes[p.cid]>>], signed),
        channels |-> Tally([p \in revenue |-> <<p.pid, Channel(p.cid)>>], signed),
        active   |-> {p.pid : p \in kept}]

\* A filter narrows what is aggregated, unless the aggregates are to be kept.
ProjectsAsked(filter) == IF filter # {} THEN filter ELSE Projects

-----------------------------------------------------------------------------
(* From PlanFact's report to aggregates. *)

Children == [cid \in DOMAIN Categories |->
                {c \in DOMAIN Categories : Front(Categories[c].path) = Categories[cid].path}]

\* The report: a category with what is below it, committed parts of the
\* month by project, without the balance and, of the capital, dividends only.
Reported == {c \in DOMAIN Categories :
                \/ Categories[c].op \in {"Income", "Outcome"}
                \/ /\ Categories[c].op = "Capital"
                   /\ "dividend" \in WordsOf(Categories[c].path)}

ReportTotal(P, pid, cid) ==
    LET under == {p \in P : /\ p.op \in {"Income", "Outcome"} /\ p.date = "in" /\ p.committed
                            /\ p.pid = pid /\ p.cid \in DOMAIN Categories
                            /\ IsPrefix(Categories[cid].path, Categories[p.cid].path)}
    IN SumFunction([p \in under |-> Signed(p)])

\* Mutant of OwnTotal: the sums of leaves only.
LeafTotal(P, pid, cid) ==
    IF Children[cid] = {} THEN ReportTotal(P, pid, cid) ELSE 0

\* _walk_own: what stands on the category itself.
OwnTotal(P, pid, cid) ==
    ReportTotal(P, pid, cid) - SumFunction([c \in Children[cid] |-> ReportTotal(P, pid, c)])

\* What stands in the report on each category, by project; parts without a
\* project are left out of it.
Entries(P) ==
    LET entry(pid, cid) == [pid |-> pid, cid |-> cid, own |-> OwnTotal(P, pid, cid)]
        pids == {p.pid : p \in P} \ {"none"}
    IN {e \in {entry(pid, cid) : pid \in pids, cid \in Reported} : e.own # 0}

\* v2_to_aggregates.
ReportAggregates(P, codes) ==
    LET own     == Entries(P)
        coded   == {e \in own : codes[e.cid] # "none"}
        revenue == {e \in coded : codes[e.cid] = "REVENUE"}
        amount  == [e \in own |-> e.own]
    IN [cats     |-> Tally([e \in own |-> <<e.pid, e.cid>>], amount),
        codes    |-> Tally([e \in coded |-> <<e.pid, codes[e.cid]>>], amount),
        channels |-> Tally([e \in revenue |-> <<e.pid, Channel(e.cid)>>], amount),
        active   |-> {e.pid : e \in own}]

-----------------------------------------------------------------------------
(* From aggregates to lines. *)

Shown(agg, filter) == IF filter # {} THEN filter \intersect Projects ELSE agg.active

\* Mutant of VariableCodes: the other operating expenses are left out.
NamedVariableCodes == {"UC", "LC", "DC", "RENT", "MARKETING", "FRANCHISE"}

VariableCodes == {"UC", "LC", "DC", "RENT", "MARKETING", "FRANCHISE", "OTHER_OPEX"}
ComputedCodes == {"TC", "MARGIN", "OPERATING_PROFIT", "EBITDA", "NET_PROFIT", "RETAINED"}
OwnCodes == {"REVENUE", "UC", "LC", "DC", "RENT", "MARKETING", "FRANCHISE", "OTHER_OPEX",
             "MGMT", "OTHER_INCOME", "NON_OPER_EXPENSE", "INTEREST", "TAX", "DIVIDENDS"}
LineCodes == OwnCodes \union ComputedCodes

OwnAmounts(agg, pid) == [code \in OwnCodes |-> Got(agg.codes, <<pid, code>>)]

AmountOf(agg, pid, code) ==
    LET own       == OwnAmounts(agg, pid)
        margin    == own["REVENUE"] - SumFunctionOnSet(own, VariableCodes)
        operating == margin - own["MGMT"]
        ebitda    == operating + own["OTHER_INCOME"] - own["NON_OPER_EXPENSE"]
        net       == ebitda - own["INTEREST"] - own["TAX"]
    IN CASE code = "TC"               -> SumFunctionOnSet(own, {"UC", "LC", "DC"})
         [] code = "MARGIN"           -> margin
         [] code = "OPERATING_PROFIT" -> operating
         [] code = "EBITDA"           -> ebitda
         [] code = "NET_PROFIT"       -> net
         [] code = "RETAINED"         -> net - own["DIVIDENDS"]
         [] OTHER                     -> own[code]

Revenue(agg, pid) == Got(agg.codes, <<pid, "REVENUE">>)

\* The delivery cost is a share of the delivery revenue.
Denominator(agg, pid, code) ==
    IF code = "DC" THEN Got(agg.channels, <<pid, "delivery">>) ELSE Revenue(agg, pid)

Figure(amount, base) == [amount |-> Whole(amount), share |-> Ratio(amount, base)]
NoFigure == [amount |-> None, share |-> None]

\* A row of amounts over projects, with its total.
Row(shown, amount, base) ==
    [projects |-> [p \in shown |-> Figure(amount[p], base[p])],
     total    |-> Figure(SumFunctionOnSet(amount, shown), SumFunctionOnSet(base, shown))]

Lines(agg, shown) ==
    [code \in LineCodes |-> Row(shown, [p \in shown |-> AmountOf(agg, p, code)],
                                       [p \in shown |-> Denominator(agg, p, code)])]

-----------------------------------------------------------------------------
(* The lines of the template: build_template_breakdown. *)

\* The deepest of some rows, and of these the first.
Deepest(S) ==
    CHOOSE r \in S : \A q \in S : \/ Depth(r) > Depth(q)
                                  \/ Depth(r) = Depth(q) /\ r.sort <= q.sort

\* The rows the categories go to: that of their own path, else the deepest
\* row that ends with it, else the deepest they lie under, else a leaf of
\* their title, rather one with their code (cat_to_node).
RowOf(R, codes) ==
    LET path(c)  == Categories[c].path
        same(c)  == {r \in R : r.path = path(c)}
        ends(c)  == {r \in R : IsSuffix(path(c), r.path)}
        above(c) == {r \in R : IsStrictPrefix(r.path, path(c))}
        named(c) == {r \in R : r.leaf /\ ~ r.calc /\ Title(r) = Last(path(c))}
        coded(c) == {r \in named(c) : codes[c] # "none" /\ r.code = codes[c]}
        found(c) == IF same(c) # {} THEN same(c)
                    ELSE IF ends(c) # {} THEN ends(c)
                    ELSE IF above(c) # {} THEN above(c)
                    ELSE IF coded(c) # {} THEN coded(c) ELSE named(c)
        placed == {<<c, Deepest(found(c))>> : c \in {d \in DOMAIN Categories : found(d) # {}}}
    IN [c \in {x[1] : x \in placed} |-> (CHOOSE x \in placed : x[1] = c)[2]]

\* The rows under each row, and itself.
Branches(R) ==
    LET branch[r \in R] == {r} \union UNION {branch[q] : q \in {x \in R : x.parent = r.id}}
    IN branch

\* The categories of a row and of all under it (cats_rollup).
CategoriesOf(R, rowOf, r) ==
    LET branch == Branches(R)[r]
    IN {c \in DOMAIN rowOf : rowOf[c] \in branch}

\* What stands directly on each row.
Direct(agg, R, rowOf, pid) ==
    [r \in R |-> SumFunction([c \in {c \in DOMAIN rowOf : rowOf[c] = r} |->
                                Got(agg.cats, <<pid, c>>)])]

\* Mutant of Rollup: the row and the rows right under it.
RollupOfChildren(R, direct) ==
    [r \in R |-> direct[r] + SumFunctionOnSet(direct, {q \in R : q.parent = r.id})]

\* The same with all under it.
Rollup(R, direct) ==
    LET total[r \in R] ==
          direct[r] + SumFunction([q \in {q \in R : q.parent = r.id} |-> total[q]])
    IN total

\* Computed rows are known by their titles.
CalcLineOf(r) == CalcLine[Title(r)]
CalcPctOf(r) == CalcPct[Title(r)]

\* The figures of a computed row: those of a line, or its shares only.
CalcRow(lines, r) ==
    LET code == CalcLineOf(r)
        base == CalcPctOf(r)
        shares == [lines[base] EXCEPT !.projects =
                     [p \in DOMAIN @ |-> [@[p] EXCEPT !.amount = None]],
                   !.total.amount = None]
        blank == [projects |-> [p \in DOMAIN lines["REVENUE"].projects |-> NoFigure],
                  total |-> NoFigure]
    IN CASE code # "none" -> lines[code]
         [] base # "none" -> shares
         [] OTHER         -> blank

RowFigures(agg, totals, shown, lines, r) ==
    IF r.calc THEN CalcRow(lines, r)
    ELSE Row(shown, [p \in shown |-> totals[p][r]],
                    [p \in shown |-> Denominator(agg, p, r.code)])

DefaultLevel(code) ==
    CASE code \in {"INTEREST", "TAX", "NET_PROFIT"} -> 60
      [] code \in {"DIVIDENDS", "RETAINED"} -> 100
      [] code \in {"MGMT", "OPERATING_PROFIT", "OTHER_INCOME", "NON_OPER_EXPENSE", "EBITDA"}
           -> 30
      [] code \in VariableCodes \union {"TC", "MARGIN"} -> 10
      [] OTHER -> 0

RowLevel(r) == Max({TitleLevel[Title(r)], DefaultLevel(r.code)})

TemplateLines(agg, R, rowOf, totals, shown, lines, level) ==
    LET seen == {r \in R : RowLevel(r) <= level}
    IN [r \in seen |->
          [figures    |-> RowFigures(agg, totals, shown, lines, r),
           categories |-> IF r.calc THEN {} ELSE CategoriesOf(R, rowOf, r)]]

-----------------------------------------------------------------------------
(* Metrics over the lines of the template: _apply_metric_formulas. *)

\* The amounts of the numbered lines of a project; a zero is left out.
LineAmounts(total, R, lines, pid) ==
    LET entry(r) == [line |-> r.line, sort |-> r.sort, calc |-> r.calc,
                     amount |-> IF r.calc
                                THEN lines[CalcLineOf(r)].projects[pid].amount[1]
                                ELSE total[r]]
        known == {e \in {entry(r) : r \in {r \in R : r.calc => CalcLineOf(r) # "none"}} :
                    e.calc \/ e.amount # 0}
        written(n) == {e \in known : e.line = n}
    IN [n \in {e.line : e \in known} |->
          (CHOOSE e \in written(n) : \A o \in written(n) : o.sort <= e.sort).amount]

\* A metric in roubles shows its value, a share the dividend of its formula.
Measured(m, amounts, revenue) ==
    LET value == ValueOf(m.formula, amounts)
    IN IF m.format = "rub"
       THEN [amount |-> value,
             share  |-> IF None \in {value, Ratio(1, revenue)} THEN None
                        ELSE Quotient(value, Whole(revenue))]
       ELSE [amount |-> IF m.formula.op = "/" THEN ValueOf(m.formula.left, amounts) ELSE None,
             share  |-> value]

\* A metric takes the place of the line of its code, or is a line of its own;
\* its total is the formula over the sums of the lines.
WithMetrics(lines, M, amounts, revenues, shown) ==
    LET summed == [n \in UNION {DOMAIN amounts[p] : p \in shown} |->
                     SumFunction([p \in shown |-> Got(amounts[p], n)])]
        metric(m) == [projects |-> [p \in shown |-> Measured(m, amounts[p], revenues[p])],
                      total    |-> Measured(m, summed, SumFunctionOnSet(revenues, shown))]
    IN [code \in DOMAIN M |-> metric(M[code])] ++ lines

LevelOf(M, code) == IF code \in DOMAIN M THEN M[code].level ELSE DefaultLevel(code)

Visible(lines, M, level) ==
    [code \in {c \in DOMAIN lines : LevelOf(M, c) <= level} |-> lines[code]]

\* category_breakdown: what each category brought, of the codes the user may see.
CategoryBreakdown(agg, M, codes, level) ==
    [k \in {k \in DOMAIN agg.cats : LevelOf(M, codes[k[2]]) <= level} |->
        Figure(agg.cats[k], Revenue(agg, k[1]))]

\* The second half of build_pnl.
Render(agg, R, M, filter, level) ==
    LET codes   == CodesOf(R)
        rowOf   == RowOf(R, codes)
        shown   == Shown(agg, filter)
        lines   == Lines(agg, shown)
        totals  == [p \in shown |-> Rollup(R, Direct(agg, R, rowOf, p))]
        amounts == [p \in shown |-> LineAmounts(totals[p], R, lines, p)]
        revenue == [p \in shown |-> Revenue(agg, p)]
    IN [lines      |-> Visible(WithMetrics(lines, M, amounts, revenue, shown), M, level),
        template   |-> TemplateLines(agg, R, rowOf, totals, shown, lines, level),
        categories |-> CategoryBreakdown(agg, M, codes, level)]

BuildPnl(P, R, M, filter, level) ==
    Render(Aggregates(P, ProjectsAsked(filter), CodesOf(R)), R, M, filter, level)

-----------------------------------------------------------------------------
(* The history of revenue: build_revenue_history over operations for the   *)
(* months that run, the channels of the snapshot for the closed ones.      *)

HistoryOfParts(P, codes, filter) ==
    LET counted == {p \in P : /\ p.op \in {"Income", "Outcome"}
                              /\ p.date = "in"
                              /\ p.pid # "none" /\ (filter # {} => p.pid \in filter)
                              /\ p.cid \in DOMAIN Categories
                              /\ Categories[p.cid].op \in {"Income", "Outcome"}
                              /\ codes[p.cid] = "REVENUE"}
    IN Tally([p \in counted |-> <<p.pid, Channel(p.cid)>>], [p \in counted |-> Signed(p)])

\* Mutant of HistoryOfSnapshot: the filter is forgotten.
HistoryOfAll(agg, filter) == agg.channels

HistoryOfSnapshot(agg, filter) ==
    [k \in {k \in DOMAIN agg.channels : filter # {} => k[1] \in filter} |-> agg.channels[k]]

RevenueHistory(filter) ==
    IF snapshot = <<>> THEN HistoryOfParts(parts, CodesOf(rows), filter)
    ELSE HistoryOfSnapshot(snapshot.agg, filter)

-----------------------------------------------------------------------------
FiguresInit ==
    /\ TemplateInit
    /\ parts = {}
    /\ snapshot = <<>>

\* The accountant enters a part in PlanFact.
EnterPart(p) ==
    /\ snapshot = <<>>
    /\ Cardinality(parts) < MaxParts
    /\ parts' = parts \union {p}
    /\ UNCHANGED <<templateVars, snapshot>>

\* Mutant of SnapshotProjects: the filter of the first request stays in it.
SnapshotProjectsAsked(filter) == ProjectsAsked(filter)

\* What a snapshot is built from: the parts of all projects, whoever asks.
SnapshotProjects(filter) == Projects

\* The first request of a closed month keeps its aggregates ("codes" is
\* kept to state the properties).
FreezeMonth(filter) ==
    /\ snapshot = <<>>
    /\ LET codes == CodesOf(rows)
       IN snapshot' = [agg   |-> Aggregates(parts, SnapshotProjects(filter), codes),
                       codes |-> codes]
    /\ UNCHANGED <<templateVars, parts>>

FiguresNext ==
    \/ TemplateNext /\ UNCHANGED <<parts, snapshot>>
    \/ \E p \in Parts \ parts : EnterPart(p)
    \/ \E filter \in Filters : FreezeMonth(filter)

FiguresSpec == FiguresInit /\ [][FiguresNext]_figuresVars

-----------------------------------------------------------------------------
FiguresTypeOK ==
    /\ TemplateTypeOK
    /\ parts \subseteq Parts /\ IsFiniteSet(parts)
    /\ snapshot # <<>> => DOMAIN snapshot.codes = DOMAIN Categories

\* The codes of the categories are what they were when the month was frozen.
CodesUnchanged == snapshot # <<>> /\ snapshot.codes = CodesOf(rows)

\* Two answers show the same of the projects asked for.  (The categories of
\* other projects stay in the answer over a snapshot.)
SameAnswer(a, b, filter) ==
    LET asked(f) == [k \in {k \in DOMAIN f : k[1] \in ProjectsAsked(filter)} |-> f[k]]
    IN /\ a.lines = b.lines
       /\ a.template = b.template
       /\ asked(a.categories) = asked(b.categories)

SnapshotAnswers ==
    \A filter \in Filters, level \in Levels :
        SameAnswer(Render(snapshot.agg, rows, metrics, filter, level),
                   BuildPnl(parts, rows, metrics, filter, level), filter)

\* Whoever's request froze the month, and whatever was saved since, a
\* request over the snapshot is answered as a build from the operations, with
\* any filter, at any level, as long as no category has changed its code.
SnapshotRendersAsRaw == CodesUnchanged => SnapshotAnswers

\* The report v2 gives every amount by code, by channel and by classified
\* category that the operations give: also what stands on a category that
\* has others below it, refunds and dividends.  (The report lists no capital
\* but dividends: if the template has a line for another, only the
\* operations count it.)
V2AgreesWithRaw ==
    LET codes == CodesOf(rows)
        raw   == Aggregates(parts, Projects, codes)
        v2    == ReportAggregates(parts, codes)
        Agree(f, g, ks) == \A k \in ks : Got(f, k) = Got(g, k)
        Listed(f) == {k \in DOMAIN f : k[1] \in Projects}
    IN (\A c \in DOMAIN Categories :
            Categories[c].op = "Capital" /\ codes[c] # "none" => c \in Reported)
       => /\ Agree(raw.codes, v2.codes, Listed(raw.codes) \union Listed(v2.codes))
          /\ Agree(raw.channels, v2.channels, Listed(raw.channels) \union Listed(v2.channels))
          /\ Agree(raw.cats, v2.cats, {k \in Listed(raw.cats) \union Listed(v2.cats) :
                                         codes[k[2]] # "none"})

\* The amount of a row of the template is what the categories listed for its
\* drill-down brought, and no category is listed on two branches.
DrillExplainsAmount ==
    LET codes == CodesOf(rows)
        agg   == Aggregates(parts, Projects, codes)
        rowOf == RowOf(rows, codes)
        cats(r) == CategoriesOf(rows, rowOf, r)
    IN /\ \A r \in rows, p \in Projects :
             Rollup(rows, Direct(agg, rows, rowOf, p))[r]
               = SumFunction([c \in cats(r) |-> Got(agg.cats, <<p, c>>)])
       /\ \A r, q \in rows :
             (r \notin Branches(rows)[q] /\ q \notin Branches(rows)[r])
               => cats(r) \intersect cats(q) = {}

IncomeCodes == {"REVENUE", "OTHER_INCOME"}

\* A category stands on the side of its code, which is one of the lines' own.
OnItsSide(code, op) == code \in OwnCodes /\ (code \in IncomeCodes) = (op = "Income")

\* If the template puts no category on the wrong side or on a computed line,
\* the retained profit is the inflow minus the outflow of all classified
\* parts: no code is left out of the cascade of profits and none counts twice.
ProfitIsTheFlow ==
    LET codes == CodesOf(rows)
        agg   == Aggregates(parts, Projects, codes)
        flow(pid) == {p \in parts : Kept(p, {pid}, codes) /\ codes[p.cid] # "none"}
    IN (\A p \in UNION {flow(q) : q \in Projects} :
            OnItsSide(codes[p.cid], Categories[p.cid].op))
       => \A pid \in Projects :
             AmountOf(agg, pid, "RETAINED")
               = SumFunction([p \in flow(pid) |-> IF p.op = "Income" THEN p.value ELSE - p.value])

\* A month reads in the history of revenue as in its own report, before it is
\* frozen and after, if its parts are committed and of listed projects, no
\* capital is on the line of the revenue (the history leaves capital out) and
\* no category has changed its code.
HistoryAgreesWithReport ==
    ( /\ \A p \in parts : p.committed /\ p.pid \in Projects \union {"none"}
      /\ \A c \in DOMAIN Categories :
            Categories[c].op = "Capital" => CodesOf(rows)[c] # "REVENUE"
      /\ snapshot # <<>> => CodesUnchanged )
    => \A filter \in Filters :
         LET history == RevenueHistory(filter)
             agg     == Aggregates(parts, ProjectsAsked(filter), CodesOf(rows))
         IN \A p \in Projects :
              SumFunctionOnSet(history, {k \in DOMAIN history : k[1] = p})
                = AmountOf(agg, p, "REVENUE")
=============================================================================
