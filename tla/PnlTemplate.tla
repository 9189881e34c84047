---------------------------- MODULE PnlTemplate ----------------------------
(***************************************************************************)
(* The template of the P&L of one PlanFact key and the metrics written     *)
(* over its lines (app/store.py, app/seed_metrics.py, app/main.py).        *)
(*                                                                         *)
(* A save of the template is one transaction of three statements at READ   *)
(* COMMITTED: it reads the numbers of the lines, deletes the rows and      *)
(* inserts the tree.  Two saves can overlap: a DELETE sees the rows that   *)
(* were committed when it began and waits for a transaction that holds     *)
(* one of them.                                                            *)
(*                                                                         *)
(* A title is a value; what a rule looks for inside titles is the set      *)
(* Says[title].  Titles are equal up to case.                              *)
(***************************************************************************)
EXTENDS Formulas, FiniteSets, Tables

CONSTANTS Titles, Says,   \* the titles, and the words the rules find in each
          Trees,          \* the trees that may be saved, as sequences of nodes
          Admins,         \* requests that may run at once
          WrittenMetrics, \* metrics an administrator may write: [code, formula, format, level]
          LinesNamed(_),  \* the lines a formula names: LineRefs
          MaxSaves        \* bound: changes of the template and of the metrics

\* The nodes of a tree; a path has at least the title of its node.
Nodes == [path : Seq(Titles) \ {<<>>}, leaf : BOOLEAN, calc : BOOLEAN, code : STRING]

Formats == {"rub", "pct", "x"}

ASSUME PnlTemplateAssumption ==
    /\ MaxSaves \in Nat
    /\ Says \in [Titles -> SUBSET STRING]
    /\ \A t \in Trees : t \in Seq(Nodes)
    /\ \A m \in WrittenMetrics : m.format \in Formats

VARIABLES rows,     \* pnl_template
          saving,   \* a save of the template in progress, per request
          metrics,  \* pnl_metrics: code -> [formula, format, level]
          saves     \* changes so far (bound)

templateVars == <<rows, saving, metrics, saves>>

Idle == [step |-> "idle", tree |-> <<>>, old |-> <<>>, doomed |-> {}]

-----------------------------------------------------------------------------
(* Categories and codes. *)

WordsOf(path) == UNION {Says[path[i]] : i \in DOMAIN path}

\* classify_category: the first rule that fits; "none" is a line of no kind.
Classify(op, activity, path) ==
    LET w == WordsOf(path)
    IN CASE op = "Capital" -> IF "dividend" \in w THEN "DIVIDENDS" ELSE "none"
         [] op = "Income" ->
              IF "revenue" \in w /\ "retained" \notin w THEN "REVENUE"
              ELSE IF w \intersect {"other income", "surplus", "correction", "encashment"} # {}
                      \/ activity # "Operating"
                   THEN "OTHER_INCOME" ELSE "REVENUE"
         [] op = "Outcome" ->
              CASE "profit tax" \in w -> "TAX"
                [] {"interest", "loan"} \subseteq w -> "INTEREST"
                [] "dividend" \in w -> "DIVIDENDS"
                [] "franchise" \in w -> "FRANCHISE"
                [] "dc" \in w -> "DC"
                [] "uc" \in w -> "UC"
                [] "lc" \in w -> IF "management" \in w THEN "MGMT" ELSE "LC"
                [] "administrative" \in w -> "MGMT"
                [] "rent" \in w -> "RENT"
                [] "marketing" \in w -> "MARKETING"
                [] "other expenses" \in ToSet(path) -> "NON_OPER_EXPENSE"
                [] activity = "Operating" -> "OTHER_OPEX"
                [] OTHER -> "none"
         [] OTHER -> "none"

Depth(row) == Len(row.path) - 1
Title(row) == Last(row.path)

Coded(R) == {r \in R : ~ r.calc /\ r.code # "none"}

\* template_path_to_code: of rows with one path any may be the last read.
PathToCode(R) ==
    [p \in {r.path : r \in Coded(R)} |-> (CHOOSE r \in Coded(R) : r.path = p).code]

\* template_leaf_title_to_code: of one title the last in the order of the template.
LeafTitleToCode(R) ==
    [t \in {Title(r) : r \in Coded(R)} |->
        LET same == {r \in Coded(R) : Title(r) = t}
        IN (CHOOSE r \in same : \A q \in same : q.sort <= r.sort).code]

-----------------------------------------------------------------------------
(* Saving a template. *)

\* The numbers by path; of rows with one path any may be the last read.
LineOf(R) ==
    LET linesAt(p) == {r.line : r \in {q \in R : q.path = p}}
        paths      == {r.path : r \in R}
        doubled    == {p \in paths : Cardinality(linesAt(p)) > 1}
        choices    == {f \in [doubled -> {r.line : r \in R}] :
                          \A p \in doubled : f[p] \in linesAt(p)}
    IN {f ++ [p \in paths |-> CHOOSE n \in linesAt(p) : TRUE] : f \in choices}

\* Mutant of NextLine: the numbers begin at 0.
NextLineFromZero(old) == Max({0} \union {old[p] : p \in DOMAIN old})

NextLine(old) == 1 + Max({0} \union {old[p] : p \in DOMAIN old})

\* Mutant of Numbered: the nodes are numbered anew.
NumberedAnew(tree, old) == [i \in DOMAIN tree |-> i]

\* The number of one more node: the old number of its path, unless an earlier
\* node has taken it, else the next free one.
NumberNode(old, acc, node) ==
    IF node.path \in DOMAIN old /\ old[node.path] \notin ToSet(acc.lines)
    THEN [lines |-> Append(acc.lines, old[node.path]), next |-> acc.next]
    ELSE [lines |-> Append(acc.lines, acc.next), next |-> acc.next + 1]

\* The numbers of the nodes of a tree in order.
Numbered(tree, old) ==
    FoldLeft(LAMBDA acc, node : NumberNode(old, acc, node),
             [lines |-> <<>>, next |-> NextLine(old)], tree).lines

ParentAt(tree, i) == {j \in 1..(i - 1) : tree[j].path = Front(tree[i].path)}

\* replace_template_tree: the rows of a tree saved as the k-th change.
TreeRows(tree, old, k) ==
    LET lines == Numbered(tree, old)
    IN {[id |-> <<k, i>>, path |-> tree[i].path, calc |-> tree[i].calc,
         leaf |-> tree[i].leaf, code |-> tree[i].code, sort |-> i, line |-> lines[i],
         parent |-> IF ParentAt(tree, i) = {} THEN <<>> ELSE <<k, Max(ParentAt(tree, i))>>]
        : i \in DOMAIN tree}

Held == UNION {saving[a].doomed : a \in {b \in Admins : saving[b].step = "deleted"}}

TemplateInit ==
    /\ rows = {}
    /\ saving = [a \in Admins |-> Idle]
    /\ metrics = <<>>
    /\ saves = 0

\* PUT /api/template: the first statement, the numbers by path.
SaveTemplate(a, tree) ==
    /\ saving[a] = Idle
    /\ saves < MaxSaves
    /\ \E old \in LineOf(rows) :
          saving' = [saving EXCEPT ![a] = [step |-> "read", tree |-> tree,
                                           old |-> old, doomed |-> {}]]
    /\ saves' = saves + 1
    /\ UNCHANGED <<rows, metrics>>

\* DELETE /api/template has the second statement only.
ClearTemplate(a) ==
    /\ saving[a] = Idle
    /\ saves < MaxSaves
    /\ saving' = [saving EXCEPT ![a].step = "read"]
    /\ saves' = saves + 1
    /\ UNCHANGED <<rows, metrics>>

\* The DELETE begins: it is to delete the rows committed now.
DeleteBegins(a) ==
    /\ saving[a].step = "read"
    /\ saving' = [saving EXCEPT ![a].doomed = rows,
                     ![a].step = IF rows \intersect Held # {} THEN "waiting" ELSE "deleted"]
    /\ UNCHANGED <<rows, metrics, saves>>

\* The transaction that held a row has ended.
DeleteResumes(a) ==
    /\ saving[a].step = "waiting"
    /\ saving[a].doomed \intersect Held = {}
    /\ saving' = [saving EXCEPT ![a].step = "deleted"]
    /\ UNCHANGED <<rows, metrics, saves>>

\* The inserts and the commit.
CommitTemplate(a) ==
    /\ saving[a].step = "deleted"
    /\ rows' = (rows \ saving[a].doomed)
               \union TreeRows(saving[a].tree, saving[a].old,
                               1 + Max({0} \union {r.id[1] : r \in rows}))
    /\ saving' = [saving EXCEPT ![a] = Idle]
    /\ UNCHANGED <<metrics, saves>>

\* PATCH /api/template/{node_id}; a row that a save holds is waited for.
PatchTemplateNode(r, code) ==
    /\ r \in rows \ Held
    /\ saves < MaxSaves
    /\ rows' = (rows \ {r}) \union {[r EXCEPT !.code = code]}
    /\ saves' = saves + 1
    /\ UNCHANGED <<saving, metrics>>

-----------------------------------------------------------------------------
(* Metrics. *)

LineNos(R) == {r.line : r \in R}

Metric(f, format, level) == [formula |-> f, format |-> format, level |-> level]

\* PUT /api/metrics/{code}: the formula may name the lines there are.
UpsertMetric(m) ==
    /\ saves < MaxSaves
    /\ LinesNamed(m.formula) \subseteq LineNos(rows)
    /\ metrics' = Put(metrics, m.code, Metric(m.formula, m.format, m.level))
    /\ saves' = saves + 1
    /\ UNCHANGED <<rows, saving>>

DeleteMetric(code) ==
    /\ code \in DOMAIN metrics
    /\ saves < MaxSaves
    /\ metrics' = [c \in DOMAIN metrics \ {code} |-> metrics[c]]
    /\ saves' = saves + 1
    /\ UNCHANGED <<rows, saving>>

MetricSpec ==
    << <<"REVENUE", "rub", 0>>, <<"UC", "pct", 10>>, <<"LC", "pct", 10>>,
       <<"DC", "pct", 10>>, <<"TC", "pct", 10>>, <<"RENT", "pct", 30>>,
       <<"MARKETING", "pct", 30>>, <<"FRANCHISE", "pct", 30>>,
       <<"OTHER_OPEX", "pct", 30>>, <<"MGMT", "pct", 60>>,
       <<"EBITDA", "rub", 60>>, <<"NET_PROFIT", "rub", 100>> >>

OpexCodes == {"UC", "LC", "DC", "RENT", "MARKETING", "FRANCHISE", "MGMT", "OTHER_OPEX"}

\* The rows of a group with no ancestor in it: their amounts hold the others'.
TopLevelInGroup(G) == {r \in G : \A t \in G : ~ IsStrictPrefix(t.path, r.path)}

SortedLines(R) ==
    LET lines == {r.line : r \in R}
    IN [i \in 1..Cardinality(lines) |->
          CHOOSE n \in lines : Cardinality({m \in lines : m < n}) = i - 1]

FirstLine(R) == {n \in LineNos(R) : \A m \in LineNos(R) : n <= m}

\* _gather_metrics_for_template: the formulas a template gives rise to.
GatherMetrics(R) ==
    LET of(codes)  == {r \in R : r.code \in codes}
        tops(codes) == SortedLines(TopLevelInGroup(of(codes)))
        income     == of({"REVENUE"})
        revenue    == FirstLine({r \in income : \A q \in income : Depth(r) <= Depth(q)})
        delivery   == FirstLine({r \in income :
                                   {"delivery", "revenue"} \subseteq WordsOf(r.path)})
        calc(word) == FirstLine({r \in R : /\ r.calc
                                           /\ word \in Says[Title(r)]
                                           /\ "profitability" \notin Says[Title(r)]})
        Share(codes, base) == BinOp("/", LinesSum(tops(codes)), LineRef(base))
        Less(codes) ==
            IF revenue = {} \/ tops(codes) = <<>> THEN {}
            ELSE {BinOp("-", LineRef(n), LinesSum(tops(codes))) : n \in revenue}
        Seeded(code) ==
            CASE code = "REVENUE" -> {LineRef(n) : n \in revenue}
              [] code = "EBITDA" ->
                   IF calc("ebitda") # {} THEN {LineRef(n) : n \in calc("ebitda")}
                   ELSE Less(OpexCodes)
              [] code = "NET_PROFIT" ->
                   IF calc("net profit") # {} THEN {LineRef(n) : n \in calc("net profit")}
                   ELSE Less(OpexCodes \union {"TAX", "INTEREST"})
              [] OTHER ->
                   LET codes == IF code = "TC" THEN {"UC", "LC", "DC"} ELSE {code}
                       base  == IF code = "DC" /\ delivery # {} THEN delivery ELSE revenue
                   IN IF of(codes) = {} \/ revenue = {} THEN {}
                      ELSE {Share(codes, n) : n \in base}
        sown == {i \in DOMAIN MetricSpec : Seeded(MetricSpec[i][1]) # {}}
    IN [c \in {MetricSpec[i][1] : i \in sown} |->
          LET i == CHOOSE i \in sown : MetricSpec[i][1] = c
          IN Metric(CHOOSE f \in Seeded(c) : TRUE, MetricSpec[i][2], MetricSpec[i][3])]

\* POST /api/metrics/seed: the missing ones, or all of them anew.
SeedMetrics(reseed) ==
    /\ saves < MaxSaves
    /\ rows # {}
    /\ metrics' = IF reseed THEN GatherMetrics(rows) ELSE metrics ++ GatherMetrics(rows)
    /\ saves' = saves + 1
    /\ UNCHANGED <<rows, saving>>

TemplateNext ==
    \/ \E a \in Admins : \/ \E tree \in Trees : SaveTemplate(a, tree)
                         \/ ClearTemplate(a)
                         \/ DeleteBegins(a)
                         \/ DeleteResumes(a)
                         \/ CommitTemplate(a)
    \/ \E r \in rows, code \in {"none", "UC"} : PatchTemplateNode(r, code)
    \/ \E m \in WrittenMetrics : UpsertMetric(m)
    \/ \E code \in DOMAIN metrics : DeleteMetric(code)
    \/ \E reseed \in BOOLEAN : SeedMetrics(reseed)

TemplateSpec == TemplateInit /\ [][TemplateNext]_templateVars

-----------------------------------------------------------------------------
TemplateTypeOK ==
    /\ \A r \in rows : r.path \in Seq(Titles) /\ r.line \in Nat \ {0}
    /\ \A a \in Admins : /\ saving[a].step \in {"idle", "read", "waiting", "deleted"}
                         /\ saving[a].tree \in Trees \union {<<>>}
    /\ \A c \in DOMAIN metrics : metrics[c].format \in Formats
    /\ saves \in 0..MaxSaves

LinesAreUnique == \A r, q \in rows : r.line = q.line => r = q

\* A path that a template has once and that is saved again keeps its number,
\* whatever the order of the new tree, so that the formulas over it still
\* hold.  (A save that no other overlapped, over a template of one tree.)
KeptPathsKeepLines ==
    [][\A a \in Admins, r \in rows :
          ( /\ saving[a].step = "deleted" /\ saving'[a] = Idle
            /\ saving[a].tree # <<>>
            /\ saving[a].doomed = rows
            /\ LineOf(rows) = {saving[a].old}
            /\ LinesAreUnique
            /\ \E i \in DOMAIN saving[a].tree : saving[a].tree[i].path = r.path )
          => \E q \in rows' : q.path = r.path /\ q.line = r.line]_templateVars
=============================================================================
