---------------------------- MODULE LiteRevenue ----------------------------
(***************************************************************************)
(* Revenue of a tenant without PlanFact ("Lite"): src/app/main.py          *)
(* _lite_revenue, called by the report, its fast revenue stage, the        *)
(* revenue history and the warm-up.  A range of days is cut into calendar  *)
(* months; a month that is whole and behind the live window is kept in the *)
(* table lite_revenue_cache for good, every other piece is asked of        *)
(* Dodo IS each time.                                                      *)
(*                                                                         *)
(* Dates are day numbers and months are numbered 0..LastMonth, month m     *)
(* running from First[m] to First[m+1]-1: comparing ISO strings, date      *)
(* objects or day numbers is the same thing, and month lengths are a       *)
(* parameter.  An amount is the days of sales it adds up: what matters is  *)
(* which days a figure contains and how often, not the roubles.            *)
(***************************************************************************)
EXTENDS Integers, Sequences, FiniteSets

CONSTANTS
    LastMonth,   \* the months are 0..LastMonth
    First,       \* First[m]: the first day of month m
    Projects,    \* the pizzerias of the tenant
    Units,       \* Dodo IS units
    NoUnit,      \* the link of a project that has no unit
    Links,       \* the maps project -> unit an administrator may set
    Window,      \* planfact_keys.live_months_window
    Requests,    \* what may be asked: sequences of ranges
    WarmBack,    \* settings.warm_months_back
    Jobs         \* requests and warm-ups running at once

Months == 0..LastMonth
Days == First[0]..(First[LastMonth + 1] - 1)

\* Ranges past _validate_date_range: the first day is not after the last.
Range == {r \in [from : Days, to : Days] : r.from <= r.to}

ASSUME CalendarAssumption ==
    /\ LastMonth \in Nat
    /\ First \in [0..(LastMonth + 1) -> Int]
    /\ \A m, n \in 0..(LastMonth + 1) : m < n => First[m] < First[n]
    /\ \A d \in Days : \E m \in Months : First[m] <= d /\ d < First[m + 1]

ASSUME TenantAssumption ==
    /\ NoUnit \notin Units
    /\ Links \subseteq [Projects -> Units \cup {NoUnit}]
    /\ Links # {}
    /\ Window \in Nat
    /\ WarmBack \in Nat
    /\ Requests \subseteq Seq(Range) \ {<<>>}

----------------------------------------------------------------------------
(* The calendar functions.                                                 *)

MonthOf == [d \in Days |-> CHOOSE m \in Months : First[m] <= d /\ d < First[m + 1]]

WholeMonth(m) == [from |-> First[m], to |-> First[m + 1] - 1]

DaysOf(r) == r.from .. r.to

\* Lesser of two days.
Earlier(d, e) == IF d <= e THEN d ELSE e

\* Mutant of Split: every piece starts where the range does.
SplitFromStart == [r \in Range |->
    [i \in 1..(MonthOf[r.to] - MonthOf[r.from] + 1) |->
        [from |-> r.from,
         to   |-> Earlier(First[MonthOf[r.from] + i] - 1, r.to)]]]

\* _split_range_by_month: one piece for every month the range touches, the
\* first from the range's first day, the last up to its last day.
Split == [r \in Range |->
    [i \in 1..(MonthOf[r.to] - MonthOf[r.from] + 1) |->
        LET m == MonthOf[r.from] + i - 1
        IN [from |-> IF i = 1 THEN r.from ELSE First[m],
            to   |-> Earlier(First[m + 1] - 1, r.to)]]]

\* _months_between: the months that lie in the range from their first day to
\* their last.
MonthsBetween(r) ==
    {m \in MonthOf[r.from]..MonthOf[r.to] :
        First[m] >= r.from /\ First[m + 1] - 1 <= r.to}

\* _is_full_month, asked of a piece and the month of its first day.
IsFullMonth(r) == r = WholeMonth(MonthOf[r.from])

LiveMonths == IF Window > 1 THEN Window ELSE 1

\* Mutant of InLiveWindow: the newest live month is counted as closed.
OneMonthLess(m, cur) == cur - m < LiveMonths - 1

\* store.is_period_in_live_window
InLiveWindow(m, cur) == cur - m < LiveMonths

\* Mutant of Closed: any piece of a month behind the window is closed.
AnyPieceCloses(r, cur) == ~InLiveWindow(MonthOf[r.from], cur)

\* The condition `closed` of _lite_revenue.
Closed(r, cur) == IsFullMonth(r) /\ ~InLiveWindow(MonthOf[r.from], cur)

\* _closed_months_window: at most WarmBack months behind the current one and no
\* further than the calendar goes,
Back(cur) == IF WarmBack <= cur THEN WarmBack ELSE cur

\* Mutant of ClosedMonthsWindow: the window starts one month too late.
FromLiveMonth(cur) ==
    [i \in 1..(Back(cur) - LiveMonths + 1) |->
        WholeMonth(cur - LiveMonths - i + 2)]

\* from the newest closed month back.
ClosedMonthsWindow(cur) ==
    [i \in 1..(Back(cur) - LiveMonths + 1) |->
        WholeMonth(cur - LiveMonths - i + 1)]

----------------------------------------------------------------------------
VARIABLES
    today,    \* the date in Moscow, by which Dodo IS books sales
    server,   \* the date of the server's clock, which is in UTC
    link,     \* projects_config.dodo_unit_uuid
    kept,     \* lite_revenue_cache: [project][month] -> the rows of this key,
              \* none or one, a row being the days it adds up
    pc,       \* where a job stands
    warming,  \* the jobs that are warm-ups (_WARM_INFLIGHT)
    todo,     \* the ranges a job still has to answer, the current one first
    linked,   \* pid_to_uuid of a job: the projects with a unit
    owns,     \* uuid_to_pid of a job: the projects the rows are booked to
    cur,      \* cur of a job: the month of the server's date
    piece,    \* the piece of the current range a job is at
    asked,    \* missing of a job: the projects a closed month lacks
    count,    \* rev_by_pid of a job: how often it contains a day's sales
    since     \* the date in Moscow when the current range was begun

vars == <<today, server, link, kept, pc, warming, todo, linked, owns, cur,
          piece, asked, count, since>>
clock == <<today, server>>

\* What Dodo IS has booked for good: every day that is over.  Today's sales
\* grow until midnight and are part of no total a property speaks of.
Sold == {d \in Days : d < today}

Nothing == [p \in Projects |-> [d \in Days |-> 0]]

\* The running total with the days S[p] added for every project p.
Plus(total, S) ==
    [p \in Projects |->
        [d \in Days |-> total[p][d] + IF d \in S[p] THEN 1 ELSE 0]]

\* uuid_to_pid is a dict: of the projects linked to one unit the last one read
\* has its rows, and the rows come in no particular order.
Owners(l) ==
    {S \in SUBSET {p \in Projects : l[p] # NoUnit} :
        \A p \in Projects : l[p] # NoUnit =>
            \E q \in S : l[q] = l[p] /\ \A s \in S : l[s] = l[p] => s = q}

Piece(j) == Split[Head(todo[j])][piece[j]]
AllPiecesDone(j) == piece[j] > Len(Split[Head(todo[j])])
MonthOfPiece(j) == MonthOf[Piece(j).from]
Missing(j) == {p \in linked[j] : kept[p][MonthOfPiece(j)] = {}}

----------------------------------------------------------------------------
Init ==
    /\ today = First[0] /\ server = today
    /\ link \in Links
    /\ kept = [p \in Projects |-> [m \in Months |-> {}]]
    /\ pc = [j \in Jobs |-> "idle"]
    /\ warming = {}
    /\ todo = [j \in Jobs |-> <<>>]
    /\ linked = [j \in Jobs |-> {}]
    /\ owns = [j \in Jobs |-> {}]
    /\ cur = [j \in Jobs |-> 0]
    /\ piece = [j \in Jobs |-> 1]
    /\ asked = [j \in Jobs |-> {}]
    /\ count = [j \in Jobs |-> Nothing]
    /\ since = [j \in Jobs |-> First[0]]

\* The job reads projects_config and sets out to answer the ranges q.
SetOut(j, q) ==
    /\ pc[j] = "idle"
    /\ \E S \in Owners(link) :
        /\ pc' = [pc EXCEPT ![j] = "open"]
        /\ todo' = [todo EXCEPT ![j] = q]
        /\ linked' = [linked EXCEPT ![j] = {p \in Projects : link[p] # NoUnit}]
        /\ owns' = [owns EXCEPT ![j] = S]
    /\ UNCHANGED <<clock, link, kept, cur, piece, asked, count, since>>

\* _build_pnl_lite, _build_pnl_revenue_stage (one range and the one it is
\* compared with) and _build_revenue_history_lite (a list of months).
Ask(j) == \E q \in Requests : SetOut(j, q) /\ UNCHANGED warming

\* warm_financials of a Lite tenant: the history of the closed months, one
\* warm-up at a time.
Warm(j) ==
    /\ warming = {}
    /\ ClosedMonthsWindow(MonthOf[server]) # <<>>
    /\ SetOut(j, ClosedMonthsWindow(MonthOf[server]))
    /\ warming' = {j}

\* _lite_revenue begins: totals at zero, the range cut, the month looked up.
Open(j) ==
    /\ pc[j] = "open"
    /\ pc' = [pc EXCEPT ![j] = "piece"]
    /\ cur' = [cur EXCEPT ![j] = MonthOf[server]]
    /\ piece' = [piece EXCEPT ![j] = 1]
    /\ count' = [count EXCEPT ![j] = Nothing]
    /\ since' = [since EXCEPT ![j] = today]
    /\ UNCHANGED <<clock, link, kept, warming, todo, linked, owns, asked>>

\* The days S join the total and the job turns to the next piece.
Add(j, S) ==
    /\ count' = [count EXCEPT ![j] = Plus(count[j], S)]
    /\ piece' = [piece EXCEPT ![j] = piece[j] + 1]
    /\ pc' = [pc EXCEPT ![j] = "piece"]
    /\ asked' = [asked EXCEPT ![j] = {}]
    /\ UNCHANGED <<clock, link, warming, todo, linked, owns, cur, since>>

AtPiece(j) == pc[j] = "piece" /\ ~AllPiecesDone(j)

\* The month is running or cut and no project has a unit: nothing to ask.
SkipLive(j) ==
    /\ AtPiece(j)
    /\ ~Closed(Piece(j), cur[j])
    /\ linked[j] = {}
    /\ Add(j, [p \in Projects |-> {}])
    /\ UNCHANGED kept

\* The job calls Dodo IS and waits at `where` for the projects in `wanted`.
Call(j, where, wanted) ==
    /\ pc' = [pc EXCEPT ![j] = where]
    /\ asked' = [asked EXCEPT ![j] = wanted]
    /\ UNCHANGED <<clock, link, kept, warming, todo, linked, owns, cur, piece,
                   count, since>>

AskLive(j) ==
    /\ AtPiece(j)
    /\ ~Closed(Piece(j), cur[j])
    /\ linked[j] # {}
    /\ Call(j, "live", linked[j])

\* The rows of Dodo IS for the piece, booked to the projects.
Rows(j) ==
    [p \in Projects |-> IF p \in owns[j] THEN Sold \cap DaysOf(Piece(j)) ELSE {}]

AnswerLive(j) ==
    /\ pc[j] = "live"
    /\ Add(j, Rows(j))
    /\ UNCHANGED kept

\* The days of the row, none for a project that has no row.
FromTable(j) ==
    /\ Add(j, [p \in Projects |-> UNION kept[p][MonthOfPiece(j)]])
    /\ UNCHANGED kept

\* A closed month whose projects are all in the table costs no call.
ReadKept(j) ==
    /\ AtPiece(j)
    /\ Closed(Piece(j), cur[j])
    /\ Missing(j) = {}
    /\ FromTable(j)

AskMissing(j) ==
    /\ AtPiece(j)
    /\ Closed(Piece(j), cur[j])
    /\ Missing(j) # {}
    /\ Call(j, "fetch", Missing(j))

\* The answer is stored for every project asked for, with or without rows, and
\* committed.
Keep(j) ==
    /\ pc[j] = "fetch"
    /\ kept' = [p \in Projects |->
                 IF p \in asked[j]
                 THEN [kept[p] EXCEPT ![MonthOfPiece(j)] = {Rows(j)[p]}]
                 ELSE kept[p]]
    /\ pc' = [pc EXCEPT ![j] = "reread"]
    /\ UNCHANGED <<clock, link, warming, todo, linked, owns, cur, piece, asked,
                   count, since>>

Reread(j) == pc[j] = "reread" /\ FromTable(j)

\* What a job holds of a range is gone when the range is over.
Forget(j) ==
    /\ cur' = [cur EXCEPT ![j] = 0]
    /\ piece' = [piece EXCEPT ![j] = 1]
    /\ asked' = [asked EXCEPT ![j] = {}]
    /\ count' = [count EXCEPT ![j] = Nothing]
    /\ since' = [since EXCEPT ![j] = First[0]]

End(j) ==
    /\ pc' = [pc EXCEPT ![j] = "idle"]
    /\ todo' = [todo EXCEPT ![j] = <<>>]
    /\ linked' = [linked EXCEPT ![j] = {}]
    /\ owns' = [owns EXCEPT ![j] = {}]
    /\ warming' = warming \ {j}

\* The current range is over: the next one, or the end of the job.
NextRange(j) ==
    /\ Forget(j)
    /\ \/ /\ Tail(todo[j]) = <<>>
          /\ End(j)
       \/ /\ Tail(todo[j]) # <<>>
          /\ pc' = [pc EXCEPT ![j] = "open"]
          /\ todo' = [todo EXCEPT ![j] = Tail(todo[j])]
          /\ UNCHANGED <<linked, owns, warming>>
    /\ UNCHANGED <<clock, link, kept>>

\* The total is handed to the caller.
Deliver(j) == pc[j] = "piece" /\ AllPiecesDone(j) /\ NextRange(j)

\* An exception of Dodo IS or of the database leaves _lite_revenue: the caller
\* goes on with zeros for the range, the history with its next month.
Fail(j) ==
    /\ pc[j] \in {"live", "fetch", "reread"} \/ AtPiece(j)
    /\ NextRange(j)

\* The fast stage has no handler of its own, the token may be refused, the
\* client may leave, the process may restart: the job ends where it is.
Abort(j) ==
    /\ pc[j] # "idle"
    /\ Forget(j)
    /\ End(j)
    /\ UNCHANGED <<clock, link, kept>>

----------------------------------------------------------------------------
others == <<pc, warming, todo, linked, owns, cur, piece, asked, count, since>>

\* Midnight in Moscow comes three hours before midnight in UTC.
MoscowMidnight ==
    /\ server = today /\ today + 1 \in Days
    /\ today' = today + 1
    /\ UNCHANGED <<server, link, kept, others>>

ServerMidnight ==
    /\ server # today
    /\ server' = today
    /\ UNCHANGED <<today, link, kept, others>>

\* upsert_projects_config, auto_link_dodois, admin_patch_key_project_config
Relink ==
    /\ link' \in Links \ {link}
    /\ UNCHANGED <<clock, kept, others>>

Step(j) ==
    \/ Open(j) \/ SkipLive(j) \/ AskLive(j) \/ AnswerLive(j)
    \/ ReadKept(j) \/ AskMissing(j) \/ Keep(j) \/ Reread(j)
    \/ Deliver(j) \/ Fail(j)

Next ==
    \/ \E j \in Jobs : Ask(j) \/ Warm(j) \/ Step(j) \/ Abort(j)
    \/ MoscowMidnight \/ ServerMidnight \/ Relink

Spec == Init /\ [][Next]_vars

----------------------------------------------------------------------------
(* Properties.                                                             *)

Places == {"idle", "open", "piece", "live", "fetch", "reread"}

\* Types of the state, and where a job with a range to answer may stand.
TypeOK ==
    /\ today \in Days
    /\ server \in Days /\ server <= today
    /\ link \in Links
    /\ kept \in [Projects -> [Months -> SUBSET SUBSET Days]]
    /\ pc \in [Jobs -> Places]
    /\ warming \subseteq Jobs
    /\ todo \in [Jobs -> Seq(Range)]
    /\ \A j \in Jobs : pc[j] # "idle" => todo[j] # <<>>
    /\ linked \in [Jobs -> SUBSET Projects]
    /\ owns \in [Jobs -> SUBSET Projects]
    /\ cur \in [Jobs -> Months]
    /\ piece \in [Jobs -> Nat \ {0}]
    /\ asked \in [Jobs -> SUBSET Projects]
    /\ count \in [Jobs -> [Projects -> [Days -> Nat]]]
    /\ since \in [Jobs -> Days]

\* «Кусок месяца» is never kept as a closed month (_is_full_month): a row of
\* lite_revenue_cache holds every day of its month, or is the zero of a project
\* whose unit's rows were booked to another project.
OnlyWholeMonthsAreKept ==
    \A p \in Projects, m \in Months :
        kept[p][m] \in {{}, {{}}, {DaysOf(WholeMonth(m))}}

\* No unit serves two projects («Юниты, которые уже привязаны к другому
\* проекту, не используем повторно»); the administrator's form does not check.
OneProjectPerUnit ==
    \A l \in Links : \A p, q \in Projects :
        l[p] = l[q] /\ l[p] # NoUnit => p = q

\* A total that is handed out contains no day twice and no day outside the
\* range asked for, and, as long as no unit serves two projects, every day
\* that was over when the range was begun, whichever pieces came from the table
\* and whichever from Dodo IS.
EveryDayCountsOnce ==
    \A j \in Jobs : pc[j] = "piece" /\ AllPiecesDone(j) =>
        \A p \in Projects, d \in Days :
            /\ count[j][p][d] <= 1
            /\ count[j][p][d] = 1 => d \in DaysOf(Head(todo[j]))
            /\ OneProjectPerUnit /\ p \in linked[j] /\ d < since[j]
                 /\ d \in DaysOf(Head(todo[j]))
               => count[j][p][d] = 1

\* «Для закрытого полного месяца значение неизменно» (LiteRevenueCache): a row
\* is never taken away, and, as long as no unit serves two projects, never
\* replaced by other figures, although two jobs that miss it both write it.
KeptMonthsNeverChange ==
    [][\A p \in Projects, m \in Months : kept[p][m] # {} =>
        /\ kept'[p][m] # {}
        /\ OneProjectPerUnit => kept'[p][m] = kept[p][m]]_vars

\* The warm-up is not in vain: the months it picks by its own clock are closed
\* by the clock of _lite_revenue too, and once it has got through one of them
\* every linked project has its row.
WarmedMonthsAreKept ==
    \A j \in warming : pc[j] = "piece" /\ AllPiecesDone(j) =>
        \A p \in linked[j] : kept[p][MonthOf[Head(todo[j]).from]] # {}
=============================================================================
