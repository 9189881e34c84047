---------------------------- MODULE BoardWindows ----------------------------
(***************************************************************************)
(* The figures of the board: the windows of time it compares, the rows of  *)
(* finished windows it keeps in the database, the block of the month and   *)
(* the forecast (app/day_window.py, app/board.py).                         *)
(*                                                                         *)
(* Time is the local date and the minute of the day.  What Dodo IS answers *)
(* for a window is the takings of every minute in it: a unit takes Rate[p] *)
(* times the day of the month in every minute, the same in every year, so  *)
(* that like for like is visible as equality and a day counted twice or    *)
(* left out as a difference.                                               *)
(***************************************************************************)
EXTENDS Integers, FiniteSets, Functions, Tables

CONSTANTS Pizzerias,    \* the pizzerias of the tenant
          Rate,         \* takings of a pizzeria in a minute of the first of a month
          Moments,      \* the moments at which somebody may open the board
          MaxBuilds     \* bound: payloads built

-----------------------------------------------------------------------------
(* The calendar. *)

Leap(y) == y % 4 = 0 /\ (y % 100 # 0 \/ y % 400 = 0)

DaysIn(y, m) == IF m = 2 THEN IF Leap(y) THEN 29 ELSE 28
                ELSE IF m \in {4, 6, 9, 11} THEN 30 ELSE 31

Dates == {d \in [y : Nat, m : 1..12, d : 1..31] : d.d <= DaysIn(d.y, d.m)}

\* The date n days before, for no more days than any month has.
DaysBefore(d, n) ==
    IF d.d > n THEN [d EXCEPT !.d = d.d - n]
    ELSE LET y == IF d.m = 1 THEN d.y - 1 ELSE d.y
             m == IF d.m = 1 THEN 12 ELSE d.m - 1
         IN [y |-> y, m |-> m, d |-> d.d - n + DaysIn(y, m)]

Yesterday(d) == DaysBefore(d, 1)

Earlier(d, e) == \/ d.y < e.y
                 \/ d.y = e.y /\ d.m < e.m
                 \/ d.y = e.y /\ d.m = e.m /\ d.d < e.d

Before(t, u) == Earlier(t.date, u.date) \/ (t.date = u.date /\ t.min < u.min)

\* The same date of the year before; the 29th of February becomes the 28th.
ShiftYear(d) == [y |-> d.y - 1, m |-> d.m,
                 d |-> IF d.d > DaysIn(d.y - 1, d.m) THEN 28 ELSE d.d]

First(d) == [d EXCEPT !.d = 1]

LastDayOfMonth(d) == [d EXCEPT !.d = DaysIn(d.y, d.m)]

ASSUME BoardWindowsAssumption ==
    /\ IsFiniteSet(Pizzerias) /\ Rate \in [Pizzerias -> Nat]
    /\ MaxBuilds \in Nat
    /\ Moments \subseteq [date : Dates, min : 0..1439, secs : BOOLEAN]

VARIABLES now,          \* the moment of the last build
          kept,         \* dodois_window_cache: <<kind, project, key>> -> takings
          history,      \* monthly_revenue_history: <<project, month>> -> takings
          payload,      \* the blocks of the last payload, a function of the projects
          builds        \* payloads built so far (bound)

vars == <<now, kept, history, payload, builds>>

-----------------------------------------------------------------------------
(* The windows. *)

FloorToHour(min) == 60 * (min \div 60)

\* Down up to half past and nothing more, else up; in the last half hour of
\* a day the hour above belongs to the next day, and the code takes the one below.
RoundToNearestHour(t) ==
    LET up == t.min % 60 > 30 \/ (t.min % 60 = 30 /\ t.secs)
    IN IF up /\ FloorToHour(t.min) + 60 < 1440 THEN FloorToHour(t.min) + 60
       ELSE FloorToHour(t.min)

At(d, min) == [date |-> d, min |-> min]

ComputeBoardWindows(t) ==
    LET start == First(t.date)
        done  == IF t.date = start THEN At(start, 0) ELSE At(Yesterday(t.date), t.min)
        week  == DaysBefore(t.date, 7)
        ly    == ShiftYear(t.date)
    IN [today     |-> [from |-> At(t.date, 0), to |-> At(t.date, t.min)],
        last_week |-> [from |-> At(week, 0), to |-> At(week, RoundToNearestHour(t))],
        mtd       |-> [from |-> At(start, 0), to |-> done],
        mtd_lfl   |-> [from |-> At(ShiftYear(start), 0),
                       to |-> At(ShiftYear(done.date), done.min)],
        last_year_full_month |->
                      [from |-> At(ShiftYear(start), 0),
                       to |-> At(LastDayOfMonth(ShiftYear(start)), 1380)],
        ly_day    |-> [from |-> At(ly, 0), to |-> At(ly, FloorToHour(t.min))]]

\* Mutant of MtdDegenerate: today's window counts as one of finished days.
DegenerateBeforeTheFirst(w, t) == Earlier(t.date, w.mtd.to.date)

\* On the first there is no finished day: the window of the month is today's,
\* and the monthly endpoint would answer for today.
MtdDegenerate(w, t) == ~ Earlier(w.mtd.to.date, t.date)

EmptyLyDay(w) == w.ly_day.to = w.ly_day.from

\* The key a finished window is kept under: its end, to the hour.
ToKey(win) == <<win.to.date, win.to.min \div 60>>

-----------------------------------------------------------------------------
(* Dodo IS. *)

\* accounting/sales: the takings of the minutes of a window within one day.
SalesByChannel(p, win) == Rate[p] * win.from.date.d * (win.to.min - win.from.min)

\* finances/sales/units/monthly: whole days from one date to another; today's
\* is what it has taken by now.
MonthlyFull(p, from, to, t) ==
    SumFunction([k \in from.d..to.d |->
                   Rate[p] * k * (IF [from EXCEPT !.d = k] = t.date THEN t.min ELSE 1440)])

-----------------------------------------------------------------------------
(* A build. *)

Lookup(f, key, default) == IF key \in DOMAIN f THEN f[key] ELSE default

\* The kept rows of a kind, or what was fetched for the projects without one.
MergeWindow(kind, key, fetched) ==
    [p \in DOMAIN fetched |-> Lookup(kept, <<kind, p, key>>, fetched[p])]

Rows(kind, key, merged) ==
    [k \in {<<kind, p, key>> : p \in DOMAIN merged} |-> merged[k[2]]]

LyFullMonth(S, w, t) ==
    [p \in S |-> Lookup(history, <<p, w.last_year_full_month.from.date>>,
                        MonthlyFull(p, w.last_year_full_month.from.date,
                                    w.last_year_full_month.to.date, t))]

\* forecast_month: the value is what <<a, b, c>> stands for, a times b over c.
ForecastMonth(mtd, mtdLfl, lyFull, days, passed) ==
    IF mtd <= 0 THEN [value |-> <<>>, method |-> "none"]
    ELSE IF mtdLfl > 0 /\ lyFull > 0
         THEN [value |-> <<mtd, lyFull, mtdLfl>>, method |-> "lfl"]
    ELSE IF days > 0 /\ passed > 0
         THEN [value |-> <<mtd, days, passed>>, method |-> "pace"]
    ELSE [value |-> <<>>, method |-> "none"]

\* What one build reads: the kept rows first, Dodo IS for the rest.
Gathered(S, w, t) ==
    LET lw    == [p \in S |-> SalesByChannel(p, w.last_week)]
        lfl   == [p \in S |-> MonthlyFull(p, w.mtd_lfl.from.date, w.mtd_lfl.to.date, t)]
        lyDay == [p \in S |-> SalesByChannel(p, w.ly_day)]
        none  == [p \in S |-> 0]
    IN [today |-> [p \in S |-> SalesByChannel(p, w.today)],
        lw    |-> MergeWindow("sales_lw", ToKey(w.last_week), lw),
        mtd   |-> IF MtdDegenerate(w, t) THEN none
                  ELSE [p \in S |-> MonthlyFull(p, w.mtd.from.date, w.mtd.to.date, t)],
        lfl   |-> IF MtdDegenerate(w, t) THEN none
                  ELSE MergeWindow("monthly_lfl", ToKey(w.mtd_lfl), lfl),
        lyDay |-> IF EmptyLyDay(w) THEN none
                  ELSE MergeWindow("sales_ly_day", ToKey(w.ly_day), lyDay)]

\* The rows a build writes: what it fetched for the projects without one.
Written(g, w, t) ==
    Rows("sales_lw", ToKey(w.last_week), g.lw)
    ++ (IF MtdDegenerate(w, t) THEN <<>>
        ELSE Rows("monthly_lfl", ToKey(w.mtd_lfl), g.lfl))
    ++ (IF EmptyLyDay(w) THEN <<>>
        ELSE Rows("sales_ly_day", ToKey(w.ly_day), g.lyDay))

MetricBlock(value, baseline) == [value |-> value, baseline |-> baseline]

\* The blocks of a project; the month is the finished days and today.
Block(p, g, ly, w) ==
    [day      |-> MetricBlock(g.today[p], g.lw[p]),
     month    |-> MetricBlock(g.mtd[p] + g.today[p], g.lfl[p] + g.lyDay[p]),
     ly_full  |-> ly[p],
     forecast |-> ForecastMonth(g.mtd[p], g.lfl[p], ly[p],
                                w.last_year_full_month.to.date.d, w.mtd.to.date.d)]

\* The totals of the network are the sums of the blocks.
NetMonth(blocks) ==
    MetricBlock(SumFunction([p \in DOMAIN blocks |-> blocks[p].month.value]),
                SumFunction([p \in DOMAIN blocks |-> blocks[p].month.baseline]))

Init ==
    /\ now \in Moments
    /\ kept = <<>>
    /\ history = <<>>
    /\ payload = <<>>
    /\ builds = 0

\* Somebody opens the board with a selection of projects at moment t.  Rows
\* are insert-only: a row that is there already stays.
BuildBoardPayload(t, S) ==
    LET w  == ComputeBoardWindows(t)
        g  == Gathered(S, w, t)
        ly == LyFullMonth(S, w, t)
    IN /\ builds < MaxBuilds
       /\ ~ Before(t, now)
       /\ now' = t
       /\ kept' = kept ++ Written(g, w, t)
       /\ history' = history ++ [k \in {<<p, w.last_year_full_month.from.date>> : p \in S}
                                    |-> ly[k[1]]]
       /\ payload' = [p \in S |-> Block(p, g, ly, w)]
       /\ builds' = builds + 1

\* The full month of last year is asked for after the rows of the windows are
\* committed: when that call fails they stay, and there is no payload.
FullMonthFails(t, S) ==
    LET w == ComputeBoardWindows(t)
    IN /\ builds < MaxBuilds
       /\ ~ Before(t, now)
       /\ \E p \in S : <<p, w.last_year_full_month.from.date>> \notin DOMAIN history
       /\ now' = t
       /\ kept' = kept ++ Written(Gathered(S, w, t), w, t)
       /\ builds' = builds + 1
       /\ payload' = <<>>
       /\ UNCHANGED history

Next == \E t \in Moments, S \in SUBSET Pizzerias \ {{}} :
            BuildBoardPayload(t, S) \/ FullMonthFails(t, S)

Spec == Init /\ [][Next]_vars

-----------------------------------------------------------------------------
Blocks == DOMAIN payload

TypeOK ==
    /\ now \in Moments
    /\ \A k \in DOMAIN kept : kept[k] \in Nat
    /\ \A k \in DOMAIN history : history[k] \in Nat
    /\ Blocks \subseteq Pizzerias
    /\ builds \in 0..MaxBuilds

\* The month and its baseline count the same days once each: they differ by
\* the takings of less than an hour of today, for a project and for the network.
SameMonth ==
    LET net == NetMonth(payload)
        gap == SumFunction([p \in Blocks |-> 60 * Rate[p] * now.date.d])
    IN /\ \A p \in Blocks :
            LET b == payload[p].month
            IN b.value - b.baseline \in 0..(60 * Rate[p] * now.date.d)
       /\ net.value - net.baseline \in 0..gap

\* Today is compared with the same day of last week up to the nearest full
\* hour, in the last half hour of a day with the hour below.
SameDay ==
    \A p \in Blocks :
        LET rate == Rate[p] * DaysBefore(now.date, 7).d
        IN \E k \in 0..23 :
              /\ payload[p].day.baseline = rate * 60 * k
              /\ \/ now.min - 60 * k \in -30..30
                 \/ k = 23 /\ now.min > 1410

\* A month that repeats last year's is forecast to be last year's.
ForecastIsLastYears ==
    \A p \in Blocks :
        LET f == payload[p].forecast
        IN f.method = "lfl" => f.value[2] = payload[p].ly_full /\ f.value[1] = f.value[3]

\* The board compares like with like at every moment of a year whose date
\* exists in the year before, also over the rows it has kept.
LikeForLike ==
    /\ SameDay
    /\ ForecastIsLastYears
    /\ (now.date.m = 2 /\ now.date.d = 29) \/ SameMonth
=============================================================================
