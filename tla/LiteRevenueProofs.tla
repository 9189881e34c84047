------------------------- MODULE LiteRevenueProofs -------------------------
(***************************************************************************)
(* Proofs about LiteRevenue: how a range is cut into months, for every     *)
(* calendar, and the invariants of the jobs and of lite_revenue_cache.     *)
(***************************************************************************)
EXTENDS LiteRevenue, TLAPS

----------------------------------------------------------------------------
(* The calendar.                                                           *)

\* A day lies in its month.
LEMMA MonthOfDay ==
    ASSUME NEW d \in Days
    PROVE  /\ MonthOf[d] \in Months
           /\ First[MonthOf[d]] <= d
           /\ d < First[MonthOf[d] + 1]
<1>1. \E m \in Months : First[m] <= d /\ d < First[m + 1]
    BY CalendarAssumption
<1>2. MonthOf[d] = CHOOSE m \in Months : First[m] <= d /\ d < First[m + 1]
    BY DEF MonthOf
<1> QED BY <1>1, <1>2

\* First is a function on the months and the month after the last.
LEMMA FirstType ==
    ASSUME NEW m \in Months
    PROVE  /\ m \in Int /\ m + 1 \in 0..(LastMonth + 1) /\ m \in 0..(LastMonth + 1)
           /\ First[m] \in Int /\ First[m + 1] \in Int
           /\ First[m] < First[m + 1]
<1>1. m \in Int /\ m + 1 \in 0..(LastMonth + 1) /\ m \in 0..(LastMonth + 1) /\ m < m + 1
    BY CalendarAssumption DEF Months
<1> QED BY <1>1, CalendarAssumption

\* A later month begins no earlier.
LEMMA FirstMonotone ==
    ASSUME NEW m \in 0..(LastMonth + 1), NEW n \in 0..(LastMonth + 1), m <= n
    PROVE  First[m] <= First[n]
<1>1. First[m] \in Int /\ First[n] \in Int /\ m \in Int /\ n \in Int
    BY CalendarAssumption
<1>2. CASE m = n
    BY <1>1, <1>2
<1>3. CASE m < n
    BY <1>1, <1>3, CalendarAssumption
<1> QED BY <1>1, <1>2, <1>3

\* The month of a day is the only one it lies in.
LEMMA MonthIsUnique ==
    ASSUME NEW d \in Int, NEW m \in Months, First[m] <= d, d < First[m + 1]
    PROVE  d \in Days /\ MonthOf[d] = m
<1>1. d \in Days
    <2>1. First[0] <= First[m]
        BY FirstMonotone, FirstType, CalendarAssumption DEF Months
    <2>2. First[m + 1] <= First[LastMonth + 1]
        BY FirstMonotone, FirstType, CalendarAssumption DEF Months
    <2>3. First[0] \in Int /\ First[LastMonth + 1] \in Int /\ First[m] \in Int /\ First[m + 1] \in Int
        BY CalendarAssumption, FirstType
    <2> QED BY <2>1, <2>2, <2>3 DEF Days
<1>2. MonthOf[d] \in Months /\ First[MonthOf[d]] <= d /\ d < First[MonthOf[d] + 1]
    BY <1>1, MonthOfDay
<1> DEFINE n == MonthOf[d]
<1>3. n \in Months /\ First[n] <= d /\ d < First[n + 1]
    BY <1>2
<1> HIDE DEF n
<1>4. ~(n + 1 <= m)
    BY <1>3, FirstType, FirstMonotone
<1>5. ~(m + 1 <= n)
    BY <1>3, FirstType, FirstMonotone
<1>6. n = m
    BY <1>3, <1>4, <1>5, FirstType
<1> QED BY <1>1, <1>6 DEF n

\* The months of two days come in the order of the days.
LEMMA MonthOfMonotone ==
    ASSUME NEW d \in Days, NEW e \in Days, d <= e
    PROVE  MonthOf[d] <= MonthOf[e]
<1> DEFINE m == MonthOf[d]  n == MonthOf[e]
<1>1. m \in Months /\ First[m] <= d /\ d < First[m + 1]
    BY MonthOfDay
<1>2. n \in Months /\ First[n] <= e /\ e < First[n + 1]
    BY MonthOfDay
<1>3. d \in Int /\ e \in Int
    BY CalendarAssumption DEF Days
<1> HIDE DEF m, n
<1>4. ~(n + 1 <= m)
    BY <1>1, <1>2, <1>3, FirstType, FirstMonotone
<1>5. m <= n
    BY <1>1, <1>2, <1>4, FirstType
<1> QED BY <1>5 DEF m, n

\* A whole month is a range of days, and its month is the month it was made of.
LEMMA WholeMonthIsARange ==
    ASSUME NEW m \in Months
    PROVE  /\ WholeMonth(m) \in Range
           /\ MonthOf[WholeMonth(m).from] = m
           /\ MonthOf[WholeMonth(m).to] = m
           /\ \A d \in Days : d \in DaysOf(WholeMonth(m)) <=> MonthOf[d] = m
<1>1. First[m] \in Int /\ First[m + 1] \in Int /\ First[m] < First[m + 1]
    BY FirstType
<1>2. /\ First[m] \in Days /\ MonthOf[First[m]] = m
      /\ First[m + 1] - 1 \in Days /\ MonthOf[First[m + 1] - 1] = m
    BY <1>1, MonthIsUnique
<1>3. ASSUME NEW d \in Days
      PROVE  d \in DaysOf(WholeMonth(m)) <=> MonthOf[d] = m
    <2>1. d \in Int
        BY CalendarAssumption DEF Days
    <2>2. d \in DaysOf(WholeMonth(m)) <=> First[m] <= d /\ d < First[m + 1]
        BY <1>1, <2>1 DEF DaysOf, WholeMonth
    <2> QED BY <2>1, <2>2, MonthIsUnique, MonthOfDay
<1> QED BY <1>1, <1>2, <1>3 DEF WholeMonth, Range

\* The number of a month among the pieces of a range.
PieceOf(r, m) == m - MonthOf[r.from] + 1

\* The i-th piece of a range is the part of it that lies in its i-th month.
LEMMA PiecesOfARange ==
    ASSUME NEW r \in Range
    PROVE  /\ Split[r] \in Seq(Range)
           /\ Len(Split[r]) = PieceOf(r, MonthOf[r.to])
           /\ Len(Split[r]) \in Nat \ {0}
           /\ \A i \in 1..Len(Split[r]) :
                /\ MonthOf[r.from] + i - 1 \in Months
                /\ MonthOf[Split[r][i].from] = MonthOf[r.from] + i - 1
                /\ \A d \in Days :
                     d \in DaysOf(Split[r][i]) <=>
                         d \in DaysOf(r) /\ PieceOf(r, MonthOf[d]) = i
<1> DEFINE a == MonthOf[r.from]
           b == MonthOf[r.to]
           n == b - a + 1
<1>1. r.from \in Days /\ r.to \in Days /\ r.from <= r.to /\ r.from \in Int /\ r.to \in Int
    BY CalendarAssumption DEF Range, Days
<1>2. a \in Months /\ First[a] <= r.from /\ r.from < First[a + 1]
    BY <1>1, MonthOfDay
<1>3. b \in Months /\ First[b] <= r.to /\ r.to < First[b + 1]
    BY <1>1, MonthOfDay
<1>4. a <= b
    BY <1>1, MonthOfMonotone
<1>5. a \in Int /\ b \in Int /\ 0 <= a /\ b <= LastMonth /\ n \in Nat \ {0}
    <2>1. a \in 0..LastMonth /\ b \in 0..LastMonth
        BY <1>2, <1>3 DEF Months
    <2>2. LastMonth \in Nat
        BY CalendarAssumption
    <2> HIDE DEF a, b
    <2> QED BY <1>4, <2>1, <2>2
<1>6. Split[r] = [i \in 1..n |->
                    [from |-> IF i = 1 THEN r.from ELSE First[a + i - 1],
                     to   |-> Earlier(First[a + i - 1 + 1] - 1, r.to)]]
    BY DEF Split
<1> HIDE DEF a, b, n
<1>7. ASSUME NEW i \in 1..n
      PROVE  /\ a + i - 1 \in Months
             /\ Split[r][i] \in Range
             /\ MonthOf[Split[r][i].from] = a + i - 1
             /\ \A d \in Days : d \in DaysOf(Split[r][i]) <=>
                    d \in DaysOf(r) /\ MonthOf[d] - a + 1 = i
    <2> DEFINE m == a + i - 1
               f == IF i = 1 THEN r.from ELSE First[m]
               t == Earlier(First[m + 1] - 1, r.to)
    <2>1. m \in Months /\ a <= m /\ m <= b /\ m \in Int
        BY <1>4, <1>5, CalendarAssumption DEF Months, n
    <2>2. Split[r][i] = [from |-> f, to |-> t]
        BY <1>6
    <2>3. First[m] \in Int /\ First[m + 1] \in Int /\ First[m] < First[m + 1]
        BY <2>1, FirstType
    <2>4. i = 1 <=> m = a
        BY <1>5, <2>1
    <2> HIDE DEF m
    <2>5. m # a => r.from < First[m]
        <3>1. m # a => a + 1 <= m
            BY <1>5, <2>1
        <3>2. m # a => First[a + 1] <= First[m]
            BY <3>1, <1>2, <2>1, FirstType, FirstMonotone
        <3> QED BY <1>1, <1>2, <3>2, <2>3, FirstType
    <2>6. m # b => First[m + 1] <= r.to
        <3>1. m # b => m + 1 <= b
            BY <1>5, <2>1
        <3>2. m # b => First[m + 1] <= First[b]
            BY <3>1, <1>3, <2>1, FirstType, FirstMonotone
        <3> QED BY <1>1, <1>3, <3>2, <2>3, FirstType
    <2>7. First[m] <= r.to
        BY <1>1, <1>3, <2>3, <2>6
    <2>8. f \in Int /\ First[m] <= f /\ f < First[m + 1] /\ f <= r.to /\ r.from <= f
        BY <1>1, <1>2, <2>3, <2>4, <2>5, <2>7
    <2>9. t \in Int /\ f <= t /\ t < First[m + 1] /\ t <= r.to
          /\ (t = First[m + 1] - 1 \/ t = r.to)
        BY <1>1, <2>3, <2>8 DEF Earlier
    <2>10. f = r.from \/ f = First[m]
        OBVIOUS
    <2> HIDE DEF f, t
    <2>11. f \in Days /\ MonthOf[f] = m
        BY <2>1, <2>8, MonthIsUnique
    <2>12. t \in Days
        BY <2>1, <2>3, <2>8, <2>9, MonthIsUnique
    <2>13. Split[r][i] \in Range
        BY <2>2, <2>9, <2>11, <2>12 DEF Range
    <2>14. ASSUME NEW d \in Days
           PROVE  d \in DaysOf(Split[r][i]) <=> d \in DaysOf(r) /\ MonthOf[d] - a + 1 = i
        <3>1. d \in Int
            BY CalendarAssumption DEF Days
        <3>2. MonthOf[d] \in Months /\ First[MonthOf[d]] <= d /\ d < First[MonthOf[d] + 1] /\ MonthOf[d] \in Int
            BY MonthOfDay, FirstType
        <3>3. MonthOf[d] = m <=> First[m] <= d /\ d < First[m + 1]
            BY <2>1, <3>1, <3>2, MonthIsUnique
        <3>4. MonthOf[d] - a + 1 = i <=> MonthOf[d] = m
            BY <1>5, <3>2 DEF m
        <3>5. d \in DaysOf(Split[r][i]) <=> f <= d /\ d <= t
            BY <2>2, <2>8, <2>9, <3>1 DEF DaysOf
        <3>6. d \in DaysOf(r) <=> r.from <= d /\ d <= r.to
            BY <1>1, <3>1 DEF DaysOf
        <3>7. (f <= d /\ d <= t) <=> (r.from <= d /\ d <= r.to /\ First[m] <= d /\ d < First[m + 1])
            BY <1>1, <2>3, <2>8, <2>9, <2>10, <3>1
        <3> QED BY <3>3, <3>4, <3>5, <3>6, <3>7
    <2>15. Split[r][i].from = f
        BY <2>2
    <2> QED BY <2>1, <2>11, <2>13, <2>14, <2>15 DEF m
<1>8. Len(Split[r]) = n /\ DOMAIN Split[r] = 1..n
    BY <1>5, <1>6
<1>9. Split[r] \in Seq(Range)
    <2>1. Split[r] \in [1..n -> Range]
        BY <1>6, <1>7
    <2> QED BY <2>1, <1>5
<1> QED
    BY <1>5, <1>7, <1>8, <1>9 DEF PieceOf, a, b, n

\* The pieces of a range (_split_range_by_month) cover it and do not overlap:
\* every day of the range is in exactly one piece and no other day is in any.
THEOREM EveryDayIsInOnePiece ==
    ASSUME NEW r \in Range, NEW d \in Days
    PROVE  /\ d \in DaysOf(r) =>
                \E i \in 1..Len(Split[r]) :
                    /\ d \in DaysOf(Split[r][i])
                    /\ \A k \in 1..Len(Split[r]) : d \in DaysOf(Split[r][k]) => k = i
           /\ d \notin DaysOf(r) =>
                \A i \in 1..Len(Split[r]) : d \notin DaysOf(Split[r][i])
<1> DEFINE i == PieceOf(r, MonthOf[d])
<1>1. \A k \in 1..Len(Split[r]) :
        d \in DaysOf(Split[r][k]) <=> d \in DaysOf(r) /\ i = k
    BY PiecesOfARange
<1>2. ASSUME d \in DaysOf(r)
      PROVE  i \in 1..Len(Split[r])
    <2>1. r.from \in Days /\ r.to \in Days /\ r.from <= d /\ d <= r.to
        BY <1>2, CalendarAssumption DEF Range, DaysOf, Days
    <2>2. MonthOf[r.from] <= MonthOf[d] /\ MonthOf[d] <= MonthOf[r.to]
        BY <2>1, MonthOfMonotone
    <2>3. MonthOf[r.from] \in Int /\ MonthOf[d] \in Int /\ MonthOf[r.to] \in Int
        BY <2>1, MonthOfDay, FirstType
    <2>4. Len(Split[r]) = MonthOf[r.to] - MonthOf[r.from] + 1
        BY PiecesOfARange DEF PieceOf
    <2> QED BY <2>2, <2>3, <2>4 DEF PieceOf
<1> HIDE DEF i
<1> QED BY <1>1, <1>2

\* The monthly breakdown (_months_between) and the pieces agree: a month is
\* listed exactly if it is a whole piece of the range.
THEOREM ListedMonthsAreWholePieces ==
    ASSUME NEW r \in Range, NEW m \in Months
    PROVE  m \in MonthsBetween(r) <=>
             \E i \in 1..Len(Split[r]) : Split[r][i] = WholeMonth(m)
<1> DEFINE a == MonthOf[r.from]
           b == MonthOf[r.to]
<1>1. r.from \in Days /\ r.to \in Days /\ r.from <= r.to /\ r.from \in Int /\ r.to \in Int
    BY CalendarAssumption DEF Range, Days
<1>2. a \in Months /\ b \in Months /\ a <= b /\ a \in Int /\ b \in Int /\ m \in Int
    BY <1>1, MonthOfDay, MonthOfMonotone, FirstType
<1>3. First[m] \in Int /\ First[m + 1] \in Int /\ First[m] < First[m + 1]
    BY FirstType
<1>4. Len(Split[r]) = b - a + 1
    BY PiecesOfARange DEF PieceOf
<1>5. First[a] <= r.from /\ r.from < First[a + 1] /\ First[b] <= r.to /\ r.to < First[b + 1]
    BY <1>1, MonthOfDay
<1>6. ASSUME m \in MonthsBetween(r)
      PROVE  \E i \in 1..Len(Split[r]) : Split[r][i] = WholeMonth(m)
    <2>1. a <= m /\ m <= b /\ First[m] >= r.from /\ First[m + 1] - 1 <= r.to
        BY <1>6, <1>2 DEF MonthsBetween
    <2> DEFINE i == m - a + 1
    <2>2. i \in 1..Len(Split[r]) /\ a + i - 1 = m
        BY <1>2, <1>4, <2>1
    <2>3. Split[r][i] = [from |-> IF i = 1 THEN r.from ELSE First[m],
                         to   |-> Earlier(First[m + 1] - 1, r.to)]
        BY <1>2, <1>4, <2>2 DEF Split
    <2>4. Earlier(First[m + 1] - 1, r.to) = First[m + 1] - 1
        BY <1>1, <1>3, <2>1 DEF Earlier
    <2>5. i = 1 => r.from = First[m]
        <3>1. i = 1 => m = a
            BY <1>2
        <3>2. m = a => First[m] <= r.from
            BY <1>5
        <3> QED BY <1>1, <1>3, <2>1, <3>1, <3>2
    <2>6. Split[r][i] = WholeMonth(m)
        BY <2>3, <2>4, <2>5 DEF WholeMonth
    <2> QED BY <2>2, <2>6
<1>7. ASSUME NEW i \in 1..Len(Split[r]), Split[r][i] = WholeMonth(m)
      PROVE  m \in MonthsBetween(r)
    <2>1. a + i - 1 = m
        BY <1>7, PiecesOfARange, WholeMonthIsARange
    <2>2. a <= m /\ m <= b
        BY <1>2, <1>4, <2>1
    <2>3. Split[r][i] = [from |-> IF i = 1 THEN r.from ELSE First[m],
                         to   |-> Earlier(First[m + 1] - 1, r.to)]
        BY <1>2, <1>4, <2>1 DEF Split
    <2>4. First[m] = (IF i = 1 THEN r.from ELSE First[m])
          /\ First[m + 1] - 1 = Earlier(First[m + 1] - 1, r.to)
        BY <1>7, <2>3 DEF WholeMonth
    <2>5. First[m + 1] - 1 <= r.to
        BY <1>1, <1>3, <2>4 DEF Earlier
    <2>6. First[m] >= r.from
        <3>1. CASE i = 1
            BY <1>1, <1>3, <2>4, <3>1
        <3>2. CASE i # 1
            <4>1. a + 1 <= m
                BY <1>2, <1>4, <2>1, <3>2
            <4>2. First[a + 1] <= First[m]
                BY <4>1, <1>2, FirstType, FirstMonotone
            <4> QED BY <1>1, <1>2, <1>3, <1>5, <4>2, FirstType
        <3> QED BY <3>1, <3>2
    <2> QED BY <1>2, <2>2, <2>5, <2>6 DEF MonthsBetween
<1> HIDE DEF a, b
<1> QED BY <1>6, <1>7

----------------------------------------------------------------------------
(* Types.                                                                  *)

\* What an answer adds to a total keeps it a total.
LEMMA PlusType ==
    ASSUME NEW total \in [Projects -> [Days -> Nat]], NEW S
    PROVE  /\ Plus(total, S) \in [Projects -> [Days -> Nat]]
           /\ \A p \in Projects, d \in Days :
                Plus(total, S)[p][d] = total[p][d] + IF d \in S[p] THEN 1 ELSE 0
BY DEF Plus

LEMMA MonthsOfTheWindow ==
    ASSUME NEW c \in Months, NEW q, q = ClosedMonthsWindow(c)
    PROVE  /\ q \in Seq(Range)
           /\ \A i \in 1..Len(q) : \E m \in Months :
                q[i] = WholeMonth(m) /\ ~InLiveWindow(m, c)
<1> DEFINE n == Back(c) - LiveMonths + 1
<1>1. c \in Int /\ 0 <= c /\ c <= LastMonth /\ LastMonth \in Nat
    BY CalendarAssumption DEF Months
<1>2. Back(c) \in Int /\ Back(c) <= c /\ LiveMonths \in Nat /\ LiveMonths >= 1
    BY <1>1, TenantAssumption DEF Back, LiveMonths
<1>3. n \in Int
    BY <1>2
<1>4. q = [i \in 1..n |-> WholeMonth(c - LiveMonths - i + 1)]
    BY DEF ClosedMonthsWindow
<1>5. ASSUME NEW i \in 1..n
      PROVE  /\ q[i] \in Range
             /\ \E m \in Months : q[i] = WholeMonth(m) /\ ~InLiveWindow(m, c)
    <2> DEFINE m == c - LiveMonths - i + 1
    <2>1. i \in Int /\ 1 <= i /\ i <= n
        BY <1>3
    <2>2. m \in Months /\ ~InLiveWindow(m, c)
        BY <1>1, <1>2, <2>1 DEF Months, InLiveWindow
    <2>3. q[i] = WholeMonth(m)
        BY <1>4
    <2> HIDE DEF m
    <2> QED BY <2>2, <2>3, WholeMonthIsARange
<1> HIDE DEF n
<1>6. CASE n \in Nat
    <2>1. q \in [1..n -> Range]
        BY <1>4, <1>5
    <2>2. q \in Seq(Range) /\ Len(q) = n
        BY <1>4, <1>6, <2>1
    <2> QED BY <2>2, <1>5
<1>7. CASE n \notin Nat
    <2>1. 1..n = {}
        BY <1>3, <1>7
    <2>2. q \in [1..0 -> Range]
        BY <1>4, <2>1
    <2>3. q = <<>>
        BY <1>4, <2>1
    <2> QED BY <2>3
<1> QED BY <1>6, <1>7

\* An owner of a unit's rows is a project.
LEMMA OwnersType ==
    ASSUME NEW l, NEW S \in Owners(l)
    PROVE  S \in SUBSET Projects
BY DEF Owners

\* A job with a range to answer has it at the head of its list.
LEMMA HeadType ==
    ASSUME NEW q \in Seq(Range), q # <<>>
    PROVE  /\ Head(q) \in Range
           /\ Tail(q) \in Seq(Range)
OBVIOUS

LEMMA TypeInit == Init => TypeOK
<1> SUFFICES ASSUME Init PROVE TypeOK
    OBVIOUS
<1>1. First[0] \in Days /\ First[0] \in Int /\ 0 \in Months
    <2>1. 0 \in Months
        BY CalendarAssumption DEF Months
    <2>2. First[0] \in Int /\ First[0] < First[0 + 1]
        BY <2>1, FirstType
    <2>3. First[0] \in Int /\ First[0] <= First[0] /\ First[0] < First[0 + 1]
        BY <2>2
    <2> QED BY <2>1, <2>3, MonthIsUnique
<1>2. Nothing \in [Projects -> [Days -> Nat]]
    BY DEF Nothing
<1> QED BY <1>1, <1>2 DEF Init, TypeOK, Places

\* The effect of Forget and End on the types.
LEMMA ForgetType ==
    ASSUME TypeOK, NEW j \in Jobs, Forget(j)
    PROVE  /\ cur' \in [Jobs -> Months]
           /\ piece' \in [Jobs -> Nat \ {0}]
           /\ asked' \in [Jobs -> SUBSET Projects]
           /\ count' \in [Jobs -> [Projects -> [Days -> Nat]]]
           /\ since' \in [Jobs -> Days]
<1>1. First[0] \in Days /\ 0 \in Months
    <2>1. 0 \in Months
        BY CalendarAssumption DEF Months
    <2>2. First[0] \in Int /\ First[0] <= First[0] /\ First[0] < First[0 + 1]
        BY <2>1, FirstType
    <2> QED BY <2>1, <2>2, MonthIsUnique
<1>2. Nothing \in [Projects -> [Days -> Nat]]
    BY DEF Nothing
<1> QED BY <1>1, <1>2 DEF TypeOK, Forget

LEMMA EndType ==
    ASSUME TypeOK, NEW j \in Jobs, End(j)
    PROVE  /\ pc' \in [Jobs -> Places]
           /\ todo' \in [Jobs -> Seq(Range)]
           /\ \A i \in Jobs : pc'[i] # "idle" => todo'[i] # <<>>
           /\ linked' \in [Jobs -> SUBSET Projects]
           /\ owns' \in [Jobs -> SUBSET Projects]
           /\ warming' \subseteq Jobs
BY DEF TypeOK, End, Places

\* Setting out, once the list is known to be one of ranges.
LEMMA SetOutType ==
    ASSUME TypeOK, NEW j \in Jobs, NEW q \in Seq(Range), q # <<>>,
           SetOut(j, q), warming' \subseteq Jobs
    PROVE  TypeOK'
<1>1. PICK S \in Owners(link) :
        /\ pc' = [pc EXCEPT ![j] = "open"]
        /\ todo' = [todo EXCEPT ![j] = q]
        /\ linked' = [linked EXCEPT ![j] = {p \in Projects : link[p] # NoUnit}]
        /\ owns' = [owns EXCEPT ![j] = S]
    BY DEF SetOut
<1>2. S \in SUBSET Projects
    BY <1>1, OwnersType
<1>3. pc' \in [Jobs -> Places] /\ todo' \in [Jobs -> Seq(Range)]
      /\ \A i \in Jobs : pc'[i] # "idle" => todo'[i] # <<>>
    BY <1>1 DEF TypeOK, Places
<1>4. linked' \in [Jobs -> SUBSET Projects] /\ owns' \in [Jobs -> SUBSET Projects]
    BY <1>1, <1>2 DEF TypeOK
<1>5. UNCHANGED <<today, server, link, kept, cur, piece, asked, count, since>>
    BY DEF SetOut, clock
<1> QED BY <1>3, <1>4, <1>5 DEF TypeOK

LEMMA AddType ==
    ASSUME TypeOK, NEW j \in Jobs, NEW S, Add(j, S), UNCHANGED kept, pc[j] # "idle"
    PROVE  TypeOK'
<1>1. count' \in [Jobs -> [Projects -> [Days -> Nat]]]
    <2>1. Plus(count[j], S) \in [Projects -> [Days -> Nat]]
        BY PlusType DEF TypeOK
    <2> QED BY <2>1 DEF TypeOK, Add
<1>2. piece' \in [Jobs -> Nat \ {0}]
    BY DEF TypeOK, Add
<1>3. pc' \in [Jobs -> Places] /\ asked' \in [Jobs -> SUBSET Projects]
      /\ \A i \in Jobs : pc'[i] # "idle" => todo'[i] # <<>>
    BY DEF TypeOK, Add, Places
<1>4. UNCHANGED <<today, server, link, warming, todo, linked, owns, cur, since>>
    BY DEF Add, clock
<1> QED BY <1>1, <1>2, <1>3, <1>4 DEF TypeOK

LEMMA CallType ==
    ASSUME TypeOK, NEW j \in Jobs, NEW where \in Places, NEW wanted \in SUBSET Projects,
           Call(j, where, wanted), pc[j] # "idle"
    PROVE  TypeOK'
<1>1. pc' \in [Jobs -> Places] /\ asked' \in [Jobs -> SUBSET Projects]
      /\ \A i \in Jobs : pc'[i] # "idle" => todo'[i] # <<>>
    BY DEF TypeOK, Call, Places
<1>2. UNCHANGED <<today, server, link, kept, warming, todo, linked, owns, cur,
                  piece, count, since>>
    BY DEF Call, clock
<1> QED BY <1>1, <1>2 DEF TypeOK

LEMMA NextRangeType ==
    ASSUME TypeOK, NEW j \in Jobs, NextRange(j), pc[j] # "idle"
    PROVE  TypeOK'
<1>1. /\ cur' \in [Jobs -> Months]
      /\ piece' \in [Jobs -> Nat \ {0}]
      /\ asked' \in [Jobs -> SUBSET Projects]
      /\ count' \in [Jobs -> [Projects -> [Days -> Nat]]]
      /\ since' \in [Jobs -> Days]
    BY ForgetType DEF NextRange
<1>2. /\ pc' \in [Jobs -> Places]
      /\ todo' \in [Jobs -> Seq(Range)]
      /\ \A i \in Jobs : pc'[i] # "idle" => todo'[i] # <<>>
      /\ linked' \in [Jobs -> SUBSET Projects]
      /\ owns' \in [Jobs -> SUBSET Projects]
      /\ warming' \subseteq Jobs
    <2>1. CASE Tail(todo[j]) = <<>> /\ End(j)
        BY <2>1, EndType
    <2>2. CASE /\ Tail(todo[j]) # <<>>
               /\ pc' = [pc EXCEPT ![j] = "open"]
               /\ todo' = [todo EXCEPT ![j] = Tail(todo[j])]
               /\ UNCHANGED <<linked, owns, warming>>
        <3>1. Tail(todo[j]) \in Seq(Range)
            BY HeadType DEF TypeOK
        <3> QED BY <2>2, <3>1 DEF TypeOK, Places
    <2> QED BY <2>1, <2>2 DEF NextRange
<1>3. UNCHANGED <<today, server, link, kept>>
    BY DEF NextRange, clock
<1> QED BY <1>1, <1>2, <1>3 DEF TypeOK

LEMMA TypeNext == TypeOK /\ [Next]_vars => TypeOK'
<1> SUFFICES ASSUME TypeOK, [Next]_vars PROVE TypeOK'
    OBVIOUS
<1>1. ASSUME NEW j \in Jobs, Ask(j) PROVE TypeOK'
    <2>1. PICK q \in Requests : SetOut(j, q) /\ UNCHANGED warming
        BY <1>1 DEF Ask
    <2>2. q \in Seq(Range) /\ q # <<>>
        BY TenantAssumption
    <2> QED BY <2>1, <2>2, SetOutType DEF TypeOK
<1>2. ASSUME NEW j \in Jobs, Warm(j) PROVE TypeOK'
    <2> DEFINE q == ClosedMonthsWindow(MonthOf[server])
    <2>1. MonthOf[server] \in Months
        BY MonthOfDay DEF TypeOK
    <2>2. q \in Seq(Range)
        BY <2>1, MonthsOfTheWindow
    <2>3. SetOut(j, q) /\ q # <<>> /\ warming' = {j}
        BY <1>2 DEF Warm
    <2> HIDE DEF q
    <2> QED BY <2>2, <2>3, SetOutType
<1>3. ASSUME NEW j \in Jobs, Open(j) PROVE TypeOK'
    <2>1. MonthOf[server] \in Months
        BY MonthOfDay DEF TypeOK
    <2>2. Nothing \in [Projects -> [Days -> Nat]]
        BY DEF Nothing
    <2>3. pc' \in [Jobs -> Places] /\ \A i \in Jobs : pc'[i] # "idle" => todo'[i] # <<>>
        BY <1>3 DEF TypeOK, Open, Places
    <2> QED BY <1>3, <2>1, <2>2, <2>3 DEF TypeOK, Open, clock
<1>4. ASSUME NEW j \in Jobs, SkipLive(j) PROVE TypeOK'
    BY <1>4, AddType DEF SkipLive, AtPiece
<1>5. ASSUME NEW j \in Jobs, AskLive(j) PROVE TypeOK'
    <2>1. linked[j] \in SUBSET Projects
        BY DEF TypeOK
    <2> QED BY <1>5, <2>1, CallType DEF AskLive, AtPiece, Places
<1>6. ASSUME NEW j \in Jobs, AnswerLive(j) PROVE TypeOK'
    BY <1>6, AddType DEF AnswerLive
<1>7. ASSUME NEW j \in Jobs, ReadKept(j) PROVE TypeOK'
    BY <1>7, AddType DEF ReadKept, AtPiece, FromTable
<1>8. ASSUME NEW j \in Jobs, AskMissing(j) PROVE TypeOK'
    <2>1. Missing(j) \in SUBSET Projects
        BY DEF TypeOK, Missing
    <2> QED BY <1>8, <2>1, CallType DEF AskMissing, AtPiece, Places
<1>9. ASSUME NEW j \in Jobs, Keep(j) PROVE TypeOK'
    <2>1. \A p \in Projects : Rows(j)[p] \in SUBSET Days
        BY DEF Rows, Sold
    <2>2. kept' \in [Projects -> [Months -> SUBSET SUBSET Days]]
        <3> DEFINE m == MonthOfPiece(j)
                   new(p) == IF p \in asked[j]
                             THEN [kept[p] EXCEPT ![m] = {Rows(j)[p]}]
                             ELSE kept[p]
        <3>1. ASSUME NEW p \in Projects
              PROVE  new(p) \in [Months -> SUBSET SUBSET Days]
            <4>1. kept[p] \in [Months -> SUBSET SUBSET Days]
                BY DEF TypeOK
            <4>2. {Rows(j)[p]} \in SUBSET SUBSET Days
                BY <2>1
            <4> HIDE DEF m
            <4> QED BY <4>1, <4>2
        <3>2. kept' = [p \in Projects |-> new(p)]
            BY <1>9 DEF Keep
        <3> HIDE DEF new
        <3> QED BY <3>1, <3>2
    <2>3. pc' \in [Jobs -> Places] /\ \A i \in Jobs : pc'[i] # "idle" => todo'[i] # <<>>
        BY <1>9 DEF TypeOK, Keep, Places
    <2> QED BY <1>9, <2>2, <2>3 DEF TypeOK, Keep, clock
<1>10. ASSUME NEW j \in Jobs, Reread(j) PROVE TypeOK'
    BY <1>10, AddType DEF Reread, FromTable
<1>11. ASSUME NEW j \in Jobs, Deliver(j) PROVE TypeOK'
    BY <1>11, NextRangeType DEF Deliver
<1>12. ASSUME NEW j \in Jobs, Fail(j) PROVE TypeOK'
    BY <1>12, NextRangeType DEF Fail, AtPiece
<1>13. ASSUME NEW j \in Jobs, Abort(j) PROVE TypeOK'
    <2>1. Forget(j) /\ End(j) /\ UNCHANGED <<today, server, link, kept>>
        BY <1>13 DEF Abort, clock
    <2> QED BY <2>1, ForgetType, EndType DEF TypeOK
<1>14. ASSUME MoscowMidnight PROVE TypeOK'
    BY <1>14, CalendarAssumption DEF MoscowMidnight, TypeOK, others, Days
<1>15. ASSUME ServerMidnight PROVE TypeOK'
    BY <1>15, CalendarAssumption DEF ServerMidnight, TypeOK, others, Days
<1>16. ASSUME Relink PROVE TypeOK'
    BY <1>16 DEF Relink, TypeOK, others, clock
<1>17. CASE UNCHANGED vars
    BY <1>17 DEF vars, TypeOK
<1> QED
    BY <1>1, <1>2, <1>3, <1>4, <1>5, <1>6, <1>7, <1>8, <1>9, <1>10, <1>11,
       <1>12, <1>13, <1>14, <1>15, <1>16, <1>17 DEF Next, Step

\* The state has its types, for every calendar, tenant and set of requests.
THEOREM TypeCorrect == Spec => []TypeOK
BY TypeInit, TypeNext, PTL DEF Spec

----------------------------------------------------------------------------
(* The inductive invariant: what is known of every job while it works, and *)
(* of the table.                                                           *)

Busy == {"piece", "live", "fetch", "reread"}

\* The number of the piece a day belongs to, in the range a job answers.
PieceOfDay(j, d) == PieceOf(Head(todo[j]), MonthOf[d])

\* The job's month is no later than today's, and its range was begun before.
ClockOK(j) == First[cur[j]] <= today /\ since[j] <= today

\* As long as units are not shared every linked project gets its unit's rows.
OwnsOK(j) == OneProjectPerUnit => owns[j] = linked[j]

\* What a job waits for, and what the table has for the projects it does not
\* ask for.
PlaceOK(j) ==
    /\ pc[j] \in {"live", "fetch", "reread"} => ~AllPiecesDone(j)
    /\ pc[j] = "live" => ~Closed(Piece(j), cur[j])
    /\ pc[j] \in {"fetch", "reread"} =>
        Closed(Piece(j), cur[j]) /\ asked[j] \subseteq linked[j]
    /\ pc[j] = "fetch" =>
        \A p \in linked[j] : p \in asked[j] \/ kept[p][MonthOfPiece(j)] # {}
    /\ pc[j] = "reread" => \A p \in linked[j] : kept[p][MonthOfPiece(j)] # {}

\* The total contains the days of the pieces that are done, each of them once.
Counted(j) ==
    pc[j] \in Busy =>
        \A p \in Projects, d \in Days :
            /\ count[j][p][d] \in {0, 1}
            /\ count[j][p][d] = 1 =>
                d \in DaysOf(Head(todo[j])) /\ PieceOfDay(j, d) < piece[j]
            /\ OneProjectPerUnit /\ p \in linked[j] /\ d < since[j]
                 /\ d \in DaysOf(Head(todo[j])) /\ PieceOfDay(j, d) < piece[j]
               => count[j][p][d] = 1

\* A sequence of whole months that are closed in month c.
ClosedIn(q, c) ==
    \A i \in 1..Len(q) : \E m \in Months : q[i] = WholeMonth(m) /\ ~InLiveWindow(m, c)

\* A warm-up answers closed months, and after their only piece the row is there.
WarmOK(j) ==
    j \in warming =>
        /\ pc[j] # "idle"
        /\ ClosedIn(todo[j], MonthOf[server])
        /\ pc[j] \in Busy => \E m \in Months :
             Head(todo[j]) = WholeMonth(m) /\ ~InLiveWindow(m, cur[j])
        /\ pc[j] \in Busy /\ piece[j] > 1 =>
             \A p \in linked[j] : kept[p][MonthOf[Head(todo[j]).from]] # {}

JobOK(j) == ClockOK(j) /\ OwnsOK(j) /\ PlaceOK(j) /\ Counted(j) /\ WarmOK(j)

TableOK ==
    /\ OnlyWholeMonthsAreKept
    /\ OneProjectPerUnit => \A p \in Projects, m \in Months : kept[p][m] # {{}}

IInv == TypeOK /\ TableOK /\ \A j \in Jobs : JobOK(j)

\* With units that are not shared the owners of the rows are the linked projects.
LEMMA OwnersAreLinked ==
    ASSUME OneProjectPerUnit, NEW l \in Links, NEW S \in Owners(l)
    PROVE  S = {p \in Projects : l[p] # NoUnit}
<1>1. S \subseteq {p \in Projects : l[p] # NoUnit}
    BY DEF Owners
<1>2. ASSUME NEW p \in Projects, l[p] # NoUnit
      PROVE  p \in S
    <2>1. PICK q \in S : l[q] = l[p]
        BY <1>2 DEF Owners
    <2>2. q = p
        BY <1>1, <1>2, <2>1 DEF OneProjectPerUnit
    <2> QED BY <2>1, <2>2
<1> QED BY <1>1, <1>2

\* A whole month is cut into one piece, itself.
LEMMA WholeMonthIsOnePiece ==
    ASSUME NEW m \in Months
    PROVE  Len(Split[WholeMonth(m)]) = 1 /\ Split[WholeMonth(m)][1] = WholeMonth(m)
<1>1. WholeMonth(m) \in Range /\ MonthOf[WholeMonth(m).from] = m /\ MonthOf[WholeMonth(m).to] = m
    BY WholeMonthIsARange
<1>2. Len(Split[WholeMonth(m)]) = 1
    <2>1. Len(Split[WholeMonth(m)]) = m - m + 1
        BY <1>1, PiecesOfARange DEF PieceOf
    <2> QED BY <2>1, FirstType
<1>3. m \in MonthsBetween(WholeMonth(m))
    BY <1>1, FirstType DEF MonthsBetween, WholeMonth
<1>4. \E i \in 1..Len(Split[WholeMonth(m)]) : Split[WholeMonth(m)][i] = WholeMonth(m)
    BY <1>1, <1>3, ListedMonthsAreWholePieces
<1> QED BY <1>2, <1>4

\* A day of a range is in a piece with a number from 1 to the number of pieces.
LEMMA PieceOfDayInRange ==
    ASSUME NEW r \in Range, NEW d \in Days, d \in DaysOf(r)
    PROVE  PieceOf(r, MonthOf[d]) \in 1..Len(Split[r])
<1>1. PICK i \in 1..Len(Split[r]) : d \in DaysOf(Split[r][i])
    BY EveryDayIsInOnePiece
<1> QED BY <1>1, PiecesOfARange

\* A month that is closed by a clock that is not ahead is over.
LEMMA ClosedMonthIsOver ==
    ASSUME NEW m \in Months, NEW c \in Months, NEW t \in Int,
           ~InLiveWindow(m, c), First[c] <= t
    PROVE  \A d \in DaysOf(WholeMonth(m)) : d < t
<1>1. m \in Int /\ c \in Int /\ LiveMonths \in Int /\ LiveMonths >= 1
    BY FirstType, TenantAssumption DEF LiveMonths
<1>2. m + 1 <= c
    BY <1>1 DEF InLiveWindow
<1>3. First[m + 1] <= First[c]
    BY <1>2, FirstType, FirstMonotone
<1>4. First[m] \in Int /\ First[m + 1] \in Int /\ First[c] \in Int
    BY FirstType
<1> QED BY <1>3, <1>4 DEF DaysOf, WholeMonth

\* What is closed stays closed when the clock goes on.
LEMMA ClosedStaysClosed ==
    ASSUME NEW m \in Months, NEW c \in Months, NEW e \in Months, c <= e,
           ~InLiveWindow(m, c)
    PROVE  ~InLiveWindow(m, e)
<1>1. m \in Int /\ c \in Int /\ e \in Int /\ LiveMonths \in Int
    BY FirstType, TenantAssumption DEF LiveMonths
<1> QED BY <1>1 DEF InLiveWindow

\* A job that takes no part in a step keeps its invariant while the clocks go
\* on, rows are added and the set of warm-ups loses others.
LEMMA JobFrame ==
    ASSUME TypeOK, TypeOK', NEW i \in Jobs, JobOK(i),
           pc'[i] = pc[i], todo'[i] = todo[i], linked'[i] = linked[i],
           owns'[i] = owns[i], cur'[i] = cur[i], piece'[i] = piece[i],
           asked'[i] = asked[i], count'[i] = count[i], since'[i] = since[i],
           i \in warming' => i \in warming,
           today <= today', server <= server',
           \A p \in Projects, m \in Months : kept[p][m] # {} => kept'[p][m] # {}
    PROVE  JobOK(i)'
<1>1. ClockOK(i)'
    <2>1. today \in Int /\ today' \in Int /\ since[i] \in Int /\ First[cur[i]] \in Int
        BY FirstType, CalendarAssumption DEF TypeOK, Days
    <2> QED BY <2>1 DEF JobOK, ClockOK
<1>2. OwnsOK(i)'
    BY DEF JobOK, OwnsOK
<1>3. ~AllPiecesDone(i) /\ pc[i] # "idle" => MonthOfPiece(i) \in Months
    <2> SUFFICES ASSUME ~AllPiecesDone(i), pc[i] # "idle" PROVE MonthOfPiece(i) \in Months
        OBVIOUS
    <2>1. Head(todo[i]) \in Range
        BY HeadType DEF TypeOK
    <2>2. piece[i] \in 1..Len(Split[Head(todo[i])])
        BY <2>1, PiecesOfARange DEF TypeOK, AllPiecesDone
    <2> QED BY <2>1, <2>2, PiecesOfARange DEF MonthOfPiece, Piece
<1>4. PlaceOK(i)'
    <2>1. linked[i] \subseteq Projects
        BY DEF TypeOK
    <2>2. AllPiecesDone(i)' = AllPiecesDone(i) /\ Piece(i)' = Piece(i)
          /\ MonthOfPiece(i)' = MonthOfPiece(i)
        BY DEF AllPiecesDone, Piece, MonthOfPiece
    <2> QED BY <1>3, <2>1, <2>2 DEF JobOK, PlaceOK
<1>5. Counted(i)'
    BY DEF JobOK, Counted, PieceOfDay
<1>6. WarmOK(i)'
    <2> SUFFICES ASSUME i \in warming PROVE WarmOK(i)'
        BY DEF WarmOK
    <2>1. MonthOf[server] \in Months /\ MonthOf[server'] \in Months
          /\ MonthOf[server] <= MonthOf[server']
        BY MonthOfDay, MonthOfMonotone DEF TypeOK
    <2>2. ClosedIn(todo[i], MonthOf[server'])
        BY <2>1, ClosedStaysClosed DEF JobOK, WarmOK, ClosedIn
    <2>3. linked[i] \subseteq Projects
        BY DEF TypeOK
    <2>4. pc[i] # "idle" => MonthOf[Head(todo[i]).from] \in Months
        BY HeadType, MonthOfDay DEF TypeOK, Range
    <2> QED BY <2>2, <2>3, <2>4 DEF JobOK, WarmOK
<1> QED BY <1>1, <1>2, <1>4, <1>5, <1>6 DEF JobOK

\* The jobs other than j are as they were.
OnlyMoves(j) ==
    \A i \in Jobs \ {j} :
        /\ pc'[i] = pc[i] /\ todo'[i] = todo[i] /\ linked'[i] = linked[i]
        /\ owns'[i] = owns[i] /\ cur'[i] = cur[i] /\ piece'[i] = piece[i]
        /\ asked'[i] = asked[i] /\ count'[i] = count[i] /\ since'[i] = since[i]
        /\ i \in warming' => i \in warming

RowsStay == \A p \in Projects, m \in Months : kept[p][m] # {} => kept'[p][m] # {}

\* A step of one job preserves the invariant if it preserves it for that job and
\* for the table.
LEMMA JobStep ==
    ASSUME IInv, TypeOK', NEW j \in Jobs, OnlyMoves(j), RowsStay,
           UNCHANGED <<today, server>>, TableOK', JobOK(j)'
    PROVE  IInv'
<1>1. ASSUME NEW i \in Jobs, i # j
      PROVE  JobOK(i)'
    <2>1. TypeOK /\ JobOK(i)
        BY DEF IInv
    <2>2. today <= today' /\ server <= server'
        BY CalendarAssumption, <2>1 DEF TypeOK, Days
    <2> QED BY <1>1, <2>1, <2>2, JobFrame DEF OnlyMoves, RowsStay
<1> QED BY <1>1 DEF IInv

LEMMA SetOutInv ==
    ASSUME IInv, TypeOK', NEW j \in Jobs, NEW q, SetOut(j, q),
           \/ UNCHANGED warming
           \/ warming = {} /\ warming' = {j} /\ ClosedIn(q, MonthOf[server])
    PROVE  IInv'
<1>1. TypeOK /\ JobOK(j) /\ TableOK
    BY DEF IInv
<1>2. PICK S \in Owners(link) :
        /\ pc' = [pc EXCEPT ![j] = "open"]
        /\ todo' = [todo EXCEPT ![j] = q]
        /\ linked' = [linked EXCEPT ![j] = {p \in Projects : link[p] # NoUnit}]
        /\ owns' = [owns EXCEPT ![j] = S]
    BY DEF SetOut
<1>3. UNCHANGED <<today, server, link, kept, cur, piece, asked, count, since>>
      /\ pc[j] = "idle"
    BY DEF SetOut, clock
<1>4. pc'[j] = "open" /\ todo'[j] = q /\ owns'[j] = S
      /\ linked'[j] = {p \in Projects : link[p] # NoUnit}
    BY <1>1, <1>2 DEF TypeOK
<1>5. j \notin warming
    BY <1>1, <1>3 DEF JobOK, WarmOK
<1>6. OnlyMoves(j) /\ RowsStay
    BY <1>1, <1>2, <1>3 DEF OnlyMoves, RowsStay, TypeOK
<1>7. ClockOK(j)'
    BY <1>1, <1>3 DEF JobOK, ClockOK
<1>8. OwnsOK(j)'
    <2>1. link \in Links
        BY <1>1 DEF TypeOK
    <2> QED BY <1>4, <2>1, OwnersAreLinked DEF OwnsOK
<1>9. PlaceOK(j)' /\ Counted(j)'
    BY <1>4 DEF PlaceOK, Counted, Busy
<1>10. WarmOK(j)'
    BY <1>3, <1>4, <1>5 DEF WarmOK, Busy
<1>11. TableOK'
    BY <1>1, <1>3 DEF TableOK, OnlyWholeMonthsAreKept
<1> QED BY <1>3, <1>6, <1>7, <1>8, <1>9, <1>10, <1>11, JobStep DEF JobOK

LEMMA OpenInv ==
    ASSUME IInv, TypeOK', NEW j \in Jobs, Open(j)
    PROVE  IInv'
<1>1. TypeOK /\ JobOK(j) /\ TableOK
    BY DEF IInv
<1>2. UNCHANGED <<today, server, link, kept, warming, todo, linked, owns, asked>>
      /\ pc[j] = "open"
    BY DEF Open, clock
<1>3. pc'[j] = "piece" /\ cur'[j] = MonthOf[server] /\ piece'[j] = 1
      /\ count'[j] = Nothing /\ since'[j] = today
    BY <1>1 DEF Open, TypeOK
<1>4. OnlyMoves(j) /\ RowsStay
    BY <1>1, <1>2 DEF OnlyMoves, RowsStay, TypeOK, Open
<1>5. ClockOK(j)'
    <2>1. server \in Days /\ server <= today /\ server \in Int /\ today \in Int
        BY <1>1, CalendarAssumption DEF TypeOK, Days
    <2>2. First[MonthOf[server]] <= server /\ First[MonthOf[server]] \in Int
        BY <2>1, MonthOfDay, FirstType
    <2>3. First[MonthOf[server]] <= today
        BY <2>1, <2>2
    <2> QED BY <1>2, <1>3, <2>1, <2>3 DEF ClockOK
<1>6. OwnsOK(j)'
    BY <1>1, <1>2 DEF JobOK, OwnsOK
<1>7. PlaceOK(j)'
    BY <1>3 DEF PlaceOK
<1>8. Counted(j)'
    <2> SUFFICES ASSUME NEW p \in Projects, NEW d \in Days
                 PROVE  /\ count'[j][p][d] = 0
                        /\ ~(d \in DaysOf(Head(todo[j])) /\ PieceOfDay(j, d) < 1)
        BY <1>2, <1>3 DEF Counted, PieceOfDay
    <2>1. Nothing[p][d] = 0
        BY DEF Nothing
    <2>2. Head(todo[j]) \in Range
        BY <1>1, <1>2, HeadType DEF TypeOK
    <2>3. d \in DaysOf(Head(todo[j])) => PieceOfDay(j, d) \in 1..Len(Split[Head(todo[j])])
        BY <2>2, PieceOfDayInRange DEF PieceOfDay
    <2>4. Len(Split[Head(todo[j])]) \in Nat
        BY <2>2, PiecesOfARange
    <2> QED BY <1>3, <2>1, <2>3, <2>4
<1>9. WarmOK(j)'
    <2> SUFFICES ASSUME j \in warming
                 PROVE  /\ ClosedIn(todo[j], MonthOf[server])
                        /\ \E m \in Months : Head(todo[j]) = WholeMonth(m)
                                             /\ ~InLiveWindow(m, MonthOf[server])
        BY <1>2, <1>3 DEF WarmOK
    <2>1. ClosedIn(todo[j], MonthOf[server])
        BY <1>1 DEF JobOK, WarmOK
    <2>2. todo[j] \in Seq(Range) /\ todo[j] # <<>>
        BY <1>1, <1>2 DEF TypeOK
    <2>3. 1 \in 1..Len(todo[j]) /\ Head(todo[j]) = todo[j][1]
        BY <2>2
    <2> QED BY <2>1, <2>3 DEF ClosedIn
<1>10. TableOK'
    BY <1>1, <1>2 DEF TableOK, OnlyWholeMonthsAreKept
<1> QED BY <1>2, <1>4, <1>5, <1>6, <1>7, <1>8, <1>9, <1>10, JobStep DEF JobOK

\* The piece a busy job is at: a range, the days of the current range with its
\* number.
LEMMA PieceType ==
    ASSUME TypeOK, NEW j \in Jobs, pc[j] # "idle", ~AllPiecesDone(j)
    PROVE  /\ Head(todo[j]) \in Range
           /\ Piece(j) \in Range
           /\ MonthOfPiece(j) \in Months
           /\ piece[j] \in Nat \ {0}
           /\ \A d \in Days : d \in DaysOf(Piece(j)) <=>
                d \in DaysOf(Head(todo[j])) /\ PieceOfDay(j, d) = piece[j]
           /\ \A c : Closed(Piece(j), c) =>
                Piece(j) = WholeMonth(MonthOfPiece(j)) /\ ~InLiveWindow(MonthOfPiece(j), c)
<1>1. Head(todo[j]) \in Range /\ piece[j] \in Nat \ {0}
    BY HeadType DEF TypeOK
<1>2. piece[j] \in 1..Len(Split[Head(todo[j])])
    BY <1>1, PiecesOfARange DEF AllPiecesDone
<1>3. Piece(j) \in Range
    BY <1>1, <1>2, PiecesOfARange DEF Piece
<1>4. MonthOfPiece(j) \in Months
    BY <1>1, <1>2, PiecesOfARange DEF MonthOfPiece, Piece
<1>5. \A d \in Days : d \in DaysOf(Piece(j)) <=>
            d \in DaysOf(Head(todo[j])) /\ PieceOfDay(j, d) = piece[j]
    BY <1>1, <1>2, PiecesOfARange DEF PieceOfDay, Piece
<1>6. \A c : Closed(Piece(j), c) =>
        Piece(j) = WholeMonth(MonthOfPiece(j)) /\ ~InLiveWindow(MonthOfPiece(j), c)
    BY DEF Closed, IsFullMonth, MonthOfPiece
<1> QED BY <1>1, <1>3, <1>4, <1>5, <1>6

\* The piece of a warm-up is its month, and closed.
LEMMA WarmPieceIsClosed ==
    ASSUME TypeOK, NEW j \in Jobs, JobOK(j), j \in warming, pc[j] \in Busy,
           ~AllPiecesDone(j)
    PROVE  Closed(Piece(j), cur[j]) /\ MonthOfPiece(j) = MonthOf[Head(todo[j]).from]
<1>1. PICK m \in Months : Head(todo[j]) = WholeMonth(m) /\ ~InLiveWindow(m, cur[j])
    BY DEF JobOK, WarmOK
<1>2. piece[j] \in Nat \ {0} /\ ~(piece[j] > 1)
    BY <1>1, WholeMonthIsOnePiece DEF TypeOK, AllPiecesDone
<1>3. piece[j] = 1
    BY <1>2
<1>4. Piece(j) = WholeMonth(m)
    BY <1>1, <1>3, WholeMonthIsOnePiece DEF Piece
<1>5. MonthOf[WholeMonth(m).from] = m
    BY WholeMonthIsARange
<1> QED BY <1>1, <1>4, <1>5 DEF Closed, IsFullMonth, MonthOfPiece

\* The common part of the four actions that end a piece.
LEMMA AddInv ==
    ASSUME IInv, TypeOK', NEW j \in Jobs, NEW S, Add(j, S), UNCHANGED kept,
           pc[j] \in Busy, ~AllPiecesDone(j),
           \A p \in Projects : S[p] \subseteq DaysOf(Piece(j)),
           \A p \in linked[j], d \in Days :
               OneProjectPerUnit /\ d \in DaysOf(Piece(j)) /\ d < since[j] => d \in S[p],
           j \in warming => \A p \in linked[j] : kept[p][MonthOfPiece(j)] # {}
    PROVE  IInv'
<1>1. TypeOK /\ JobOK(j) /\ TableOK
    BY DEF IInv
<1>2. UNCHANGED <<today, server, link, kept, warming, todo, linked, owns, cur, since>>
    BY DEF Add, clock
<1>3. pc'[j] = "piece" /\ piece'[j] = piece[j] + 1 /\ count'[j] = Plus(count[j], S)
    BY <1>1 DEF Add, TypeOK
<1>4. OnlyMoves(j) /\ RowsStay
    BY <1>1, <1>2 DEF OnlyMoves, RowsStay, TypeOK, Add
<1>5. ClockOK(j)' /\ OwnsOK(j)'
    BY <1>1, <1>2 DEF JobOK, ClockOK, OwnsOK
<1>6. PlaceOK(j)'
    BY <1>3 DEF PlaceOK
<1>7. pc[j] # "idle"
    BY DEF Busy
<1>8. Counted(j)'
    <2> SUFFICES ASSUME NEW p \in Projects, NEW d \in Days
                 PROVE  /\ count'[j][p][d] \in {0, 1}
                        /\ count'[j][p][d] = 1 =>
                            d \in DaysOf(Head(todo[j])) /\ PieceOfDay(j, d) < piece[j] + 1
                        /\ OneProjectPerUnit /\ p \in linked[j] /\ d < since[j]
                             /\ d \in DaysOf(Head(todo[j])) /\ PieceOfDay(j, d) < piece[j] + 1
                           => count'[j][p][d] = 1
        BY <1>2, <1>3 DEF Counted, PieceOfDay
    <2> DEFINE k == PieceOfDay(j, d)
               n == piece[j]
               c == count[j][p][d]
    <2>1. Head(todo[j]) \in Range /\ n \in Nat \ {0}
          /\ (d \in DaysOf(Piece(j)) <=> d \in DaysOf(Head(todo[j])) /\ k = n)
        BY <1>1, <1>7, PieceType
    <2>2. d \in DaysOf(Head(todo[j])) => k \in Nat
        <3>1. d \in DaysOf(Head(todo[j])) => k \in 1..Len(Split[Head(todo[j])])
            BY <2>1, PieceOfDayInRange DEF PieceOfDay
        <3>2. Len(Split[Head(todo[j])]) \in Nat
            BY <2>1, PiecesOfARange
        <3> QED BY <3>1, <3>2
    <2>3. /\ c \in {0, 1}
          /\ c = 1 => d \in DaysOf(Head(todo[j])) /\ k < n
          /\ OneProjectPerUnit /\ p \in linked[j] /\ d < since[j]
               /\ d \in DaysOf(Head(todo[j])) /\ k < n => c = 1
        BY <1>1 DEF JobOK, Counted
    <2>4. count'[j][p][d] = c + IF d \in S[p] THEN 1 ELSE 0
        <3>1. count[j] \in [Projects -> [Days -> Nat]]
            BY <1>1 DEF TypeOK
        <3>2. Plus(count[j], S)[p][d] = count[j][p][d] + IF d \in S[p] THEN 1 ELSE 0
            BY <3>1, PlusType
        <3> QED BY <1>3, <3>2
    <2>5. d \in S[p] => d \in DaysOf(Head(todo[j])) /\ k = n
        BY <2>1
    <2>6. OneProjectPerUnit /\ p \in linked[j] /\ d < since[j]
            /\ d \in DaysOf(Head(todo[j])) /\ k = n => d \in S[p]
        BY <2>1
    <2> HIDE DEF k, n, c
    <2>7. CASE d \in S[p]
        <3>1. c = 0
            BY <2>1, <2>3, <2>5, <2>7
        <3> QED BY <2>1, <2>4, <2>5, <2>7, <3>1 DEF k, n
    <2>8. CASE d \notin S[p]
        <3>1. count'[j][p][d] = c
            BY <2>3, <2>4, <2>8
        <3>2. c = 1 => d \in DaysOf(Head(todo[j])) /\ k < n + 1
            BY <2>1, <2>2, <2>3
        <3>3. OneProjectPerUnit /\ p \in linked[j] /\ d < since[j]
                /\ d \in DaysOf(Head(todo[j])) /\ k < n + 1 => c = 1
            BY <2>1, <2>2, <2>3, <2>6, <2>8
        <3> QED BY <2>3, <3>1, <3>2, <3>3 DEF k, n
    <2> QED BY <2>7, <2>8
<1>9. WarmOK(j)'
    <2> SUFFICES ASSUME j \in warming PROVE WarmOK(j)'
        BY <1>2 DEF WarmOK
    <2>1. MonthOfPiece(j) = MonthOf[Head(todo[j]).from]
        BY <1>1, WarmPieceIsClosed
    <2> QED BY <1>1, <1>2, <1>3, <2>1 DEF JobOK, WarmOK, Busy
<1>10. TableOK'
    BY <1>1, <1>2 DEF TableOK, OnlyWholeMonthsAreKept
<1> QED BY <1>2, <1>4, <1>5, <1>6, <1>8, <1>9, <1>10, JobStep DEF JobOK

\* A row of a month closed by the job's clock holds the days of the month.
LEMMA RowOfAPiece ==
    ASSUME IInv, NEW j \in Jobs, pc[j] # "idle", ~AllPiecesDone(j),
           Closed(Piece(j), cur[j]), NEW p \in Projects
    PROVE  /\ UNION kept[p][MonthOfPiece(j)] \subseteq DaysOf(Piece(j))
           /\ OneProjectPerUnit /\ kept[p][MonthOfPiece(j)] # {} =>
                UNION kept[p][MonthOfPiece(j)] = DaysOf(Piece(j))
<1>1. MonthOfPiece(j) \in Months /\ Piece(j) = WholeMonth(MonthOfPiece(j))
    BY PieceType DEF IInv
<1>2. kept[p][MonthOfPiece(j)] \in {{}, {{}}, {DaysOf(Piece(j))}}
    BY <1>1 DEF IInv, TableOK, OnlyWholeMonthsAreKept
<1>3. OneProjectPerUnit => kept[p][MonthOfPiece(j)] # {{}}
    BY <1>1 DEF IInv, TableOK
<1> QED BY <1>2, <1>3

LEMMA SkipLiveInv ==
    ASSUME IInv, TypeOK', NEW j \in Jobs, SkipLive(j)
    PROVE  IInv'
<1> DEFINE S == [p \in Projects |-> {}]
<1>1. Add(j, S) /\ UNCHANGED kept /\ pc[j] = "piece" /\ ~AllPiecesDone(j) /\ linked[j] = {}
    BY DEF SkipLive, AtPiece
<1>2. \A p \in Projects : S[p] \subseteq DaysOf(Piece(j))
    OBVIOUS
<1> HIDE DEF S
<1> QED BY <1>1, <1>2, AddInv DEF Busy

LEMMA AnswerLiveInv ==
    ASSUME IInv, TypeOK', NEW j \in Jobs, AnswerLive(j)
    PROVE  IInv'
<1>1. TypeOK /\ JobOK(j)
    BY DEF IInv
<1>2. Add(j, Rows(j)) /\ UNCHANGED kept /\ pc[j] = "live"
    BY DEF AnswerLive
<1>3. ~AllPiecesDone(j) /\ ~Closed(Piece(j), cur[j])
    BY <1>1, <1>2 DEF JobOK, PlaceOK
<1>4. \A p \in Projects : Rows(j)[p] \subseteq DaysOf(Piece(j))
    BY DEF Rows
<1>5. ASSUME NEW p \in linked[j], NEW d \in Days,
             OneProjectPerUnit, d \in DaysOf(Piece(j)), d < since[j]
      PROVE  d \in Rows(j)[p]
    <2>1. p \in Projects /\ p \in owns[j]
        BY <1>1, <1>5 DEF JobOK, OwnsOK, TypeOK
    <2>2. d < today
        BY <1>1, <1>5, CalendarAssumption DEF JobOK, ClockOK, TypeOK, Days
    <2> QED BY <1>5, <2>1, <2>2 DEF Rows, Sold
<1>6. j \notin warming
    BY <1>1, <1>2, <1>3, WarmPieceIsClosed DEF Busy
<1> QED BY <1>2, <1>3, <1>4, <1>5, <1>6, AddInv DEF Busy

\* Reading the row of a closed month that every linked project has.
LEMMA FromTableInv ==
    ASSUME IInv, TypeOK', NEW j \in Jobs, FromTable(j), pc[j] \in Busy,
           ~AllPiecesDone(j), Closed(Piece(j), cur[j]),
           \A p \in linked[j] : kept[p][MonthOfPiece(j)] # {}
    PROVE  IInv'
<1> DEFINE S == [p \in Projects |-> UNION kept[p][MonthOfPiece(j)]]
<1>1. Add(j, S) /\ UNCHANGED kept
    BY DEF FromTable
<1>2. \A p \in Projects : S[p] \subseteq DaysOf(Piece(j))
    BY RowOfAPiece DEF Busy
<1>3. ASSUME NEW p \in linked[j], NEW d \in Days,
             OneProjectPerUnit, d \in DaysOf(Piece(j))
      PROVE  d \in S[p]
    <2>1. p \in Projects
        BY DEF IInv, TypeOK
    <2>2. UNION kept[p][MonthOfPiece(j)] = DaysOf(Piece(j))
        BY <1>3, <2>1, RowOfAPiece DEF Busy
    <2> QED BY <1>3, <2>1, <2>2
<1> HIDE DEF S
<1> QED BY <1>1, <1>2, <1>3, AddInv

LEMMA ReadKeptInv ==
    ASSUME IInv, TypeOK', NEW j \in Jobs, ReadKept(j)
    PROVE  IInv'
<1>1. pc[j] = "piece" /\ ~AllPiecesDone(j) /\ Closed(Piece(j), cur[j]) /\ FromTable(j)
    BY DEF ReadKept, AtPiece
<1>2. \A p \in linked[j] : kept[p][MonthOfPiece(j)] # {}
    BY DEF ReadKept, Missing
<1> QED BY <1>1, <1>2, FromTableInv DEF Busy

LEMMA RereadInv ==
    ASSUME IInv, TypeOK', NEW j \in Jobs, Reread(j)
    PROVE  IInv'
<1>1. JobOK(j) /\ pc[j] = "reread" /\ FromTable(j)
    BY DEF IInv, Reread
<1>2. /\ ~AllPiecesDone(j) /\ Closed(Piece(j), cur[j])
      /\ \A p \in linked[j] : kept[p][MonthOfPiece(j)] # {}
    BY <1>1 DEF JobOK, PlaceOK
<1> QED BY <1>1, <1>2, FromTableInv DEF Busy

\* Calling Dodo IS and waiting.
LEMMA CallInv ==
    ASSUME IInv, TypeOK', NEW j \in Jobs, NEW where \in {"live", "fetch"}, NEW wanted,
           pc[j] = "piece", ~AllPiecesDone(j), Call(j, where, wanted),
           where = "live" => ~Closed(Piece(j), cur[j]),
           where = "fetch" => Closed(Piece(j), cur[j]) /\ wanted = Missing(j)
    PROVE  IInv'
<1>1. TypeOK /\ JobOK(j) /\ TableOK
    BY DEF IInv
<1>2. UNCHANGED <<today, server, link, kept, warming, todo, linked, owns, cur, piece,
                  count, since>>
    BY DEF Call, clock
<1>3. pc'[j] = where /\ asked'[j] = wanted
    BY <1>1 DEF Call, TypeOK
<1>4. OnlyMoves(j) /\ RowsStay
    BY <1>1, <1>2 DEF OnlyMoves, RowsStay, TypeOK, Call
<1>5. ClockOK(j)' /\ OwnsOK(j)'
    BY <1>1, <1>2 DEF JobOK, ClockOK, OwnsOK
<1>6. AllPiecesDone(j)' = AllPiecesDone(j) /\ Piece(j)' = Piece(j)
      /\ MonthOfPiece(j)' = MonthOfPiece(j)
    BY <1>2 DEF AllPiecesDone, Piece, MonthOfPiece
<1>7. PlaceOK(j)'
    BY <1>2, <1>3, <1>6 DEF PlaceOK, Missing
<1>8. Counted(j)'
    BY <1>1, <1>2, <1>3 DEF JobOK, Counted, PieceOfDay, Busy
<1>9. WarmOK(j)'
    BY <1>1, <1>2, <1>3 DEF JobOK, WarmOK, Busy
<1>10. TableOK'
    BY <1>1, <1>2 DEF TableOK, OnlyWholeMonthsAreKept
<1> QED BY <1>2, <1>4, <1>5, <1>7, <1>8, <1>9, <1>10, JobStep DEF JobOK

LEMMA KeepInv ==
    ASSUME IInv, TypeOK', NEW j \in Jobs, Keep(j)
    PROVE  IInv'
<1>1. TypeOK /\ JobOK(j) /\ TableOK
    BY DEF IInv
<1>2. UNCHANGED <<today, server, link, warming, todo, linked, owns, cur, piece, asked,
                  count, since>> /\ pc[j] = "fetch"
    BY DEF Keep, clock
<1>3. pc'[j] = "reread"
    BY <1>1 DEF Keep, TypeOK
<1> DEFINE m == MonthOfPiece(j)
<1>4. ~AllPiecesDone(j) /\ Closed(Piece(j), cur[j]) /\ asked[j] \subseteq linked[j]
      /\ \A p \in linked[j] : p \in asked[j] \/ kept[p][m] # {}
    BY <1>1, <1>2 DEF JobOK, PlaceOK
<1>5. m \in Months /\ Piece(j) = WholeMonth(m) /\ ~InLiveWindow(m, cur[j])
    BY <1>1, <1>2, <1>4, PieceType
<1>6. kept' = [p \in Projects |->
                 IF p \in asked[j] THEN [kept[p] EXCEPT ![m] = {Rows(j)[p]}] ELSE kept[p]]
    BY DEF Keep
<1> HIDE DEF m
<1>7. DaysOf(WholeMonth(m)) \subseteq Sold
    <2>1. First[cur[j]] <= today /\ today \in Int /\ cur[j] \in Months
        BY <1>1, CalendarAssumption DEF JobOK, ClockOK, TypeOK, Days
    <2>2. \A d \in DaysOf(WholeMonth(m)) : d < today
        BY <1>5, <2>1, ClosedMonthIsOver
    <2>3. DaysOf(WholeMonth(m)) \subseteq Days
        <3>1. First[m] \in Int /\ First[m + 1] \in Int
            BY <1>5, FirstType
        <3> QED BY <1>5, <3>1, MonthIsUnique DEF DaysOf, WholeMonth
    <2> QED BY <2>2, <2>3 DEF Sold
<1>8. ASSUME NEW p \in Projects
      PROVE  /\ Rows(j)[p] \in {{}, DaysOf(WholeMonth(m))}
             /\ OneProjectPerUnit /\ p \in asked[j] => Rows(j)[p] = DaysOf(WholeMonth(m))
    <2>1. Rows(j)[p] = IF p \in owns[j] THEN DaysOf(WholeMonth(m)) ELSE {}
        BY <1>5, <1>7 DEF Rows
    <2>2. OneProjectPerUnit /\ p \in asked[j] => p \in owns[j]
        BY <1>1, <1>4 DEF JobOK, OwnsOK
    <2> QED BY <2>1, <2>2
<1>9. ASSUME NEW p \in Projects, NEW n \in Months
      PROVE  kept'[p][n] = IF p \in asked[j] /\ n = m THEN {Rows(j)[p]} ELSE kept[p][n]
    <2>1. kept[p] \in [Months -> SUBSET SUBSET Days]
        BY <1>1 DEF TypeOK
    <2> QED BY <1>6, <2>1
<1>10. OnlyMoves(j)
    BY <1>1, <1>2 DEF OnlyMoves, TypeOK, Keep
<1>11. RowsStay
    BY <1>9 DEF RowsStay
<1>12. TableOK'
    <2>1. ASSUME NEW p \in Projects, NEW n \in Months
          PROVE  kept'[p][n] \in {{}, {{}}, {DaysOf(WholeMonth(n))}}
        <3>1. CASE p \in asked[j] /\ n = m
            <4>1. kept'[p][n] = {Rows(j)[p]}
                BY <1>9, <3>1
            <4> QED BY <1>8, <3>1, <4>1
        <3>2. CASE ~(p \in asked[j] /\ n = m)
            <4>1. kept'[p][n] = kept[p][n]
                BY <1>9, <3>2
            <4> QED BY <1>1, <4>1 DEF TableOK, OnlyWholeMonthsAreKept
        <3> QED BY <3>1, <3>2
    <2>2. ASSUME OneProjectPerUnit, NEW p \in Projects, NEW n \in Months
          PROVE  kept'[p][n] # {{}}
        <3>1. CASE p \in asked[j] /\ n = m
            <4>1. First[m] \in DaysOf(WholeMonth(m))
                BY <1>5, FirstType DEF DaysOf, WholeMonth
            <4>2. kept'[p][n] = {DaysOf(WholeMonth(m))}
                BY <1>8, <1>9, <2>2, <3>1
            <4> QED BY <4>1, <4>2
        <3>2. CASE ~(p \in asked[j] /\ n = m)
            BY <1>1, <1>9, <2>2, <3>2 DEF TableOK
        <3> QED BY <3>1, <3>2
    <2> QED BY <2>1, <2>2 DEF TableOK, OnlyWholeMonthsAreKept
<1>13. ClockOK(j)' /\ OwnsOK(j)'
    BY <1>1, <1>2 DEF JobOK, ClockOK, OwnsOK
<1>14. AllPiecesDone(j)' = AllPiecesDone(j) /\ Piece(j)' = Piece(j) /\ MonthOfPiece(j)' = m
    BY <1>2 DEF AllPiecesDone, Piece, MonthOfPiece, m
<1>15. PlaceOK(j)'
    <2>1. \A p \in linked[j] : kept'[p][m] # {}
        BY <1>1, <1>4, <1>5, <1>9 DEF TypeOK
    <2> QED BY <1>2, <1>3, <1>4, <1>14, <2>1 DEF PlaceOK
<1>16. Counted(j)'
    BY <1>1, <1>2, <1>3 DEF JobOK, Counted, PieceOfDay, Busy
<1>17. WarmOK(j)'
    <2> SUFFICES ASSUME j \in warming PROVE WarmOK(j)'
        BY <1>2 DEF WarmOK
    <2>1. MonthOf[Head(todo[j]).from] = m
        BY <1>1, <1>2, <1>4, WarmPieceIsClosed DEF Busy, m
    <2>2. \A p \in linked[j] : kept'[p][m] # {}
        BY <1>1, <1>4, <1>5, <1>9 DEF TypeOK
    <2> QED BY <1>1, <1>2, <1>3, <2>1, <2>2 DEF JobOK, WarmOK, Busy
<1> QED BY <1>2, <1>10, <1>11, <1>12, <1>13, <1>15, <1>16, <1>17, JobStep DEF JobOK

\* A job that forgets its range: at its end, or on the way to the next one.
LEMMA ForgetInv ==
    ASSUME IInv, TypeOK', NEW j \in Jobs, Forget(j), UNCHANGED <<today, server, link, kept>>,
           \/ End(j)
           \/ /\ pc' = [pc EXCEPT ![j] = "open"]
              /\ todo' = [todo EXCEPT ![j] = Tail(todo[j])]
              /\ todo[j] # <<>>
              /\ UNCHANGED <<linked, owns, warming>>
    PROVE  IInv'
<1>1. TypeOK /\ JobOK(j) /\ TableOK
    BY DEF IInv
<1>2. cur'[j] = 0 /\ piece'[j] = 1 /\ since'[j] = First[0]
    BY <1>1 DEF Forget, TypeOK
<1>3. pc'[j] \in {"idle", "open"}
    BY <1>1 DEF End, TypeOK
<1>4. OnlyMoves(j) /\ RowsStay
    BY <1>1 DEF OnlyMoves, RowsStay, TypeOK, Forget, End
<1>5. ClockOK(j)'
    <2>1. First[0] <= today
        BY <1>1, CalendarAssumption DEF TypeOK, Days
    <2> QED BY <1>2, <2>1 DEF ClockOK
<1>6. OwnsOK(j)'
    BY <1>1 DEF JobOK, OwnsOK, End, TypeOK
<1>7. PlaceOK(j)' /\ Counted(j)'
    BY <1>3 DEF PlaceOK, Counted, Busy
<1>8. WarmOK(j)'
    <2>1. CASE End(j)
        BY <2>1 DEF End, WarmOK
    <2>2. CASE /\ pc' = [pc EXCEPT ![j] = "open"]
               /\ todo' = [todo EXCEPT ![j] = Tail(todo[j])]
               /\ todo[j] # <<>>
               /\ UNCHANGED <<linked, owns, warming>>
        <3> SUFFICES ASSUME j \in warming PROVE ClosedIn(todo'[j], MonthOf[server])
            BY <1>1, <2>2 DEF WarmOK, Busy, TypeOK
        <3>1. ClosedIn(todo[j], MonthOf[server])
            BY <1>1 DEF JobOK, WarmOK
        <3>2. todo[j] \in Seq(Range) /\ todo'[j] = Tail(todo[j])
            BY <1>1, <2>2 DEF TypeOK
        <3>3. \A i \in 1..Len(Tail(todo[j])) :
                i + 1 \in 1..Len(todo[j]) /\ Tail(todo[j])[i] = todo[j][i + 1]
            BY <2>2, <3>2
        <3> QED BY <3>1, <3>2, <3>3 DEF ClosedIn
    <2> QED BY <2>1, <2>2
<1>9. TableOK'
    BY <1>1 DEF TableOK, OnlyWholeMonthsAreKept
<1> QED BY <1>4, <1>5, <1>6, <1>7, <1>8, <1>9, JobStep DEF JobOK

LEMMA NextRangeInv ==
    ASSUME IInv, TypeOK', NEW j \in Jobs, NextRange(j), pc[j] # "idle"
    PROVE  IInv'
<1>1. Forget(j) /\ UNCHANGED <<today, server, link, kept>> /\ todo[j] # <<>>
    BY DEF NextRange, clock, IInv, TypeOK
<1>2. CASE End(j)
    BY <1>1, <1>2, ForgetInv
<1>3. CASE /\ pc' = [pc EXCEPT ![j] = "open"]
           /\ todo' = [todo EXCEPT ![j] = Tail(todo[j])]
           /\ UNCHANGED <<linked, owns, warming>>
    BY <1>1, <1>3, ForgetInv
<1> QED BY <1>2, <1>3 DEF NextRange

\* Steps of the clocks and of the administrator.
LEMMA EnvironmentInv ==
    ASSUME IInv, TypeOK', UNCHANGED <<kept, others>>, today <= today', server <= server'
    PROVE  IInv'
<1>1. TypeOK /\ TableOK
    BY DEF IInv
<1>2. ASSUME NEW i \in Jobs PROVE JobOK(i)'
    <2>1. JobOK(i)
        BY DEF IInv
    <2> QED BY <1>1, <2>1, JobFrame DEF others
<1>3. TableOK'
    BY <1>1 DEF TableOK, OnlyWholeMonthsAreKept
<1> QED BY <1>2, <1>3 DEF IInv

LEMMA InvInit == Init => IInv
<1> SUFFICES ASSUME Init PROVE IInv
    OBVIOUS
<1>1. TypeOK
    BY TypeInit
<1>2. TableOK
    BY DEF Init, TableOK, OnlyWholeMonthsAreKept
<1>3. ASSUME NEW j \in Jobs PROVE JobOK(j)
    <2>1. First[0] \in Int
        BY CalendarAssumption
    <2>2. ClockOK(j)
        BY <2>1 DEF Init, ClockOK
    <2>3. OwnsOK(j) /\ WarmOK(j)
        BY DEF Init, OwnsOK, WarmOK
    <2>4. PlaceOK(j) /\ Counted(j)
        BY DEF Init, PlaceOK, Counted, Busy
    <2> QED BY <2>2, <2>3, <2>4 DEF JobOK
<1> QED BY <1>1, <1>2, <1>3 DEF IInv

LEMMA InvNext == IInv /\ [Next]_vars => IInv'
<1> SUFFICES ASSUME IInv, [Next]_vars PROVE IInv'
    OBVIOUS
<1>1. TypeOK /\ TypeOK'
    BY TypeNext DEF IInv
<1>2. ASSUME NEW j \in Jobs, Ask(j) PROVE IInv'
    <2>1. PICK q \in Requests : SetOut(j, q) /\ UNCHANGED warming
        BY <1>2 DEF Ask
    <2> QED BY <1>1, <2>1, SetOutInv
<1>3. ASSUME NEW j \in Jobs, Warm(j) PROVE IInv'
    <2> DEFINE q == ClosedMonthsWindow(MonthOf[server])
    <2>1. MonthOf[server] \in Months
        BY <1>1, MonthOfDay DEF TypeOK
    <2>2. ClosedIn(q, MonthOf[server])
        BY <2>1, MonthsOfTheWindow DEF ClosedIn
    <2>3. SetOut(j, q) /\ warming = {} /\ warming' = {j}
        BY <1>3 DEF Warm
    <2> HIDE DEF q
    <2> QED BY <1>1, <2>2, <2>3, SetOutInv
<1>4. ASSUME NEW j \in Jobs, AskLive(j) PROVE IInv'
    BY <1>1, <1>4, CallInv DEF AskLive, AtPiece
<1>5. ASSUME NEW j \in Jobs, AskMissing(j) PROVE IInv'
    BY <1>1, <1>5, CallInv DEF AskMissing, AtPiece
<1>6. ASSUME NEW j \in Jobs, Deliver(j) PROVE IInv'
    BY <1>1, <1>6, NextRangeInv DEF Deliver
<1>7. ASSUME NEW j \in Jobs, Fail(j) PROVE IInv'
    BY <1>1, <1>7, NextRangeInv DEF Fail, AtPiece
<1>8. ASSUME NEW j \in Jobs, Abort(j) PROVE IInv'
    BY <1>1, <1>8, ForgetInv DEF Abort, clock
<1>9. ASSUME MoscowMidnight PROVE IInv'
    BY <1>1, <1>9, EnvironmentInv, CalendarAssumption DEF MoscowMidnight, TypeOK, Days
<1>10. ASSUME ServerMidnight PROVE IInv'
    BY <1>1, <1>10, EnvironmentInv, CalendarAssumption DEF ServerMidnight, TypeOK, Days
<1>11. ASSUME Relink PROVE IInv'
    BY <1>1, <1>11, EnvironmentInv, CalendarAssumption DEF Relink, clock, TypeOK, Days
<1>12. CASE UNCHANGED vars
    BY <1>1, <1>12, EnvironmentInv, CalendarAssumption DEF vars, others, TypeOK, Days
<1> QED
    BY <1>1, <1>2, <1>3, <1>4, <1>5, <1>6, <1>7, <1>8, <1>9, <1>10, <1>11, <1>12,
       OpenInv, SkipLiveInv, AnswerLiveInv, ReadKeptInv, KeepInv, RereadInv
       DEF Next, Step

----------------------------------------------------------------------------
(* What follows from the invariant.                                        *)

\* _is_full_month and the live window together never let a piece of a month
\* into lite_revenue_cache, whatever the calendar, the window, the links and
\* the interleaving of the requests.
THEOREM WholeMonthsOnly == Spec => []OnlyWholeMonthsAreKept
<1>1. IInv => OnlyWholeMonthsAreKept
    BY DEF IInv, TableOK
<1> QED BY <1>1, InvInit, InvNext, PTL DEF Spec

\* The totals _lite_revenue returns are sums over the range asked for: no day
\* twice, none from outside, and none missing as long as units are not shared.
THEOREM TotalsAreExact == Spec => []EveryDayCountsOnce
<1>1. IInv => EveryDayCountsOnce
    <2> SUFFICES ASSUME IInv, NEW j \in Jobs, pc[j] = "piece", AllPiecesDone(j),
                        NEW p \in Projects, NEW d \in Days
                 PROVE  /\ count[j][p][d] <= 1
                        /\ count[j][p][d] = 1 => d \in DaysOf(Head(todo[j]))
                        /\ OneProjectPerUnit /\ p \in linked[j] /\ d < since[j]
                             /\ d \in DaysOf(Head(todo[j]))
                           => count[j][p][d] = 1
        BY DEF EveryDayCountsOnce
    <2>1. Head(todo[j]) \in Range /\ piece[j] \in Nat
        BY HeadType DEF IInv, TypeOK
    <2>2. d \in DaysOf(Head(todo[j])) => PieceOfDay(j, d) < piece[j]
        <3>1. Len(Split[Head(todo[j])]) \in Nat
            BY <2>1, PiecesOfARange
        <3>2. d \in DaysOf(Head(todo[j])) => PieceOfDay(j, d) \in 1..Len(Split[Head(todo[j])])
            BY <2>1, PieceOfDayInRange DEF PieceOfDay
        <3> QED BY <2>1, <3>1, <3>2 DEF AllPiecesDone
    <2>3. Counted(j)
        BY DEF IInv, JobOK
    <2>4. count[j][p][d] \in {0, 1}
        BY <2>3 DEF Counted, Busy
    <2> QED BY <2>2, <2>3, <2>4 DEF Counted, Busy
<1> QED BY <1>1, InvInit, InvNext, PTL DEF Spec

\* A warm-up that got through a month has left a row for every linked project,
\* although it chose the month by an earlier reading of the clock.
THEOREM WarmingIsNotInVain == Spec => []WarmedMonthsAreKept
<1>1. IInv => WarmedMonthsAreKept
    <2> SUFFICES ASSUME IInv, NEW j \in warming, pc[j] = "piece", AllPiecesDone(j),
                        NEW p \in linked[j]
                 PROVE  kept[p][MonthOf[Head(todo[j]).from]] # {}
        BY DEF WarmedMonthsAreKept
    <2>1. j \in Jobs /\ Head(todo[j]) \in Range /\ piece[j] \in Nat
        BY HeadType DEF IInv, TypeOK
    <2>2. Len(Split[Head(todo[j])]) \in Nat \ {0}
        BY <2>1, PiecesOfARange
    <2>3. piece[j] > 1
        BY <2>1, <2>2 DEF AllPiecesDone
    <2> QED BY <2>1, <2>3 DEF IInv, JobOK, WarmOK, Busy
<1> QED BY <1>1, InvInit, InvNext, PTL DEF Spec

\* A row of lite_revenue_cache is never taken away, and never changed as long as
\* units are not shared.
THEOREM RowsAreImmutable == Spec => KeptMonthsNeverChange
<1>1. ASSUME IInv, IInv', [Next]_vars, NEW p \in Projects, NEW m \in Months,
             kept[p][m] # {}
      PROVE  kept'[p][m] # {} /\ (OneProjectPerUnit => kept'[p][m] = kept[p][m])
    <2>1. kept'[p][m] # {}
        <3>1. CASE kept' = kept
            BY <1>1, <3>1
        <3>2. ASSUME NEW j \in Jobs, Keep(j) PROVE kept'[p][m] # {}
            <4>1. kept[p] \in [Months -> SUBSET SUBSET Days]
                BY <1>1 DEF IInv, TypeOK
            <4>2. \/ kept'[p] = kept[p]
                  \/ kept'[p] = [kept[p] EXCEPT ![MonthOfPiece(j)] = {Rows(j)[p]}]
                BY <3>2 DEF Keep
            <4> QED BY <1>1, <4>1, <4>2
        <3>3. kept' = kept \/ \E j \in Jobs : Keep(j)
            BY <1>1 DEF Next, Step, Ask, Warm, SetOut, Open, SkipLive, AskLive, Call,
                AnswerLive, ReadKept, FromTable, AskMissing, Reread, Deliver, Fail,
                NextRange, Abort, MoscowMidnight, ServerMidnight, Relink, vars
        <3> QED BY <3>1, <3>2, <3>3
    <2>2. OneProjectPerUnit => kept[p][m] = {DaysOf(WholeMonth(m))}
                               /\ kept'[p][m] = {DaysOf(WholeMonth(m))}
        BY <1>1, <2>1 DEF IInv, TableOK, OnlyWholeMonthsAreKept
    <2> QED BY <2>1, <2>2
<1>2. IInv /\ IInv' /\ [Next]_vars =>
        [\A p \in Projects, m \in Months : kept[p][m] # {} =>
            /\ kept'[p][m] # {}
            /\ OneProjectPerUnit => kept'[p][m] = kept[p][m]]_vars
    BY <1>1
<1> QED BY <1>2, InvInit, InvNext, PTL DEF Spec, KeptMonthsNeverChange
=============================================================================
