\* Two jobs over three short months: reports, histories and warm-ups.
SPECIFICATION Spec
CONSTANTS
    LastMonth = 2
    First <- MCFirst
    p1 = p1
    p2 = p2
    u1 = u1
    u2 = u2
    Projects = {p1, p2}
    Units = {u1, u2}
    NoUnit = NoUnit
    Links <- MCLinks
    Window = 1
    Requests <- MCRequests
    WarmBack = 2
    Jobs = {a, b}
INVARIANTS
    OnlyWholeMonthsAreKept
    EveryDayCountsOnce
    WarmedMonthsAreKept
PROPERTIES
    KeptMonthsNeverChange
SYMMETRY JobSymmetry
