------------------------- MODULE PnlSnapshotProofs -------------------------
(***************************************************************************)
(* Proofs about PnlSnapshot for any number of users, requests, months and  *)
(* edits: type correctness, that only months that are over are frozen,     *)
(* that what is built from PlanFact after a refresh is fresh, and that no  *)
(* failure leads a request back to where it has been.                      *)
(***************************************************************************)
EXTENDS PnlSnapshot, TLAPS

\* What holds of one request: it was begun with a promise that has only grown
\* since; an answer on its way is as new as the promise and, unless its client
\* was thrown away, as new as the last click; only a miss of a month that is
\* over gets as far as saving.
RequestOK(q) ==
  /\ q.due <= clicked[q.user][q.month]
  /\ q.pc # "done" => q.outcome = "none"
  /\ q.pc = "answer" => q.ver >= q.due
  /\ q.pc = "answer" /\ ~q.cut => q.ver >= clicked[q.user][q.month]
  /\ q.pc = "save" => q.path = "miss" /\ q.ver >= q.due
  /\ q.outcome = "full" /\ q.path # "hit" => q.ver >= q.due
  /\ q.pc = "lookup" \/ q.path = "miss" => q.month < current

\* No entry of a client is older than the last click of its user.
ClientsFresh ==
  \A u \in Users, k \in Keys :
    lru[u][k] # Absent => lru[u][k] >= clicked[u][k[2]]

ClicksPast == \A u \in Users, m \in Months : clicked[u][m] <= ledger[m]

\* The inductive invariant
IInv ==
  /\ TypeOK
  /\ \A r \in Requests : RequestOK(req[r])
  /\ ClientsFresh
  /\ ClicksPast
  /\ FrozenMonthIsOver

LEMMA IdleType == Idle \in Req /\ Idle.due = 0 /\ Idle.pc = "idle" /\ Idle.outcome = "none" /\ Idle.path = "none" /\ Idle.ver = 0
<1>1. (CHOOSE u \in Users : TRUE) \in Users  BY PnlAssumption
<1>2. (CHOOSE k \in Methods : TRUE) \in Methods  BY PnlAssumption
<1>3. 0 \in Versions /\ 1 \in Months  BY PnlAssumption DEF Versions, Months
<1> QED  BY <1>1, <1>2, <1>3 DEF Idle, Req, Pcs, Paths, Kinds, Outcomes

LEMMA InitIInv == Init => IInv
<1> SUFFICES ASSUME Init PROVE IInv  OBVIOUS
<1> USE PnlAssumption DEF Init
<1>1. TypeOK
  <2>1. current \in 1..MaxCurrent /\ window \in 1..MaxWindow
    OBVIOUS
  <2>2. 0 \in Versions
    BY DEF Versions
  <2>3. req \in [Requests -> Req]
    BY IdleType
  <2> QED
    BY <2>1, <2>2, <2>3 DEF TypeOK
<1>2. \A r \in Requests : RequestOK(req[r])
  BY IdleType DEF RequestOK, Req
<1>3. ClientsFresh /\ ClicksPast /\ FrozenMonthIsOver
  BY DEF ClientsFresh, ClicksPast, FrozenMonthIsOver
<1> QED  BY <1>1, <1>2, <1>3 DEF IInv

\* A step of one request that leaves the calendar and the clicks alone keeps
\* the invariant of all requests if the request itself ends up all right.
LEMMA GotoOK ==
  ASSUME NEW r \in Requests, NEW q \in Req, IInv, RequestOK(q), Goto(r, q),
         UNCHANGED <<current, clicked>>
  PROVE  req' \in [Requests -> Req] /\ \A s \in Requests : RequestOK(req[s])'
<1> USE DEF Goto, IInv, TypeOK
<1>1. req' \in [Requests -> Req]  OBVIOUS
<1>2. ASSUME NEW s \in Requests PROVE RequestOK(req[s])'
  <2>1. CASE s = r
    BY <2>1 DEF RequestOK
  <2>2. CASE s # r
    BY <2>2 DEF RequestOK
  <2> QED  BY <2>1, <2>2
<1> QED  BY <1>1, <1>2

\* What the helpers of a request step return.
LEMMA DoneType ==
  ASSUME NEW q \in Req, NEW how \in Outcomes
  PROVE  /\ Done(q, how) \in Req
         /\ Done(q, how).pc = "done" /\ Done(q, how).outcome = how
         /\ Done(q, how).path = q.path /\ Done(q, how).ver = q.ver
         /\ Done(q, how).user = q.user /\ Done(q, how).month = q.month
         /\ Done(q, how).due = q.due
  BY DEF Done, Req, Pcs, Kinds

LEMMA BuildType ==
  ASSUME NEW q \in Req, NEW path \in Paths
  PROVE  /\ Build(q, path) \in Req
         /\ Build(q, path).pc \in {"structure", "fetch"}
         /\ Build(q, path).path = path /\ Build(q, path).outcome = q.outcome
         /\ Build(q, path).user = q.user /\ Build(q, path).month = q.month
         /\ Build(q, path).due = q.due
  BY DEF Build, Req, Pcs, Kinds

\* An aggregate at least as new as the promise may be delivered.
LEMMA DeliverOK ==
  ASSUME NEW q \in Req, NEW v \in Versions, RequestOK(q), v >= q.due,
         q.pc # "done"
  PROVE  Deliver(q, v) \in Req /\ RequestOK(Deliver(q, v))
<1> DEFINE p == [q EXCEPT !.ver = v, !.got = q.method]
<1>1. p \in Req /\ p.ver = v /\ p.user = q.user /\ p.month = q.month /\ p.due = q.due
      /\ p.path = q.path /\ p.outcome = q.outcome
  BY DEF Req
<1>2. CASE q.path = "miss"
  <2> DEFINE s == [p EXCEPT !.pc = "save", !.cut = FALSE]
  <2>1. s \in Req /\ s.pc = "save" /\ s.ver = v /\ s.user = q.user /\ s.month = q.month
        /\ s.due = q.due /\ s.path = "miss" /\ s.outcome = q.outcome
    BY <1>1, <1>2 DEF Req, Pcs
  <2>2. Deliver(q, v) = s
    BY <1>1, <1>2 DEF Deliver
  <2> QED
    BY <2>1, <2>2, <1>2 DEF RequestOK
<1>3. CASE q.path # "miss"
  <2>1. Deliver(q, v) = Done(p, "full")
    BY <1>1, <1>3 DEF Deliver
  <2>2. "full" \in Outcomes
    BY DEF Outcomes
  <2> DEFINE d == Done(p, "full")
  <2> HIDE DEF p
  <2>3. d \in Req /\ d.pc = "done" /\ d.outcome = "full" /\ d.ver = v
        /\ d.path = q.path /\ d.user = q.user /\ d.month = q.month
        /\ d.due = q.due
    BY <1>1, <2>2, DoneType
  <2> HIDE DEF d
  <2>4. RequestOK(d)
    BY <1>3, <2>3 DEF RequestOK
  <2> QED
    BY <2>1, <2>3, <2>4 DEF d
<1> QED
  BY <1>2, <1>3

\* Failing to fetch never makes a result.
LEMMA FailOK ==
  ASSUME NEW q \in Req, NEW how \in {"lite", "error"}, RequestOK(q),
         q.pc # "done"
  PROVE  Fail(q, how) \in Req /\ RequestOK(Fail(q, how))
<1>1. CASE q.kind = "opu"
  <2> DEFINE s == [q EXCEPT !.pc = "fetch", !.kind = "operations",
                            !.degraded = FALSE]
  <2>1. s \in Req /\ s.pc = "fetch" /\ s.user = q.user /\ s.month = q.month
        /\ s.due = q.due /\ s.path = q.path /\ s.outcome = q.outcome
    BY DEF Req, Pcs, Kinds
  <2> QED
    BY <1>1, <2>1 DEF Fail, RequestOK
<1>2. CASE q.kind # "opu"
  <2>1. how \in Outcomes /\ how # "full"
    BY DEF Outcomes
  <2> QED
    BY <1>2, <2>1, DoneType DEF Fail, RequestOK
<1> QED
  BY <1>1, <1>2

\* Steps that move one request and touch neither an LRU nor a snapshot.
LEMMA QuietStep ==
  ASSUME NEW r \in Requests, NEW q \in Req, IInv, RequestOK(q), Goto(r, q),
         structSaved' \in BOOLEAN,
         UNCHANGED <<current, window, ledger, snapshot, lru, refreshing, clicked>>
  PROVE  IInv'
<1>1. req' \in [Requests -> Req] /\ \A s \in Requests : RequestOK(req[s])'
  BY GotoOK
<1>2. TypeOK'
  BY <1>1 DEF IInv, TypeOK
<1>3. ClientsFresh' /\ ClicksPast' /\ FrozenMonthIsOver'
  BY DEF IInv, ClientsFresh, ClicksPast, FrozenMonthIsOver
<1> QED
  BY <1>1, <1>2, <1>3 DEF IInv

LEMMA ReadWindowOK ==
  ASSUME NEW r \in Requests, IInv, ReadWindow(r)
  PROVE  IInv'
<1> DEFINE q == req[r]
<1>1. q \in Req /\ RequestOK(q) /\ q.pc = "window"
  BY DEF IInv, TypeOK, ReadWindow
<1>2. CASE Closed(q.month)
  <2> DEFINE s == [q EXCEPT !.pc = "lookup"]
  <2>1. s \in Req /\ s.pc = "lookup" /\ s.outcome = q.outcome /\ s.path = q.path
        /\ s.user = q.user /\ s.month = q.month /\ s.due = q.due /\ s.ver = q.ver
    BY <1>1 DEF Req, Pcs
  <2>2. q.month < current
    BY <1>1, <1>2 DEF Closed, IInv, TypeOK, Req, Months
  <2>3. RequestOK(s)
    BY <1>1, <2>1, <2>2 DEF RequestOK
  <2>4. Goto(r, s)
    BY <1>2 DEF ReadWindow
  <2> QED
    BY <2>1, <2>3, <2>4, QuietStep DEF ReadWindow, IInv, TypeOK
<1>3. CASE ~Closed(q.month)
  <2> DEFINE s == Build(q, "live")
  <2>1. s \in Req /\ s.pc \in {"structure", "fetch"} /\ s.outcome = q.outcome
        /\ s.path = "live" /\ s.user = q.user /\ s.month = q.month /\ s.due = q.due
    BY <1>1, BuildType DEF Paths
  <2>2. Goto(r, s)
    BY <1>3 DEF ReadWindow
  <2> HIDE DEF s
  <2>3. RequestOK(s)
    BY <1>1, <2>1 DEF RequestOK
  <2> QED
    BY <2>1, <2>2, <2>3, QuietStep DEF ReadWindow, IInv, TypeOK
<1> QED
  BY <1>2, <1>3

LEMMA LookupOK ==
  ASSUME NEW r \in Requests, IInv, Lookup(r)
  PROVE  IInv'
<1> DEFINE q == req[r]
           row == snapshot[q.month]
<1>1. q \in Req /\ RequestOK(q) /\ q.pc = "lookup" /\ q.month \in Months
      /\ q.month < current
  BY DEF IInv, TypeOK, Lookup, Req, RequestOK
<1>2. CASE row = NoRow
  <2> DEFINE s == Build(q, "miss")
  <2>1. s \in Req /\ s.pc \in {"structure", "fetch"} /\ s.outcome = q.outcome
        /\ s.path = "miss" /\ s.user = q.user /\ s.month = q.month /\ s.due = q.due
    BY <1>1, BuildType DEF Paths
  <2>2. Goto(r, s)
    BY <1>2 DEF Lookup
  <2> HIDE DEF s
  <2>3. RequestOK(s)
    BY <1>1, <2>1 DEF RequestOK
  <2> QED
    BY <2>1, <2>2, <2>3, QuietStep DEF Lookup, IInv, TypeOK
<1>3. CASE row # NoRow
  <2> DEFINE s == [q EXCEPT !.pc = "structure", !.path = "hit",
                            !.ver = row.ver, !.got = row.method]
  <2>1. row.ver \in Versions /\ row.method \in Methods
    BY <1>1, <1>3 DEF IInv, TypeOK, Payload
  <2>2. s \in Req /\ s.pc = "structure" /\ s.path = "hit" /\ s.outcome = q.outcome
        /\ s.user = q.user /\ s.month = q.month /\ s.due = q.due
    BY <1>1, <2>1 DEF Req, Pcs, Paths
  <2>3. Goto(r, s)
    BY <1>3 DEF Lookup
  <2> HIDE DEF s
  <2>4. RequestOK(s)
    BY <1>1, <2>2 DEF RequestOK
  <2> QED
    BY <2>2, <2>3, <2>4, QuietStep DEF Lookup, IInv, TypeOK
<1> QED
  BY <1>2, <1>3

\* A request that has answered from a snapshot, or without a result, is all
\* right whatever its version.
LEMMA DoneOK ==
  ASSUME NEW q \in Req, NEW how \in Outcomes, RequestOK(q),
         how # "full" \/ q.path = "hit"
  PROVE  Done(q, how) \in Req /\ RequestOK(Done(q, how))
<1> DEFINE d == Done(q, how)
<1>1. d \in Req /\ d.pc = "done" /\ d.outcome = how /\ d.path = q.path
      /\ d.user = q.user /\ d.month = q.month /\ d.due = q.due
  BY DoneType
<1> HIDE DEF d
<1>2. RequestOK(d)
  BY <1>1 DEF RequestOK
<1> QED
  BY <1>1, <1>2 DEF d

\* The lists have been settled: a hit answers, a build goes on to fetch.
LEMMA StructureNext ==
  ASSUME NEW r \in Requests, NEW q \in Req, IInv, RequestOK(q), q.pc = "structure",
         Goto(r, IF q.path = "hit" THEN Done(q, "full")
                                   ELSE [q EXCEPT !.pc = "fetch"]),
         structSaved' \in BOOLEAN,
         UNCHANGED <<current, window, ledger, snapshot, lru, refreshing, clicked>>
  PROVE  IInv'
<1>1. CASE q.path = "hit"
  <2>1. Done(q, "full") \in Req /\ RequestOK(Done(q, "full"))
    BY <1>1, DoneOK DEF Outcomes
  <2> QED
    BY <1>1, <2>1, QuietStep
<1>2. CASE q.path # "hit"
  <2> DEFINE s == [q EXCEPT !.pc = "fetch"]
  <2>1. s \in Req /\ s.pc = "fetch" /\ s.path = q.path /\ s.outcome = q.outcome
        /\ s.user = q.user /\ s.month = q.month /\ s.due = q.due
    BY DEF Req, Pcs
  <2>2. Goto(r, s)
    BY <1>2
  <2> HIDE DEF s
  <2>3. RequestOK(s)
    BY <2>1 DEF RequestOK
  <2> QED
    BY <2>1, <2>2, <2>3, QuietStep
<1> QED
  BY <1>1, <1>2

LEMMA StructureStepOK ==
  ASSUME NEW r \in Requests, IInv, StructureOk(r) \/ StructureFromCopy(r)
  PROVE  IInv'
<1> DEFINE q == req[r]
<1>1. q \in Req /\ RequestOK(q) /\ q.pc = "structure"
  BY DEF IInv, TypeOK, StructureOk, StructureFromCopy
<1>2. CASE StructureOk(r)
  BY <1>1, <1>2, StructureNext DEF StructureOk
<1>3. CASE StructureFromCopy(r)
  <2> DEFINE s == [q EXCEPT !.degraded = TRUE]
  <2>1. s \in Req /\ s.pc = "structure" /\ s.path = q.path /\ s.outcome = q.outcome
        /\ s.user = q.user /\ s.month = q.month /\ s.due = q.due
    BY <1>1 DEF Req
  <2>2. Goto(r, IF s.path = "hit" THEN Done(s, "full")
                                  ELSE [s EXCEPT !.pc = "fetch"])
    BY <1>3 DEF StructureFromCopy
  <2>3. /\ structSaved' \in BOOLEAN
        /\ UNCHANGED <<current, window, ledger, snapshot, lru, refreshing, clicked>>
    BY <1>3 DEF StructureFromCopy, IInv, TypeOK
  <2> HIDE DEF s
  <2>4. RequestOK(s)
    BY <1>1, <2>1 DEF RequestOK
  <2> QED
    BY <2>1, <2>2, <2>3, <2>4, StructureNext
<1> QED
  BY <1>2, <1>3

LEMMA FailsOK ==
  ASSUME NEW r \in Requests, NEW how \in {"lite", "error"}, IInv,
         StructureFails(r, how) \/ FetchFails(r, how)
  PROVE  IInv'
<1> DEFINE q == req[r]
<1>1. q \in Req /\ RequestOK(q) /\ q.pc # "done"
  BY DEF IInv, TypeOK, StructureFails, FetchFails
<1>2. /\ structSaved' \in BOOLEAN
      /\ UNCHANGED <<current, window, ledger, snapshot, lru, refreshing, clicked>>
  BY DEF IInv, TypeOK, StructureFails, FetchFails
<1>3. Fail(q, how) \in Req /\ RequestOK(Fail(q, how))
  BY <1>1, FailOK
<1>4. Done(q, how) \in Req /\ RequestOK(Done(q, how))
  BY <1>1, DoneOK DEF Outcomes
<1>5. Goto(r, Fail(q, how)) \/ Goto(r, Done(q, how))
  BY DEF StructureFails, FetchFails
<1> QED
  BY <1>2, <1>3, <1>4, <1>5, QuietStep

LEMMA FetchOK ==
  ASSUME NEW r \in Requests, IInv, FetchHit(r) \/ FetchCall(r)
  PROVE  IInv'
<1> DEFINE q == req[r]
<1>1. q \in Req /\ RequestOK(q) /\ q.pc = "fetch" /\ q.user \in Users
      /\ q.month \in Months /\ q.due \in Int /\ q.method \in Methods
      /\ q.kind \in Kinds
  BY DEF IInv, TypeOK, FetchHit, FetchCall, Req, Versions
<1>2. clicked[q.user][q.month] \in Int /\ ledger[q.month] \in Versions
      /\ ledger[q.month] \in Int /\ q.due <= clicked[q.user][q.month]
  BY <1>1 DEF IInv, TypeOK, Versions, RequestOK
<1>3. CASE FetchHit(r)
  <2> DEFINE v == lru[q.user][Key(q)]
  <2>1. Key(q) \in Keys /\ Key(q)[2] = q.month
    BY <1>1 DEF Key, Keys
  <2>2. v \in Versions /\ v >= clicked[q.user][q.month]
    BY <1>1, <1>3, <2>1 DEF FetchHit, IInv, TypeOK, ClientsFresh
  <2>3. v >= q.due
    BY <1>1, <1>2, <2>2 DEF Versions
  <2>4. Deliver(q, v) \in Req /\ RequestOK(Deliver(q, v))
    BY <1>1, <2>2, <2>3, DeliverOK
  <2>5. Goto(r, Deliver(q, v))
    BY <1>3 DEF FetchHit
  <2> QED
    BY <1>3, <2>4, <2>5, QuietStep DEF FetchHit, IInv, TypeOK
<1>4. CASE FetchCall(r)
  <2> DEFINE s == [q EXCEPT !.pc = "answer", !.ver = ledger[q.month]]
  <2>1. s \in Req /\ s.pc = "answer" /\ s.ver = ledger[q.month] /\ s.path = q.path
        /\ s.outcome = q.outcome /\ s.user = q.user /\ s.month = q.month
        /\ s.due = q.due
    BY <1>1, <1>2 DEF Req, Pcs
  <2>2. Goto(r, s)
    BY <1>4 DEF FetchCall
  <2>3. clicked[q.user][q.month] <= ledger[q.month]
    BY <1>1 DEF IInv, ClicksPast
  <2> HIDE DEF s
  <2>4. RequestOK(s)
    BY <1>1, <1>2, <2>1, <2>3 DEF RequestOK
  <2> QED
    BY <1>4, <2>1, <2>2, <2>4, QuietStep DEF FetchCall, IInv, TypeOK
<1> QED
  BY <1>3, <1>4

LEMMA ReceiveOK ==
  ASSUME NEW r \in Requests, IInv, Receive(r)
  PROVE  IInv'
<1> DEFINE q == req[r]
<1>1. q \in Req /\ RequestOK(q) /\ q.pc = "answer" /\ q.user \in Users
      /\ q.month \in Months /\ q.method \in Methods /\ q.kind \in Kinds
      /\ q.ver \in Versions
  BY DEF IInv, TypeOK, Receive, Req
<1>2. Key(q) \in Keys /\ Key(q)[2] = q.month
  BY <1>1 DEF Key, Keys
<1>3. Deliver(q, q.ver) \in Req /\ RequestOK(Deliver(q, q.ver))
  BY <1>1, DeliverOK DEF RequestOK
<1>4. Goto(r, Deliver(q, q.ver)) /\ UNCHANGED <<current, clicked>>
  BY DEF Receive
<1>5. req' \in [Requests -> Req] /\ \A s \in Requests : RequestOK(req[s])'
  BY <1>3, <1>4, GotoOK
<1>6. lru' \in [Users -> [Keys -> Versions \cup {Absent}]]
  <2> DEFINE E == Versions \cup {Absent}
             k == Key(q)
  <2>1. lru \in [Users -> [Keys -> E]] /\ q.ver \in E /\ k \in Keys
    BY <1>1, <1>2 DEF IInv, TypeOK
  <2>2. lru' = lru \/ lru' = [lru EXCEPT ![q.user][k] = q.ver]
    BY DEF Receive
  <2> HIDE DEF E, k
  <2>3. lru' \in [Users -> [Keys -> E]]
    BY <1>1, <2>1, <2>2
  <2> QED
    BY <2>3 DEF E
<1>7. ClientsFresh'
  <2> SUFFICES ASSUME NEW u \in Users, NEW k \in Keys, lru'[u][k] # Absent
               PROVE  lru'[u][k] >= clicked[u][k[2]]
    BY <1>4 DEF ClientsFresh
  <2>1. CASE lru'[u][k] = lru[u][k]
    BY <2>1 DEF IInv, ClientsFresh
  <2>2. CASE lru'[u][k] # lru[u][k]
    <3>1. ~q.cut /\ lru' = [lru EXCEPT ![q.user][Key(q)] = q.ver]
      BY <2>2 DEF Receive
    <3>2. u = q.user /\ k = Key(q) /\ lru'[u][k] = q.ver
      BY <1>1, <1>2, <2>2, <3>1 DEF IInv, TypeOK
    <3> QED
      BY <1>1, <1>2, <3>1, <3>2 DEF RequestOK
  <2> QED
    BY <2>1, <2>2
<1>8. TypeOK'
  BY <1>5, <1>6 DEF IInv, TypeOK, Receive
<1>9. ClicksPast' /\ FrozenMonthIsOver'
  BY DEF IInv, ClicksPast, FrozenMonthIsOver, Receive
<1> QED
  BY <1>5, <1>7, <1>8, <1>9 DEF IInv

LEMMA SaveOK ==
  ASSUME NEW r \in Requests, IInv, Save(r)
  PROVE  IInv'
<1> DEFINE q == req[r]
           row == [ver |-> q.ver, method |-> q.got, degraded |-> q.degraded]
<1>1. q \in Req /\ RequestOK(q) /\ q.pc = "save" /\ q.month \in Months
      /\ q.ver \in Versions /\ q.got \in Methods /\ q.degraded \in BOOLEAN
  BY DEF IInv, TypeOK, Save, Req
<1>2. snapshot' = [snapshot EXCEPT ![q.month] = row] /\ row \in Payload
  BY <1>1 DEF Save, Payload
<1>3. UNCHANGED <<current, window, ledger, structSaved, lru, refreshing, clicked>>
  BY DEF Save
<1> DEFINE d == Done(q, "full")
<1>4. d \in Req /\ d.pc = "done" /\ d.outcome = "full" /\ d.path = q.path
      /\ d.ver = q.ver /\ d.user = q.user /\ d.month = q.month /\ d.due = q.due
  BY <1>1, DoneType DEF Outcomes
<1>5. Goto(r, d)
  BY DEF Save
<1> HIDE DEF d, row
<1>6. RequestOK(d)
  BY <1>1, <1>4 DEF RequestOK
<1>7. req' \in [Requests -> Req] /\ \A s \in Requests : RequestOK(req[s])'
  BY <1>3, <1>4, <1>5, <1>6, GotoOK
<1>8. TypeOK'
  BY <1>1, <1>2, <1>3, <1>7 DEF IInv, TypeOK
<1>9. q.month < current
  BY <1>1 DEF RequestOK
<1>10. FrozenMonthIsOver'
  BY <1>1, <1>2, <1>3, <1>9 DEF IInv, TypeOK, FrozenMonthIsOver
<1>11. ClientsFresh' /\ ClicksPast'
  BY <1>3 DEF IInv, ClientsFresh, ClicksPast
<1> QED
  BY <1>7, <1>8, <1>10, <1>11 DEF IInv

LEMMA IdleOK ==
  ASSUME IInv, NEW q \in Req, q.pc = "idle", q.due <= clicked[q.user][q.month],
         q.outcome = "none", q.path = "none"
  PROVE  RequestOK(q)
  BY DEF RequestOK

LEMMA FinishOK ==
  ASSUME NEW r \in Requests, IInv, Finish(r)
  PROVE  IInv'
<1>1. Idle.due <= clicked[Idle.user][Idle.month]
  BY IdleType DEF IInv, TypeOK, Versions, Req
<1>2. RequestOK(Idle)
  BY <1>1, IdleType, IdleOK
<1>3. /\ Goto(r, Idle) /\ structSaved' \in BOOLEAN
      /\ UNCHANGED <<current, window, ledger, snapshot, lru, refreshing, clicked>>
  BY DEF Finish, IInv, TypeOK
<1> QED
  BY <1>2, <1>3, IdleType, QuietStep

LEMMA StartOK ==
  ASSUME NEW r \in Requests, NEW u \in Users, NEW m \in Months,
         NEW k \in Methods, IInv, Start(r, u, m, k)
  PROVE  IInv'
<1> DEFINE due == IF refreshing[u] = m THEN 0 ELSE clicked[u][m]
           q == [Idle EXCEPT !.pc = "window", !.user = u, !.month = m,
                             !.method = k, !.due = due]
<1>1. due \in Versions /\ due <= clicked[u][m]
  BY PnlAssumption DEF IInv, TypeOK, Versions
<1>2. q \in Req /\ q.pc = "window" /\ q.user = u /\ q.month = m /\ q.due = due
      /\ q.outcome = "none" /\ q.path = "none"
  BY <1>1, IdleType DEF Req, Pcs
<1>3. Goto(r, q)
  BY DEF Start
<1>4. /\ structSaved' \in BOOLEAN
      /\ UNCHANGED <<current, window, ledger, snapshot, lru, refreshing, clicked>>
  BY DEF Start, IInv, TypeOK
<1> HIDE DEF q, due
<1>5. RequestOK(q)
  BY <1>1, <1>2 DEF RequestOK
<1> QED
  BY <1>2, <1>3, <1>4, <1>5, QuietStep

LEMMA RequestStepOK ==
  ASSUME NEW r \in Requests, IInv, RequestStep(r)
  PROVE  IInv'
<1>1. CASE ReadWindow(r)
  BY <1>1, ReadWindowOK
<1>2. CASE Lookup(r)
  BY <1>2, LookupOK
<1>3. CASE StructureOk(r) \/ StructureFromCopy(r)
  BY <1>3, StructureStepOK
<1>4. CASE \E how \in {"lite", "error"} : StructureFails(r, how) \/ FetchFails(r, how)
  BY <1>4, FailsOK
<1>5. CASE FetchHit(r) \/ FetchCall(r)
  BY <1>5, FetchOK
<1>6. CASE Receive(r)
  BY <1>6, ReceiveOK
<1>7. CASE Save(r)
  BY <1>7, SaveOK
<1>8. CASE Finish(r)
  BY <1>8, FinishOK
<1> QED
  BY <1>1, <1>2, <1>3, <1>4, <1>5, <1>6, <1>7, <1>8 DEF RequestStep

\* Throwing a client away: whoever still waits for an answer through it is
\* cut off, so no old answer can reach the client that comes after.
LEMMA CutOK ==
  ASSUME IInv, NEW u \in Users, CutRequests(u), NEW s \in Requests
  PROVE  /\ req'[s] \in Req
         /\ req'[s].user = req[s].user /\ req'[s].month = req[s].month
         /\ req'[s].due = req[s].due /\ req'[s].ver = req[s].ver
         /\ req'[s].pc = req[s].pc /\ req'[s].path = req[s].path
         /\ req'[s].outcome = req[s].outcome
         /\ req'[s].cut = req[s].cut \/ req'[s].cut
         /\ req[s].user = u /\ req[s].pc = "answer" => req'[s].cut
<1>1. req[s] \in Req
  BY DEF IInv, TypeOK
<1>2. CASE req[s].user = u /\ req[s].pc \notin {"idle", "save", "done"}
  <2>1. req'[s] = [req[s] EXCEPT !.cut = TRUE]
    BY <1>2 DEF CutRequests
  <2> QED
    BY <1>1, <2>1 DEF Req
<1>3. CASE ~(req[s].user = u /\ req[s].pc \notin {"idle", "save", "done"})
  <2>1. req'[s] = req[s]
    BY <1>3 DEF CutRequests
  <2> QED
    BY <1>1, <1>3, <2>1 DEF Req
<1> QED
  BY <1>2, <1>3

LEMMA CutType ==
  ASSUME IInv, NEW u \in Users, CutRequests(u)
  PROVE  req' \in [Requests -> Req]
  BY CutOK DEF CutRequests

LEMMA EmptyLruOK ==
  ASSUME IInv, NEW u \in Users, EmptyLru(u)
  PROVE  /\ lru' \in [Users -> [Keys -> Versions \cup {Absent}]]
         /\ \A k \in Keys : lru'[u][k] = Absent
         /\ \A v \in Users : v # u => lru'[v] = lru[v]
  BY DEF IInv, TypeOK, EmptyLru

LEMMA RefreshClientOK ==
  ASSUME IInv, NEW u \in Users, NEW m \in Months, RefreshClient(u, m)
  PROVE  IInv'
<1>1. /\ CutRequests(u) /\ EmptyLru(u)
      /\ clicked' = [clicked EXCEPT ![u][m] = ledger[m]]
      /\ refreshing' = [refreshing EXCEPT ![u] = m]
      /\ UNCHANGED <<current, window, ledger, snapshot, structSaved>>
  BY DEF RefreshClient
<1>2. ledger[m] \in Versions /\ clicked[u][m] <= ledger[m]
      /\ clicked \in [Users -> [Months -> Versions]]
  BY DEF IInv, TypeOK, ClicksPast
<1>3. clicked' \in [Users -> [Months -> Versions]]
  BY <1>1, <1>2
<1>4. \A v \in Users, n \in Months :
        /\ clicked'[v][n] >= clicked[v][n] /\ clicked'[v][n] <= ledger[n]
        /\ v # u => clicked'[v][n] = clicked[v][n]
  BY <1>1, <1>2 DEF IInv, TypeOK, ClicksPast, Versions
<1>5. TypeOK'
  BY <1>1, <1>3, CutType, EmptyLruOK DEF IInv, TypeOK
<1>6. ASSUME NEW s \in Requests PROVE RequestOK(req[s])'
  <2>1. req[s] \in Req /\ RequestOK(req[s]) /\ req[s].user \in Users
        /\ req[s].month \in Months /\ req[s].due \in Int
    BY DEF IInv, TypeOK, Req, Versions
  <2>2. clicked'[req[s].user][req[s].month] \in Int
        /\ clicked[req[s].user][req[s].month] \in Int
    BY <1>2, <1>3, <2>1 DEF Versions
  <2>3. req[s].due <= clicked'[req[s].user][req[s].month]
    BY <1>4, <2>1, <2>2 DEF RequestOK
  <2>4. CASE req[s].user = u
    BY <1>1, <2>1, <2>3, <2>4, CutOK DEF RequestOK
  <2>5. CASE req[s].user # u
    BY <1>1, <1>4, <2>1, <2>3, <2>5, CutOK DEF RequestOK
  <2> QED
    BY <2>4, <2>5
<1>7. ClientsFresh'
  <2> SUFFICES ASSUME NEW v \in Users, NEW k \in Keys, lru'[v][k] # Absent
               PROVE  lru'[v][k] >= clicked'[v][k[2]]
    BY DEF ClientsFresh
  <2>1. v # u /\ lru'[v] = lru[v]
    BY <1>1, EmptyLruOK
  <2>2. k[2] \in Months
    BY DEF Keys
  <2> QED
    BY <1>4, <2>1, <2>2 DEF IInv, ClientsFresh
<1>8. ClicksPast' /\ FrozenMonthIsOver'
  BY <1>1, <1>4 DEF IInv, ClicksPast, FrozenMonthIsOver
<1> QED
  BY <1>5, <1>6, <1>7, <1>8 DEF IInv

LEMMA DropClientOK ==
  ASSUME IInv, NEW u \in Users, DropClient(u)
  PROVE  IInv'
<1>1. /\ CutRequests(u) /\ EmptyLru(u)
      /\ UNCHANGED <<current, window, ledger, snapshot, structSaved, refreshing,
                     clicked>>
  BY DEF DropClient
<1>2. TypeOK'
  BY <1>1, CutType, EmptyLruOK DEF IInv, TypeOK
<1>3. ASSUME NEW s \in Requests PROVE RequestOK(req[s])'
  <2>1. req[s] \in Req /\ RequestOK(req[s])
    BY DEF IInv, TypeOK
  <2> QED
    BY <1>1, <2>1, CutOK DEF RequestOK
<1>4. ClientsFresh' /\ ClicksPast' /\ FrozenMonthIsOver'
  BY <1>1, EmptyLruOK DEF IInv, ClientsFresh, ClicksPast, FrozenMonthIsOver
<1> QED
  BY <1>2, <1>3, <1>4 DEF IInv

\* Steps that leave the requests and the clicks alone and let the calendar
\* and the ledger only move forward.
LEMMA OutsideStep ==
  ASSUME IInv, UNCHANGED <<req, clicked>>, TypeOK', current' >= current,
         \A m \in Months : ledger'[m] >= ledger[m],
         \A u \in Users, k \in Keys : lru'[u][k] \in {lru[u][k], Absent},
         \A m \in Months : snapshot'[m] \in {snapshot[m], NoRow}
  PROVE  IInv'
<1>1. ASSUME NEW s \in Requests PROVE RequestOK(req[s])'
  <2>1. RequestOK(req[s]) /\ req[s] \in Req /\ req[s].month \in Int
        /\ current \in Int /\ current' \in Int
    BY DEF IInv, TypeOK, Req, Months
  <2> QED
    BY <2>1 DEF RequestOK
<1>2. ClientsFresh'
  BY DEF IInv, ClientsFresh
<1>3. ClicksPast'
  BY DEF IInv, TypeOK, ClicksPast, Versions
<1>4. FrozenMonthIsOver'
  BY DEF IInv, TypeOK, FrozenMonthIsOver, Months
<1> QED
  BY <1>1, <1>2, <1>3, <1>4 DEF IInv

LEMMA OutsideOK ==
  ASSUME IInv,
         \/ \E u \in Users : RefreshDelete(u)
         \/ \E u \in Users, k \in Keys : Expire(u, k)
         \/ \E m \in Months : Reopen(m) \/ EditLedger(m)
         \/ \E w \in 1..MaxWindow : SetWindow(w)
         \/ NextMonth
  PROVE  IInv'
<1>1. CASE \E u \in Users : RefreshDelete(u)
  <2>1. PICK u \in Users : RefreshDelete(u)
    BY <1>1
  <2>2. TypeOK'
    BY <2>1 DEF RefreshDelete, IInv, TypeOK
  <2> QED
    BY <2>1, <2>2, OutsideStep DEF RefreshDelete, IInv, TypeOK, Versions
<1>2. CASE \E u \in Users, k \in Keys : Expire(u, k)
  <2>1. PICK u \in Users, k \in Keys : Expire(u, k)
    BY <1>2
  <2>2. lru' \in [Users -> [Keys -> Versions \cup {Absent}]]
        /\ \A v \in Users, j \in Keys : lru'[v][j] \in {lru[v][j], Absent}
    BY <2>1 DEF Expire, IInv, TypeOK
  <2>3. TypeOK'
    BY <2>1, <2>2 DEF Expire, IInv, TypeOK
  <2> QED
    BY <2>1, <2>2, <2>3, OutsideStep DEF Expire, IInv, TypeOK, Versions
<1>3. CASE \E m \in Months : Reopen(m)
  <2>1. PICK m \in Months : Reopen(m)
    BY <1>3
  <2>2. TypeOK'
    BY <2>1 DEF Reopen, IInv, TypeOK
  <2> QED
    BY <2>1, <2>2, OutsideStep DEF Reopen, IInv, TypeOK, Versions
<1>4. CASE \E m \in Months : EditLedger(m)
  <2>1. PICK m \in Months : EditLedger(m)
    BY <1>4
  <2>2. ledger' \in [Months -> Versions] /\ \A n \in Months : ledger'[n] >= ledger[n]
    BY <2>1, PnlAssumption DEF EditLedger, IInv, TypeOK, Versions
  <2>3. TypeOK'
    BY <2>1, <2>2 DEF EditLedger, IInv, TypeOK
  <2> QED
    BY <2>1, <2>2, <2>3, OutsideStep DEF EditLedger, IInv, TypeOK
<1>5. CASE \E w \in 1..MaxWindow : SetWindow(w)
  <2>1. TypeOK'
    BY <1>5 DEF SetWindow, IInv, TypeOK
  <2> QED
    BY <1>5, <2>1, OutsideStep DEF SetWindow, IInv, TypeOK, Versions
<1>6. CASE NextMonth
  <2>1. TypeOK' /\ current' >= current
    BY <1>6, PnlAssumption DEF NextMonth, IInv, TypeOK
  <2> QED
    BY <1>6, <2>1, OutsideStep DEF NextMonth, IInv, TypeOK, Versions
<1> QED
  BY <1>1, <1>2, <1>3, <1>4, <1>5, <1>6

LEMMA StutterOK == IInv /\ UNCHANGED vars => IInv'
  BY DEF IInv, TypeOK, RequestOK, ClientsFresh, ClicksPast, FrozenMonthIsOver, vars

\* IInv is an invariant: it holds at the start and every step preserves it.
THEOREM Invariance == Spec => []IInv
<1>1. IInv /\ [Next]_vars => IInv'
  <2> SUFFICES ASSUME IInv, [Next]_vars PROVE IInv'
    OBVIOUS
  <2>1. CASE \E r \in Requests : RequestStep(r)
    BY <2>1, RequestStepOK
  <2>2. CASE \E r \in Requests, u \in Users, m \in Months, k \in Methods :
               Start(r, u, m, k)
    BY <2>2, StartOK
  <2>3. CASE \E u \in Users, m \in Months : RefreshClient(u, m)
    BY <2>3, RefreshClientOK
  <2>4. CASE \E u \in Users : DropClient(u)
    BY <2>4, DropClientOK
  <2>5. CASE \/ \E u \in Users : RefreshDelete(u)
             \/ \E u \in Users, k \in Keys : Expire(u, k)
             \/ \E m \in Months : Reopen(m) \/ EditLedger(m)
             \/ \E w \in 1..MaxWindow : SetWindow(w)
             \/ NextMonth
    BY <2>5, OutsideOK
  <2>6. CASE UNCHANGED vars
    BY <2>6, StutterOK
  <2> QED
    BY <2>1, <2>2, <2>3, <2>4, <2>5, <2>6 DEF Next
<1> QED
  BY <1>1, InitIInv, PTL DEF Spec

\* Every variable keeps its type.
THEOREM TypeCorrect == Spec => []TypeOK
<1>1. IInv => TypeOK
  BY DEF IInv
<1> QED
  BY <1>1, Invariance, PTL

\* Only a month that is over is ever frozen (is_period_in_live_window together
\* with a calendar that does not run backwards).
THEOREM OnlyFinishedMonthsAreFrozen == Spec => []FrozenMonthIsOver
<1>1. IInv => FrozenMonthIsOver
  BY DEF IInv
<1> QED
  BY <1>1, Invariance, PTL

\* A P&L built from PlanFact is never older than the user's last refresh click
\* (invalidate_planfact_for throws the client away, it does not only empty it).
THEOREM BuildsAreFresh == Spec => []BuiltAfterRefreshIsFresh
<1>1. IInv => BuiltAfterRefreshIsFresh
  BY DEF IInv, RequestOK, BuiltAfterRefreshIsFresh
<1> QED
  BY <1>1, Invariance, PTL

(***************************************************************************)
(* Every request comes to its answer: each of its steps goes down.         *)
(***************************************************************************)
\* What each helper makes of a request is lower than where it stood.
LEMMA DoneIsLow ==
  ASSUME NEW q \in Req, NEW how, q.pc \notin {"idle", "done"}
  PROVE  Height(Done(q, how)) < Height(q)
<1> DEFINE d == Done(q, how)
<1>1. d.pc = "done"
  BY DEF Done, Req
<1> HIDE DEF d
<1>2. Height(d) = 1
  BY <1>1 DEF Height
<1>3. Height(q) > 1
  BY DEF Height, Req, Pcs
<1> QED  BY <1>2, <1>3 DEF d

LEMMA BuildIsLower ==
  ASSUME NEW q \in Req, NEW path, q.pc \in {"window", "lookup"}
  PROVE  Height(Build(q, path)) < Height(q)
<1> DEFINE b == Build(q, path)
<1>1. b.pc \in {"structure", "fetch"}
  BY DEF Build, Req
<1> HIDE DEF b
<1>2. Height(b) \in {7, 6, 4}
  BY <1>1 DEF Height
<1>3. Height(q) \in {9, 8}
  BY DEF Height
<1> QED  BY <1>2, <1>3 DEF b

LEMMA FailIsLower ==
  ASSUME NEW q \in Req, NEW how, q.pc \in {"structure", "fetch", "answer"}
  PROVE  Height(Fail(q, how)) < Height(q)
<1>1. CASE q.kind = "opu"
  <2> DEFINE s == [q EXCEPT !.pc = "fetch", !.kind = "operations", !.degraded = FALSE]
  <2>1. s.pc = "fetch" /\ s.kind = "operations"
    BY DEF Req
  <2>2. Fail(q, how) = s
    BY <1>1 DEF Fail
  <2> HIDE DEF s
  <2>3. Height(s) = 4
    BY <2>1 DEF Height
  <2>4. Height(q) \in {7, 6, 5}
    BY <1>1 DEF Height
  <2> QED  BY <2>2, <2>3, <2>4
<1>2. CASE q.kind # "opu"
  BY <1>2, DoneIsLow DEF Fail
<1> QED  BY <1>1, <1>2

LEMMA DeliverIsLower ==
  ASSUME NEW q \in Req, NEW v \in Versions, q.pc \in {"fetch", "answer"}
  PROVE  Height(Deliver(q, v)) < Height(q)
<1> DEFINE p == [q EXCEPT !.ver = v, !.got = q.method]
           s == [p EXCEPT !.pc = "save", !.cut = FALSE]
<1>1. p \in Req /\ p.pc = q.pc /\ p.kind = q.kind /\ s.pc = "save"
  BY DEF Req
<1>2. Deliver(q, v) = s \/ Deliver(q, v) = Done(p, "full")
  BY DEF Deliver
<1> HIDE DEF p, s
<1>3. Height(p) = Height(q) /\ Height(q) \in {6, 5, 4, 3}
  BY <1>1 DEF Height
<1>4. Height(s) = 2
  BY <1>1 DEF Height
<1>5. Height(Done(p, "full")) < Height(p)
  BY <1>1, DoneIsLow
<1> QED  BY <1>2, <1>3, <1>4, <1>5

LEMMA RequestGoesDown ==
  ASSUME IInv, NEW r \in Requests, RequestStep(r)
  PROVE  \E q : Goto(r, q) /\ Height(q) < Height(req[r])
<1> DEFINE q == req[r]
<1>1. q \in Req
  BY DEF IInv, TypeOK
<1>2. CASE ReadWindow(r)
  <2>1. q.pc = "window"
    BY <1>2 DEF ReadWindow
  <2> DEFINE s == [q EXCEPT !.pc = "lookup"]
  <2>2. s.pc = "lookup"
    BY <1>1 DEF Req
  <2>3. Goto(r, s) \/ Goto(r, Build(q, "live"))
    BY <1>2 DEF ReadWindow
  <2> HIDE DEF s
  <2>4. Height(s) = 8 /\ Height(q) = 9
    BY <2>1, <2>2 DEF Height
  <2> QED  BY <1>1, <2>1, <2>3, <2>4, BuildIsLower
<1>3. CASE Lookup(r)
  <2>1. q.pc = "lookup"
    BY <1>3 DEF Lookup
  <2>2. \/ Goto(r, Build(q, "miss"))
        \/ \E s : Goto(r, s) /\ s.pc = "structure"
    <3> DEFINE row == snapshot[q.month]
               s == [q EXCEPT !.pc = "structure", !.path = "hit", !.ver = row.ver,
                              !.got = row.method]
    <3>1. Goto(r, Build(q, "miss")) \/ Goto(r, s)
      BY <1>3 DEF Lookup
    <3>2. s.pc = "structure"
      BY <1>1 DEF Req
    <3> HIDE DEF s
    <3> QED  BY <3>1, <3>2
  <2>3. \A s : s.pc = "structure" => Height(s) = 7
    BY DEF Height
  <2>4. Height(q) = 8
    BY <2>1 DEF Height
  <2> QED  BY <1>1, <2>1, <2>2, <2>3, <2>4, BuildIsLower
<1>4. CASE StructureOk(r) \/ StructureFromCopy(r)
  <2>1. q.pc = "structure"
    BY <1>4 DEF StructureOk, StructureFromCopy
  <2> DEFINE s == [q EXCEPT !.pc = "fetch"]
             d == [q EXCEPT !.degraded = TRUE]
             t == [d EXCEPT !.pc = "fetch"]
  <2>2. s.pc = "fetch" /\ t.pc = "fetch" /\ d.pc = "structure" /\ d \in Req
    BY <1>1, <2>1 DEF Req
  <2>3. \/ Goto(r, s) \/ Goto(r, t) \/ Goto(r, Done(q, "full")) \/ Goto(r, Done(d, "full"))
    BY <1>4 DEF StructureOk, StructureFromCopy
  <2> HIDE DEF s, d, t
  <2>4. Height(q) = 7 /\ Height(d) = 7 /\ Height(s) \in {6, 4} /\ Height(t) \in {6, 4}
    BY <2>1, <2>2 DEF Height
  <2>5. Height(Done(q, "full")) < 7 /\ Height(Done(d, "full")) < 7
    BY <1>1, <2>1, <2>2, <2>4, DoneIsLow
  <2> QED  BY <2>3, <2>4, <2>5
<1>5. CASE \E how \in {"lite", "error"} : StructureFails(r, how) \/ FetchFails(r, how)
  <2>1. PICK how \in {"lite", "error"} : StructureFails(r, how) \/ FetchFails(r, how)
    BY <1>5
  <2>2. q.pc \in {"structure", "fetch", "answer"}
    BY <2>1 DEF StructureFails, FetchFails
  <2>3. Goto(r, Done(q, how)) \/ Goto(r, Fail(q, how))
    BY <2>1 DEF StructureFails, FetchFails
  <2> QED  BY <1>1, <2>2, <2>3, DoneIsLow, FailIsLower
<1>6. CASE FetchHit(r) \/ Receive(r)
  <2>1. PICK v : v \in Versions /\ Goto(r, Deliver(q, v))
    <3>1. CASE Receive(r)
      BY <1>1, <3>1 DEF Receive, Req
    <3>2. CASE FetchHit(r)
      <4>1. Key(q) \in Keys /\ q.user \in Users
        BY <1>1 DEF Key, Keys, Req
      <4>2. lru[q.user][Key(q)] \in Versions \cup {Absent}
        BY <4>1 DEF IInv, TypeOK
      <4> QED  BY <3>2, <4>2 DEF FetchHit
    <3> QED  BY <1>6, <3>1, <3>2
  <2>2. q.pc \in {"fetch", "answer"}
    BY <1>6 DEF FetchHit, Receive
  <2> QED  BY <1>1, <2>1, <2>2, DeliverIsLower
<1>7. CASE FetchCall(r)
  <2> DEFINE s == [q EXCEPT !.pc = "answer", !.ver = ledger[q.month]]
  <2>1. q.pc = "fetch" /\ Goto(r, s)
    BY <1>7 DEF FetchCall
  <2>2. s.pc = "answer" /\ s.kind = q.kind
    BY <1>1 DEF Req
  <2> HIDE DEF s
  <2>3. Height(s) < Height(q)
    BY <2>1, <2>2 DEF Height
  <2> QED  BY <2>1, <2>3
<1>8. CASE Save(r)
  BY <1>1, <1>8, DoneIsLow DEF Save
<1>9. CASE Finish(r)
  <2>1. Height(Idle) = 0 /\ Height(q) = 1
    BY <1>9, IdleType DEF Finish, Height
  <2> QED  BY <1>9, <2>1 DEF Finish
<1> QED
  BY <1>2, <1>3, <1>4, <1>5, <1>6, <1>7, <1>8, <1>9 DEF RequestStep

\* Every step of a request takes it further down, for any users, months, edits and
\* requests, whatever fails and whoever throws its client away.
THEOREM NoRequestGoesRound == Spec => FallbacksGoDown
<1> DEFINE Down == \A r \in Requests : req[r].pc # "idle" =>
              \/ Height(req'[r]) < Height(req[r])
              \/ req'[r] \in {req[r], [req[r] EXCEPT !.cut = TRUE]}
<1>1. ASSUME IInv, [Next]_vars PROVE [Down]_req
  <2> SUFFICES ASSUME NEW r \in Requests, req[r].pc # "idle"
               PROVE  \/ Height(req'[r]) < Height(req[r])
                      \/ req'[r] \in {req[r], [req[r] EXCEPT !.cut = TRUE]}
    OBVIOUS
  <2>1. req \in [Requests -> Req]
    BY <1>1 DEF IInv, TypeOK
  <2>2. \A s \in Requests : \A q : Goto(s, q) => req'[r] = IF s = r THEN q ELSE req[r]
    <3> HIDE DEF Req
    <3> QED  BY <2>1 DEF Goto
  <2>3. CASE \E s \in Requests : RequestStep(s)
    <3>1. PICK s \in Requests : RequestStep(s)
      BY <2>3
    <3>2. PICK q : Goto(s, q) /\ Height(q) < Height(req[s])
      BY <1>1, <3>1, RequestGoesDown
    <3> QED  BY <2>2, <3>2
  <2>4. CASE \E s \in Requests, u \in Users, m \in Months, k \in Methods : Start(s, u, m, k)
    BY <2>2, <2>4 DEF Start
  <2>5. CASE \/ \E u \in Users, m \in Months : RefreshClient(u, m)
             \/ \E u \in Users : DropClient(u)
    BY <2>5 DEF RefreshClient, DropClient, CutRequests
  <2>6. CASE \/ \E u \in Users : RefreshDelete(u)
             \/ \E u \in Users, k \in Keys : Expire(u, k)
             \/ \E m \in Months : Reopen(m) \/ EditLedger(m)
             \/ \E w \in 1..MaxWindow : SetWindow(w)
             \/ NextMonth
             \/ UNCHANGED vars
    BY <2>6 DEF RefreshDelete, Expire, Reopen, EditLedger, SetWindow, NextMonth, vars
  <2> QED  BY <1>1, <2>3, <2>4, <2>5, <2>6 DEF Next
<1>2. IInv /\ [Next]_vars => [Down]_req
  BY <1>1
<1> QED  BY Invariance, <1>2, PTL DEF Spec, FallbacksGoDown
=============================================================================
