---------------------------- MODULE PnlSnapshot ----------------------------
(***************************************************************************)
(* How /api/pnl gets the P&L of one month of one PlanFact key: the frozen  *)
(* snapshots of closed months (table cache_history), the per-user PlanFact *)
(* client with its in-memory LRU of answers, the "refresh" button and the  *)
(* administrator's "reopen".  A version number stands for the content of a *)
(* month's ledger in PlanFact, so that what a user is shown can be compared *)
(* with what the accountant has entered.                                   *)
(*                                                                         *)
(* One step of a request is what the event loop runs between two awaits.   *)
(***************************************************************************)
EXTENDS Integers

CONSTANTS
  Users,        \* the users who share the PlanFact key
  Requests,     \* the GET /api/pnl calls that may be in progress
  Methods,      \* "accrual", "cash": the report method a request asks for
  Source,       \* planfact_keys.pnl_source: "raw" or "v2"
  LastMonth,    \* months are numbered 1..LastMonth
  MaxCurrent,   \* bound: the calendar stops at this month
  MaxWindow,    \* bound: the largest live_months_window an admin sets
  MaxEdits,     \* bound: how often one month is edited in PlanFact
  NoRow         \* "cache_history has no row for this month"

Months   == 1..LastMonth
Versions == 0..MaxEdits
Absent   == -1                        \* no answer in an LRU

\* What the client LRU can hold for a month: GET /operations (raw path) and
\* POST /v2/reports/opu (v2 path) have different cache keys.
Kinds == {"operations", "opu"}
Keys  == Kinds \X Months \X Methods

Payload == [ver : Versions, method : Methods, degraded : BOOLEAN]

ASSUME PnlAssumption ==
  /\ Users # {} /\ Methods # {}
  /\ Source \in {"raw", "v2"}
  /\ LastMonth \in Nat \ {0} /\ MaxCurrent \in Nat \ {0}
  /\ MaxWindow \in Nat \ {0} /\ MaxEdits \in Nat
  /\ NoRow \notin Payload

VARIABLES
  current,     \* the calendar month (_current_month_str)
  window,      \* planfact_keys.live_months_window
  ledger,      \* ledger[m]: version of month m in PlanFact
  snapshot,    \* snapshot[m]: the cache_history row of month m, or NoRow
  structSaved, \* cache_history holds a copy of the project and category lists
  lru,         \* lru[u][k]: the version the client of user u has cached for k
  req,         \* req[r]: the progress of request r
  refreshing,  \* refreshing[u]: the month whose refresh by u is half done, or 0
  clicked      \* auxiliary: clicked[u][m]: ledger[m] when u last refreshed m

vars == <<current, window, ledger, snapshot, structSaved, lru, req,
          refreshing, clicked>>

Pcs      == {"idle", "window", "lookup", "structure",
             "fetch", "answer", "save", "done"}
Paths    == {"none", "hit", "miss", "live"}
Outcomes == {"none", "full", "lite", "error"}

Req == [pc : Pcs, user : Users, month : Months, method : Methods,
        cut      : BOOLEAN,     \* its client was thrown away and is closing
        path     : Paths,
        kind     : Kinds,       \* the PlanFact report it is fetching
        ver      : Versions,    \* the version it holds
        got      : Methods,     \* the method that version was computed with
        degraded : BOOLEAN,     \* built with the saved copy of the lists
        outcome  : Outcomes,
        due      : Versions]    \* auxiliary: what the user's last refresh promised

Idle == [pc |-> "idle", user |-> CHOOSE u \in Users : TRUE, month |-> 1,
         method |-> CHOOSE k \in Methods : TRUE, cut |-> FALSE,
         path |-> "none", kind |-> "operations", ver |-> 0,
         got |-> CHOOSE k \in Methods : TRUE, degraded |-> FALSE,
         outcome |-> "none", due |-> 0]

\* Mutant of Closed: the month before the live window counts as closed early.
ClosedEarly(m) == current - m >= window - 1

\* store.is_period_in_live_window, negated: outside max(1, window) months.
Closed(m) == current - m >= 1 /\ current - m >= window

\* The LRU entry a request reads and fills
Key(q) == <<q.kind, q.month, q.method>>

Init ==
  /\ current = 1
  /\ window \in 1..MaxWindow
  /\ ledger = [m \in Months |-> 0]
  /\ snapshot = [m \in Months |-> NoRow]
  /\ structSaved = FALSE
  /\ lru = [u \in Users |-> [k \in Keys |-> Absent]]
  /\ req = [r \in Requests |-> Idle]
  /\ refreshing = [u \in Users |-> 0]
  /\ clicked = [u \in Users |-> [m \in Months |-> 0]]

(***************************************************************************)
(* Steps of one request                                                    *)
(***************************************************************************)
Goto(r, q) == req' = [req EXCEPT ![r] = q]

\* The request answers.  What it no longer needs is forgotten.
Done(q, how) ==
  [q EXCEPT !.pc = "done", !.outcome = how, !.cut = FALSE,
            !.kind = "operations", !.degraded = FALSE]

\* The call that starts building from PlanFact: v2 begins with the lists.
Build(q, path) ==
  [q EXCEPT !.path = path,
            !.pc   = IF Source = "v2" THEN "structure" ELSE "fetch",
            !.kind = IF Source = "v2" THEN "opu" ELSE "operations"]

\* An aggregate has arrived.  Only a miss is frozen.
Deliver(q, v) ==
  LET p == [q EXCEPT !.ver = v, !.got = q.method]
  IN IF q.path = "miss" THEN [p EXCEPT !.pc = "save", !.cut = FALSE] ELSE Done(p, "full")

\* Mutant of Fail: v2 tries itself again instead of falling back.
FailIntoV2(q, how) ==
  IF q.kind = "opu" THEN [q EXCEPT !.pc = "structure"] ELSE Done(q, how)

\* The aggregate could not be fetched: v2 falls back on raw, raw ends the
\* request, in Lite mode if PlanFact answered 5xx and with an error otherwise.
\* The raw path takes the lists from its own calls, never from the copy.
Fail(q, how) ==
  IF q.kind = "opu"
  THEN [q EXCEPT !.pc = "fetch", !.kind = "operations", !.degraded = FALSE]
  ELSE Done(q, how)

\* The call has resolved its user and filter and, with planfact_for, holds
\* the user's current client.
Start(r, u, m, method) ==
  /\ req[r].pc = "idle"
  /\ Goto(r, [Idle EXCEPT !.pc = "window", !.user = u, !.month = m,
                          !.method = method,
                          !.due = IF refreshing[u] = m THEN 0
                                                       ELSE clicked[u][m]])
  /\ UNCHANGED <<current, window, ledger, snapshot, structSaved, lru,
                 refreshing, clicked>>

\* The row of the key is read; the month's side of the window is decided.
ReadWindow(r) ==
  /\ req[r].pc = "window"
  /\ IF Closed(req[r].month)
     THEN Goto(r, [req[r] EXCEPT !.pc = "lookup"])
     ELSE Goto(r, Build(req[r], "live"))
  /\ UNCHANGED <<current, window, ledger, snapshot, structSaved, lru,
                 refreshing, clicked>>

\* store.get_cache_entry
Lookup(r) ==
  /\ req[r].pc = "lookup"
  /\ LET row == snapshot[req[r].month] IN
     IF row = NoRow
     THEN Goto(r, Build(req[r], "miss"))
     ELSE Goto(r, [req[r] EXCEPT !.pc = "structure", !.path = "hit",
                                 !.ver = row.ver, !.got = row.method])
  /\ UNCHANGED <<current, window, ledger, snapshot, structSaved, lru,
                 refreshing, clicked>>

\* _pf_structure: the lists answer and a copy of them is kept.
StructureOk(r) ==
  /\ req[r].pc = "structure"
  /\ Goto(r, IF req[r].path = "hit" THEN Done(req[r], "full")
                                    ELSE [req[r] EXCEPT !.pc = "fetch"])
  /\ structSaved' = TRUE
  /\ UNCHANGED <<current, window, ledger, snapshot, lru, refreshing, clicked>>

\* _pf_structure: PlanFact is down (5xx); the saved copy replaces the lists.
StructureFromCopy(r) ==
  /\ req[r].pc = "structure"
  /\ structSaved
  /\ LET q == [req[r] EXCEPT !.degraded = TRUE]
     IN Goto(r, IF q.path = "hit" THEN Done(q, "full")
                                  ELSE [q EXCEPT !.pc = "fetch"])
  /\ UNCHANGED <<current, window, ledger, snapshot, structSaved, lru,
                 refreshing, clicked>>

\* _pf_structure: PlanFact is down and there is no copy, or it answers 4xx,
\* or the client has been closed.  A hit ends the request, v2 falls back.
StructureFails(r, how) ==
  /\ req[r].pc = "structure"
  /\ how = "lite" => ~structSaved
  /\ Goto(r, IF req[r].path = "hit" THEN Done(req[r], how)
                                    ELSE Fail(req[r], how))
  /\ UNCHANGED <<current, window, ledger, snapshot, structSaved, lru,
                 refreshing, clicked>>

\* The LRU of the client answers, without a call.
FetchHit(r) ==
  /\ req[r].pc = "fetch"
  /\ ~req[r].cut
  /\ lru[req[r].user][Key(req[r])] # Absent
  /\ Goto(r, Deliver(req[r], lru[req[r].user][Key(req[r])]))
  /\ UNCHANGED <<current, window, ledger, snapshot, structSaved, lru,
                 refreshing, clicked>>

\* PlanFact computes the answer; it is still on its way.
FetchCall(r) ==
  /\ req[r].pc = "fetch"
  /\ req[r].cut \/ lru[req[r].user][Key(req[r])] = Absent
  /\ Goto(r, [req[r] EXCEPT !.pc = "answer", !.ver = ledger[req[r].month]])
  /\ UNCHANGED <<current, window, ledger, snapshot, structSaved, lru,
                 refreshing, clicked>>

\* The answer arrives.  It is kept unless it is too large, and by nobody if
\* the client that made the call is no longer the user's client.
Receive(r) ==
  /\ req[r].pc = "answer"
  /\ Goto(r, Deliver(req[r], req[r].ver))
  /\ \/ /\ ~req[r].cut
        /\ lru' = [lru EXCEPT ![req[r].user][Key(req[r])] = req[r].ver]
     \/ lru' = lru
  /\ UNCHANGED <<current, window, ledger, snapshot, structSaved, refreshing,
                 clicked>>

\* PlanFact answers 5xx ("lite") or 4xx ("error"), or the client the request
\* holds has been closed under it ("error").
FetchFails(r, how) ==
  /\ \/ req[r].pc = "fetch"
     \/ req[r].pc = "answer" /\ req[r].cut /\ how = "error"
  /\ Goto(r, Fail(req[r], how))
  /\ UNCHANGED <<current, window, ledger, snapshot, structSaved, lru,
                 refreshing, clicked>>

\* store.save_cache_entry and the commit: an upsert, whoever comes last wins.
Save(r) ==
  /\ req[r].pc = "save"
  /\ snapshot' = [snapshot EXCEPT ![req[r].month] =
                    [ver |-> req[r].ver, method |-> req[r].got,
                     degraded |-> req[r].degraded]]
  /\ Goto(r, Done(req[r], "full"))
  /\ UNCHANGED <<current, window, ledger, structSaved, lru, refreshing,
                 clicked>>

Finish(r) ==
  /\ req[r].pc = "done"
  /\ Goto(r, Idle)
  /\ UNCHANGED <<current, window, ledger, snapshot, structSaved, lru,
                 refreshing, clicked>>

(***************************************************************************)
(* The refresh button, the administrator, the calendar and PlanFact        *)
(***************************************************************************)
\* Mutant of CutRequests: the client is cleared but stays the user's client.
CutNothing(u) == req' = req

\* The requests of u that hold its client lose it: the client is closed.
CutRequests(u) ==
  req' = [r \in Requests |->
           IF req[r].user = u /\ req[r].pc \notin {"idle", "save", "done"}
           THEN [req[r] EXCEPT !.cut = TRUE] ELSE req[r]]

EmptyLru(u) == lru' = [lru EXCEPT ![u] = [k \in Keys |-> Absent]]

\* POST /api/ops-metrics/sync, first half: invalidate_planfact_for(user.id).
RefreshClient(u, m) ==
  /\ refreshing[u] = 0
  /\ CutRequests(u)
  /\ EmptyLru(u)
  /\ refreshing' = [refreshing EXCEPT ![u] = m]
  /\ clicked' = [clicked EXCEPT ![u][m] = ledger[m]]
  /\ UNCHANGED <<current, window, ledger, snapshot, structSaved>>

\* Second half: the row is deleted and the call returns.
RefreshDelete(u) ==
  /\ refreshing[u] # 0
  /\ snapshot' = [snapshot EXCEPT ![refreshing[u]] = NoRow]
  /\ refreshing' = [refreshing EXCEPT ![u] = 0]
  /\ UNCHANGED <<current, window, ledger, structSaved, lru, req, clicked>>

\* admin_delete_key_cache: only the row, no client.
Reopen(m) ==
  /\ snapshot' = [snapshot EXCEPT ![m] = NoRow]
  /\ UNCHANGED <<current, window, ledger, structSaved, lru, req, refreshing,
                 clicked>>

\* A client is thrown away without a refresh: logout, changed settings, or
\* the pool of clients is over CLIENTS_MAX.
DropClient(u) ==
  /\ CutRequests(u)
  /\ EmptyLru(u)
  /\ UNCHANGED <<current, window, ledger, snapshot, structSaved, refreshing,
                 clicked>>

\* An LRU entry outlives cache_ttl or is pushed out by newer ones.
Expire(u, k) ==
  /\ lru[u][k] # Absent
  /\ lru' = [lru EXCEPT ![u][k] = Absent]
  /\ UNCHANGED <<current, window, ledger, snapshot, structSaved, req,
                 refreshing, clicked>>

\* admin_update_live_months_window
SetWindow(w) ==
  /\ window' = w
  /\ UNCHANGED <<current, ledger, snapshot, structSaved, lru, req, refreshing,
                 clicked>>

NextMonth ==
  /\ current < MaxCurrent
  /\ current' = current + 1
  /\ UNCHANGED <<window, ledger, snapshot, structSaved, lru, req, refreshing,
                 clicked>>

\* The accountant edits an operation of month m in PlanFact.
EditLedger(m) ==
  /\ ledger[m] < MaxEdits
  /\ ledger' = [ledger EXCEPT ![m] = ledger[m] + 1]
  /\ UNCHANGED <<current, window, snapshot, structSaved, lru, req, refreshing,
                 clicked>>

RequestStep(r) ==
  \/ ReadWindow(r) \/ Lookup(r)
  \/ StructureOk(r) \/ StructureFromCopy(r)
  \/ \E how \in {"lite", "error"} : StructureFails(r, how) \/ FetchFails(r, how)
  \/ FetchHit(r) \/ FetchCall(r) \/ Receive(r) \/ Save(r) \/ Finish(r)

Next ==
  \/ \E r \in Requests : RequestStep(r)
  \/ \E r \in Requests, u \in Users, m \in Months, k \in Methods :
        Start(r, u, m, k)
  \/ \E u \in Users, m \in Months : RefreshClient(u, m)
  \/ \E u \in Users : RefreshDelete(u) \/ DropClient(u)
  \/ \E u \in Users, k \in Keys : Expire(u, k)
  \/ \E m \in Months : Reopen(m) \/ EditLedger(m)
  \/ \E w \in 1..MaxWindow : SetWindow(w)
  \/ NextMonth

Spec == Init /\ [][Next]_vars

\* Calls to PlanFact end within the 60 s timeout of the HTTP client and the
\* database answers, so a request that can go on does.
FairSpec == Spec /\ \A r \in Requests : WF_vars(RequestStep(r))

(***************************************************************************)
(* Properties                                                              *)
(***************************************************************************)
\* Every variable has its type; a refresh in progress names one month.
TypeOK ==
  /\ current \in 1..MaxCurrent
  /\ window \in 1..MaxWindow
  /\ ledger \in [Months -> Versions]
  /\ snapshot \in [Months -> Payload \cup {NoRow}]
  /\ structSaved \in BOOLEAN
  /\ lru \in [Users -> [Keys -> Versions \cup {Absent}]]
  /\ req \in [Requests -> Req]
  /\ refreshing \in [Users -> Months \cup {0}]
  /\ clicked \in [Users -> [Months -> Versions]]

\* A P&L that was built from PlanFact (not read from a snapshot) is never
\* older than the user's last refresh click before the request: an answer
\* that was on its way when the client was thrown away cannot get into the
\* LRU of the next client (planfact.invalidate_planfact_for pops the client
\* as well as clearing it).
BuiltAfterRefreshIsFresh ==
  \A r \in Requests :
    req[r].outcome = "full" /\ req[r].path # "hit"
      => req[r].ver >= req[r].due

\* Only a month that is over is ever frozen, whatever the width of the live
\* window and however long the building took.
FrozenMonthIsOver ==
  \A m \in Months : snapshot[m] # NoRow => m < current

\* Every call is answered, whatever PlanFact does: the v2 path, its fallback on
\* the raw path and the Lite fallback never lead back into each other.
EveryCallIsAnswered ==
  \A r \in Requests : req[r].pc = "window" ~> req[r].pc = "done"

\* Where a request stands on its way down: v2, its fallback on raw, the answer.
Height(q) ==
  CASE q.pc = "window"    -> 9
    [] q.pc = "lookup"    -> 8
    [] q.pc = "structure" -> 7
    [] q.pc = "fetch"     -> IF q.kind = "opu" THEN 6 ELSE 4
    [] q.pc = "answer"    -> IF q.kind = "opu" THEN 5 ELSE 3
    [] q.pc = "save"      -> 2
    [] q.pc = "done"      -> 1
    [] OTHER -> 0

\* Every step of a request takes it further down, whichever of its steps fails
\* and however often its client is thrown away under it: no failure sends it
\* back to a report it has already asked for.
FallbacksGoDown ==
  [][\A r \in Requests : req[r].pc # "idle" =>
       \/ Height(req'[r]) < Height(req[r])
       \/ req'[r] \in {req[r], [req[r] EXCEPT !.cut = TRUE]}]_req

\* After the refresh button has answered, the P&L the user gets is at least
\* as fresh as the click (docstring of sync_ops_metrics_from_dodois).
RefreshIsVisible ==
  \A r \in Requests :
    req[r].outcome = "full" => req[r].ver >= req[r].due
=============================================================================
