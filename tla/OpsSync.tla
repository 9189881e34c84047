------------------------------ MODULE OpsSync ------------------------------
(***************************************************************************)
(* The background pull of one month's operational metrics from Dodo IS:    *)
(* POST /api/ops-metrics/sync and its worker _run_ops_sync, the in-memory  *)
(* marks _OPS_SYNC_INFLIGHT that keep two pulls of one (key, month) apart, *)
(* the write passes into ops_metrics, the retries of failed calls, and the *)
(* warm-up that calls the worker without a mark.                           *)
(*                                                                         *)
(* One month and, per key, one pizzeria.  A stored or fetched number is    *)
(* "null", "zero" or "value": what matters is whether it came from Dodo IS. *)
(***************************************************************************)
EXTENDS Integers, Sequences, FiniteSets

CONSTANTS
  Users, PfKeys,  \* users and the PlanFact keys (tenants) they belong to
  Syncs,          \* the refresh clicks and pulls that may be in progress
  First,          \* the calls of the first batch, made together
  Later,          \* the calls made one after another after it
  NoKey,          \* "the user has no key, or no longer exists"
  NoUser,
  FaultSets       \* what may occur together beside the clicks and the pulls

FirstCalls == {"productivity", "vouchers", "delivery-stats", "handover-restaurant"}
LaterCalls == {"incentives", "finance-monthly", "stock-consumptions",
               "rating-history", "customer-ratings"}
Calls      == FirstCalls \cup LaterCalls

ASSUME SyncAssumption ==
  /\ NoKey \notin PfKeys /\ NoUser \notin Users
  /\ First \subseteq FirstCalls
  /\ Later \in Seq(LaterCalls) /\ Len(Later) > 0
  /\ FaultSets \subseteq SUBSET {"reassign", "warmup", "database", "restart"}

Rounds == 2     \* the retry rounds of a failed call of the first batch

\* The columns of ops_metrics, one for each way a number is computed
Fields == {"products_per_h", "late_delivery_certs", "delivery_orders_count",
           "late_delivery_certs_pct", "avg_cooking_time_restaurant_sec",
           "kc_live_pct", "dc_live_pct", "avg_check", "raw_cost_pct",
           "rko_rate", "customer_rating"}
Stored == {"null", "zero", "value"}

VARIABLES
  keyOf,     \* users.planfact_key_id
  inflight,  \* _OPS_SYNC_INFLIGHT, the marks of this month
  sync,      \* sync[t]: the progress of pull t
  row,       \* row[k]: the ops_metrics row of key k
  faults     \* which of FaultSets occur in this behaviour

vars == <<keyOf, inflight, sync, row, faults>>

Pcs == {"idle", "clicked", "checked", "scheduled", "batch", "later", "retry"}

Sync == [pc : Pcs, user : Users \cup {NoUser},
         mark    : PfKeys \cup {NoKey},  \* inflight_key_id
         key     : PfKeys \cup {NoKey},  \* pf_key_id, read by the worker
         pending : SUBSET First,         \* calls without a result yet
         failed  : SUBSET First,         \* _failed_first
         got     : SUBSET Calls,         \* the containers that are filled
         abort   : BOOLEAN,              \* a call found no token
         stage   : 0..Len(Later),        \* the later call being made
         round   : 0..Rounds]            \* _retry_round

Idle == [pc |-> "idle", user |-> NoUser, mark |-> NoKey,
         key |-> NoKey, pending |-> {}, failed |-> {}, got |-> {},
         abort |-> FALSE, stage |-> 0, round |-> 0]

\* The worker exists (create_task has run), or is awaited by the warm-up
Worker(t)  == sync[t].pc \in {"scheduled", "batch", "later", "retry"}
\* It has read its user and may write
Writing(t) == sync[t].pc \in {"batch", "later", "retry"}

Init ==
  /\ keyOf \in [Users -> PfKeys]
  /\ inflight = {}
  /\ sync = [t \in Syncs |-> Idle]
  /\ row = [k \in PfKeys |-> [f \in Fields |-> "null"]]
  /\ faults \in FaultSets

(***************************************************************************)
(* What is written                                                         *)
(***************************************************************************)
Known(got, calls) == IF calls \subseteq got THEN "value" ELSE "null"

\* The arguments _write_pass computes from the containers.  The two counts
\* default to 0, not to None, and so does a percentage with a count missing.
Column(got, f) ==
  CASE f = "products_per_h" -> Known(got, {"productivity"})
    [] f = "late_delivery_certs" -> IF "vouchers" \in got THEN "value" ELSE "zero"
    [] f = "delivery_orders_count" -> IF "delivery-stats" \in got THEN "value" ELSE "zero"
    [] f = "late_delivery_certs_pct" ->
         IF "delivery-stats" \notin got THEN "null"
         ELSE IF "vouchers" \in got THEN "value" ELSE "zero"
    [] f = "avg_cooking_time_restaurant_sec" -> Known(got, {"handover-restaurant"})
    [] f = "kc_live_pct" -> Known(got, {"incentives", "productivity"})
    [] f = "dc_live_pct" -> Known(got, {"incentives", "finance-monthly"})
    [] f = "avg_check" -> Known(got, {"finance-monthly"})
    [] f = "raw_cost_pct" -> Known(got, {"stock-consumptions", "finance-monthly"})
    [] f = "rko_rate" -> Known(got, {"rating-history"})
    [] f = "customer_rating" -> Known(got, {"customer-ratings"})

\* _has_data: wages and raw materials alone do not make a row
HasData(got) == got \ {"incentives", "stock-consumptions"} # {}

\* Mutant of Upsert: every column is assigned.
UpsertAll(old, got) == [f \in Fields |-> Column(got, f)]

\* store.upsert_ops_metric: None leaves a column alone.
Upsert(old, got) ==
  [f \in Fields |-> IF Column(got, f) = "null" THEN old[f] ELSE Column(got, f)]

\* _write_safe: one transaction that may fail without consequence
Write(k, got) ==
  \/ row' = row
  \/ HasData(got) /\ row' = [row EXCEPT ![k] = Upsert(row[k], got)]

(***************************************************************************)
(* The button                                                              *)
(***************************************************************************)
Goto(t, s) == sync' = [sync EXCEPT ![t] = s]

\* The call has its user; the refresh of the P&L cache (PnlSnapshot) follows.
Click(t, u) ==
  /\ sync[t].pc = "idle"
  /\ keyOf[u] # NoKey
  /\ Goto(t, [Idle EXCEPT !.pc = "clicked", !.user = u, !.mark = keyOf[u]])
  /\ UNCHANGED <<keyOf, inflight, row>>

\* Mutant of Schedule: the check is left to the front end.
ScheduleAlways(t) ==
  /\ sync[t].pc = "clicked"
  /\ inflight' = inflight \cup {sync[t].mark}
  /\ Goto(t, [sync[t] EXCEPT !.pc = "scheduled"])
  /\ UNCHANGED <<keyOf, row>>

\* "already_running", or the mark and the task, with no await in between
Schedule(t) ==
  /\ sync[t].pc = "clicked"
  /\ IF sync[t].mark \in inflight
     THEN Goto(t, Idle) /\ inflight' = inflight
     ELSE /\ inflight' = inflight \cup {sync[t].mark}
          /\ Goto(t, [sync[t] EXCEPT !.pc = "scheduled"])
  /\ UNCHANGED <<keyOf, row>>

(***************************************************************************)
(* The worker                                                              *)
(***************************************************************************)
\* The early return, with its own discard
Vanished(t) ==
  /\ sync[t].pc = "scheduled"
  /\ keyOf[sync[t].user] = NoKey
  /\ inflight' = inflight \ {sync[t].mark}
  /\ Goto(t, Idle)
  /\ UNCHANGED <<keyOf, row>>

\* Mutant of End: only the key the worker found is discarded.
EndFound(t) ==
  /\ inflight' = inflight \ {sync[t].key}
  /\ Goto(t, Idle)

\* The finally clause
End(t) ==
  /\ inflight' = inflight \ {sync[t].mark, sync[t].key}
  /\ Goto(t, Idle)

\* The user is read; the four calls of the first batch leave together.
\* Without a linked pizzeria the pull ends at once.
Begin(t) ==
  /\ sync[t].pc = "scheduled"
  /\ keyOf[sync[t].user] # NoKey
  /\ \/ /\ Goto(t, [sync[t] EXCEPT !.pc = "batch", !.key = keyOf[sync[t].user],
                                   !.pending = First])
        /\ inflight' = inflight
     \/ /\ inflight' = inflight \ {sync[t].mark, keyOf[sync[t].user]}
        /\ Goto(t, Idle)
  /\ UNCHANGED <<keyOf, row>>

\* The session or session.get raises, outside the try: no discard.
BeginFails(t) ==
  /\ "database" \in faults
  /\ sync[t].pc = "scheduled"
  /\ Goto(t, Idle)
  /\ UNCHANGED <<keyOf, inflight, row>>

\* A call of the first batch returns; what is known so far is written.
BatchOk(t, c) ==
  /\ sync[t].pc = "batch" /\ c \in sync[t].pending
  /\ Write(sync[t].key, sync[t].got \cup {c})
  /\ Goto(t, [sync[t] EXCEPT !.pending = @ \ {c}, !.got = @ \cup {c}])
  /\ UNCHANGED <<keyOf, inflight>>

\* It fails or times out and will be retried, or there is no token.
BatchFails(t, c) ==
  /\ sync[t].pc = "batch" /\ c \in sync[t].pending
  /\ \/ Goto(t, [sync[t] EXCEPT !.pending = @ \ {c}, !.failed = @ \cup {c}])
     \/ Goto(t, [sync[t] EXCEPT !.pending = @ \ {c}, !.abort = TRUE])
  /\ UNCHANGED <<keyOf, inflight, row>>

BatchOver(t) ==
  /\ sync[t].pc = "batch" /\ sync[t].pending = {}
  /\ IF sync[t].abort THEN End(t)
     ELSE /\ Goto(t, [sync[t] EXCEPT !.pc = "later", !.stage = 1])
          /\ inflight' = inflight
  /\ UNCHANGED <<keyOf, row>>

\* There is a write pass after finance-monthly and one after the last call.
WritesAfter(stage) ==
  stage = Len(Later) \/ Later[stage] = "finance-monthly"

\* The next later call, or the retries of the first batch
Advance(t, got) ==
  LET s == [sync[t] EXCEPT !.got = got]
  IN IF s.stage < Len(Later)
     THEN Goto(t, [s EXCEPT !.stage = @ + 1]) /\ inflight' = inflight
     ELSE IF s.failed = {} THEN End(t)
     ELSE /\ Goto(t, [s EXCEPT !.pc = "retry", !.stage = 0, !.round = 1,
                               !.pending = s.failed])
          /\ inflight' = inflight

\* A later call returns, or fails with DodoISError or NoTokenError.
LaterCall(t) ==
  /\ sync[t].pc = "later"
  /\ \E got \in {sync[t].got, sync[t].got \cup {Later[sync[t].stage]}} :
       /\ IF WritesAfter(sync[t].stage) THEN Write(sync[t].key, got)
                                        ELSE row' = row
       /\ Advance(t, got)
  /\ UNCHANGED keyOf

\* It runs into the timeout of _timed: TimeoutError is neither, so the
\* exception ends the pull.
LaterTimeout(t) ==
  /\ sync[t].pc = "later"
  /\ End(t)
  /\ UNCHANGED <<keyOf, row>>

\* One call of a retry round returns, fails, or finds no token.
RetryOk(t, c) ==
  /\ sync[t].pc = "retry" /\ c \in sync[t].pending
  /\ Write(sync[t].key, sync[t].got \cup {c})
  /\ Goto(t, [sync[t] EXCEPT !.pending = @ \ {c}, !.failed = @ \ {c},
                             !.got = @ \cup {c}])
  /\ UNCHANGED <<keyOf, inflight>>

RetryFails(t, c) ==
  /\ sync[t].pc = "retry" /\ c \in sync[t].pending
  /\ \/ Goto(t, [sync[t] EXCEPT !.pending = @ \ {c}]) /\ inflight' = inflight
     \/ End(t)
  /\ UNCHANGED <<keyOf, row>>

\* Mutant of RoundOver: the rounds are not counted.
RoundOverAgain(t) ==
  /\ sync[t].pc = "retry" /\ sync[t].pending = {}
  /\ IF sync[t].failed = {} THEN End(t)
     ELSE /\ Goto(t, [sync[t] EXCEPT !.pending = sync[t].failed])
          /\ inflight' = inflight
  /\ UNCHANGED <<keyOf, row>>

RoundOver(t) ==
  /\ sync[t].pc = "retry" /\ sync[t].pending = {}
  /\ IF sync[t].failed = {} \/ sync[t].round = Rounds THEN End(t)
     ELSE /\ Goto(t, [sync[t] EXCEPT !.round = @ + 1,
                                     !.pending = sync[t].failed])
          /\ inflight' = inflight
  /\ UNCHANGED <<keyOf, row>>

(***************************************************************************)
(* The warm-up, the administrator and the process                          *)
(***************************************************************************)
\* warm_financials finds no mark for the month and asks for its rows.
WarmCheck(t, u) ==
  /\ "warmup" \in faults
  /\ sync[t].pc = "idle"
  /\ keyOf[u] # NoKey /\ keyOf[u] \notin inflight
  /\ Goto(t, [Idle EXCEPT !.pc = "checked", !.user = u, !.mark = keyOf[u]])
  /\ UNCHANGED <<keyOf, inflight, row>>

\* There are none: the worker is called, and no mark is made.
WarmRun(t) ==
  /\ sync[t].pc = "checked"
  /\ IF \A f \in Fields : row[sync[t].mark][f] = "null"
     THEN Goto(t, [sync[t] EXCEPT !.pc = "scheduled"])
     ELSE Goto(t, Idle)
  /\ UNCHANGED <<keyOf, inflight, row>>

\* The user is moved to another key, loses it or is deleted.
Reassign(u, k) ==
  /\ "reassign" \in faults
  /\ keyOf' = [keyOf EXCEPT ![u] = k]
  /\ UNCHANGED <<inflight, sync, row>>

\* The marks and the tasks live in the memory of the process.
Restart ==
  /\ "restart" \in faults
  /\ inflight' = {}
  /\ sync' = [t \in Syncs |-> Idle]
  /\ UNCHANGED <<keyOf, row>>

SyncStep(t) ==
  /\ UNCHANGED faults
  /\ \/ Schedule(t) \/ Vanished(t) \/ Begin(t) \/ BeginFails(t) \/ WarmRun(t)
     \/ \E c \in First : BatchOk(t, c) \/ BatchFails(t, c)
                         \/ RetryOk(t, c) \/ RetryFails(t, c)
     \/ BatchOver(t) \/ LaterCall(t) \/ LaterTimeout(t) \/ RoundOver(t)

OtherStep ==
  /\ UNCHANGED faults
  /\ \/ \E t \in Syncs, u \in Users : Click(t, u) \/ WarmCheck(t, u)
     \/ \E u \in Users, k \in PfKeys \cup {NoKey} : Reassign(u, k)
     \/ Restart

Next == OtherStep \/ \E t \in Syncs : SyncStep(t)

Spec == Init /\ [][Next]_vars

\* Every call to Dodo IS ends within _OPS_CALL_TIMEOUT, the sleep between the
\* rounds ends, and the event loop runs what is ready.
FairSpec == Spec /\ \A t \in Syncs : WF_vars(SyncStep(t))

(***************************************************************************)
(* Properties                                                              *)
(***************************************************************************)
TypeOK ==
  /\ keyOf \in [Users -> PfKeys \cup {NoKey}]
  /\ inflight \subseteq PfKeys
  /\ sync \in [Syncs -> Sync]
  /\ row \in [PfKeys -> [Fields -> Stored]]
  /\ faults \in FaultSets

\* The clicks are all there is: nobody changes key, and the warm-up is off.
OnlyClicks == faults \cap {"reassign", "warmup"} = {}

\* The marks keep two pulls of one key and month apart ("to block duplicate
\* starts", comment at main._OPS_SYNC_INFLIGHT).
OneSyncPerKey ==
  OnlyClicks => \A s, t \in Syncs :
    Writing(s) /\ Writing(t) /\ sync[s].key = sync[t].key => s = t

\* While a pull can still write to a key's rows, the key's mark is there, so
\* the status the front end polls says that the month is being synced.
WritesAreMarked ==
  OnlyClicks => \A t \in Syncs : Writing(t) => sync[t].key \in inflight

\* What the marks are for, together: of a key and month there is one writer, and
\* its mark shows.
MarksKeepPullsApart == OneSyncPerKey /\ WritesAreMarked

\* A mark belongs to a pull that will remove it: no mark stays for ever and
\* blocks the key's later refreshes (comment B7 in _run_ops_sync), also when
\* the user changes key between the click and the start or is deleted, or a
\* warm-up pulls beside it.  (A worker that cannot read its user keeps it.)
MarkHasOwner ==
  "database" \notin faults =>
    \A k \in inflight : \E t \in Syncs : Worker(t) /\ sync[t].mark = k

\* Every pull ends, whatever Dodo IS answers: there are two retry rounds.
SyncEnds == \A t \in Syncs : Worker(t) ~> sync[t].pc = "idle"

\* How many steps a pull has left at most: the answers it waits for and the end
\* of each round, the later calls, and the rounds of retries still to come.
Round == Cardinality(First) + 1
StepsLeft(s) ==
  CASE s.pc = "scheduled" -> 1 + Round + Len(Later) + (Rounds * Round)
    [] s.pc = "batch"     -> Cardinality(s.pending) + 1 + Len(Later) + (Rounds * Round)
    [] s.pc = "later"     -> (Len(Later) - s.stage) + 1 + (Rounds * Round)
    [] s.pc = "retry"     -> Cardinality(s.pending) + 1 + ((Rounds - s.round) * Round)
    [] OTHER -> 0

\* Whatever Dodo IS answers, each step of a pull brings its end nearer: a retry
\* round is never entered a third time and no call is waited for twice.
EveryStepCounts ==
  [][\A t \in Syncs :
       Worker(t) /\ sync'[t] # sync[t] => StepsLeft(sync'[t]) < StepsLeft(sync[t])]_sync

\* What was once read from Dodo IS is never replaced by nothing, at least for
\* the columns that are None without their calls.
RatesAreKept ==
  [][\A k \in PfKeys :
       \A f \in Fields \ {"late_delivery_certs", "delivery_orders_count",
                          "late_delivery_certs_pct"} :
         row[k][f] = "value" => row'[k][f] = "value"]_row

\* "A repeated sync adds what is missing without loss of data" (comment in
\* _write_pass), for every column.
NothingIsLost ==
  [][\A k \in PfKeys, f \in Fields :
       row[k][f] = "value" => row'[k][f] = "value"]_row
=============================================================================
