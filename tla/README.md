# A verification project for dodo_pnl

dodo_pnl is a P&L dashboard for pizzeria franchisees. One FastAPI process serves all tenants from
one asyncio event loop with a PostgreSQL database behind a pool of connections. The figures come
from two services: the ledger of a tenant from PlanFact, the operational figures (and, for a
tenant without PlanFact, the revenue) from Dodo IS. Everything that makes the program hard sits
between those parts: caches that become permanent, background pulls that overlap with clicks, a
shared rate limit, locks that live in a dictionary, and calls that fail one at a time.

This directory holds TLA+ modules translated from the code under `src/`, TLC configurations that
check them on small instances, and proofs for every value of the constants that TLAPS checks.

    tlc -workers 2 -config MCBoard_serve.cfg MCBoard      # a run
    tlapm BoardProofs.tla                                 # the proofs of a module

`PROJECT.json` lists the runs, the mutants that show that each property can fail, the source lines
of every definition, the hazards, and the theorems.

---------------------------------------------------------------------------------------------

## 1. Inventory

"Hard" names what a unit test hardly reaches. A part without a module is left out (section 8).

| Part | State | Operations | What makes it hard | Module |
|---|---|---|---|---|
| P&L of a month (`main._build_pnl_for_period`, `_build_pnl_v2_result`, `store` cache_history) | snapshots per (key, month), copy of the PlanFact lists, live-window width | hit, miss, live build, v2 with fallback on raw, Lite fallback, refresh, reopen, window setting | a miss overlapping a refresh; stale answers that are frozen | `PnlSnapshot` |
| PlanFact client (`planfact.py`) | a client per user with an LRU of answers, the pool of clients | request, expiry, eviction, invalidation, close | invalidation under running calls | `PnlSnapshot`; the pages of operations in `OperationsFetch` |
| Reading of operations (`planfact.fetch_all_operations`) | a tree of calls, a semaphore, the client's small pages | fan-out, page or kept page, halve, join, union, limit | pages are cut silently, calls wait for calls, the ledger moves, pages are up to an hour old and late answers replace newer ones | `OperationsFetch` |
| Pull of operational metrics (`main.sync_ops_metrics_from_dodois`, `_run_ops_sync`) | marks of running pulls, the worker's partial results, `ops_metrics` rows | click, schedule, batch, later calls, write passes, retry rounds, end | partial failure, restart, key changes, warm-up beside a click | `OpsSync` |
| Board (`main.get_board`, `board.py`) | payload cache, table of locks, connections | lookup, join, build, deadline, cleanup | locks released before their waiter runs, connection starvation | `Board` |
| Dodo IS client (`dodois_client.py`, `main.with_dodois_retry`) | bucket and waiting counter per token, six slots | acquire, poll, send, retry, renew token, cancel | two priorities, cancellation at each await | `DodoClient` |
| Lite revenue (`main._lite_revenue`, report, fast stage, history; warm-up) | `lite_revenue_cache`, project links | split a range, read the table, ask for what is missing, store, add up | a wrong row is kept for good; two clocks | `LiteRevenue` |
| Warm-up of PlanFact tenants | debounce, mark in `_WARM_INFLIGHT` | visit, build months, pull metrics | a mark that is not removed on an early return | pulls in `OpsSync`, Lite months in `LiteRevenue` |
| SSO, linking, access requests, administration (`auth/router.py`, `auth/sso.py`, `auth/admin_router.py`) | users, keys, projects, requests | sign in, provision, link, ask, approve, deny, edit, delete | check-then-act over READ COMMITTED rows, uncommitted rows over an await | `Access` |
| Sessions (`auth/sessions.py`) | session rows | login, rolling renewal, logout, revoke, change of password, sweep | a renewal against a removal, a login against a change of password | `Sessions`, `SessionLife` |
| Licences of a tenant (`licensing.py`) | an entry with two ages | ask, keep, serve stale | answers out of order, a stale entry under a running question | `Licence` |
| Login limiter (`auth/ratelimit.py`) | windows of failures per address and name | check, verify, record, forget | checked before, recorded after the password | `LoginLimiter` |
| Day windows and payload of the board (`day_window.py`, `board.py`) | rows of finished windows, revenue of past months | windows, block of the month, forecast, kept rows | month ends, 29 February, midnight; rows that are kept for good | `BoardWindows` |
| Template of the P&L and metrics (`store.py`, `seed_metrics.py`, `formulas.py`) | template rows, metrics | save, seed, write a metric, evaluate | formulas name lines by number while the lines are replaced | `PnlTemplate`, `Formulas` |
| Figures of a month (`pnl.py`, `pnl_v2.py`) | the month's snapshot | aggregate, v2, snapshot, drill-down, history | three ways to one figure; order and double counting in trees | `PnlFigures` |
| Targets (`store.py`) | four tables of targets | set, delete, fall back, copy a month | network or project, month or default | `Targets` |
| Front end (`static/*.js`) | browser state | polling, rendering | late answers of an earlier selection | not modelled |
| Activity log, counts of orders, configuration, migrations, scripts, exports, encryption, audit, planerka | settings, DDL, files, in-process tables | single commands | see section 8 | not modelled |

How the parts interact:

    browser -> get_pnl / get_board / ops-metrics/sync -> session check (a second connection)
    get_pnl -> cache_history | PlanFact client -> /operations (halved) or /v2/reports/opu
            -> Lite revenue (no PlanFact key, or PlanFact is down) -> Dodo IS
    refresh -> invalidates the user's client and the snapshot, then starts the ops pull
    ops pull, board, Lite revenue, warm-up -> Dodo IS client: bucket per token, six slots
    warm-up (at a visit) -> ops pull without a mark; Lite months
    sign-in -> login limiter -> account (password, or Dodo IS with provisioning) -> session
    every request -> session, its renewal over a second connection -> licences of the tenant
    lists + parts or report v2 -> aggregates -> snapshot -> template, metrics, targets -> answer

Shared state: `cache_history`, `ops_metrics`, `lite_revenue_cache` between users of one key; the
user's client between that user's requests; buckets and slots between all tenants; the pool between
all requests.

What makes each part correct, as far as the modules say it:

- P&L: what is built is as fresh as the last refresh; only a month that is over is frozen; every
  call is answered, since each of its steps goes further down from v2 over raw to the answer.
- Reading: an operation counts once; a fetch without a warning misses nothing but what was
  edited since an hour (`cache_ttl`) before it began;
  calls never wait for each other, and every answer leaves fewer before the end.
- Pull: one pull for a key and month; the status shown is true; no mark is left behind; what was
  read is not replaced by nothing; the pull ends, because every step counts.
- Board: a connection that is out is in use, so who waits holds none; locks and builds match, and
  whoever waits has somebody to wake it; the cache is bounded and evicts the oldest; every request
  ends.
- Dodo IS: the counters are exact under cancellation; a minute grants no more than burst and rate
  and carries no more than that and the backlog it found; screens go before background work; every
  call ends.
- Lite: each day of a range counts once, wherever its pieces come from; only whole months are kept,
  and a kept month never changes.
- Access: whoever has an account can sign in; a decided request stays decided and a link stays
  where it is; there is a super admin; a handler that runs alone makes no second tenant.
- Sessions: a session lives as `SessionLife` promises; after a change of password no session of an
  older password is left, apart from a login that overlapped it.
- Licences: nothing older than the stale age and one wait for sa is served. Limiter: a burst of failures is bounded.
- Board figures: what is compared is alike (same days of the week or month, same minutes).
- P&L figures: a snapshot and report v2 give what the raw operations give; a drill-down adds up to
  its line; profit is the flow; a path that survives a save keeps its number.
- Targets: a month copied over is served what the source month was, fallbacks included.

---------------------------------------------------------------------------------------------

## 2. Plan

Modules in the order of their importance; all are written.

1. `PnlSnapshot` – the main request of the program and the cache that makes answers permanent.
2. `OpsSync` – background writes, marks, retries, restarts.
3. `Board` – locks, pool, cache.
4. `DodoClient` – the limiter all others share.
5. `LiteRevenue` – the second permanent cache, with date arithmetic.
6. `OperationsFetch` – the recursive reading of the ledger.
7. `Access` – SSO, requests for access, linking and administration over rows with unique indexes.
8. `SessionLife`, the life of a session as a promise, and `Sessions`, shown to keep it; `Licence`;
   `LoginLimiter`.
9. `BoardWindows` – the board's dates with a calendar of its own, kept rows, month and forecast.
10. `PnlTemplate` (with `Formulas`), `PnlFigures` over it, `FormulaValues`, `Targets`.

What composes what: `PnlFigures` extends `PnlTemplate`, which extends `Formulas`: a month's figures
are a function of the parts, the snapshot, the template and the metrics. What a formula is worth and
which lines it names are constants of these two (`ValueOf`, `LinesNamed`); `MCFigures` gives them
the recursive definitions of `FormulaValues`, which the prover does not accept. `Tables` holds the two
operators on functions that `BoardWindows`, `Targets` and `PnlTemplate` share. `MCLive`, `MCPulls`, `MCAuth` and
`FiguresParts` (which `MCFigures` gives its values) hold modules, or instances of one, that share no state in one run: an
initial choice (`part`) decides which of
them moves. The template moves alone under two administrators, or under one with the
month over it; each of the two parts has trees and changes of its own (`Within`). That keeps the runs few, each with a question of its own: what must end, who may enter,
what the figures mean. `PnlSnapshot`'s "build" step stands for what `OperationsFetch` shows of a
fetch; `DodoClient`'s `EveryCallEnds` is the fairness that `OpsSync`, `Board` and `LiteRevenue`
assume of Dodo IS.

Left open: the order of commits inside one handler of `Access` that awaits the database more than
once (loading a link and checking it are one step there); several months built on one database
session.

---------------------------------------------------------------------------------------------

## 3. Modules and code

Every module describes one process; a step is what the event loop runs between two awaits, so all
interleavings of coroutines are explored and nothing inside a step is interrupted. HTTP answers,
failures and cancellations are nondeterministic choices.

**PnlSnapshot.** `req[r]` is one GET /api/pnl of a single month: `Start` takes the user's client,
`ReadWindow` and `Lookup` are the two reads of the database, `Structure*` the lists with their
saved copy, `Fetch*`/`Receive` a PlanFact call through the client's LRU (`lru`), `Save` the upsert
of the snapshot. A ledger is a version number per month (`EditLedger`), so freshness is a
comparison. `RefreshClient` and `RefreshDelete` are the two halves of the refresh button;
`CutRequests` says what closing a client does to calls that use it. `clicked` and `due` are history:
what the user's last click promised.

**OperationsFetch.** `node[f][n]` is the recursive call for request `n` (projects, first and last
day) of fetch `f`: waiting for a permit, calling, answered, joining its halves, done or failed. An operation
is a set of parts, each of a project and a day; "no filter" is the filter by all projects.
PlanFact's answer to a request is any `PageSize` of what matches, or all of it if it is less
(`Pages`, external: from the docstrings "PF API ignores offset" and "PF returns an operation if at
least one part is of the project"). `Split`, `Join`, `JoinFails` are gather; `Return` is the union
over projects with the hard limit. A call goes through `_request` and so through the client's cache:
`Cached` gives back a page that is kept and younger than `Ttl` (`cache_ttl`, an hour), `Acquire` asks
PlanFact, `Reply` is the moment PlanFact reads its ledger, and only then does the answer come in. A
page of at most `KeepSize` operations is stored (`Stored`, `With`) with the time of the asking,
which is taken before the wait; so an answer may enter the cache late and replace that to a later
call. `Forget` is a page pushed out by pages of other kinds, or the cache emptied. The ledger may be
edited at any moment, between the reading and the arrival too; `edited` records when each operation
was edited last, and `Recent` are those a fetch may miss: edited later than `Ttl` before it began.

**OpsSync.** `sync[t]` goes from the click (`clicked`, `checked`, `scheduled`) to the worker
(`batch`, `later`, `retry`). `inflight` is `_OPS_SYNC_INFLIGHT`; `row` the `ops_metrics` row of a
key with one field for each way a number is computed (a rate, a count that may be zero, a
percentage of two others ...), not all 26 columns. `Upsert` is the coalescing write. Changes of a
user's key, the warm-up, database errors and restarts happen if they are in `faults`, which a
behaviour draws from `FaultSets` at its start and keeps.

**Board.** `pc[r]` follows a request through authentication and its `touch` over a second
connection, the cache, the token, the lock (`Join`, `Enter`) and the build
(`read`, `names`, `gather`, `last_year`). `owner` and `waiters` are asyncio.Lock: a release hands
nothing over, it wakes the first waiter, which enters at a later step. `holder` is the pool.
`Cleanup` is part of the step that stores a payload, as in the code.

**DodoClient.** A tick is the time in which a bucket gains one unit; a request costs `Cost`. A call
polls the limiter, waits for one of `Parallel` slots, sends, and may retry with a pause or begin
again with a renewed token after a 401. `fgWaiting` is the counter that makes background calls
yield. Every await may be cancelled. `window` is history: one minute, opened at any time, of one
token, with the requests granted and sent in it and the backlog at the semaphore when it was opened.

**LiteRevenue.** Dates are day numbers; `First[m]` is the first day of month `m`. A job is a report
(one range), a history (a sequence of months) or the warm-up. `Split`, `MonthsBetween`,
`IsFullMonth`, `Closed`, `ClosedMonthsWindow` are the code's functions. An amount is the multiset
of days it adds up, so "counted twice" and "left out" can be seen. The calendar date in Moscow
(`today`) and that of the server (`server`) advance separately. `Relink` is the administrator's
form.

**Access.** `user`, `tenant`, `unit`, `request` are the tables; `call[c]` is a handler under way: a
step that reads and a step that writes what it decided from what it read. The transaction is READ
COMMITTED, so the rows may have changed in between; unique indexes and foreign keys are checked at
the write. Provisioning of a network (`sso.provision_network`) inserts rows and then awaits, so its
rows are kept apart as `Uncommitted`: a second writer of the same key waits for them. `left` is the number of
handlers that may still start (a bound), `alone` and `born` are history: whether a handler overlapped another, and which
network an account was made for.

**Sessions, SessionLife.** `visit[v]` is a request: it reads its session (`Enter`), computes a
renewal (`Touch`), writes it in a transaction of its own (`Renew`, whose errors are swallowed), and
does its work, or is a login between the verification of the password and the insert. `late` is
history: a login that overlapped a change of its user's password. `SessionLife` is the abstract
specification – start, renew up to the ceiling, remove, enter – and `LivesOnce` says that `Sessions`
implements it, with `life` and `inside` mapped from rows and visits.

**Licence.** `entry` is the tenant's cache entry, `asker[a]` a request between the time it looked at
the clock and sa's answer. `Fresh` and `Stale` are the two ages; an answer is dated before the
question is put, and any later answer replaces it. `asof` and `served` are history.

**LoginLimiter.** `failures` are both windows, per address and per name; `attempt[a]` stands between
the check and the record, while the account is read and the password verified.

**BoardWindows.** Dates are year, month and day with the calendar spelt out; `now` moves to any of
`Moments`. `ComputeBoardWindows` gives the windows of day_window.py, `kept` the insert-only rows of finished
windows, `history` the revenue of past months. `BuildBoardPayload` makes one payload; the call for
last year's month may fail after the rows of the windows were committed (`FullMonthFails`). A unit takes an amount per minute
that depends on its day only, so a day counted twice or left out shows.

**Formulas, FormulaValues, PnlTemplate, PnlFigures.** `rows` is the set of template rows, each with
its number and its place in the order; `saving[a]` is a save between its reading of the numbers and
its commit, with the rows its DELETE could see. `Formulas` has the values and messages of
formulas.py, exact fractions; `FormulaValues` its parser's trees, evaluated (`Evaluate`) and
searched for lines (`LineRefs`). `Formats` are the formats a metric may have (`main.py:4677`).
`parts` are parts of operations, `cats` the categories, a tree like PlanFact's
(`CategoriesAreATree`); a category gets a code by its path, its title or the rules; `Aggregates` (operations),
`ReportAggregates` (report v2) and `snapshot` are three sources of aggregates, from which `Render`
computes lines, template, metrics and breakdown, as the second half of `build_pnl` does.

**Targets.** The four tables are one function, keyed by kind, project, code and month; each endpoint
is an action, the fallback an operator.

---------------------------------------------------------------------------------------------

## 4. Runs

Passing runs. Each property has a mutant in `PROJECT.json`, a plausible bug in one definition that
TLC must find under the same configuration.

| Run | States | Instance | What it shows |
|---|---|---|---|
| pnl_v2 | 1 079 108 | 2 requests of a user, v2 with raw fallback, 1 ledger month while the calendar has 3, window up to 2, 1 edit | `BuiltAfterRefreshIsFresh`: an answer that was on its way when the client was thrown away never reaches the next client; `FrozenMonthIsOver` |
| ops_marks | 1 107 203 | 2 pulls of 2 users, 2 keys, restarts, and one of two sets of faults: database errors; warm-up pulls and users who change or lose their key | `MarksKeepPullsApart`: a key and month has one writer (`OneSyncPerKey`), and the status a screen polls is right (`WritesAreMarked`); `MarkHasOwner`, `RatesAreKept` |
| live | 183 785 | one of: 1 v2 request with all failures; 1 pull with restart, change of key, warm-up, database errors; fetches one after the other of 3 operations over 3 days and 2 projects, pages of 2, 1 permit, 1 edit, 2 moments, a cache of 1 page of 1 operation, kept for 1 tick | what must end: `EveryCallIsAnswered`, `SyncEnds`, `FetchEnds`; and `EachOnce`, `NothingIsMissed` |
| board_serve | 264 387 | 3 requests, 3 selections, 2 connections, room for 2 payloads, 2 hours | `EveryConnectionIsInUse`: none leaks and no waiter holds one; `LocksAreSound`: a lock has one build (`LocksAreHeldByBuilds`) and no wake-up is lost (`NobodyIsForgotten`); `OldestGoFirst`, `EveryCallIsAnswered` |
| dodo_limiter | 454 339 | a screen's call and a background call, 2 tokens, 1 slot, 2 attempts | `MinutesAreMetered`: what a minute is granted (`GrantsAreMetered`) and what it carries (`SendsAreMetered`); `EveryCallEnds` |
| lite_months | 1 090 431 | 2 jobs, 3 months of 2, 1 and 1 days, 2 projects, 2 units | `OnlyWholeMonthsAreKept`, `EveryDayCountsOnce`, `WarmedMonthsAreKept`, `KeptMonthsNeverChange` |
| auth | 466 913 | one of: 2 handlers at once, 3 in all, 2 colleagues of a network, 5 accounts, 4 tenants, 3 requests; 2 sessions, 2 visits, time 3; 2 questions to sa, time 6; 2 attempts, 1 address, 2 names | `CanSignIn`, `DecidedOnce`, `LinksStick`, `LastSuperAdmin`, `NetworksAreNotDoubled`, `CallsEnd`; `OldPasswordIsOut`, `LivesOnce`; `NothingStaleIsServed`; `BurstIsBounded` |
| figures | 74 548 | one of: the board at 8 times of 6 dates around 29 February and a year's end; 2 templates, up to 2 of 22 parts, 15 categories; 4 trees of up to 3 nodes, 2 administrators with overlapping saves, 3 changes in all, up to symmetry of the two; targets of 1 unit, 1 code, 2 months, 4 changes | `LikeForLike`; `SnapshotRendersAsRaw`, `V2AgreesWithRaw`, `DrillExplainsAmount`, `ProfitIsTheFlow`, `HistoryAgreesWithReport`; `KeptPathsKeepLines`; `CopiedMonthFollows`; `TypesOK` |

Why the bounds are enough: every property speaks of at most two actors (two requests, a request and
a click, a fetch and an edit) and one shared cell, and each instance has those two actors, the cell,
and one step more than the limit concerned (a third selection for a cache of two, a backlog longer
than the burst, an operation more than a page, an edit while a page is kept and a fetch after its
time is over, a month on each side of the live window). What the
bounds cut is repetition. The proofs (section 6) remove the bounds for the safety properties.
For the figures the parts matter
one at a time and in pairs (a sum, a refund, two projects), since aggregates are sums; the
categories lie above, at, below and beside the lines of the template, and the dates are those where
months, weeks and years stop being alike.

Not run are the types of the modules other than those of auth and figures, and properties the
proofs have for every instance and a run would repeat: `CacheIsBounded`, `NeverStuck`, and the
action properties `FallbacksGoDown`, `EveryStepCounts` and `EachStepIsNearer`, which say why the three
calls of `live` end. TLC agreed with each on these instances before it was proved.

`CHECK_DEADLOCK FALSE` stands in two configurations: in auth the tokens of sessions are used up, in
figures the changes. Both are bounds of the instance; the programs they model go on.

Some properties hold with an exception that is part of their statement, because the code has it: a
login that overlaps a change of password leaves a session of the old one (`late`); two sign-ins of a
network at once make two tenants, two administrators at once decide a request both ways or demote
each other (`alone`); saves of a template that overlap leave both trees; a fetch of operations may
show those edited in the last hour as they were (`Recent`); lines of a frozen month keep the codes of the freeze.
Section 7 lists them as disagreements.

Runs that show a disagreement between the code and its own comments (`findings` quotes them):

- `pnl_RefreshIsVisible`: a miss that is under way when the refresh deletes the snapshot stores the
  old figures again, and the user is served them, although the comment at `main.py:3846` says the
  P&L is fresh at once.
- `ops_NothingIsLost`: a pull whose call for certificates failed writes 0 over an earlier count;
  the comment at `main.py:4140` says a repeated pull adds what is missing without loss.
- `board_OneBuildPerKey`: a lock released by a failed build whose first waiter has not run yet is
  dropped by the cleanup; the next request makes a second lock and two builds of one key run;
  `main.py:3677` says requests of one key wait for one build.
- `dodo_MinuteIsHonoured`: a request takes its token before it queues for a slot, so a backlog
  granted over minutes leaves at once; `dodois_client.py:67` says a minute has at most rpm + burst.
  The bound that does hold has the backlog in it (`SendsAreMetered`).

---------------------------------------------------------------------------------------------

## 5. Fairness

Each `FairSpec` is weak fairness of the steps of a coroutine, which an asyncio loop gives to what is
ready; that the awaited thing becomes ready is justified by a timeout in the code:

- PnlSnapshot, OperationsFetch: the HTTP client of PlanFact has a timeout of 60 s, so a call
  answers or fails. Nothing is assumed of edits, clicks, the clock or the calendar.
- OpsSync: `_timed` bounds every call (150 or 240 s); there are two retry rounds, a minute apart.
- Board: a build has `wait_for` 60 s, the pool a timeout of 30 s, the broker 15 s, the session
  update a `lock_timeout` of 2 s. A step of a request is always one of these or an answer.
- DodoClient: sleeps end (`Tick` is fair), an HTTP call ends (250 s). Nothing is assumed of
  cancellation or of a renewed token.

- Access: weak fairness of each handler's next step, in the conjunct of `PartsSpec`: a handler waits for Dodo IS,
  which has a timeout, or for the row of another handler, which itself ends. `CallsEnd` would fail
  if two handlers could wait for each other's rows.

LiteRevenue has no liveness run: its loops are over finite sequences that never grow.

---------------------------------------------------------------------------------------------

## 6. Proofs

Proved for all values of the constants under the named assumptions, which TLC evaluates in the runs
(`PnlAssumption`, `FetchAssumption`, `SyncAssumption`, `BoardAssumption`, `DodoAssumption`,
`CalendarAssumption`, `TenantAssumption`, `BoardWindowsAssumption`, `TargetsAssumption`,
`PnlTemplateAssumption`, `PnlFiguresAssumption`, `FiguresPartsAssumption`; for the modules of `AuthProofs` the hypotheses `AccessAssumption`, `SessionsAssumption`,
`LicenceAssumption` and `LimiterAssumption` of the theorems, which `MCAuth` assumes). They say
that bounds are numbers, that some sets are finite or not empty, that markers such as "nobody" are
not members of the sets they stand beside, that the units of a network are units, that a calendar is
a strictly increasing sequence of first days, and that the moments of the board are dates of the
calendar. Of the figures they say that a tree to be saved is a sequence of nodes, each with a path
that is not empty; that metrics have one of the three formats; that there are
finitely many categories, with different paths, which form a tree; that values of parts are whole
numbers; and that "none" is no project. Nothing is assumed of `ValueOf` and `LinesNamed`. Of the cache
of pages they say that it keeps smaller pages than are asked for (`KeepSize < PageSize`; in the code
5000 and the default 10 000 of the only caller, `main.py:4905`) and keeps them for some time.

- **PnlSnapshotProofs**: types, `FrozenMonthIsOver`, `BuiltAfterRefreshIsFresh`. The invariants are
  not inductive alone: an answer in the LRU must be as new as the user's last click (`ClientsFresh`),
  a click must not be newer than the ledger (`ClicksPast`), and a request that passed the lookup holds
  a month that was closed then (`RequestOK`). And `FallbacksGoDown`: `Height` is how far a request stands
  above its answer, v2 above its fallback on raw, and every step of it, whatever fails, takes it down; only
  the refresh touches it otherwise, and leaves it where it is.
- **OperationsFetchProofs**: types, `CallsAreBounded`, `EachOnce`, `NothingIsMissed`, and that a fetch
  ends: `NeverStuck` and `EachStepIsNearer`. The invariant
  says of a page, on its way (`AnswerOK`) or in the cache (`CacheOK`), that it shows every operation
  as the ledger has it unless that was edited at or after the time it was asked for (`PageOK`); a page
  that may be used is younger than `Ttl`, so what it may miss is `Recent`. Of every call that has
  ended it says that its items are without repetition, belong to its projects,
  are as the ledger has them unless recent, and are complete unless a warning was logged
  (`CallOK`). It is kept by an answer because a short page is everything that matches, by the cache
  because a kept page is a short one and the time it carries is that of the asking, by a join
  because the halves cover the period (`HalvesCover`), and by the return because among the
  copies of an operation the one of the first project exists and is unique
  (`SeveralRecursions`, from the least element of a set of numbers).
  For the end of a fetch the calls are seen as a tree (`HalvesFormATree`): the periods of two calls
  are apart or one lies in a half of the other, and a call that joins has its halves below it.
  Of the open calls one with the shortest period waits for none of the others (`FetchNeverStuck`), as
  a call that joins holds no permit. Each call has a number of steps before it that
  covers all the calls its period could be halved into (`Ahead`): a split trades the steps of a
  period for fewer, those of its halves (`FetchComesNearer`), and there are never more than seven for each
  day of each filter by project (`FetchIsShort`).
- **OpsSyncProofs**: types; `MarkHasOwner`, unless reading the user raises; `OneSyncPerKey` and
  `WritesAreMarked`, without key changes and warm-up (the exceptions are section 7's); and
  `RatesAreKept` under any faults; together `OneSyncPerKey` and `WritesAreMarked` are
  `MarksKeepPullsApart`. `EveryStepCounts`: `StepsLeft` adds the answers a pull still waits for, the later
  calls and the rounds of retries to come, every step lowers it, and it is never above what the
  two rounds of retries allow (`PullIsShort`). A worker carries the mark of its click (`Shape`), and nothing
  writes a row but the upsert that coalesces (`OnlyWritePassesWrite`).
- **BoardProofs**: types, `LocksAreHeldByBuilds`, `NobodyIsForgotten` (together `LocksAreSound`),
  `EveryConnectionIsInUse`, `WaitersHoldNoConnection`, `CacheIsBounded`, `OldestGoFirst`. For
  `NobodyIsForgotten` the lines of the locks are part of the invariant (`Lines`): who stands in the line of a lock
  waits for that lock, once, and who waits stands in it. For the connections it is how many a request
  holds at each of its steps (`HInv`). The bound of the cache is an argument about cardinalities: the cleanup leaves,
  of each tenant, at most `Cap` entries with fewer than `Cap` newer ones.
- **DodoClientProofs**: types, `FgCountIsExact`, `SlotsAreNotLost`, `ForegroundFirst`,
  `GrantsAreMetered`, `SendsAreMetered` (together `MinutesAreMetered`). `GrantsAreMetered` needs the relation
  between what was granted in the window, the level of
  the bucket, and the ticks since its last update; `SendsAreMetered` that what was granted and the backlog
  found cover what was sent and what still queues (`Flow`), an argument about cardinalities.
- **LiteRevenueProofs**: `EveryDayIsInOnePiece` and `ListedMonthsAreWholePieces` (pure facts about the
  calendar functions, for any calendar), types, `OnlyWholeMonthsAreKept`, `EveryDayCountsOnce`,
  `WarmedMonthsAreKept`, `KeptMonthsNeverChange`. `IInv` is `TypeOK`, `TableOK` (rows are whole months
  or the zero of a shared unit) and, for each job, that its clocks lie behind today (`ClockOK`), its
  owners are those of the links it read (`OwnsOK`), it stands at a piece of its range (`PlaceOK`), what
  it has added up is the days of the pieces before that one (`Counted`), and the months of a
  warm-up are closed (`WarmOK`).
- **AuthProofs**, about the four modules of who may enter:
  - `Access`: `CanSignIn`, `DecidedOnce`, `LinksStick`, `LastSuperAdmin`, `NetworksAreNotDoubled` for
    any number of handlers at once. `AccessInv` adds to types and `CanSignIn` that rows without an
    account are empty and a request has somebody who asks (`RowsInv`); that a handler carries values
    of the right kind and what it read of things that never change back (`CallsInv`); that the name
    a provisioning has inserted and not committed is free in the table and its alone
    (`ReservedInv`); and that for a handler that has been alone so far what it read still holds
    (`AloneInv`), which the properties with that exception rest on.
  - `Sessions`: `OldPasswordIsOut`, and the refinement `SessionsImplementLife` (`LivesOnce`): every
    step of `Sessions` is a step of `SessionLife` or leaves its variables alone. The renewal is the
    reason an invariant is needed: it is computed by one step and written by another, so `VisitInv`
    says that a renewal under way respects the present and, while its session lives, the ceiling;
    `LoginInv` that a login under way has the password in force or is late; `UserInv` that requests
    and living sessions have users.
  - `Licence`: `NothingStaleIsServed` for any ages with `Fresh <= Stale` and any number of requests;
    `DatedInv` says that entries and questions are not dated in the future.
  - `LoginLimiter`: `BurstIsBounded`. An attempt passes the check only below the limit, so the
    failures recorded since can be counted against the attempts between check and record
    (`BurstInv`, an argument about cardinalities).
- **FiguresProofs**: `LikeForLike` for every moment of the calendar, any pizzerias and any takings,
  and `CopiedMonthFollows`, with the types of both modules. `WindowsInv` adds to the property that
  every kept row holds what Dodo IS would answer for the window its key stands for
  (`KeptIsRight`; TLC agrees on the run's instance): then it does not matter which build wrote it. The windows of
  the month have the same days this year and last because only February differs between years
  (`LaterInMonth`), the hours differ by less than one (`NearestHour`, `Hours`), and totals of the
  network follow by adding up (`SumsApart`).

  The rest is about the template and the figures of a month. `TemplateInv` says of the template what
  any saves leave: rows have distinct identifiers and a parent comes before its children
  (`RowsFit`), a save in progress carries a tree and the numbers it read (`SavesFit`), metrics
  have formats (`FormatsFit`). `FiguresTypes` is its counterpart for the month, and with the types of
  the board and the targets it makes those of the run (`FiguresPartsTypes`: a step of one part is a step
  or a stutter of each, `PartsApart`). On it rest
  - `SnapshotIsAsGoodAsParts` (`SnapshotRendersAsRaw`). The invariant is `SnapshotIsOfParts`: a snapshot
    holds the aggregates of the parts of all projects, whoever asked for the closed month, because the
    filters of the request are applied after it is stored and no part is entered after the freeze.
    Filtering a table of aggregates by project then gives the table of the filtered parts;
  - `ReportAgreesWithOperations` (`V2AgreesWithRaw`). A line of the report is a total of all that lies
    under a category, and what the code makes of it is the difference to its children's totals. The
    paths of the children divide what lies under the category and not on it (from
    `CategoriesAreATree`), so the difference is the parts booked on the category itself;
  - `RowsExplainTheirAmounts` (`DrillExplainsAmount`). The template is a forest in which children
    come after their parents. Branches of different nodes are disjoint (`BranchesNest`), what a row
    shows is the sum over its branch (`RollupIsSum`), and a category stands on one row at most, so the
    amounts of the drill-down add up to that of the row (`RollupOfCategories`);
  - `RetainedIsTheFlow` (`ProfitIsTheFlow`): the cascade of profits adds or subtracts
    every code once (`Cascade`), so it is a sum over the codes, and the parts of a code are its amount;
  - `HistoryIsOfReports` (`HistoryAgreesWithReport`): revenue by channel adds up to revenue, from the
    parts as from the snapshot;
  - `KeptPathsKeepNumbers`: a path that is saved again keeps its number, for any trees, and
    `NumbersAreUnique`: a number names one row while one save ends before the next begins. Both
    follow the loop that gives out numbers (`Progress`): numbers given differ and lie below the next
    free one, which starts above all numbers read. `OneSaveInv` adds that a save that has
    deleted has deleted everything; with two saves at once that is false, and TLC shows both
    trees left (section 7).

The provers cannot use the library's induction theorems, which have an operator as a parameter. Facts
about recursive functions and folds are proved from a least counterexample instead: a set of natural
numbers that is not empty has a least element (`LeastNumber`, from the well-foundedness of `<`), so of the
sets for which a claim about a sum fails one has the fewest elements. `SumStep`, `SumInsert`,
`SumType` and `SumsApart` are obtained that way for the sums of the community modules; the
roll-up and the branches of a template (`Rollup`, `Branches`, by the place of a row) and the numbers of its lines
(by the number of nodes done) likewise.

Only model-checked:

- the liveness properties (`EveryCallIsAnswered` of both modules, `SyncEnds`, `EveryCallEnds`,
  `FetchEnds`, `CallsEnd`), because fairness is defined with ENABLED, which the prover does not treat. What
  is proved of `EveryCallIsAnswered` of the P&L, `SyncEnds` and `FetchEnds` is the half without fairness,
  for every instance: every step lowers a number, and a fetch always has a call that can go on;
- what `Evaluate` and `LineRefs` compute, which are recursive operators over formulas: the runs use them,
  the theorems hold for any functions in their place.

---------------------------------------------------------------------------------------------

## 7. Abstractions and what they leave out

- Content is abstracted to what a property tells apart: a version, a set of days, the time a
  payload was stored, whether a number came from Dodo IS. Where the arithmetic is the subject
  (`PnlFigures`, `BoardWindows`), amounts are whole numbers and shares exact fractions, so rounding
  is left out.
- PnlSnapshot has a single month per request. The comparison period and `group_by=month` build
  several months on one database session, which the model leaves out. The model carries the report method and a mark
  for aggregates built over the saved lists; no property uses them yet.
- OperationsFetch: an invalid date (returned as it is), the parameters of the method, parsing and logs
  are left out. The results of halves are forgotten once they are joined. The clock does not go back,
  and an edit is seen by PlanFact's answers as soon as it is made. Pages of other paths are not in the
  cache; that they push pages of operations out, and that the cache goes with the client, is `Forget`.
  The order of eviction is left out: any page but the new one may go.
- OpsSync: one month; the table of calls has the code's calls but groups the columns.
- Board: entries age by an action of their own; the time of day within an hour is not modelled. A
  request is made once.
- DodoClient: batches of 12 or 30 units, parsing, the shared HTTP client and the eviction from a table of
  more than 64 limiters are left out; renewals are few.
- LiteRevenue: sales of the current day are left out, past days are final; a user's key stays the
  same during a warm-up; the project filter, the compared period's twins in the warm-up, the debounce
  and counts of orders are left out. The server's clock lags Moscow's: dates come from the server's
  own time zone in one function and from Moscow's in another.
- Access: the command line, looking up a Dodo IS token, and a form that changes role and key in one call are left
  out; the two awaits that load and check a link are one step. Units are held by one network.
- Sessions: one browser, no addresses; the daily sweep and the one at login are `Sweep`.
- Licence: one tenant; its units are given. LoginLimiter: eviction from a large table is left out.
- BoardWindows: staff, kitchen figures and wording of the payload are left out; time zones are one.
- PnlTemplate: a title is a value with the words the rules look for; numbers in titles, case and
  blanks are not modelled. PnlFigures: one month; capital of kinds the report does not name.
- Targets: the report of targets against facts is left out.

### Disagreements seen and not kept as runs

- A miss after `admin_delete_key_cache` may be answered by the requester's LRU (an hour) and frozen;
  `admin_router.py:946` says the next request rebuilds it from live PlanFact data.
- The snapshot's key has no report method: the first reader's method decides for everyone
  (`main.py:932`). Two misses at once leave the last writer's row, which may be the older one
  (`store.py:1351`).
- The v2 path freezes an aggregate built over the saved lists while PlanFact is down
  (`main.py:1217`), and the raw path never saves that copy, so the comment at `main.py:558` does not
  hold for tenants on raw.
- A `TimeoutError` in `_timed` ends the pull instead of trying the later calls (`main.py:3971`).
  Without the mark, the warm-up pulls beside a click (`main.py:2212`). If the key changes between
  click and start, the worker writes to another key than the marked one (`main.py:3946`), and a
  database error before its try leaves the mark (`main.py:3937`).
- The board holds its connection during some calls to Dodo IS (last year's month at `board.py:464`,
  unit names, the broker), against the comment at `main.py:3752`. The n-th waiter behind failing
  builds waits n minutes. A late build of the previous hour evicts entries of the new one.
- A failed Dodo IS call becomes zeros in the Lite report after the fast stage has shown the revenue
  (`main.py:1955`, against "no jump" at `main.py:2252`). Units shared between projects (the form does
  not check) store zeros for good, and rows survive a relink.
- The comparison of Lite cuts a period by today's day of the month, in the month of its own end
  (`main.py:1455`). Counts of orders of a running day are served past midnight for an hour
  (`main.py:1486`). An early return of `warm_financials` leaves its mark (`main.py:2162`).
- A fetch may return pages up to an hour old: `_request` keeps pages of up to 5000 operations
  (`planfact.py:146`), so a report read again within the hour misses what was edited in between, until
  the refresh throws the client away. The comment at `planfact.py:110` says `/operations` is not cached,
  but `NO_CACHE_PATHS` is empty (`planfact.py:51`), and `config.py:10` says it is.
- A report of several projects is cut at 50 000 operations without a word (`planfact.py:320`). The
  "common ceiling" on parallel calls belongs to one fetch: fetches of several months, and calls that
  go on after one of them failed, add theirs (`planfact.py:287`). An operation moved from one half
  to the other between the two calls can be in neither.
- Board figures: on 29 February the baseline of the month and the day of last year both contain
  28 February, against the symmetry `day_window.py:116` promises. The fallback of the days in a month
  takes last year's month. A unit missing from an answer is kept as zeros for good.
- Access: one administrator approves a request while another denies it, and both succeed
  (`auth/router.py:515`): the account stays, the request reads as denied. Two first sign-ins of one
  network make two tenants, though `auth/sso.py:105` says a check rules duplicates out. An approval
  fails for good when an account of the name `sso-<sub>` exists unlinked, and may link an account of
  another tenant. Of two links at once the later one stays. A key deleted between the count of its
  users and the delete leaves them without a tenant; a tenant whose provisioning failed late has no
  administrator.
- Sessions: the sweep of an expired session is rolled back by the 401 that follows it. A login that
  overlaps a change of password leaves a session of the old password; an administrator's reset
  removes no session.
- Administration: two super administrators who demote each other at once leave none
  (`auth/admin_router.py:195` looks only at the caller).
- Licences: `licensing.invalidate` has no caller; a slow answer of sa overwrites a newer entry.
- Template: the number of a removed line is given to another, so a formula shifts, though
  `store.py:1127` says numbers are stable so that formulas do not. Two overlapping saves leave both
  trees, against "full replacement" in `store.py:1125`. A change of the template leaves snapshots
  as they are, and lines of a frozen month keep the codes of the freeze (`pnl.py:497`).
- Figures: v2 shows unclassified categories that raw skips, and lists no capital but dividends, while
  the raw build counts a category of capital that the template codes, against "bit for bit" in
  `pnl_v2.py:7`; the history of revenue skips capital (`pnl.py:1536`) where the report of the month
  counts it if the template codes it as revenue. A row coded TC, which the editor offers and the
  endpoint does not check, is in no profit. The seeded EBITDA leaves out other income and
  non-operating expense, unlike `pnl.py:735`. The breakdown by category is not filtered by
  project when it comes from a snapshot. A project whose line is zero has no value for a formula that
  names it. The match of a last title ignores the kind of operation. History counts uncommitted
  parts and projects that are not listed, which the report does not.
- Targets: the network's target of a month loses to a project's general one; a copy leaves rows of the target month
  the source lacks. A tax coefficient of 0 is accepted and served as 1.
- The command line calls `update_integrations` with an argument it does not have
  (`cli.cmd_set_planfact`).
- `planerka.py` is included by no router and calls a function `dodois_client` does not have.

---------------------------------------------------------------------------------------------

## 8. Not modelled, and why

- The activity log: a midnight sweep may count a flush twice, and an error in it is swallowed; it is
  counters for statistics, which nothing reads back.
- Counts of orders of Lite tenants, the comparison period, `group_by=month`: caches and loops of the
  kinds modelled elsewhere, with the disagreements of section 7.
- The rest of the warm-up (debounce, building of months) and the batches of the Dodo IS client.
- Hazards without a property: the snapshot's key without a method (`main.py:932`), lists of an
  earlier day frozen (`main.py:1217`), the outage inside `group_by=month` (`main.py:2612`), a timeout in
  the middle of a pull (`main.py:3992`), counts of orders past midnight (`main.py:1486`), the warm-up's
  mark left behind (`main.py:2162`), the unbounded sum of several fetches (`planfact.py:287`). The
  code has them as they are described in section 7; no property of the code holds there.
- Pure input and output, or layout: exports, wording of payloads, front-end rendering, audit log.
- Single commands or single statements: configuration, migrations, command line, settings.
- Library calls: password hashing, encryption.
- Scripts, deployment, the MCP tool and the documents are not part of the service; the weekly planning
  report cannot be reached.
