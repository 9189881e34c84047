---------------------------- MODULE DodoClient ----------------------------
(***************************************************************************)
(* Every request to Dodo IS: the token bucket per access token with its    *)
(* two priorities (_RateLimiter), the semaphore of _MAX_PARALLEL requests   *)
(* around each HTTP call (_get), the retries with a pause (_with_retries), *)
(* and the one repetition with a renewed token after a 401                 *)
(* (with_dodois_retry in main.py).                                          *)
(*                                                                         *)
(* A tick is the time in which a bucket gains one unit; a request costs    *)
(* Cost units, so Cost ticks is 60 / rpm seconds.  A call is one batch of   *)
(* one endpoint and is made once.  Tokens are numbered by the renewals     *)
(* that issue them; there are too few of them for _limiters to overflow    *)
(* (more than 64), so a bucket that is not in the table is a full one.      *)
(***************************************************************************)
EXTENDS Integers, FiniteSets

CONSTANTS
  Calls,      \* the calls that may be in progress
  Fg,         \* those of live screens; the others are warm-up and ops-sync
  MaxToken,   \* bound: the access tokens of the model are 1..MaxToken
  Cost,       \* the price of a request, in units of a bucket
  Cap,        \* the capacity of a bucket: the burst, in units
  MaxSleep,   \* the longest pause in the limiter (5 seconds), in ticks
  Backoffs,   \* the pauses before a retry, in ticks
  Attempts,   \* attempts of _with_retries
  Parallel,   \* _MAX_PARALLEL
  Minute      \* the length of the observed window, in ticks

ASSUME DodoAssumption ==
  /\ IsFiniteSet(Calls) /\ Fg \subseteq Calls
  /\ MaxToken \in Nat \ {0} /\ Minute \in Nat
  /\ Cost \in Nat \ {0} /\ Cap \in Nat /\ Cost <= Cap
  /\ MaxSleep \in Nat \ {0} /\ Backoffs \subseteq Nat \ {0}
  /\ Attempts \in Nat \ {0} /\ Parallel \in Nat \ {0}

Tokens == 1..MaxToken

VARIABLES
  cred,       \* the access token the broker or the database holds now
  pc,         \* pc[c]: where call c is
  token,      \* token[c]: the token it uses
  tries,      \* tries[c]: attempts made with that token
  renewed,    \* the calls that were repeated with a renewed token
  timer,      \* timer[c]: ticks until its asyncio.sleep ends
  bucket,     \* bucket[t]: tokens left, and ticks since the last update
  fgWaiting,  \* fgWaiting[t]: the counter fg_waiting of t's limiter
  slots,      \* what the semaphore has left
  window      \* history: one minute of one token, and what it let through

callVars == <<pc, token, tries, renewed, timer>>
vars     == <<cred, callVars, bucket, fgWaiting, slots, window>>

\* "waiting" in the limiter, "queued" for the semaphore, "backoff" before a retry
Pcs   == {"idle", "waiting", "queued", "sent", "backoff", "renew", "done", "failed"}
Ended == {"done", "failed"}

\* The observed minute: its token, or 0 before it begins; what waited for the
\* semaphore with a token in hand when it began; what was granted and sent since.
Window == [token : Tokens \cup {0}, age : 0..Minute, backlog : Nat,
           granted : Nat, sent : Nat]

TypeOK ==
  /\ cred \in Tokens
  /\ pc \in [Calls -> Pcs]
  /\ token \in [Calls -> Tokens]
  /\ tries \in [Calls -> 0..Attempts]
  /\ renewed \subseteq Calls
  /\ timer \in [Calls -> Nat]
  /\ bucket \in [Tokens -> [tokens : 0..Cap, lag : 0..Cap]]
  /\ fgWaiting \in [Tokens -> Nat]
  /\ slots \in 0..Parallel
  /\ window \in Window

Init ==
  /\ cred = 1
  /\ pc = [c \in Calls |-> "idle"]
  /\ token = [c \in Calls |-> 1]
  /\ tries = [c \in Calls |-> 0]
  /\ renewed = {}
  /\ timer = [c \in Calls |-> 0]
  /\ bucket = [t \in Tokens |-> [tokens |-> Cap, lag |-> 0]]
  /\ fgWaiting = [t \in Tokens |-> 0]
  /\ slots = Parallel
  /\ window = [token |-> 0, age |-> 0, backlog |-> 0, granted |-> 0, sent |-> 0]

Goto(c, p) == pc' = [pc EXCEPT ![c] = p]
Sleep(c, d) == timer' = [timer EXCEPT ![c] = d]
AtMost(n, m) == IF n <= m THEN n ELSE m
----------------------------------------------------------------------------
(* The observed minute: requests granted and sent while it lasts.          *)

Observed(t) == window.token = t /\ window.age < Minute

\* The calls that have taken a token of t and wait for the semaphore
Queued(t) == {c \in Calls : pc[c] = "queued" /\ token[c] = t}

CountGrant(t) ==
  window' = IF Observed(t) THEN [window EXCEPT !.granted = @ + Cost] ELSE window

CountSend(t) ==
  window' = IF Observed(t) THEN [window EXCEPT !.sent = @ + Cost] ELSE window
----------------------------------------------------------------------------
(* _RateLimiter.acquire: one pass of the loop under the lock.              *)

\* The bucket of t, refilled for the ticks since the last update.
Level(t) == AtMost(Cap, bucket[t].tokens + bucket[t].lag)

\* Whether c takes a token of t when the counter of its limiter stands at n.
MayGo(c, t, n) == Level(t) >= Cost /\ (c \in Fg \/ n = 0)

\* Mutant of Refused: self.updated keeps its value.
StaleUpdate(t) == [tokens |-> Level(t), lag |-> bucket[t].lag]

Refused(t) == [tokens |-> Level(t), lag |-> 0]

\* Until the token is there; a background call that yields sleeps a moment.
Delay(c, t, n) ==
  LET deficit == Cost - Level(t) IN
  AtMost(IF c \notin Fg /\ n > 0 /\ deficit < 1 THEN 1 ELSE deficit, MaxSleep)

AfterGrant(c, n) == IF c \in Fg THEN n - 1 ELSE n

Granted(c, t, n) ==
  /\ MayGo(c, t, n)
  /\ bucket' = [bucket EXCEPT ![t] = [tokens |-> Level(t) - Cost, lag |-> 0]]
  /\ fgWaiting' = [fgWaiting EXCEPT ![t] = AfterGrant(c, n)]
  /\ CountGrant(t)
  /\ Goto(c, "queued")
  /\ Sleep(c, 0)

Denied(c, t, n) ==
  /\ ~MayGo(c, t, n)
  /\ bucket' = [bucket EXCEPT ![t] = Refused(t)]
  /\ fgWaiting' = [fgWaiting EXCEPT ![t] = n]
  /\ Goto(c, "waiting")
  /\ Sleep(c, Delay(c, t, n))
  /\ UNCHANGED window

\* acquire is entered: a foreground call counts itself, then makes its first pass.
Enter(c, t) ==
  LET n == fgWaiting[t] + (IF c \in Fg THEN 1 ELSE 0) IN
  Granted(c, t, n) \/ Denied(c, t, n)

\* The sleep in the loop ends.
Poll(c) ==
  LET t == token[c] IN
  /\ pc[c] = "waiting" /\ timer[c] = 0
  /\ Granted(c, t, fgWaiting[t]) \/ Denied(c, t, fgWaiting[t])
  /\ UNCHANGED <<cred, token, tries, renewed, slots>>
----------------------------------------------------------------------------
(* The call: token, attempts, answers.                                     *)

\* get_dodois_token, then the first _get.
Begin(c) ==
  /\ pc[c] = "idle"
  /\ token' = [token EXCEPT ![c] = cred]
  /\ Enter(c, cred)
  /\ UNCHANGED <<cred, tries, renewed, slots>>

\* The broker or the database has no token for the network (NoTokenError).
NoToken(c) ==
  /\ pc[c] \in {"idle", "renew"}
  /\ Goto(c, "failed")
  /\ UNCHANGED <<cred, token, tries, renewed, timer, bucket, fgWaiting, slots, window>>

\* The semaphore lets the request through; the attempt is made.
Send(c) ==
  /\ pc[c] = "queued" /\ slots > 0
  /\ slots' = slots - 1
  /\ tries' = [tries EXCEPT ![c] = @ + 1]
  /\ CountSend(token[c])
  /\ Goto(c, "sent")
  /\ UNCHANGED <<cred, token, renewed, timer, bucket, fgWaiting>>

\* An answer or an exception leaves the `async with _semaphore`.
Returned(c, p) ==
  /\ pc[c] = "sent"
  /\ slots' = slots + 1
  /\ Goto(c, p)
  /\ UNCHANGED <<cred, token, renewed, bucket, fgWaiting, window>>

\* A success, or an error that is not retried (4xx, 5xx, a 401 of a caller that
\* does not go through with_dodois_retry).
Answer(c) ==
  /\ \E p \in Ended : Returned(c, p)
  /\ UNCHANGED <<tries, timer>>

\* A transport error or a 429, with attempts left: pause, then again.
TryLater(c) ==
  /\ tries[c] < Attempts
  /\ Returned(c, "backoff")
  /\ \E d \in Backoffs : Sleep(c, d)
  /\ UNCHANGED tries

\* The same in the last attempt.
GiveUp(c) ==
  /\ tries[c] = Attempts
  /\ Returned(c, "failed")
  /\ UNCHANGED <<tries, timer>>

\* Mutant of Retry: the next attempt only waits for the semaphore.
RetryUnmetered(c) ==
  /\ pc[c] = "backoff" /\ timer[c] = 0
  /\ Goto(c, "queued")
  /\ UNCHANGED <<cred, token, tries, renewed, timer, bucket, fgWaiting, slots, window>>

\* The pause is over: the next attempt goes through the limiter again.
Retry(c) ==
  /\ pc[c] = "backoff" /\ timer[c] = 0
  /\ Enter(c, token[c])
  /\ UNCHANGED <<cred, token, tries, renewed, slots>>

\* A 401: the first one is answered by a repetition.
Unauthorized(c) ==
  /\ Returned(c, IF c \in renewed THEN "failed" ELSE "renew")
  /\ UNCHANGED <<tries, timer>>

\* The token is read again: a new one repeats the call, the same one fails it.
Renew(c) ==
  /\ pc[c] = "renew" /\ cred # token[c]
  /\ token' = [token EXCEPT ![c] = cred]
  /\ tries' = [tries EXCEPT ![c] = 0]
  /\ renewed' = renewed \cup {c}
  /\ Enter(c, cred)
  /\ UNCHANGED <<cred, slots>>

SameToken(c) ==
  /\ pc[c] = "renew" /\ cred = token[c]
  /\ Goto(c, "failed")
  /\ UNCHANGED <<cred, token, tries, renewed, timer, bucket, fgWaiting, slots, window>>

\* Mutant of LeftLimiter: a cancelled call stays counted in fg_waiting.
StaysCounted(c) == UNCHANGED fgWaiting

\* The finally of acquire.
LeftLimiter(c) ==
  fgWaiting' = IF c \in Fg /\ pc[c] = "waiting"
               THEN [fgWaiting EXCEPT ![token[c]] = @ - 1] ELSE fgWaiting

LeftSemaphore(c) == slots' = IF pc[c] = "sent" THEN slots + 1 ELSE slots

\* The caller's deadline (asyncio.wait_for) cancels the call at an await.
Cancel(c) ==
  /\ pc[c] \in {"waiting", "queued", "sent", "backoff", "renew"}
  /\ LeftLimiter(c)
  /\ LeftSemaphore(c)
  /\ Goto(c, "failed")
  /\ Sleep(c, 0)
  /\ UNCHANGED <<cred, token, tries, renewed, bucket, window>>
----------------------------------------------------------------------------
(* Time and tokens.                                                        *)

\* The clock moves for every sleeper, for every bucket and for the observed minute.
\* A lag beyond Cap is kept at Cap: either fills the bucket.
Tick ==
  /\ timer' = [c \in Calls |-> IF timer[c] > 0 THEN timer[c] - 1 ELSE 0]
  /\ bucket' = [t \in Tokens |-> [bucket[t] EXCEPT !.lag = AtMost(Cap, @ + 1)]]
  /\ window' = IF window.token # 0 /\ window.age < Minute
               THEN [window EXCEPT !.age = @ + 1] ELSE window
  /\ UNCHANGED <<cred, pc, token, tries, renewed, fgWaiting, slots>>

\* The observed minute begins, at any time, for any token.
Observe ==
  /\ window.token = 0
  /\ \E t \in Tokens :
       window' = [window EXCEPT !.token = t, !.backlog = Cost * Cardinality(Queued(t))]
  /\ UNCHANGED <<cred, callVars, bucket, fgWaiting, slots>>

\* The neighbouring service issues a new token.
Rotate ==
  /\ cred < MaxToken
  /\ cred' = cred + 1
  /\ UNCHANGED <<callVars, bucket, fgWaiting, slots, window>>

Step(c) == \/ Begin(c) \/ NoToken(c) \/ Poll(c) \/ Send(c) \/ Answer(c) \/ TryLater(c)
           \/ GiveUp(c) \/ Retry(c) \/ Unauthorized(c) \/ Renew(c) \/ SameToken(c)

Next == \/ \E c \in Calls : Step(c) \/ Cancel(c)
        \/ Tick \/ Observe \/ Rotate

Spec == Init /\ [][Next]_vars

\* Sleeps end, HTTP calls end (250 s at most), the event loop runs what is ready.
\* Nothing is assumed of cancellation or of the renewal of tokens.
FairSpec == Spec /\ WF_vars(Tick) /\ \A c \in Calls : WF_vars(Step(c))
----------------------------------------------------------------------------
(* Properties.                                                             *)

Waiting(t) == {c \in Fg : pc[c] = "waiting" /\ token[c] = t}
InFlight   == {c \in Calls : pc[c] = "sent"}

\* A minute of a token, whenever it begins, lets no more requests through the
\* limiter than the burst and the rate allow, whatever waits, yields or is
\* cancelled ("worst-case minute = rpm + burst").
GrantsAreMetered == window.granted <= Cap + window.age

\* What a minute really carries is the burst, the rate and the backlog it found:
\* every attempt, a retry or a repetition included, has passed the limiter once.
SendsAreMetered == window.sent <= Cap + window.age + window.backlog

\* Both: what a minute of a token lets through and what it carries.
MinutesAreMetered == GrantsAreMetered /\ SendsAreMetered

\* fg_waiting counts the foreground calls in the limiter, also when their callers
\* gave up: a count left too high would stop warm-up and ops-sync for good.
FgCountIsExact == \A t \in Tokens : fgWaiting[t] = Cardinality(Waiting(t))

\* A background call takes no token while a live screen waits for one.
ForegroundFirst ==
  [][\A c \in Calls \ Fg : pc[c] # "queued" /\ pc'[c] = "queued"
       => Waiting(token'[c]) = {}]_vars

\* A slot of the semaphore is held by a request in flight and by nothing else: no
\* error, no pause and no deadline loses one.
SlotsAreNotLost == slots + Cardinality(InFlight) = Parallel

\* Every call ends, the background ones too, however the foreground calls, the
\* errors and the deadlines fall.
EveryCallEnds == \A c \in Calls : <>(pc[c] \in Ended)

\* "Worst-case minute = rpm + burst": what Dodo IS sees of a token in a minute.
MinuteIsHonoured == window.sent <= Cap + window.age
=============================================================================
