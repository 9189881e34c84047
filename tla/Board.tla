------------------------------- MODULE Board -------------------------------
(***************************************************************************)
(* GET /api/board, the network's summary of the day: the in-memory cache   *)
(* _BOARD_CACHE, the per-key locks _BOARD_LOCKS that make the requests of   *)
(* one key wait for one build, the cleanup after a build, the deadline of  *)
(* a build, and the pool of database connections all requests share.       *)
(*                                                                         *)
(* A payload is abstracted to the time it was stored at.  Each request is  *)
(* made once; a lock object is named by the request that created it.       *)
(***************************************************************************)
EXTENDS Integers, Sequences, FiniteSets

CONSTANTS
  Requests,   \* the requests that may be in progress
  PfKeys,     \* the PlanFact keys (tenants)
  Filters,    \* the selections of projects
  Conns,      \* the connections of the pool
  Cap,        \* _BOARD_CACHE_MAX_VARIANTS
  MaxHour,    \* bound: the hours of the model are 0..MaxHour
  None        \* "nothing"

ASSUME BoardAssumption ==
  /\ Cap \in Nat \ {0} /\ MaxHour \in Nat
  /\ IsFiniteSet(PfKeys) /\ IsFiniteSet(Filters)
  /\ None \notin Requests

Hours     == 0..MaxHour
CacheKeys == [pf : PfKeys, hour : Hours, filter : Filters]

VARIABLES
  hour,     \* the current hour, Moscow time
  pc,       \* pc[r]: where request r is
  key,      \* key[r]: its cache_key
  lock,     \* lock[r]: the lock it waits for or holds
  holder,   \* holder[c]: the request whose session holds connection c
  stored,   \* _BOARD_CACHE: stored[k] is the time k was stored at, 0 when absent
  clock,    \* the time of the last store
  fresh,    \* the entries younger than _BOARD_CACHE_TTL
  table,    \* _BOARD_LOCKS
  owner,    \* owner[l]: the request that holds lock l
  waiters   \* waiters[l]: the requests waiting for lock l, in order

reqVars   == <<pc, key, lock>>
cacheVars == <<stored, clock, fresh>>
lockVars  == <<table, owner, waiters>>
vars      == <<hour, reqVars, holder, cacheVars, lockVars>>

Building == {"read", "names", "gather", "last_year"}
Pcs == Building \cup {"new", "auth", "touch", "lookup", "token", "queue",
                      "answered", "failed"}

TypeOK ==
  /\ hour \in Hours
  /\ pc \in [Requests -> Pcs]
  /\ key \in [Requests -> CacheKeys \cup {None}]
  /\ lock \in [Requests -> Requests \cup {None}]
  /\ holder \in [Conns -> Requests \cup {None}]
  /\ stored \in [CacheKeys -> Nat]
  /\ clock \in Nat
  /\ fresh \subseteq CacheKeys
  /\ table \in [CacheKeys -> Requests \cup {None}]
  /\ owner \in [Requests -> Requests \cup {None}]
  /\ waiters \in [Requests -> Seq(Requests)]

Init ==
  /\ hour = 0
  /\ pc = [r \in Requests |-> "new"]
  /\ key = [r \in Requests |-> None]
  /\ lock = [r \in Requests |-> None]
  /\ holder = [c \in Conns |-> None]
  /\ stored = [k \in CacheKeys |-> 0]
  /\ clock = 0
  /\ fresh = {}
  /\ table = [k \in CacheKeys |-> None]
  /\ owner = [l \in Requests |-> None]
  /\ waiters = [l \in Requests |-> <<>>]
----------------------------------------------------------------------------
(* The pool of connections.                                                *)

Free     == {c \in Conns : holder[c] = None}
Held(r)  == {c \in Conns : holder[c] = r}
Cached   == {k \in CacheKeys : stored[k] # 0}

\* A session takes a connection at its first query and returns it when its
\* transaction ends.
Connect(r) == \E c \in Free : holder' = [holder EXCEPT ![c] = r]
Release(r) == holder' = [c \in Conns |-> IF holder[c] = r THEN None ELSE holder[c]]

Goto(r, p) == pc' = [pc EXCEPT ![r] = p]

\* The request ends: its local variables go.
End(r, p) ==
  /\ Goto(r, p)
  /\ key' = [key EXCEPT ![r] = None]
  /\ lock' = [lock EXCEPT ![r] = None]
----------------------------------------------------------------------------
(* The request up to the lock.                                             *)

\* require_user opens the request's session; last_seen_at is or is not due
\* for an update.
Arrive(r) ==
  /\ pc[r] = "new"
  /\ Connect(r)
  /\ \E p \in {"auth", "lookup"} : Goto(r, p)
  /\ UNCHANGED <<hour, key, lock, cacheVars, lockVars>>

\* No connection came free within the pool's timeout: 500.
ArriveFails(r) ==
  /\ pc[r] = "new"
  /\ Free = {}
  /\ Goto(r, "failed")
  /\ UNCHANGED <<hour, key, lock, holder, cacheVars, lockVars>>

\* touch_session_detached and note_activity use a second, short session.
TouchBegins(r) ==
  /\ pc[r] = "auth"
  /\ Connect(r)
  /\ Goto(r, "touch")
  /\ UNCHANGED <<hour, key, lock, cacheVars, lockVars>>

\* It commits, or fails on its lock_timeout: the error is swallowed.
Touch(r) ==
  /\ pc[r] = "touch"
  /\ \E c \in Held(r) : holder' = [holder EXCEPT ![c] = None]
  /\ Goto(r, "lookup")
  /\ UNCHANGED <<hour, key, lock, cacheVars, lockVars>>

\* Mutant of TouchFails: the wait for the second connection is started again.
TouchFailsAgain(r) == pc[r] = "auth" /\ Free = {} /\ UNCHANGED vars

\* The pool's timeout ends the wait for the second connection; swallowed too.
TouchFails(r) ==
  /\ pc[r] = "auth"
  /\ Free = {}
  /\ Goto(r, "lookup")
  /\ UNCHANGED <<hour, key, lock, holder, cacheVars, lockVars>>

\* The cache key is made of the current hour, and a fresh entry is answered
\* without the lock.
Lookup(r) ==
  /\ pc[r] = "lookup"
  /\ \E k \in {c \in CacheKeys : c.hour = hour} :
       IF k \in fresh
       THEN Goto(r, "answered") /\ Release(r) /\ UNCHANGED key
       ELSE Goto(r, "token") /\ key' = [key EXCEPT ![r] = k] /\ UNCHANGED holder
  /\ UNCHANGED <<hour, lock, cacheVars, lockVars>>

\* No project is selected or visible: an empty board, not cached.
NothingSelected(r) ==
  /\ pc[r] = "lookup"
  /\ End(r, "answered")
  /\ Release(r)
  /\ UNCHANGED <<hour, cacheVars, lockVars>>

\* What precedes the lock fails: capability, broker, database.
NoToken(r) ==
  /\ pc[r] \in {"lookup", "token"}
  /\ End(r, "failed")
  /\ Release(r)
  /\ UNCHANGED <<hour, cacheVars, lockVars>>

\* Inside the lock the cache is read again: another request may have built it.
Enter(r, l) ==
  IF key[r] \in fresh
  THEN End(r, "answered") /\ UNCHANGED owner
  ELSE /\ Goto(r, "read")
       /\ lock' = [lock EXCEPT ![r] = l]
       /\ owner' = [owner EXCEPT ![l] = r]
       /\ UNCHANGED key

\* Mutant of Join: no commit before the lock.
JoinUncommitted(r) ==
  LET l == IF table[key[r]] = None THEN r ELSE table[key[r]] IN
  /\ pc[r] = "token"
  /\ table' = [table EXCEPT ![key[r]] = l]
  /\ IF owner[l] = None /\ waiters[l] = <<>>
     THEN Enter(r, l) /\ UNCHANGED waiters
     ELSE /\ waiters' = [waiters EXCEPT ![l] = Append(@, r)]
          /\ lock' = [lock EXCEPT ![r] = l]
          /\ Goto(r, "queue")
          /\ UNCHANGED <<key, owner>>
  /\ UNCHANGED <<hour, holder, cacheVars>>

\* The commit returns the connection, setdefault finds or makes the key's lock.
Join(r) ==
  LET l == IF table[key[r]] = None THEN r ELSE table[key[r]] IN
  /\ pc[r] = "token"
  /\ Release(r)
  /\ table' = [table EXCEPT ![key[r]] = l]
  /\ IF owner[l] = None /\ waiters[l] = <<>>
     THEN Enter(r, l) /\ UNCHANGED waiters
     ELSE /\ waiters' = [waiters EXCEPT ![l] = Append(@, r)]
          /\ lock' = [lock EXCEPT ![r] = l]
          /\ Goto(r, "queue")
          /\ UNCHANGED <<key, owner>>
  /\ UNCHANGED <<hour, cacheVars>>

\* asyncio.Lock: the first waiter gets the lock when it is released, but the
\* lock is not locked() until that waiter runs.
Resume(r) ==
  /\ pc[r] = "queue"
  /\ owner[lock[r]] = None
  /\ waiters[lock[r]] # <<>> /\ Head(waiters[lock[r]]) = r
  /\ waiters' = [waiters EXCEPT ![lock[r]] = Tail(@)]
  /\ Enter(r, lock[r])
  /\ UNCHANGED <<hour, holder, cacheVars, table>>
----------------------------------------------------------------------------
(* The build, inside the lock.                                             *)

\* build_board_payload reads the unit names and the cached windows; a refresh
\* of the names calls Dodo IS with the connection in hand.
ReadCaches(r) ==
  /\ pc[r] = "read"
  /\ Connect(r)
  /\ Goto(r, "names")
  /\ UNCHANGED <<hour, key, lock, cacheVars, lockVars>>

\* The commit before the calls to Dodo IS returns the connection.
Gather(r) ==
  /\ pc[r] = "names"
  /\ Release(r)
  /\ Goto(r, "gather")
  /\ UNCHANGED <<hour, key, lock, cacheVars, lockVars>>

\* The fetched windows are written; then last year's month is read, and fetched
\* from Dodo IS when it is missing, with the connection in hand.
Merge(r) ==
  /\ pc[r] = "gather"
  /\ Connect(r)
  /\ Goto(r, "last_year")
  /\ UNCHANGED <<hour, key, lock, cacheVars, lockVars>>

\* Mutant of BuildFails: the lock is released only after a success.
BuildFailsLocked(r) ==
  /\ pc[r] \in Building
  /\ End(r, "failed")
  /\ Release(r)
  /\ UNCHANGED <<hour, cacheVars, lockVars>>

\* The deadline, an error of Dodo IS, of the pool or of the database: the lock is
\* released and nothing is cached.
BuildFails(r) ==
  /\ pc[r] \in Building
  /\ End(r, "failed")
  /\ Release(r)
  /\ owner' = [owner EXCEPT ![lock[r]] = None]
  /\ UNCHANGED <<hour, cacheVars, table, waiters>>

SameHour(k) == {c \in CacheKeys : c.pf = k.pf /\ c.hour = k.hour}
\* Mutant of Newer: the sort puts the newest first.
Older(s, k) == {c \in SameHour(k) : s[c] # 0 /\ s[c] < s[k]}

\* The entries of s that are newer than k
Newer(s, k) == {c \in SameHour(k) : s[c] > s[k]}

\* What the cleanup after a build of k leaves: of k's tenant, the Cap newest
\* entries of k's hour; of the other tenants, everything.
Kept(s, k) == {c \in CacheKeys : c.pf = k.pf => /\ c.hour = k.hour
                                                /\ Cardinality(Newer(s, c)) < Cap}

Cleaned(s, k) == [c \in CacheKeys |-> IF c \in Kept(s, k) THEN s[c] ELSE 0]

\* The locks of keys that are not cached and that nobody holds are dropped.
Orphans(k) ==
  {c \in CacheKeys : c # k /\ stored'[c] = 0 /\ table[c] # None /\ owner[table[c]] = None}

\* The payload is stored, the cleanup runs, the lock is released.
Store(r) ==
  LET k == key[r] IN
  /\ pc[r] = "last_year"
  /\ clock' = clock + 1
  /\ stored' = Cleaned([stored EXCEPT ![k] = clock + 1], k)
  /\ fresh' = {c \in fresh \cup {k} : stored'[c] # 0}
  /\ table' = [c \in CacheKeys |-> IF c \in Orphans(k) THEN None ELSE table[c]]
  /\ owner' = [owner EXCEPT ![lock[r]] = None]
  /\ End(r, "answered")
  /\ Release(r)
  /\ UNCHANGED <<hour, waiters>>
----------------------------------------------------------------------------
(* Time.                                                                   *)

HourPasses ==
  /\ hour < MaxHour
  /\ hour' = hour + 1
  /\ UNCHANGED <<reqVars, holder, cacheVars, lockVars>>

\* The oldest fresh entry reaches _BOARD_CACHE_TTL.
Expire(k) ==
  /\ k \in fresh
  /\ \A c \in fresh : stored[k] <= stored[c]
  /\ fresh' = fresh \ {k}
  /\ UNCHANGED <<hour, reqVars, holder, stored, clock, lockVars>>

AllOver == \A r \in Requests : pc[r] \in {"answered", "failed"}

\* Every request was made and answered: the model stops here.
Stop == AllOver /\ UNCHANGED vars

Step(r) == \/ Arrive(r) \/ ArriveFails(r) \/ TouchBegins(r) \/ Touch(r) \/ TouchFails(r)
           \/ Lookup(r) \/ NothingSelected(r) \/ NoToken(r) \/ Join(r) \/ Resume(r)
           \/ ReadCaches(r) \/ Gather(r) \/ Merge(r) \/ BuildFails(r) \/ Store(r)

Next == \/ \E r \in Requests : Step(r)
        \/ HourPasses
        \/ \E k \in CacheKeys : Expire(k)
        \/ Stop

Spec     == Init /\ [][Next]_vars

\* Every await of a request ends: the waits for a connection, a lock row, the
\* broker and the build have their timeouts, and a lock goes to its first waiter.
FairSpec == Spec /\ \A r \in Requests : WF_vars(Step(r))
----------------------------------------------------------------------------
(* Properties.                                                             *)

\* A request that waits for another request's build holds no connection of the
\* pool, so that one slow build cannot take the connections of the whole service
\* (the commit before the lock).
WaitersHoldNoConnection ==
  \A r \in Requests : pc[r] = "queue" => Held(r) = {}

\* No connection leaks: one that is taken belongs to a request whose session is
\* in a transaction at that moment, and only the update of last_seen_at makes a
\* request hold a second, whatever fails between its steps.
InTransaction == {"auth", "touch", "lookup", "token", "names", "last_year"}
EveryConnectionIsInUse ==
  /\ \A c \in Conns : holder[c] # None => pc[holder[c]] \in InTransaction
  /\ \A c, d \in Conns :
       holder[c] # None /\ holder[c] = holder[d] /\ c # d => pc[holder[c]] = "touch"

\* No wake-up is lost: a request that waits is in the line of its lock, and either
\* a build holds that lock or the first in its line can take it, also when the
\* cleanup has dropped the lock from the table meanwhile.
NobodyIsForgotten ==
  \A r \in Requests : pc[r] = "queue" =>
    LET line == waiters[lock[r]]
    IN /\ \E i \in 1..Len(line) : line[i] = r
       /\ \/ \E b \in Requests : owner[lock[r]] = b /\ pc[b] \in Building
          \/ /\ owner[lock[r]] = None
             /\ pc[Head(line)] = "queue" /\ lock[Head(line)] = lock[r]

\* A lock is held exactly by the request that builds under it: a build that fails
\* or is cut off leaves no lock behind, and no lock has two builds.
LocksAreHeldByBuilds ==
  /\ \A r \in Requests : pc[r] \in Building => owner[lock[r]] = r
  /\ \A l \in Requests : owner[l] # None =>
       pc[owner[l]] \in Building /\ lock[owner[l]] = l

\* The locks of the board: each is held by one build and by nothing else, and who
\* waits for one is never left without somebody to wake it.
LocksAreSound == LocksAreHeldByBuilds /\ NobodyIsForgotten

\* A tenant has at most Cap payloads in the cache, those of earlier hours
\* included, however many selections its users ask for.
CacheIsBounded ==
  \A k \in PfKeys : Cardinality({c \in Cached : c.pf = k}) <= Cap

\* The cleanup takes the oldest entries: the payload just built stays, and what
\* survives is newer than every payload of its tenant and hour that goes.
OldestGoFirst ==
  [][/\ clock' # clock => \E k \in CacheKeys : stored'[k] = clock'
     /\ \A c, d \in CacheKeys :
          /\ c \in SameHour(d)
          /\ c \in Cached /\ c \notin Cached' /\ d \in Cached'
          => stored[c] < stored'[d]]_vars

\* Every request is answered or fails, also when the requests before it in line
\* fail and when all connections are taken by requests that need a second one.
EveryCallIsAnswered ==
  \A r \in Requests : <>(pc[r] \in {"answered", "failed"})

\* "The concurrent users of one key with one selection wait for ONE build": no two
\* requests build the payload of one cache key at the same time.
OneBuildPerKey ==
  \A r, q \in Requests :
    pc[r] \in Building /\ pc[q] \in Building /\ key[r] = key[q] => r = q
=============================================================================
