-------------------------- MODULE OperationsFetch --------------------------
(***************************************************************************)
(* How the raw P&L reads the operations of a period from PlanFact:         *)
(* PlanFactClient.fetch_all_operations and _fetch_ops_recursive.  PlanFact *)
(* ignores offsets, so a page that is full may be cut short: the period is *)
(* halved and the halves are read in parallel, down to single days.  With  *)
(* several projects each is read by itself.  A semaphore bounds the calls  *)
(* of one fetch; operations that come back twice are kept once.            *)
(*                                                                         *)
(* The client keeps small answers for cache_ttl (_request), so a call may  *)
(* get a page that an earlier fetch has read.                              *)
(*                                                                         *)
(* An operation is the set of its parts, each of a project and a day.  The *)
(* ledger may be edited while a fetch is under way, between the moment     *)
(* PlanFact reads it for an answer and the moment the answer comes in, and *)
(* while a page lies in the cache.                                         *)
(***************************************************************************)
EXTENDS Integers, FiniteSets

CONSTANTS
  Operations,  \* identifiers of operations
  Projects,    \* projects, numbered in the order in which they are asked for
  LastDay,     \* the days of a period are among 1..LastDay
  Shapes,      \* the sets of parts an operation may have
  Fetches,     \* the calls of fetch_all_operations in progress on one client
  Permits,     \* MAX_OPS_PARALLEL
  PageSize,    \* page_size
  HardLimit,   \* hard_limit
  CacheSize,   \* CACHE_MAX_ENTRIES
  KeepSize,    \* BIG_RESPONSE_SKIP_THRESHOLD
  Ttl,         \* cache_ttl
  Requests,    \* what is asked for: projects (none is {}), first and last day
  MaxEdits,    \* bound on the edits of the ledger
  LastMoment   \* bound on the clock

Days    == 1..LastDay
Moments == 0..LastMoment
Parts   == [project : Projects, day : Days]

ASSUME FetchAssumption ==
  /\ LastDay \in Nat /\ PageSize \in Nat \ {0} /\ Permits \in Nat \ {0}
  /\ HardLimit \in Nat \ {0} /\ MaxEdits \in Nat /\ LastMoment \in Nat
  /\ Ttl \in Nat \ {0}
  /\ CacheSize \in Nat \ {0} /\ KeepSize \in Nat /\ KeepSize < PageSize
  /\ IsFiniteSet(Operations) /\ IsFiniteSet(Projects) /\ Projects \subseteq Nat
  /\ Shapes \subseteq SUBSET Parts
  /\ Requests \subseteq [asked : SUBSET Projects, from : Days, to : Days]
  /\ \A r \in Requests : r.from <= r.to

\* A request to /operations: the project filter and the days.  No filter is
\* the filter by all projects.
Filters == {Projects} \cup {{p} : p \in Projects}
Node    == [only : Filters, from : Days, to : Days]

\* An operation as an answer contains it, and the request it answered
Item == [op : Operations, parts : Shapes, page : Node]

States == {"none", "waiting", "calling", "answered", "joining", "done", "failed"}

VARIABLES
  ledger,  \* the operations in PlanFact
  edits,   \* how often the ledger was edited
  fetch,   \* fetch[f]: one call of fetch_all_operations
  node,    \* node[f][n]: the recursive call for request n
  now,     \* time.time()
  cache,   \* PlanFactClient._cache: the pages kept, at most one for a request
  edited   \* history: edited[o]: when operation o was edited last

vars == <<ledger, edits, fetch, node, now, cache, edited>>

Fetch == [pc : {"idle", "running", "done", "failed"},
          roots : SUBSET Node,
          began : Moments,          \* history: when it was called
          warned : BOOLEAN,         \* the log says that a day may be cut
          result : SUBSET Item]

\* A recursive call: while it is under way, when it asked (now in _request); the
\* page it was answered with, and in the end what it gives back
Call == [st : States, asked : Moments, items : SUBSET Item]

\* A page as the cache keeps it: the request, when it was asked, the answer
Kept == [page : Node, at : Moments, items : SUBSET Item]

Begun(roots) ==
  [pc |-> "running", roots |-> roots, began |-> now, warned |-> FALSE, result |-> {}]
NoFetch ==
  [pc |-> "idle", roots |-> {}, began |-> 0, warned |-> FALSE, result |-> {}]

Plain(st)   == [st |-> st, asked |-> 0, items |-> {}]
Done(items) == [st |-> "done", asked |-> 0, items |-> items]
NoCall      == Plain("none")

Init ==
  /\ ledger \in [Operations -> Shapes]
  /\ edits = 0
  /\ fetch = [f \in Fetches |-> NoFetch]
  /\ node = [f \in Fetches |-> [n \in Node |-> NoCall]]
  /\ now = 0
  /\ cache = {}
  /\ edited = [o \in Operations |-> -Ttl]

(***************************************************************************)
(* Pages and halves                                                        *)
(***************************************************************************)
\* PlanFact returns an operation if some part passes each filter.
Meets(parts, n) ==
  /\ \E p \in parts : p.project \in n.only
  /\ \E p \in parts : p.day \in n.from..n.to

Matching(n) == {o \in Operations : Meets(ledger[o], n)}

\* The answers PlanFact may give: everything, or PageSize of it
Pages(n) ==
  IF Cardinality(Matching(n)) <= PageSize
  THEN {Matching(n)}
  ELSE {s \in SUBSET Matching(n) : Cardinality(s) = PageSize}

ItemsOf(s, n) == {[op |-> o, parts |-> ledger[o], page |-> n] : o \in s}

Mid(n)   == n.from + ((n.to - n.from) \div 2)
Left(n)  == [n EXCEPT !.to = Mid(n)]
Right(n) == [n EXCEPT !.from = Mid(n) + 1]

\* Mutant of Union: nothing is taken out.
UnionOfAll(left, right) == left \cup right

\* The halves together: an operation of both is taken from the left one.
Union(left, right) ==
  left \cup {x \in right : \A y \in left : y.op # x.op}

\* The projects together: an operation of several is taken from the first.
OfProjects(items) ==
  {x \in items : \A y \in items :
     y.op = x.op => \E p \in x.page.only : \A q \in y.page.only : p <= q}

\* The list is given back as soon as it has HardLimit operations.
Limited(items) ==
  IF Cardinality(items) <= HardLimit
  THEN {items}
  ELSE {s \in SUBSET items : Cardinality(s) = HardLimit}

(***************************************************************************)
(* The pages the client keeps                                              *)
(***************************************************************************)
\* Mutant of Fresh: a page is used once more when its time is up.
FreshToTheEnd(e) == now - e.at <= Ttl

Fresh(e) == now - e.at < Ttl

\* The page _request finds instead of asking PlanFact
Hits(n) == {e \in cache : e.page = n /\ Fresh(e)}

\* What the cache may hold once it has taken page e: it replaces the one of the
\* same request, and with more than CacheSize pages one of the others goes.
With(e) ==
  LET all == {x \in cache : x.page # e.page} \cup {e}
  IN  IF Cardinality(all) <= CacheSize
      THEN {all}
      ELSE {c \in SUBSET all : e \in c /\ Cardinality(c) = CacheSize}

\* Mutant of Stored: the time is taken when the answer is there.
StoredOnArrival(n, at, items) ==
  IF Cardinality(items) <= KeepSize
  THEN With([page |-> n, at |-> now, items |-> items])
  ELSE {cache}

\* An answer is kept with the time at which it was asked for, unless it is big.
Stored(n, at, items) ==
  IF Cardinality(items) <= KeepSize
  THEN With([page |-> n, at |-> at, items |-> items])
  ELSE {cache}

(***************************************************************************)
(* A fetch                                                                 *)
(***************************************************************************)
In(f, st)  == {n \in Node : node[f][n].st = st}

\* The calls that hold a permit
Calling(f) == In(f, "calling") \cup In(f, "answered")

Becomes(f, n, call) == node' = [node EXCEPT ![f][n] = call]

\* fetch_all_operations: one recursion for none or one project, otherwise one
\* for each project, all at once
Roots(r) ==
  {[only |-> s, from |-> r.from, to |-> r.to] :
     s \in IF r.asked = {} THEN {Projects} ELSE {{p} : p \in r.asked}}

Start(f, r) ==
  /\ fetch[f].pc = "idle"
  /\ fetch' = [fetch EXCEPT ![f] = Begun(Roots(r))]
  /\ node' = [node EXCEPT ![f] = [n \in Node |->
        IF n \in Roots(r) THEN Plain("waiting") ELSE NoCall]]
  /\ UNCHANGED <<ledger, edits, now, cache, edited>>

\* async with sem, and _request asks PlanFact: what it kept of the page, if
\* anything, is too old and goes.
Acquire(f, n) ==
  /\ node[f][n].st = "waiting"
  /\ Cardinality(Calling(f)) < Permits
  /\ Hits(n) = {}
  /\ Becomes(f, n, [st |-> "calling", asked |-> now, items |-> {}])
  /\ cache' = {e \in cache : e.page # n}
  /\ UNCHANGED <<ledger, edits, fetch, now, edited>>

\* Or it gives back the page it kept, at once.  Only small pages are kept, and
\* a small page is complete.
Cached(f, n) ==
  /\ node[f][n].st = "waiting"
  /\ Cardinality(Calling(f)) < Permits
  /\ \E e \in Hits(n) : Becomes(f, n, Done(e.items))
  /\ UNCHANGED <<ledger, edits, fetch, now, cache, edited>>

\* PlanFact reads its ledger; the answer is on its way.
Reply(f, n) ==
  /\ node[f][n].st = "calling"
  /\ \E s \in Pages(n) :
       Becomes(f, n, [st |-> "answered", asked |-> node[f][n].asked,
                      items |-> ItemsOf(s, n)])
  /\ UNCHANGED <<ledger, edits, fetch, now, cache, edited>>

\* Mutant of ShortPage: a page of exactly PageSize is taken for complete.
ExactPage(f, n) ==
  /\ node[f][n].st = "answered"
  /\ Cardinality(node[f][n].items) <= PageSize
  /\ Becomes(f, n, Done(node[f][n].items))
  /\ cache' \in Stored(n, node[f][n].asked, node[f][n].items)
  /\ UNCHANGED <<ledger, edits, fetch, now, edited>>

\* An answer with fewer than PageSize operations is complete.
ShortPage(f, n) ==
  /\ node[f][n].st = "answered"
  /\ Cardinality(node[f][n].items) < PageSize
  /\ Becomes(f, n, Done(node[f][n].items))
  /\ cache' \in Stored(n, node[f][n].asked, node[f][n].items)
  /\ UNCHANGED <<ledger, edits, fetch, now, edited>>

\* Mutant of Split: a single day is halved as well.
SplitAlways(f, n) ==
  /\ node[f][n].st = "answered"
  /\ Cardinality(node[f][n].items) >= PageSize
  /\ node' = [node EXCEPT ![f][n] = Plain("joining"),
                          ![f][Left(n)]  = Plain("waiting"),
                          ![f][Right(n)] = Plain("waiting")]
  /\ UNCHANGED <<ledger, edits, fetch, now, cache, edited>>

\* A full one of several days is thrown away and its halves are read.  It is too
\* big to be kept, like that of a single day.
Split(f, n) ==
  /\ node[f][n].st = "answered"
  /\ n.from < n.to
  /\ Cardinality(node[f][n].items) >= PageSize
  /\ node' = [node EXCEPT ![f][n] = Plain("joining"),
                          ![f][Left(n)]  = Plain("waiting"),
                          ![f][Right(n)] = Plain("waiting")]
  /\ UNCHANGED <<ledger, edits, fetch, now, cache, edited>>

\* A full one of a single day is kept as it is, with a line in the log.
FullDay(f, n) ==
  /\ node[f][n].st = "answered"
  /\ n.from >= n.to
  /\ Cardinality(node[f][n].items) >= PageSize
  /\ Becomes(f, n, Done(node[f][n].items))
  /\ fetch' = [fetch EXCEPT ![f].warned = TRUE]
  /\ UNCHANGED <<ledger, edits, now, cache, edited>>

\* PlanFactError, a timeout, or the client was closed
CallFails(f, n) ==
  /\ n \in Calling(f)
  /\ Becomes(f, n, Plain("failed"))
  /\ UNCHANGED <<ledger, edits, fetch, now, cache, edited>>

\* gather returns both halves.
Join(f, n) ==
  /\ node[f][n].st = "joining"
  /\ node[f][Left(n)].st = "done" /\ node[f][Right(n)].st = "done"
  /\ node' = [node EXCEPT
       ![f][n] = Done(Union(node[f][Left(n)].items, node[f][Right(n)].items)),
       ![f][Left(n)] = NoCall, ![f][Right(n)] = NoCall]
  /\ UNCHANGED <<ledger, edits, fetch, now, cache, edited>>

\* gather raises as soon as one half does; the other one is not cancelled.
JoinFails(f, n) ==
  /\ node[f][n].st = "joining"
  /\ "failed" \in {node[f][Left(n)].st, node[f][Right(n)].st}
  /\ Becomes(f, n, Plain("failed"))
  /\ UNCHANGED <<ledger, edits, fetch, now, cache, edited>>

Collected(f) == UNION {node[f][n].items : n \in fetch[f].roots}

\* One recursion is returned as it is, several without repetitions and cut.
Return(f) ==
  /\ fetch[f].pc = "running"
  /\ \A n \in fetch[f].roots : node[f][n].st = "done"
  /\ \E items \in IF Cardinality(fetch[f].roots) = 1
                  THEN {Collected(f)}
                  ELSE Limited(OfProjects(Collected(f))) :
       fetch' = [fetch EXCEPT ![f].pc = "done", ![f].result = items]
  /\ node' = [node EXCEPT ![f] = [n \in Node |-> NoCall]]
  /\ UNCHANGED <<ledger, edits, now, cache, edited>>

Raise(f) ==
  /\ fetch[f].pc = "running"
  /\ \E n \in fetch[f].roots : node[f][n].st = "failed"
  /\ fetch' = [fetch EXCEPT ![f].pc = "failed"]
  /\ UNCHANGED <<ledger, edits, node, now, cache, edited>>

\* The caller has its answer and what went on after a failure has ended.
Leave(f) ==
  /\ fetch[f].pc \in {"done", "failed"}
  /\ \A n \in Node : node[f][n].st \in {"none", "done", "failed"}
  /\ fetch' = [fetch EXCEPT ![f] = NoFetch]
  /\ node' = [node EXCEPT ![f] = [n \in Node |-> NoCall]]
  /\ UNCHANGED <<ledger, edits, now, cache, edited>>

\* Someone edits an operation in PlanFact.
Edit(o, parts) ==
  /\ edits < MaxEdits
  /\ ledger[o] # parts
  /\ ledger' = [ledger EXCEPT ![o] = parts]
  /\ edits' = edits + 1
  /\ edited' = [edited EXCEPT ![o] = now]
  /\ UNCHANGED <<fetch, node, now, cache>>

\* A page goes before its time: pages of other kinds push it out of the cache,
\* or the cache is emptied with the client (invalidate_cache).
Forget(e) ==
  /\ cache' = cache \ {e}
  /\ UNCHANGED <<ledger, edits, fetch, node, now, edited>>

Tick ==
  /\ now < LastMoment
  /\ now' = now + 1
  /\ UNCHANGED <<ledger, edits, fetch, node, cache, edited>>

NodeStep(f, n) ==
  \/ Acquire(f, n) \/ Cached(f, n) \/ Reply(f, n)
  \/ ShortPage(f, n) \/ Split(f, n) \/ FullDay(f, n) \/ CallFails(f, n)
  \/ Join(f, n) \/ JoinFails(f, n)

FetchStep(f) == Return(f) \/ Raise(f) \/ \E n \in Node : NodeStep(f, n)

Next ==
  \/ \E f \in Fetches : FetchStep(f) \/ Leave(f)
  \/ \E f \in Fetches, r \in Requests : Start(f, r)
  \/ \E o \in Operations, parts \in Shapes : Edit(o, parts)
  \/ \E e \in cache : Forget(e)
  \/ Tick

Spec == Init /\ [][Next]_vars

\* A call ends within the timeout of the HTTP client, and the event loop runs
\* what is ready.
FairSpec == Spec /\ \A f \in Fetches : WF_vars(FetchStep(f))

(***************************************************************************)
(* Properties                                                              *)
(***************************************************************************)
TypeOK ==
  /\ ledger \in [Operations -> Shapes]
  /\ edits \in 0..MaxEdits
  /\ fetch \in [Fetches -> Fetch]
  /\ node \in [Fetches -> [Node -> Call]]
  /\ now \in Moments
  /\ cache \subseteq Kept
  /\ edited \in [Operations -> (-Ttl)..LastMoment]

\* No more than MAX_OPS_PARALLEL calls of a fetch run at a time, however deep
\* the halving goes ("the common ceiling of parallel-split and
\* parallel-by-project").
CallsAreBounded == \A f \in Fetches : Cardinality(Calling(f)) <= Permits

\* An operation that lies on both sides of a cut, or belongs to several of the
\* projects, counts once, also when it is edited between the calls.
EachOnce ==
  \A f \in Fetches : \A x, y \in fetch[f].result : x.op = y.op => x = y

\* The part of an operation the P&L of this fetch will count
Wanted(parts, n) == \E p \in parts : p.project \in n.only /\ p.day \in n.from..n.to

\* The operations a fetch may miss or show as they were: those edited since it
\* began, or in the time before that for which the client keeps a page
Recent(f) == {o \in Operations : edited[o] + Ttl > fetch[f].began}

\* A fetch that succeeds without a warning about a cut day and without reaching
\* the hard limit contains every operation of its period and projects, as it
\* is, unless that operation was edited later than cache_ttl before the fetch
\* began.  Pages may come from the cache, and the answer to an earlier call may
\* come after, and replace in the cache, that to a later one.
NothingIsMissed ==
  \A f \in Fetches :
    fetch[f].pc = "done" /\ ~fetch[f].warned
      /\ (Cardinality(fetch[f].roots) = 1 \/ Cardinality(fetch[f].result) < HardLimit)
    => \A n \in fetch[f].roots, o \in Operations \ Recent(f) :
         Wanted(ledger[o], n) =>
           \E x \in fetch[f].result : x.op = o /\ x.parts = ledger[o]

(***************************************************************************)
(* Why a fetch ends                                                        *)
(***************************************************************************)
Open(f) == In(f, "waiting") \cup Calling(f) \cup In(f, "joining")

\* What a call needs to go on: an answer, a permit, or its halves
GoesOn(f, n) ==
  \/ n \in Calling(f)
  \/ n \in In(f, "waiting") /\ Cardinality(Calling(f)) < Permits
  \/ /\ n \in In(f, "joining")
     /\ \/ "failed" \in {node[f][Left(n)].st, node[f][Right(n)].st}
        \/ node[f][Left(n)].st = "done" /\ node[f][Right(n)].st = "done"

\* However the halving and the permits interleave, calls never wait for each
\* other: while a call of the fetch is open one of them can go on, and when none
\* is open, the caller has its answer or its error.
NeverStuck ==
  \A f \in Fetches :
    /\ Open(f) # {} => \E n \in Open(f) : GoesOn(f, n)
    /\ fetch[f].pc = "running" /\ Open(f) = {} =>
         \/ \A n \in fetch[f].roots : node[f][n].st = "done"
         \/ \E n \in fetch[f].roots : node[f][n].st = "failed"

\* The steps a call and its halves have before them if every page is full: a
\* call of k days is halved into k single days.
Span(n) == n.to - n.from + 1
Ahead(st, n) ==
  CASE st = "waiting"  -> 7 * Span(n) - 4
    [] st = "calling"  -> 7 * Span(n) - 5
    [] st = "answered" -> 7 * Span(n) - 6
    [] st = "joining"  -> 1
    [] OTHER           -> 0
StepsAhead(f) == UNION {{n} \X (1..Ahead(node[f][n].st, n)) : n \in Node}

\* Whatever PlanFact answers, each step of a fetch leaves fewer before it: no
\* answer and no edit makes the halving go on for ever.
EachStepIsNearer ==
  [][\A f \in Fetches :
       fetch'[f].pc = fetch[f].pc /\ node'[f] # node[f] =>
         Cardinality(StepsAhead(f)') < Cardinality(StepsAhead(f))]_vars

\* Every fetch ends: a call that waits for its halves holds no permit.
FetchEnds == \A f \in Fetches : fetch[f].pc = "running" ~> fetch[f].pc # "running"
=============================================================================
