----------------------- MODULE OperationsFetchProofs -----------------------
(***************************************************************************)
(* Theorems about OperationsFetch, for any ledger, any number of projects, *)
(* days, fetches and permits, any page size, and any cache that keeps only *)
(* pages smaller than that.                                                *)
(***************************************************************************)
EXTENDS OperationsFetch, FiniteSetTheorems, TLAPS

(***************************************************************************)
(* Types                                                                   *)
(***************************************************************************)

LEMMA HalvesType ==
  ASSUME NEW n \in Node, n.from < n.to
  PROVE  /\ Left(n) \in Node /\ Right(n) \in Node
         /\ Left(n) # n /\ Right(n) # n /\ Left(n) # Right(n)
         /\ Left(n).only = n.only /\ Right(n).only = n.only
         /\ Left(n).from = n.from /\ Right(n).to = n.to
         /\ Right(n).from = Left(n).to + 1
         /\ n.from <= Left(n).to /\ Left(n).to < n.to
  <1>1. /\ n.from \in Days /\ n.to \in Days /\ n.only \in Filters
        /\ n = [only |-> n.only, from |-> n.from, to |-> n.to]
    BY DEF Node
  <1>2. Mid(n) \in Int /\ n.from <= Mid(n) /\ Mid(n) < n.to
    BY <1>1, FetchAssumption, SMT DEF Mid, Days
  <1>3. Mid(n) \in Days /\ Mid(n) + 1 \in Days
    BY <1>1, <1>2, FetchAssumption DEF Days
  <1>4. /\ Left(n) = [only |-> n.only, from |-> n.from, to |-> Mid(n)]
        /\ Right(n) = [only |-> n.only, from |-> Mid(n) + 1, to |-> n.to]
    BY <1>1 DEF Left, Right
  <1>. HIDE DEF Mid, Left, Right
  <1> QED BY <1>1, <1>2, <1>3, <1>4, FetchAssumption DEF Node, Days

LEMMA NodeFinite == IsFiniteSet(Node)
  <1>1. IsFiniteSet(Filters)
    <2>1. IsFiniteSet(SUBSET Projects) BY FetchAssumption, FS_SUBSET
    <2>2. Filters \in SUBSET (SUBSET Projects) BY DEF Filters
    <2> QED BY <2>1, <2>2, FS_Subset
  <1>2. IsFiniteSet(Days) BY FS_Interval, FetchAssumption DEF Days
  <1>3. IsFiniteSet(Filters \X (Days \X Days))
    <2>1. IsFiniteSet(Days \X Days) BY <1>2, FS_Product
    <2> QED BY <1>1, <2>1, FS_Product
  <1> DEFINE h == [n \in Node |-> <<n.only, <<n.from, n.to>> >>]
  <1>4. h \in Injection(Node, Filters \X (Days \X Days))
    BY DEF Node, Injection, IsInjective
  <1> QED BY <1>3, <1>4, FS_Injection

LEMMA RootsType ==
  ASSUME NEW r \in Requests
  PROVE  /\ Roots(r) \subseteq Node
         /\ \A m, n \in Roots(r) :
              m # n => \E p, q \in Projects : p # q /\ m.only = {p} /\ n.only = {q}
  <1> DEFINE S == IF r.asked = {} THEN {Projects} ELSE {{p} : p \in r.asked}
  <1>1. r.asked \subseteq Projects /\ r.from \in Days /\ r.to \in Days
    BY FetchAssumption
  <1>2. S \subseteq Filters BY <1>1 DEF Filters
  <1>3. \A m, n \in S : m # n => \E p, q \in Projects : p # q /\ m = {p} /\ n = {q}
    BY <1>1
  <1>4. Roots(r) = {[only |-> s, from |-> r.from, to |-> r.to] : s \in S}
    BY DEF Roots
  <1>. HIDE DEF S
  <1>5. Roots(r) \subseteq Node BY <1>1, <1>2, <1>4 DEF Node
  <1>6. ASSUME NEW m \in Roots(r), NEW n \in Roots(r), m # n
        PROVE  \E p, q \in Projects : p # q /\ m.only = {p} /\ n.only = {q}
    <2>1. PICK s, t \in S : /\ m = [only |-> s, from |-> r.from, to |-> r.to]
                            /\ n = [only |-> t, from |-> r.from, to |-> r.to]
      BY <1>4, <1>6
    <2> QED BY <2>1, <1>3, <1>6
  <1> QED BY <1>5, <1>6

LEMMA ItemsType ==
  ASSUME TypeOK, NEW n \in Node, NEW s \in Pages(n)
  PROVE  /\ s \subseteq Matching(n) /\ s \subseteq Operations
         /\ ItemsOf(s, n) \subseteq Item
  <1>1. s \subseteq Matching(n) BY DEF Pages
  <1>2. s \subseteq Operations BY <1>1 DEF Matching
  <1> QED BY <1>1, <1>2 DEF ItemsOf, Item, TypeOK

LEMMA RowType ==
  ASSUME TypeOK, NEW f \in Fetches, NEW n \in Node
  PROVE  /\ node[f][n].st \in States /\ node[f][n].asked \in Moments
         /\ node[f][n].items \subseteq Item
         /\ node[f][n] \in Call
  BY DEF TypeOK, Call

LEMMA PlainType ==
  ASSUME NEW st \in States
  PROVE  /\ Plain(st) \in Call /\ Plain(st).st = st
         /\ NoCall \in Call /\ NoCall.st = "none"
  BY FetchAssumption DEF Plain, NoCall, Call, States, Moments

LEMMA DoneType ==
  ASSUME NEW items, items \subseteq Item
  PROVE  Done(items) \in Call /\ Done(items).st = "done" /\ Done(items).items = items
  BY FetchAssumption DEF Done, Call, States, Moments

LEMMA BegunType ==
  ASSUME TypeOK, NEW r \in Requests
  PROVE  Begun(Roots(r)) \in Fetch /\ NoFetch \in Fetch
  BY RootsType, FetchAssumption DEF TypeOK, Begun, NoFetch, Fetch, Moments

\* The clock and the times of the edits are numbers.
LEMMA TimesType ==
  ASSUME TypeOK
  PROVE  /\ now \in Int /\ Ttl \in Int /\ Ttl >= 1
         /\ \A o \in Operations : edited[o] \in Int
         /\ \A f \in Fetches : fetch[f].began \in Int
         /\ \A f \in Fetches, n \in Node : node[f][n].asked \in Int
         /\ \A e \in cache : e.at \in Int /\ e.page \in Node /\ e.items \subseteq Item
  BY FetchAssumption DEF TypeOK, Moments, Fetch, Call, Kept

LEMMA UnionType ==
  ASSUME NEW l, NEW r, l \subseteq Item, r \subseteq Item
  PROVE  Union(l, r) \subseteq Item
  BY DEF Union

LEMMA TypeInit == Init => TypeOK
  <1>. SUFFICES ASSUME Init PROVE TypeOK
    OBVIOUS
  <1>1. NoCall \in Call BY PlainType DEF States
  <1>2. NoFetch \in Fetch /\ 0 \in Moments BY FetchAssumption DEF NoFetch, Fetch, Moments
  <1>3. -Ttl \in (-Ttl)..LastMoment BY FetchAssumption
  <1> QED BY <1>1, <1>2, <1>3, FetchAssumption DEF Init, TypeOK

LEMMA RowWrite ==
  ASSUME TypeOK, NEW f \in Fetches, NEW row \in [Node -> Call],
         node' = [node EXCEPT ![f] = row]
  PROVE  /\ node' \in [Fetches -> [Node -> Call]]
         /\ node'[f] = row
         /\ \A g \in Fetches : g # f => node'[g] = node[g]
  BY DEF TypeOK

\* A step that writes to one call changes no other.
LEMMA WriteCall ==
  ASSUME TypeOK, NEW f \in Fetches, NEW n \in Node, NEW c \in Call,
         Becomes(f, n, c)
  PROVE  /\ node' \in [Fetches -> [Node -> Call]]
         /\ node'[f][n] = c
         /\ \A m \in Node : m # n => node'[f][m] = node[f][m]
         /\ \A g \in Fetches : g # f => node'[g] = node[g]
  <1> DEFINE row == [node[f] EXCEPT ![n] = c]
  <1>1. row \in [Node -> Call] BY DEF TypeOK
  <1>2. node' = [node EXCEPT ![f] = row] BY DEF TypeOK, Becomes
  <1>3. /\ row[n] = c
        /\ \A m \in Node : m # n => row[m] = node[f][m]
    BY DEF TypeOK
  <1>. HIDE DEF row
  <1> QED BY <1>1, <1>2, <1>3, RowWrite

\* What the other steps of a call do to the calls of its fetch
Halved(f, n) ==
  node'[f] = [node[f] EXCEPT ![n] = Plain("joining"),
                             ![Left(n)] = Plain("waiting"),
                             ![Right(n)] = Plain("waiting")]

Joined(f, n) ==
  node'[f] = [node[f] EXCEPT ![n] =
                 Done(Union(node[f][Left(n)].items, node[f][Right(n)].items)),
                             ![Left(n)] = NoCall, ![Right(n)] = NoCall]

\* The steps that write to one call, and how the state of that call changes
Single(f, n) ==
  \/ Acquire(f, n) \/ Cached(f, n) \/ Reply(f, n) \/ ShortPage(f, n)
  \/ FullDay(f, n) \/ CallFails(f, n) \/ JoinFails(f, n)

Turns(before, after) ==
  \/ before = "waiting" /\ after \in {"calling", "done"}
  \/ before = "calling" /\ after \in {"answered", "failed"}
  \/ before = "answered" /\ after \in {"done", "failed"}
  \/ before = "joining" /\ after = "failed"

LEMMA SingleWrites ==
  ASSUME TypeOK, NEW f \in Fetches, NEW n \in Node, Single(f, n)
  PROVE  \E c \in Call : Becomes(f, n, c) /\ Turns(node[f][n].st, c.st)
  <1>1. CASE Acquire(f, n)
    <2>1. [st |-> "calling", asked |-> now, items |-> {}] \in Call
      BY DEF TypeOK, Call, States
    <2> QED BY <1>1, <2>1 DEF Acquire, Turns
  <1>2. CASE Cached(f, n)
    <2>1. PICK e \in cache : Becomes(f, n, Done(e.items)) BY <1>2 DEF Cached, Hits
    <2>2. Done(e.items) \in Call /\ Done(e.items).st = "done" BY TimesType, DoneType
    <2> QED BY <1>2, <2>1, <2>2 DEF Cached, Turns
  <1>3. CASE Reply(f, n)
    <2>1. PICK s \in Pages(n) :
            Becomes(f, n, [st |-> "answered", asked |-> node[f][n].asked,
                           items |-> ItemsOf(s, n)])
      BY <1>3 DEF Reply
    <2>2. [st |-> "answered", asked |-> node[f][n].asked, items |-> ItemsOf(s, n)]
            \in Call
      BY RowType, ItemsType DEF Call, States
    <2> QED BY <1>3, <2>1, <2>2 DEF Reply, Turns
  <1>4. CASE ShortPage(f, n) \/ FullDay(f, n)
    <2>1. Becomes(f, n, Done(node[f][n].items)) /\ node[f][n].st = "answered"
      BY <1>4 DEF ShortPage, FullDay
    <2>2. /\ Done(node[f][n].items) \in Call
          /\ Done(node[f][n].items).st = "done"
      BY RowType, DoneType
    <2> QED BY <2>1, <2>2 DEF Turns
  <1>5. CASE CallFails(f, n) \/ JoinFails(f, n)
    <2>1. /\ Becomes(f, n, Plain("failed"))
          /\ node[f][n].st \in {"calling", "answered", "joining"}
      BY <1>5 DEF CallFails, JoinFails, Calling, In
    <2>2. Plain("failed") \in Call /\ Plain("failed").st = "failed"
      BY PlainType DEF States
    <2> QED BY <1>5, <2>1, <2>2 DEF CallFails, JoinFails, Calling, In, Turns
  <1> QED BY <1>1, <1>2, <1>3, <1>4, <1>5 DEF Single

LEMMA SplitMoves ==
  ASSUME TypeOK, NEW f \in Fetches, NEW n \in Node, Split(f, n)
  PROVE  /\ node' \in [Fetches -> [Node -> Call]]
         /\ Halved(f, n)
         /\ \A g \in Fetches : g # f => node'[g] = node[g]
  <1> DEFINE row == [node[f] EXCEPT ![n] = Plain("joining"),
                                    ![Left(n)] = Plain("waiting"),
                                    ![Right(n)] = Plain("waiting")]
  <1>1. Plain("joining") \in Call /\ Plain("waiting") \in Call
    BY PlainType DEF States
  <1>2. row \in [Node -> Call] BY <1>1 DEF TypeOK
  <1>3. node' = [node EXCEPT ![f] = row] BY DEF Split, TypeOK
  <1>. HIDE DEF row
  <1>4. /\ node' \in [Fetches -> [Node -> Call]] /\ node'[f] = row
        /\ \A g \in Fetches : g # f => node'[g] = node[g]
    BY <1>2, <1>3, RowWrite
  <1> QED BY <1>4 DEF row, Halved

LEMMA JoinMoves ==
  ASSUME TypeOK, NEW f \in Fetches, NEW n \in Node, n.from < n.to, Join(f, n)
  PROVE  /\ node' \in [Fetches -> [Node -> Call]]
         /\ Joined(f, n)
         /\ \A g \in Fetches : g # f => node'[g] = node[g]
  <1> DEFINE both == Done(Union(node[f][Left(n)].items, node[f][Right(n)].items))
             row == [node[f] EXCEPT ![n] = both,
                                    ![Left(n)] = NoCall, ![Right(n)] = NoCall]
  <1>1. both \in Call
    <2>1. Left(n) \in Node /\ Right(n) \in Node BY HalvesType
    <2> QED BY <2>1, RowType, UnionType, DoneType
  <1>2. row \in [Node -> Call]
    <2>1. NoCall \in Call BY PlainType DEF States
    <2>. HIDE DEF both
    <2> QED BY <1>1, <2>1 DEF TypeOK
  <1>3. node' = [node EXCEPT ![f] = row] BY DEF Join, TypeOK
  <1>. HIDE DEF row
  <1>4. /\ node' \in [Fetches -> [Node -> Call]] /\ node'[f] = row
        /\ \A g \in Fetches : g # f => node'[g] = node[g]
    BY <1>2, <1>3, RowWrite
  <1> QED BY <1>4 DEF row, Joined

(***************************************************************************)
(* The inductive invariant                                                 *)
(***************************************************************************)
\* No operation twice
Once(items) == \A x, y \in items : x.op = y.op => x = y

\* What has come back is the operation as it is now, unless it was edited.
AsItIs(f, items) ==
  \A x \in items : x.op \notin Recent(f) => x.parts = ledger[x.op]

\* Every operation that counts for n has come back.
Full(f, n, items) ==
  \A o \in Operations \ Recent(f) :
    Wanted(ledger[o], n) => \E x \in items : x.op = o

\* What a call for n may give back
Sound(f, n, items) ==
  /\ Once(items)
  /\ \A x \in items : x.page.only = n.only
  /\ AsItIs(f, items)
  /\ ~fetch[f].warned => Full(f, n, items)

CallOK(f, n) == node[f][n].st = "done" => Sound(f, n, node[f][n].items)

\* An answer for n that was asked for at a moment: PlanFact gave it then or
\* later, so it shows what was last edited before as it is.
PageOK(n, at, items) ==
  /\ IsFiniteSet(items) /\ Once(items)
  /\ \A x \in items : x.page = n /\ (edited[x.op] < at => x.parts = ledger[x.op])
  /\ Cardinality(items) < PageSize =>
       \A o \in Operations :
         edited[o] < at /\ Wanted(ledger[o], n) => \E x \in items : x.op = o

\* A call asks after its fetch has begun.
AnswerOK(f, n) ==
  /\ n \in Calling(f) => fetch[f].began <= node[f][n].asked /\ node[f][n].asked <= now
  /\ node[f][n].st = "answered" => PageOK(n, node[f][n].asked, node[f][n].items)

\* A page in the cache is one that was not full.
KeptOK(e) ==
  e.at <= now /\ PageOK(e.page, e.at, e.items) /\ Cardinality(e.items) < PageSize

CacheOK == \A e \in cache : KeptOK(e)

\* Only several days are halved.
HalvesOK(f, n) == node[f][n].st = "joining" => n.from < n.to

\* Several recursions have different projects.
RootsOK(f) ==
  \A m, n \in fetch[f].roots :
    m # n => \E p, q \in Projects : p # q /\ m.only = {p} /\ n.only = {q}

\* What the caller gets
Uncut(f) ==
  Cardinality(fetch[f].roots) = 1 \/ Cardinality(fetch[f].result) < HardLimit

ResultOK(f) ==
  /\ Once(fetch[f].result)
  /\ AsItIs(f, fetch[f].result)
  /\ fetch[f].pc = "done" /\ ~fetch[f].warned /\ Uncut(f) =>
       \A n \in fetch[f].roots : Full(f, n, fetch[f].result)

PermitsOK(f) ==
  IsFiniteSet(Calling(f)) /\ Cardinality(Calling(f)) <= Permits

FetchOK(f) ==
  /\ \A n \in Node : CallOK(f, n) /\ AnswerOK(f, n) /\ HalvesOK(f, n)
  /\ RootsOK(f)
  /\ ResultOK(f)
  /\ PermitsOK(f)
  /\ fetch[f].began <= now

IInv == TypeOK /\ CacheOK /\ \A f \in Fetches : FetchOK(f)

LEMMA IInvInit == Init => IInv
  <1>. SUFFICES ASSUME Init PROVE IInv
    OBVIOUS
  <1>1. TypeOK /\ CacheOK BY TypeInit DEF Init, CacheOK
  <1>2. ASSUME NEW f \in Fetches PROVE FetchOK(f)
    <2>1. fetch[f] = NoFetch /\ \A n \in Node : node[f][n].st = "none"
      BY PlainType DEF Init, States
    <2>2. Calling(f) = {} BY <2>1 DEF Calling, In
    <2>3. PermitsOK(f) BY <2>2, FS_EmptySet, FetchAssumption DEF PermitsOK
    <2>4. RootsOK(f) /\ ResultOK(f)
      BY <2>1 DEF RootsOK, ResultOK, Once, AsItIs, NoFetch
    <2>5. fetch[f].began <= now BY <2>1 DEF NoFetch, Init
    <2>6. \A n \in Node : AnswerOK(f, n) BY <2>1, <2>2 DEF AnswerOK
    <2> QED BY <2>1, <2>3, <2>4, <2>5, <2>6 DEF FetchOK, CallOK, HalvesOK
  <1> QED BY <1>1, <1>2 DEF IInv

(***************************************************************************)
(* Edits and the clock                                                     *)
(***************************************************************************)
\* What any step does to the ledger: what it edits it edits now, and the clock
\* does not go back.
Later ==
  /\ now' \in Int /\ now <= now'
  /\ \A o \in Operations :
       \/ ledger'[o] = ledger[o] /\ edited'[o] = edited[o]
       \/ edited'[o] = now

Frozen == ledger' = ledger /\ edited' = edited /\ now' = now

LEMMA FrozenIsLater ==
  ASSUME TypeOK, Frozen
  PROVE  Later
  BY TimesType DEF Later, Frozen

\* What was edited long ago was not edited by this step.
LEMMA NotRecent ==
  ASSUME TypeOK, Later, NEW o \in Operations, NEW at \in Int, at <= now,
         edited'[o] < at
  PROVE  ledger'[o] = ledger[o] /\ edited'[o] = edited[o]
  BY TimesType DEF Later

LEMMA PageStays ==
  ASSUME TypeOK, Later, NEW n, NEW at \in Int, at <= now, NEW items,
         items \subseteq Item, PageOK(n, at, items)
  PROVE  PageOK(n, at, items)'
  <1>1. \A x \in items : x.op \in Operations BY DEF Item
  <1>2. \A o \in Operations : edited'[o] < at =>
          ledger'[o] = ledger[o] /\ edited'[o] = edited[o]
    BY NotRecent
  <1>3. \A x \in items : x.page = n /\ (edited'[x.op] < at => x.parts = ledger'[x.op])
    BY <1>1, <1>2 DEF PageOK
  <1>4. Cardinality(items) < PageSize =>
          \A o \in Operations :
            edited'[o] < at /\ Wanted(ledger'[o], n) => \E x \in items : x.op = o
    BY <1>2 DEF PageOK
  <1> QED BY <1>3, <1>4 DEF PageOK, Once

LEMMA KeptStays ==
  ASSUME TypeOK, Later, NEW e \in Kept, KeptOK(e)
  PROVE  KeptOK(e)'
  <1>1. e.at \in Int /\ e.items \subseteq Item
    BY FetchAssumption DEF Kept, Moments
  <1>2. e.at <= now /\ e.at <= now' BY <1>1, TimesType DEF KeptOK, Later
  <1>3. PageOK(e.page, e.at, e.items)' BY <1>1, <1>2, PageStays DEF KeptOK
  <1>. HIDE DEF PageOK
  <1> QED BY <1>2, <1>3 DEF KeptOK

LEMMA CacheStays ==
  ASSUME TypeOK, CacheOK, Later, cache' \subseteq cache
  PROVE  CacheOK'
  <1>1. ASSUME NEW e \in cache PROVE KeptOK(e)'
    BY KeptStays DEF CacheOK, TypeOK
  <1>. HIDE DEF KeptOK
  <1> QED BY <1>1 DEF CacheOK

\* An operation that a fetch need not show stays one.
LEMMA RecentGrows ==
  ASSUME TypeOK, Later, NEW f \in Fetches, fetch'[f].began = fetch[f].began,
         fetch[f].began <= now
  PROVE  /\ Recent(f) \subseteq Recent(f)'
         /\ \A o \in Operations : o \notin Recent(f)' => ledger'[o] = ledger[o]
  <1>1. ASSUME NEW o \in Operations, edited'[o] = now PROVE o \in Recent(f)'
    <2>1. edited'[o] + Ttl > fetch'[f].began BY <1>1, TimesType
    <2> QED BY <2>1 DEF Recent
  <1>2. ASSUME NEW o \in Operations, edited'[o] = edited[o]
        PROVE  o \in Recent(f) => o \in Recent(f)'
    BY <1>2 DEF Recent
  <1>3. Recent(f) \subseteq Operations BY DEF Recent
  <1> QED BY <1>1, <1>2, <1>3 DEF Later

\* A page that was asked for at most Ttl before a fetch began is sound for it.
LEMMA PageIsSound ==
  ASSUME TypeOK, NEW f \in Fetches, NEW n, NEW at \in Int, NEW items,
         items \subseteq Item, PageOK(n, at, items), fetch[f].began - at < Ttl
  PROVE  /\ Once(items) /\ \A x \in items : x.page.only = n.only
         /\ AsItIs(f, items)
         /\ Cardinality(items) < PageSize => Full(f, n, items)
  <1>1. \A o \in Operations : o \notin Recent(f) => edited[o] < at
    BY TimesType DEF Recent
  <1>2. \A x \in items : x.op \in Operations BY DEF Item
  <1>3. AsItIs(f, items) BY <1>1, <1>2 DEF AsItIs, PageOK
  <1>4. Cardinality(items) < PageSize => Full(f, n, items)
    BY <1>1 DEF Full, PageOK
  <1> QED BY <1>3, <1>4 DEF PageOK

LEMMA AnswerStays ==
  ASSUME TypeOK, NEW f \in Fetches, NEW n \in Node, AnswerOK(f, n), Later,
         fetch'[f].began = fetch[f].began, node'[f][n] = node[f][n]
  PROVE  AnswerOK(f, n)'
  <1>1. PICK at : at = node[f][n].asked OBVIOUS
  <1>2. PICK items : items = node[f][n].items OBVIOUS
  <1>3. at \in Int /\ items \subseteq Item BY <1>1, <1>2, TimesType, RowType
  <1>4. n \in Calling(f)' <=> n \in Calling(f) BY DEF Calling, In
  <1>5. node[f][n].st = "answered" => n \in Calling(f) BY DEF Calling, In
  <1>6. n \in Calling(f) => fetch[f].began <= at /\ at <= now /\ at <= now'
    BY <1>1, <1>3, TimesType DEF AnswerOK, Later
  <1>7. node[f][n].st = "answered" => PageOK(n, at, items)'
    BY <1>1, <1>2, <1>3, <1>5, <1>6, PageStays DEF AnswerOK
  <1>. HIDE DEF PageOK, Calling
  <1> QED BY <1>1, <1>2, <1>4, <1>6, <1>7 DEF AnswerOK

(***************************************************************************)
(* Steps that leave a fetch alone                                          *)
(***************************************************************************)
Still(f) == fetch'[f] = fetch[f] /\ node'[f] = node[f] /\ Later

LEMMA StaysSound ==
  ASSUME NEW f, Recent(f) \subseteq Recent(f)',
         \A o \in Operations : o \notin Recent(f)' => ledger'[o] = ledger[o],
         NEW items, items \subseteq Item
  PROVE  /\ AsItIs(f, items) => AsItIs(f, items)'
         /\ \A n : Full(f, n, items) => Full(f, n, items)'
  <1>. HIDE DEF Recent
  <1> QED BY DEF AsItIs, Full, Item

LEMMA StillOK ==
  ASSUME TypeOK, NEW f \in Fetches, FetchOK(f), Still(f)
  PROVE  FetchOK(f)'
  <1>1. /\ Recent(f) \subseteq Recent(f)'
        /\ \A o \in Operations : o \notin Recent(f)' => ledger'[o] = ledger[o]
    BY RecentGrows DEF Still, FetchOK
  <1>2. ASSUME NEW n \in Node PROVE CallOK(f, n)' /\ HalvesOK(f, n)'
    <2>1. PICK items : items = node[f][n].items OBVIOUS
    <2>2. items = (node[f][n].items)' BY <2>1 DEF Still
    <2>3. items \subseteq Item BY <2>1, RowType
    <2>4. /\ AsItIs(f, items) => AsItIs(f, items)'
          /\ Full(f, n, items) => Full(f, n, items)'
      BY <1>1, <2>3, StaysSound
    <2>. HIDE DEF AsItIs, Full
    <2>5. CallOK(f, n)'
      BY <2>1, <2>2, <2>4 DEF CallOK, Sound, FetchOK, Still
    <2> QED BY <2>5 DEF FetchOK, HalvesOK, Still
  <1>3. RootsOK(f)' BY DEF RootsOK, FetchOK, Still
  <1>4. ResultOK(f)'
    <2>1. PICK items : items = fetch[f].result OBVIOUS
    <2>2. items = (fetch[f].result)' BY <2>1 DEF Still
    <2>3. items \subseteq Item BY <2>1 DEF TypeOK, Fetch
    <2>4. /\ AsItIs(f, items) => AsItIs(f, items)'
          /\ \A n : Full(f, n, items) => Full(f, n, items)'
      BY <1>1, <2>3, StaysSound
    <2>. HIDE DEF AsItIs, Full
    <2> QED BY <2>1, <2>2, <2>4 DEF ResultOK, FetchOK, Still, Uncut
  <1>5. PermitsOK(f)' BY DEF PermitsOK, FetchOK, Still, Calling, In
  <1>6. fetch'[f].began <= now' BY TimesType DEF FetchOK, Still, Later
  <1>7. ASSUME NEW n \in Node PROVE AnswerOK(f, n)'
    BY <1>7, AnswerStays DEF FetchOK, Still
  <1> QED BY <1>2, <1>3, <1>4, <1>5, <1>6, <1>7 DEF FetchOK

(***************************************************************************)
(* Answers and halves                                                      *)
(***************************************************************************)
LEMMA ItemsAre ==
  ASSUME NEW s, NEW n
  PROVE  /\ Once(ItemsOf(s, n))
         /\ \A x \in ItemsOf(s, n) : x.op \in s /\ x.page = n /\ x.parts = ledger[x.op]
         /\ \A o \in s : \E x \in ItemsOf(s, n) : x.op = o
  <1> DEFINE item(o) == [op |-> o, parts |-> ledger[o], page |-> n]
  <1>1. ItemsOf(s, n) = {item(o) : o \in s} BY DEF ItemsOf
  <1>2. \A o : item(o).op = o /\ item(o).page = n /\ item(o).parts = ledger[o] OBVIOUS
  <1>. HIDE DEF item
  <1>3. Once(ItemsOf(s, n)) BY <1>1, <1>2 DEF Once
  <1> QED BY <1>1, <1>2, <1>3

\* An answer that is not full contains everything that matches.
LEMMA ShortIsAll ==
  ASSUME NEW n, NEW s \in Pages(n), Cardinality(s) < PageSize
  PROVE  s = Matching(n)
  <1>1. CASE Cardinality(Matching(n)) <= PageSize BY <1>1 DEF Pages
  <1>2. CASE ~(Cardinality(Matching(n)) <= PageSize)
    <2>1. Cardinality(s) = PageSize BY <1>2 DEF Pages
    <2> QED BY <2>1, FetchAssumption
  <1> QED BY <1>1, <1>2

\* An answer has as many items as operations.
LEMMA ItemsCount ==
  ASSUME TypeOK, NEW n \in Node, NEW s \in Pages(n)
  PROVE  /\ IsFiniteSet(ItemsOf(s, n))
         /\ Cardinality(ItemsOf(s, n)) = Cardinality(s)
  <1> DEFINE item(o) == [op |-> o, parts |-> ledger[o], page |-> n]
             h == [o \in s |-> item(o)]
  <1>1. IsFiniteSet(s) BY ItemsType, FetchAssumption, FS_Subset
  <1>2. ItemsOf(s, n) = {item(o) : o \in s} BY DEF ItemsOf
  <1>3. \A o : item(o).op = o OBVIOUS
  <1>. HIDE DEF item
  <1>4. h \in Injection(s, ItemsOf(s, n)) BY <1>2, <1>3 DEF Injection, IsInjective
  <1>5. h \in Surjection(s, ItemsOf(s, n)) BY <1>2 DEF Surjection
  <1> QED BY <1>1, <1>4, <1>5, FS_Surjection

\* An answer of this moment is one for whatever moment it was asked for.
LEMMA PageIs ==
  ASSUME TypeOK, NEW n \in Node, NEW s \in Pages(n), NEW at
  PROVE  PageOK(n, at, ItemsOf(s, n))
  <1>1. IsFiniteSet(ItemsOf(s, n)) BY ItemsCount
  <1>2. /\ Once(ItemsOf(s, n))
        /\ \A x \in ItemsOf(s, n) : x.page = n /\ x.parts = ledger[x.op]
    BY ItemsAre
  <1>3. ASSUME Cardinality(ItemsOf(s, n)) < PageSize,
               NEW o \in Operations, Wanted(ledger[o], n)
        PROVE  \E x \in ItemsOf(s, n) : x.op = o
    <2>1. s = Matching(n) BY <1>3, ItemsCount, ShortIsAll
    <2>2. o \in s BY <1>3, <2>1 DEF Wanted, Matching, Meets
    <2> QED BY <2>2, ItemsAre
  <1> QED BY <1>1, <1>2, <1>3 DEF PageOK

\* What a period wants is what one of its halves wants.
LEMMA HalvesCover ==
  ASSUME NEW n \in Node, n.from < n.to, NEW parts \in SUBSET Parts, Wanted(parts, n)
  PROVE  Wanted(parts, Left(n)) \/ Wanted(parts, Right(n))
  <1>1. PICK p \in parts : p.project \in n.only /\ p.day \in n.from..n.to BY DEF Wanted
  <1>2. /\ Left(n).only = n.only /\ Right(n).only = n.only
        /\ Left(n).from = n.from /\ Right(n).to = n.to
        /\ Right(n).from = Left(n).to + 1
        /\ Left(n) \in Node
    BY HalvesType
  <1>3. p.day \in Int /\ n.from \in Int /\ n.to \in Int /\ Left(n).to \in Int
    BY <1>1, <1>2, FetchAssumption DEF Node, Days, Parts
  <1>4. p.day \in Left(n).from..Left(n).to \/ p.day \in Right(n).from..Right(n).to
    BY <1>1, <1>2, <1>3
  <1> QED BY <1>1, <1>2, <1>4 DEF Wanted

LEMMA UnionIs ==
  ASSUME NEW l, NEW r, Once(l), Once(r)
  PROVE  /\ Once(Union(l, r))
         /\ Union(l, r) \subseteq l \cup r
         /\ \A x \in l \cup r : \E y \in Union(l, r) : y.op = x.op
  BY DEF Union, Once

(***************************************************************************)
(* The projects together                                                   *)
(***************************************************************************)
\* A set of numbers that is not empty has a smallest one.
LEMMA Smallest ==
  ASSUME NEW S, S \subseteq Nat, S # {}
  PROVE  \E p \in S : \A q \in S : p <= q
  <1> DEFINE R == OpToRel(<, Nat)
  <1>1. IsWellFoundedOn(R, Nat) BY NatLessThanWellFounded
  <1>2. \A x, y \in Nat : y < x => <<y, x>> \in R BY DEF OpToRel
  <1>. HIDE DEF R
  <1>3. \E x \in S : \A y \in S : ~(<<y, x>> \in R) BY <1>1, WFMin
  <1>4. PICK p \in S : \A y \in S : ~(<<y, p>> \in R) BY <1>3
  <1>5. ASSUME NEW q \in S PROVE p <= q
    <2>1. p \in Nat /\ q \in Nat OBVIOUS
    <2>2. ~(q < p) BY <1>2, <1>4, <2>1
    <2> QED BY <2>1, <2>2
  <1> QED BY <1>4, <1>5

(***************************************************************************)
(* Steps of a call                                                         *)
(***************************************************************************)
\* The ledger and what the caller sees stay; a warning may be added.
Beside(f) ==
  /\ Frozen
  /\ fetch'[f].pc = fetch[f].pc
  /\ fetch'[f].roots = fetch[f].roots
  /\ fetch'[f].began = fetch[f].began
  /\ fetch'[f].result = fetch[f].result
  /\ fetch[f].warned => fetch'[f].warned

LEMMA BesideSame ==
  ASSUME NEW f, Beside(f)
  PROVE  /\ Recent(f)' = Recent(f)
         /\ \A items : AsItIs(f, items)' <=> AsItIs(f, items)
         /\ \A n, items : Full(f, n, items)' <=> Full(f, n, items)
  <1>1. Recent(f)' = Recent(f) BY DEF Beside, Frozen, Recent
  <1>2. ledger' = ledger BY DEF Beside, Frozen
  <1>. HIDE DEF Recent
  <1> QED BY <1>1, <1>2 DEF AsItIs, Full

LEMMA SoundStays ==
  ASSUME NEW f, Beside(f), NEW n, NEW items, Sound(f, n, items)
  PROVE  Sound(f, n, items)'
  <1>1. AsItIs(f, items)' /\ (~fetch'[f].warned => Full(f, n, items)')
    BY BesideSame DEF Sound, Beside
  <1>2. Once(items)' /\ \A x \in items : x.page.only = n.only BY DEF Sound, Once
  <1>. HIDE DEF AsItIs, Full, Once
  <1> QED BY <1>1, <1>2 DEF Sound

LEMMA CallStays ==
  ASSUME TypeOK, NEW f \in Fetches, Beside(f), NEW n \in Node,
         CallOK(f, n), AnswerOK(f, n), HalvesOK(f, n), node'[f][n] = node[f][n]
  PROVE  CallOK(f, n)' /\ AnswerOK(f, n)' /\ HalvesOK(f, n)'
  <1>1. PICK items : items = node[f][n].items OBVIOUS
  <1>2. Sound(f, n, items) => Sound(f, n, items)' BY SoundStays
  <1>3. Later BY FrozenIsLater DEF Beside
  <1>4. AnswerOK(f, n)' BY <1>3, AnswerStays DEF Beside
  <1>5. HalvesOK(f, n)' BY DEF HalvesOK
  <1>. HIDE DEF Sound
  <1> QED BY <1>1, <1>2, <1>4, <1>5 DEF CallOK

LEMMA BesideOK ==
  ASSUME NEW f, Beside(f), RootsOK(f), ResultOK(f), fetch[f].began <= now
  PROVE  RootsOK(f)' /\ ResultOK(f)' /\ fetch'[f].began <= now'
  <1>1. RootsOK(f)' BY DEF RootsOK, Beside
  <1>2. PICK items : items = fetch[f].result OBVIOUS
  <1>3. /\ AsItIs(f, items) => AsItIs(f, items)'
        /\ \A n : Full(f, n, items) => Full(f, n, items)'
    BY BesideSame
  <1>4. fetch'[f].began <= now' BY DEF Beside, Frozen
  <1>. HIDE DEF AsItIs, Full
  <1>5. ResultOK(f)' BY <1>2, <1>3 DEF ResultOK, Beside, Uncut
  <1> QED BY <1>1, <1>4, <1>5

\* Calls that end or wait give their permits back.
LEMMA FewerCalls ==
  ASSUME NEW f, PermitsOK(f), Calling(f)' \subseteq Calling(f)
  PROVE  PermitsOK(f)'
  <1>1. PICK before : before = Calling(f) OBVIOUS
  <1>2. PICK after : after = Calling(f)' OBVIOUS
  <1>3. IsFiniteSet(after) /\ Cardinality(after) <= Cardinality(before)
    BY <1>1, <1>2, FS_Subset DEF PermitsOK
  <1>4. Cardinality(after) \in Nat /\ Cardinality(before) \in Nat
    BY <1>1, <1>3, FS_CardinalityType DEF PermitsOK
  <1> QED BY <1>1, <1>2, <1>3, <1>4, FetchAssumption DEF PermitsOK

\* What is left to show of a step of a call
CallsOK(f) ==
  (\A m \in Node : CallOK(f, m) /\ AnswerOK(f, m) /\ HalvesOK(f, m)) /\ PermitsOK(f)

\* The calls that a step does not write to stay as they should be.
LEMMA OthersOK ==
  ASSUME TypeOK, NEW f \in Fetches, FetchOK(f), Beside(f), NEW m \in Node,
         \/ node'[f][m] = node[f][m]
         \/ node'[f][m].st \in {"none", "waiting", "failed"}
  PROVE  CallOK(f, m)' /\ AnswerOK(f, m)' /\ HalvesOK(f, m)'
  <1>1. CASE node'[f][m] = node[f][m] BY <1>1, CallStays DEF FetchOK
  <1>2. CASE node'[f][m].st \in {"none", "waiting", "failed"}
    BY <1>2 DEF CallOK, AnswerOK, HalvesOK, Calling, In
  <1> QED BY <1>1, <1>2

LEMMA AcquireOK ==
  ASSUME TypeOK, NEW f \in Fetches, NEW n \in Node, FetchOK(f), Beside(f), Acquire(f, n)
  PROVE  CallsOK(f)'
  <1> DEFINE c == [st |-> "calling", asked |-> now, items |-> {}]
  <1>1. c \in Call BY DEF TypeOK, Call, States
  <1>2. /\ node'[f][n] = c
        /\ \A m \in Node : m # n => node'[f][m] = node[f][m]
    BY <1>1, WriteCall DEF Acquire
  <1>3. ASSUME NEW m \in Node PROVE CallOK(f, m)' /\ AnswerOK(f, m)' /\ HalvesOK(f, m)'
    <2>1. CASE m # n BY <2>1, <1>2, OthersOK
    <2>2. CASE m = n
      <3>1. fetch'[f].began <= now /\ now <= now' BY TimesType DEF FetchOK, Beside, Frozen
      <3> QED BY <2>2, <3>1, <1>2 DEF CallOK, AnswerOK, HalvesOK
    <2> QED BY <2>1, <2>2
  <1>4. PermitsOK(f)'
    <2>1. PICK before : before = Calling(f) OBVIOUS
    <2>2. PICK after : after = Calling(f)' OBVIOUS
    <2>3. after = before \cup {n} BY <2>1, <2>2, <1>2 DEF Calling, In
    <2>4. IsFiniteSet(before) /\ Cardinality(before) < Permits
      BY <2>1 DEF Acquire, PermitsOK, FetchOK
    <2>5. IsFiniteSet(after) /\ Cardinality(after) <= Cardinality(before) + 1
      <3>1. Cardinality(before) \in Nat BY <2>4, FS_CardinalityType
      <3>2. /\ IsFiniteSet(before \cup {n})
            /\ Cardinality(before \cup {n}) =
                 IF n \in before THEN Cardinality(before) ELSE Cardinality(before) + 1
        BY <2>4, FS_AddElement
      <3> QED BY <2>3, <3>1, <3>2
    <2>6. Cardinality(before) \in Nat /\ Cardinality(after) \in Nat
      BY <2>4, <2>5, FS_CardinalityType
    <2>7. Cardinality(after) <= Permits BY <2>4, <2>5, <2>6, FetchAssumption
    <2> QED BY <2>2, <2>5, <2>7 DEF PermitsOK
  <1> QED BY <1>3, <1>4 DEF CallsOK

\* PlanFact answers with its ledger of this moment, after it was asked.
LEMMA ReplyOK ==
  ASSUME TypeOK, NEW f \in Fetches, NEW n \in Node, FetchOK(f), Beside(f), Reply(f, n)
  PROVE  CallsOK(f)'
  <1>1. PICK s \in Pages(n) :
          Becomes(f, n, [st |-> "answered", asked |-> node[f][n].asked,
                         items |-> ItemsOf(s, n)])
    BY DEF Reply
  <1>2. PICK at : at = node[f][n].asked OBVIOUS
  <1>3. PICK items : items = ItemsOf(s, n) OBVIOUS
  <1> DEFINE c == [st |-> "answered", asked |-> at, items |-> items]
  <1>4. c \in Call BY <1>2, <1>3, RowType, ItemsType DEF Call, States
  <1>5. /\ node'[f][n] = c
        /\ \A m \in Node : m # n => node'[f][m] = node[f][m]
    BY <1>1, <1>2, <1>3, <1>4, WriteCall
  <1>6. n \in Calling(f) BY DEF Reply, Calling, In
  <1>7. fetch'[f].began <= at /\ at <= now'
    BY <1>2, <1>6 DEF FetchOK, AnswerOK, Beside, Frozen
  <1>8. PageOK(n, at, items) BY <1>3, PageIs
  <1>9. at \in Int /\ at <= now /\ items \subseteq Item
    BY <1>2, <1>3, <1>6, TimesType, ItemsType DEF FetchOK, AnswerOK
  <1>10. PageOK(n, at, items)' BY <1>8, <1>9, FrozenIsLater, PageStays DEF Beside
  <1>11. ASSUME NEW m \in Node
         PROVE  CallOK(f, m)' /\ AnswerOK(f, m)' /\ HalvesOK(f, m)'
    <2>1. CASE m # n BY <2>1, <1>5, OthersOK
    <2>2. CASE m = n
      <3>. HIDE DEF PageOK
      <3> QED BY <2>2, <1>5, <1>7, <1>10 DEF CallOK, AnswerOK, HalvesOK
    <2> QED BY <2>1, <2>2
  <1>12. Calling(f)' \subseteq Calling(f) BY <1>5, <1>6 DEF Calling, In
  <1>13. PermitsOK(f)' BY <1>12, FewerCalls DEF FetchOK
  <1> QED BY <1>11, <1>13 DEF CallsOK

LEMMA FailsOK ==
  ASSUME TypeOK, NEW f \in Fetches, NEW n \in Node, FetchOK(f), Beside(f),
         CallFails(f, n) \/ JoinFails(f, n)
  PROVE  CallsOK(f)'
  <1>1. Plain("failed") \in Call /\ Plain("failed").st = "failed"
    BY PlainType DEF States
  <1>2. /\ node'[f][n] = Plain("failed")
        /\ \A m \in Node : m # n => node'[f][m] = node[f][m]
    BY <1>1, WriteCall DEF CallFails, JoinFails
  <1>3. \A m \in Node : CallOK(f, m)' /\ AnswerOK(f, m)' /\ HalvesOK(f, m)'
    <2>. SUFFICES ASSUME NEW m \in Node
                  PROVE  CallOK(f, m)' /\ AnswerOK(f, m)' /\ HalvesOK(f, m)'
      OBVIOUS
    <2>1. node'[f][m] = node[f][m] \/ node'[f][m].st = "failed" BY <1>1, <1>2
    <2> QED BY <2>1, OthersOK
  <1>4. Calling(f)' \subseteq Calling(f) BY <1>1, <1>2 DEF Calling, In
  <1>5. PermitsOK(f)' BY <1>4, FewerCalls DEF FetchOK
  <1> QED BY <1>3, <1>5 DEF CallsOK

\* Whatever a call gives back must be sound, and then it is.
LEMMA EndedOK ==
  ASSUME TypeOK, NEW f \in Fetches, NEW n \in Node, FetchOK(f), Beside(f),
         NEW items, items \subseteq Item, Sound(f, n, items)', node'[f][n] = Done(items),
         \A m \in Node : m # n => node'[f][m] = node[f][m] \/ node'[f][m].st = "none"
  PROVE  CallsOK(f)'
  <1>0. node'[f][n].st = "done" /\ node'[f][n].items = items BY DoneType
  <1>1. ASSUME NEW m \in Node PROVE CallOK(f, m)' /\ AnswerOK(f, m)' /\ HalvesOK(f, m)'
    <2>1. CASE m = n
      <3>. HIDE DEF Sound
      <3> QED BY <2>1, <1>0 DEF CallOK, AnswerOK, HalvesOK, Calling, In
    <2>2. CASE m # n BY <2>2, OthersOK
    <2> QED BY <2>1, <2>2
  <1>2. Calling(f)' \subseteq Calling(f) BY <1>0 DEF Calling, In
  <1>3. PermitsOK(f)' BY <1>2, FewerCalls DEF FetchOK
  <1> QED BY <1>1, <1>3 DEF CallsOK

\* A page gives a fetch what it should if it was asked for at most Ttl before.
LEMMA PageEndsOK ==
  ASSUME TypeOK, NEW f \in Fetches, NEW n \in Node, FetchOK(f), Beside(f),
         NEW at \in Int, NEW items, items \subseteq Item, PageOK(n, at, items),
         fetch[f].began - at < Ttl, Becomes(f, n, Done(items)),
         Cardinality(items) < PageSize \/ fetch'[f].warned
  PROVE  CallsOK(f)'
  <1>1. /\ Once(items) /\ \A x \in items : x.page.only = n.only
        /\ AsItIs(f, items)
        /\ Cardinality(items) < PageSize => Full(f, n, items)
    BY PageIsSound
  <1>2. AsItIs(f, items)' /\ (~fetch'[f].warned => Full(f, n, items)')
    BY <1>1, BesideSame
  <1>3. Sound(f, n, items)'
    <2>1. Once(items)' BY <1>1 DEF Once
    <2>. HIDE DEF AsItIs, Full, Once
    <2> QED BY <1>1, <1>2, <2>1 DEF Sound
  <1>4. Done(items) \in Call BY DoneType
  <1>5. /\ node'[f][n] = Done(items)
        /\ \A m \in Node : m # n => node'[f][m] = node[f][m]
    BY <1>4, WriteCall
  <1>. HIDE DEF Sound
  <1> QED BY <1>3, <1>5, EndedOK

\* A page of the cache was asked for less than Ttl ago.
LEMMA CachedOK ==
  ASSUME TypeOK, CacheOK, NEW f \in Fetches, NEW n \in Node, FetchOK(f), Beside(f),
         Cached(f, n)
  PROVE  CallsOK(f)'
  <1>1. PICK e \in cache : e.page = n /\ now - e.at < Ttl /\ Becomes(f, n, Done(e.items))
    BY DEF Cached, Hits, Fresh
  <1>2. PageOK(n, e.at, e.items) /\ Cardinality(e.items) < PageSize
    BY <1>1 DEF CacheOK, KeptOK
  <1>3. e.at \in Int /\ e.items \subseteq Item BY TimesType
  <1>4. fetch[f].began - e.at < Ttl BY <1>1, <1>3, TimesType DEF FetchOK
  <1>. HIDE DEF PageOK
  <1> QED BY <1>1, <1>2, <1>3, <1>4, PageEndsOK

\* A call of the fetch itself was asked for after the fetch began.
LEMMA AnsweredOK ==
  ASSUME TypeOK, NEW f \in Fetches, NEW n \in Node, FetchOK(f), Beside(f),
         ShortPage(f, n) \/ FullDay(f, n)
  PROVE  CallsOK(f)'
  <1>1. PICK at : at = node[f][n].asked OBVIOUS
  <1>2. PICK items : items = node[f][n].items OBVIOUS
  <1>3. /\ node[f][n].st = "answered" /\ Becomes(f, n, Done(items))
        /\ Cardinality(items) < PageSize \/ fetch'[f].warned
    BY <1>2 DEF ShortPage, FullDay, TypeOK, Fetch
  <1>4. n \in Calling(f) BY <1>3 DEF Calling, In
  <1>5. PageOK(n, at, items) /\ fetch[f].began <= at
    BY <1>1, <1>2, <1>3, <1>4 DEF FetchOK, AnswerOK
  <1>6. at \in Int /\ items \subseteq Item BY <1>1, <1>2, TimesType, RowType
  <1>7. fetch[f].began - at < Ttl BY <1>5, <1>6, TimesType
  <1>. HIDE DEF PageOK
  <1> QED BY <1>3, <1>5, <1>6, <1>7, PageEndsOK

\* What an answer may leave in the cache
LEMMA StoredIs ==
  ASSUME NEW n, NEW at, NEW items, NEW c \in Stored(n, at, items)
  PROVE  \/ c = cache
         \/ /\ Cardinality(items) <= KeepSize
            /\ c \subseteq cache \cup {[page |-> n, at |-> at, items |-> items]}
  <1> DEFINE e == [page |-> n, at |-> at, items |-> items]
  <1>1. CASE Cardinality(items) <= KeepSize
    <2>1. c \in With(e) BY <1>1 DEF Stored
    <2>2. e.page = n OBVIOUS
    <2>. HIDE DEF e
    <2>3. c \subseteq cache \cup {e} BY <2>1 DEF With
    <2> QED BY <1>1, <2>3 DEF e
  <1>2. CASE ~(Cardinality(items) <= KeepSize) BY <1>2 DEF Stored
  <1> QED BY <1>1, <1>2

\* The steps of the calls keep what the cache holds in order.
LEMMA CacheStep ==
  ASSUME TypeOK, CacheOK, NEW f \in Fetches, NEW n \in Node, FetchOK(f), Beside(f),
         NodeStep(f, n)
  PROVE  CacheOK' /\ cache' \subseteq Kept
  <1>0. Later /\ cache \subseteq Kept BY FrozenIsLater DEF Beside, TypeOK
  <1>1. CASE cache' \subseteq cache BY <1>0, <1>1, CacheStays
  <1>2. CASE ShortPage(f, n)
    <2>1. PICK at : at = node[f][n].asked OBVIOUS
    <2>2. PICK items : items = node[f][n].items OBVIOUS
    <2> DEFINE e == [page |-> n, at |-> at, items |-> items]
    <2>3. cache' \in Stored(n, at, items) /\ node[f][n].st = "answered"
          /\ Cardinality(items) < PageSize
      BY <1>2, <2>1, <2>2 DEF ShortPage
    <2>4. cache' \subseteq cache \cup {e} BY <2>3, StoredIs
    <2>5. e \in Kept BY <2>1, <2>2, RowType DEF Kept
    <2>6. KeptOK(e)
      <3>1. n \in Calling(f) BY <2>3 DEF Calling, In
      <3>2. PageOK(n, at, items) /\ at <= now
        BY <2>1, <2>2, <2>3, <3>1 DEF FetchOK, AnswerOK
      <3>. HIDE DEF PageOK
      <3> QED BY <2>3, <3>2 DEF KeptOK
    <2>. HIDE DEF e
    <2>7. KeptOK(e)' BY <1>0, <2>5, <2>6, KeptStays
    <2>8. \A x \in cache : KeptOK(x)' BY <1>0, KeptStays DEF CacheOK
    <2>. HIDE DEF KeptOK
    <2> QED BY <1>0, <2>4, <2>5, <2>7, <2>8 DEF CacheOK
  <1> QED BY <1>1, <1>2
       DEF NodeStep, Acquire, Cached, Reply, Split, FullDay, CallFails, Join, JoinFails

LEMMA SplitOK ==
  ASSUME TypeOK, NEW f \in Fetches, NEW n \in Node, FetchOK(f), Beside(f), Split(f, n)
  PROVE  CallsOK(f)'
  <1>1. Halved(f, n) BY SplitMoves
  <1>2. n.from < n.to BY DEF Split
  <1>3. /\ Left(n) \in Node /\ Right(n) \in Node
        /\ Left(n) # n /\ Right(n) # n /\ Left(n) # Right(n)
    BY <1>2, HalvesType
  <1>4. /\ node'[f][n].st = "joining"
        /\ \A m \in {Left(n), Right(n)} : node'[f][m].st = "waiting"
        /\ \A m \in Node \ {n, Left(n), Right(n)} : node'[f][m] = node[f][m]
    BY <1>1, <1>3, PlainType DEF Halved, TypeOK, States
  <1>5. ASSUME NEW m \in Node PROVE CallOK(f, m)' /\ AnswerOK(f, m)' /\ HalvesOK(f, m)'
    <2>1. CASE m = n BY <2>1, <1>2, <1>4 DEF CallOK, AnswerOK, HalvesOK, Calling, In
    <2>2. CASE m # n
      <3>1. node'[f][m] = node[f][m] \/ node'[f][m].st = "waiting" BY <2>2, <1>4
      <3> QED BY <3>1, OthersOK
    <2> QED BY <2>1, <2>2
  <1>6. Calling(f)' \subseteq Calling(f) BY <1>4 DEF Calling, In
  <1>7. PermitsOK(f)' BY <1>6, FewerCalls DEF FetchOK
  <1> QED BY <1>5, <1>7 DEF CallsOK

LEMMA JoinOK ==
  ASSUME TypeOK, NEW f \in Fetches, NEW n \in Node, FetchOK(f), Beside(f), Join(f, n)
  PROVE  CallsOK(f)'
  <1>1. n.from < n.to BY DEF Join, FetchOK, HalvesOK
  <1>2. Joined(f, n) BY <1>1, JoinMoves
  <1>3. /\ Left(n) \in Node /\ Right(n) \in Node
        /\ Left(n) # n /\ Right(n) # n /\ Left(n) # Right(n)
        /\ Left(n).only = n.only /\ Right(n).only = n.only
    BY <1>1, HalvesType
  <1>4. PICK l : l = node[f][Left(n)].items OBVIOUS
  <1>5. PICK r : r = node[f][Right(n)].items OBVIOUS
  <1>6. PICK items : items = Union(l, r) OBVIOUS
  <1>7. Sound(f, Left(n), l) /\ Sound(f, Right(n), r)
    <2>1. CallOK(f, Left(n)) /\ CallOK(f, Right(n)) BY <1>3 DEF FetchOK
    <2>. HIDE DEF Sound
    <2> QED BY <2>1, <1>4, <1>5 DEF Join, CallOK
  <1>8. /\ Once(items) /\ items \subseteq l \cup r
        /\ \A x \in l \cup r : \E y \in items : y.op = x.op
    BY <1>6, <1>7, UnionIs DEF Sound
  <1>9. \A x \in items : x.page.only = n.only BY <1>3, <1>7, <1>8 DEF Sound
  <1>10. AsItIs(f, items) BY <1>7, <1>8 DEF Sound, AsItIs
  <1>11. ~fetch[f].warned => Full(f, n, items)
    <2>. SUFFICES ASSUME ~fetch[f].warned, NEW o \in Operations \ Recent(f),
                         Wanted(ledger[o], n)
                  PROVE  \E x \in items : x.op = o
      BY DEF Full
    <2>1. ledger[o] \in SUBSET Parts BY FetchAssumption DEF TypeOK
    <2>2. Wanted(ledger[o], Left(n)) \/ Wanted(ledger[o], Right(n))
      BY <1>1, <2>1, HalvesCover
    <2>3. \E x \in l \cup r : x.op = o BY <2>2, <1>7 DEF Sound, Full
    <2> QED BY <2>3, <1>8
  <1>12. Sound(f, n, items) BY <1>8, <1>9, <1>10, <1>11 DEF Sound
  <1>13. Sound(f, n, items)' BY <1>12, SoundStays
  <1>14. /\ node'[f][n] = Done(items)
         /\ \A m \in {Left(n), Right(n)} : node'[f][m].st = "none"
         /\ \A m \in Node \ {n, Left(n), Right(n)} : node'[f][m] = node[f][m]
    BY <1>2, <1>3, <1>4, <1>5, <1>6, PlainType DEF Joined, TypeOK, States
  <1>15. \A m \in Node : m # n => node'[f][m] = node[f][m] \/ node'[f][m].st = "none"
    BY <1>14
  <1>16. items \subseteq Item BY <1>3, <1>4, <1>5, <1>6, RowType, UnionType
  <1>. HIDE DEF Sound
  <1> QED BY <1>13, <1>14, <1>15, <1>16, EndedOK

\* A step of a call writes to the calls of its own fetch only.
LEMMA NodeStepWrites ==
  ASSUME TypeOK, NEW f \in Fetches, FetchOK(f), NEW n \in Node, NodeStep(f, n)
  PROVE  /\ node' \in [Fetches -> [Node -> Call]]
         /\ \A g \in Fetches : g # f => node'[g] = node[g]
  <1>1. CASE Single(f, n) BY <1>1, SingleWrites, WriteCall
  <1>2. CASE Split(f, n) BY <1>2, SplitMoves
  <1>3. CASE Join(f, n)
    <2>1. n.from < n.to BY <1>3 DEF Join, FetchOK, HalvesOK
    <2> QED BY <1>3, <2>1, JoinMoves
  <1> QED BY <1>1, <1>2, <1>3 DEF NodeStep, Single

LEMMA NodeStepOK ==
  ASSUME IInv, NEW f \in Fetches, NEW n \in Node, NodeStep(f, n)
  PROVE  IInv'
  <1>1. TypeOK /\ CacheOK /\ FetchOK(f) BY DEF IInv
  <1>2. /\ Beside(f) /\ edits' = edits
        /\ fetch' \in [Fetches -> Fetch]
        /\ \A g \in Fetches : g # f => fetch'[g] = fetch[g]
    <2>1. CASE UNCHANGED <<ledger, edits, fetch, now, edited>>
      BY <1>1, <2>1 DEF Beside, Frozen, TypeOK
    <2>2. CASE FullDay(f, n)
      <3>1. fetch' = [fetch EXCEPT ![f] = [@ EXCEPT !.warned = TRUE]]
        BY <2>2 DEF FullDay
      <3>2. fetch[f] \in Fetch BY <1>1 DEF TypeOK
      <3>3. [fetch[f] EXCEPT !.warned = TRUE] \in Fetch BY <3>2 DEF Fetch
      <3>4. /\ fetch' \in [Fetches -> Fetch]
            /\ \A g \in Fetches : g # f => fetch'[g] = fetch[g]
            /\ fetch'[f] = [fetch[f] EXCEPT !.warned = TRUE]
        BY <1>1, <3>1, <3>3 DEF TypeOK
      <3>5. /\ fetch'[f].pc = fetch[f].pc /\ fetch'[f].roots = fetch[f].roots
            /\ fetch'[f].began = fetch[f].began
            /\ fetch'[f].result = fetch[f].result /\ fetch'[f].warned = TRUE
        BY <3>2, <3>4 DEF Fetch
      <3> QED BY <2>2, <3>4, <3>5 DEF FullDay, Beside, Frozen
    <2> QED BY <2>1, <2>2
         DEF NodeStep, Acquire, Cached, Reply, ShortPage, Split, CallFails, Join, JoinFails
  <1>3. /\ node' \in [Fetches -> [Node -> Call]]
        /\ \A g \in Fetches : g # f => node'[g] = node[g]
    BY <1>1, NodeStepWrites
  <1>4. CacheOK' /\ cache' \subseteq Kept BY <1>1, <1>2, CacheStep
  <1>5. TypeOK'
    <2>. HIDE DEF CacheOK
    <2> QED BY <1>1, <1>2, <1>3, <1>4 DEF TypeOK, Beside, Frozen
  <1>6. CallsOK(f)'
    BY <1>1, <1>2, AcquireOK, CachedOK, ReplyOK, FailsOK, AnsweredOK, SplitOK, JoinOK
    DEF NodeStep
  <1>7. FetchOK(f)'
    <2>1. RootsOK(f)' /\ ResultOK(f)' /\ fetch'[f].began <= now'
      BY <1>1, <1>2, BesideOK DEF FetchOK
    <2> QED BY <2>1, <1>6 DEF FetchOK, CallsOK
  <1>8. Later BY <1>1, <1>2, FrozenIsLater DEF Beside
  <1>9. ASSUME NEW g \in Fetches, g # f PROVE FetchOK(g)'
    <2>1. Still(g) BY <1>2, <1>3, <1>8, <1>9 DEF Still
    <2>2. FetchOK(g) BY DEF IInv
    <2> QED BY <1>1, <2>1, <2>2, StillOK
  <1> QED BY <1>4, <1>5, <1>7, <1>9 DEF IInv

(***************************************************************************)
(* Start, Return, Raise, Leave and the edits                               *)
(***************************************************************************)
\* The calls of a fetch are gone.
LEMMA NoCallsOK ==
  ASSUME NEW f, \A n \in Node : node'[f][n].st \in {"none", "waiting"}
  PROVE  CallsOK(f)'
  <1>1. Calling(f)' = {} BY DEF Calling, In
  <1>2. \A n \in Node : CallOK(f, n)' /\ AnswerOK(f, n)' /\ HalvesOK(f, n)'
    BY <1>1 DEF CallOK, AnswerOK, HalvesOK
  <1>3. PermitsOK(f)' BY <1>1, FS_EmptySet, FetchAssumption DEF PermitsOK
  <1> QED BY <1>2, <1>3 DEF CallsOK

\* A step that writes to one fetch only, and to no page
LEMMA OneFetchOK ==
  ASSUME IInv, NEW f \in Fetches, NEW r \in Fetch, NEW row \in [Node -> Call],
         fetch' = [fetch EXCEPT ![f] = r], node' = [node EXCEPT ![f] = row],
         Frozen, edits' = edits, cache' = cache, FetchOK(f)'
  PROVE  IInv'
  <1>1. TypeOK /\ CacheOK /\ \A g \in Fetches : FetchOK(g) BY DEF IInv
  <1>2. TypeOK' BY <1>1 DEF TypeOK, Frozen
  <1>3. Later /\ CacheOK' BY <1>1, FrozenIsLater, CacheStays
  <1>4. ASSUME NEW g \in Fetches, g # f PROVE FetchOK(g)'
    <2>1. Still(g) BY <1>1, <1>3, <1>4 DEF Still, TypeOK
    <2> QED BY <1>1, <2>1, StillOK
  <1> QED BY <1>2, <1>3, <1>4 DEF IInv

LEMMA StartOK ==
  ASSUME IInv, NEW f \in Fetches, NEW r \in Requests, Start(f, r)
  PROVE  IInv'
  <1> DEFINE row == [n \in Node |-> IF n \in Roots(r) THEN Plain("waiting") ELSE NoCall]
             begun == Begun(Roots(r))
  <1>1. TypeOK BY DEF IInv
  <1>2. row \in [Node -> Call] /\ \A n \in Node : row[n].st \in {"none", "waiting"}
    BY PlainType DEF States
  <1>3. begun \in Fetch BY <1>1, BegunType
  <1>4. /\ fetch' = [fetch EXCEPT ![f] = begun] /\ node' = [node EXCEPT ![f] = row]
        /\ Frozen /\ edits' = edits /\ cache' = cache
    BY DEF Start, Frozen
  <1>5. /\ begun.roots = Roots(r) /\ begun.pc = "running" /\ begun.result = {}
        /\ begun.began = now
    BY DEF Begun
  <1>. HIDE DEF row, begun
  <1>6. fetch'[f] = begun /\ node'[f] = row BY <1>1, <1>4 DEF TypeOK
  <1>7. FetchOK(f)'
    <2>1. CallsOK(f)' BY <1>2, <1>6, NoCallsOK
    <2>2. RootsOK(f)' BY <1>5, <1>6, RootsType DEF RootsOK
    <2>3. ResultOK(f)' BY <1>5, <1>6 DEF ResultOK, Once, AsItIs
    <2>4. fetch'[f].began <= now' BY <1>1, <1>4, <1>5, <1>6, TimesType DEF Frozen
    <2> QED BY <2>1, <2>2, <2>3, <2>4 DEF FetchOK, CallsOK
  <1> QED BY <1>2, <1>3, <1>4, <1>7, OneFetchOK

LEMMA LeaveOK ==
  ASSUME IInv, NEW f \in Fetches, Leave(f)
  PROVE  IInv'
  <1> DEFINE row == [n \in Node |-> NoCall]
  <1>1. TypeOK BY DEF IInv
  <1>2. row \in [Node -> Call] /\ \A n \in Node : row[n].st \in {"none", "waiting"}
    BY PlainType DEF States
  <1>3. NoFetch \in Fetch BY FetchAssumption DEF NoFetch, Fetch, Moments
  <1>4. /\ fetch' = [fetch EXCEPT ![f] = NoFetch] /\ node' = [node EXCEPT ![f] = row]
        /\ Frozen /\ edits' = edits /\ cache' = cache
    BY DEF Leave, Frozen
  <1>. HIDE DEF row
  <1>5. fetch'[f] = NoFetch /\ node'[f] = row BY <1>1, <1>4 DEF TypeOK
  <1>6. FetchOK(f)'
    <2>1. CallsOK(f)' BY <1>2, <1>5, NoCallsOK
    <2>2. RootsOK(f)' BY <1>5 DEF RootsOK, NoFetch
    <2>3. ResultOK(f)' BY <1>5 DEF ResultOK, Once, AsItIs, NoFetch
    <2>4. fetch'[f].began <= now'
      <3>1. now \in Nat BY <1>1, FetchAssumption DEF TypeOK, Moments
      <3> QED BY <3>1, <1>4, <1>5 DEF NoFetch, Frozen
    <2> QED BY <2>1, <2>2, <2>3, <2>4 DEF FetchOK, CallsOK
  <1> QED BY <1>2, <1>3, <1>4, <1>6, OneFetchOK

\* What happens outside the fetches: edits, pages that go, and the clock
LEMMA OutsideOK ==
  ASSUME IInv, TypeOK', Later, fetch' = fetch, node' = node, cache' \subseteq cache
  PROVE  IInv'
  <1>1. TypeOK /\ CacheOK BY DEF IInv
  <1>2. ASSUME NEW f \in Fetches PROVE FetchOK(f)'
    <2>1. Still(f) BY DEF Still
    <2>2. FetchOK(f) BY DEF IInv
    <2> QED BY <1>1, <2>1, <2>2, StillOK
  <1>3. CacheOK' BY <1>1, CacheStays
  <1> QED BY <1>2, <1>3 DEF IInv

LEMMA EditOK ==
  ASSUME IInv, NEW o \in Operations, NEW parts \in Shapes, Edit(o, parts)
  PROVE  IInv'
  <1>1. TypeOK BY DEF IInv
  <1>2. now \in (-Ttl)..LastMoment BY <1>1, FetchAssumption DEF TypeOK, Moments
  <1>3. /\ edited' \in [Operations -> (-Ttl)..LastMoment]
        /\ ledger' \in [Operations -> Shapes] /\ edits' \in 0..MaxEdits
    BY <1>1, <1>2, FetchAssumption DEF TypeOK, Edit
  <1>4. TypeOK' BY <1>1, <1>3 DEF TypeOK, Edit
  <1>5. Later BY <1>1, TimesType DEF Later, Edit, TypeOK
  <1> QED BY <1>4, <1>5, OutsideOK DEF Edit

LEMMA ForgetOK ==
  ASSUME IInv, NEW e, Forget(e)
  PROVE  IInv'
  <1>1. TypeOK BY DEF IInv
  <1>2. TypeOK' BY <1>1 DEF TypeOK, Forget
  <1>3. Later BY <1>1, FrozenIsLater DEF Frozen, Forget
  <1> QED BY <1>2, <1>3, OutsideOK DEF Forget

LEMMA TickOK ==
  ASSUME IInv, Tick
  PROVE  IInv'
  <1>1. TypeOK BY DEF IInv
  <1>2. now' \in Moments BY <1>1, FetchAssumption DEF TypeOK, Moments, Tick
  <1>3. TypeOK' BY <1>1, <1>2 DEF TypeOK, Tick
  <1>4. Later BY <1>1, TimesType DEF Later, Tick
  <1> QED BY <1>3, <1>4, OutsideOK DEF Tick

LEMMA RaiseOK ==
  ASSUME IInv, NEW f \in Fetches, Raise(f)
  PROVE  IInv'
  <1> DEFINE raised == [fetch[f] EXCEPT !.pc = "failed"]
  <1>1. TypeOK /\ FetchOK(f) BY DEF IInv
  <1>2. fetch[f] \in Fetch /\ raised \in Fetch BY <1>1 DEF Fetch, TypeOK
  <1>3. /\ fetch' = [fetch EXCEPT ![f] = raised] /\ node' = [node EXCEPT ![f] = node[f]]
        /\ node[f] \in [Node -> Call]
        /\ Frozen /\ edits' = edits /\ cache' = cache
    BY <1>1 DEF Raise, TypeOK, Frozen
  <1>4. /\ fetch'[f].pc = "failed" /\ fetch'[f].roots = fetch[f].roots
        /\ fetch'[f].began = fetch[f].began
        /\ fetch'[f].result = fetch[f].result /\ fetch'[f].warned = fetch[f].warned
    BY <1>1, <1>2, <1>3 DEF Fetch, TypeOK
  <1>. HIDE DEF raised
  <1>5. /\ Recent(f) \subseteq Recent(f)'
        /\ \A o \in Operations : o \notin Recent(f)' => ledger'[o] = ledger[o]
    BY <1>1, <1>3, <1>4, FrozenIsLater, RecentGrows DEF FetchOK
  <1>6. FetchOK(f)'
    <2>1. ASSUME NEW n \in Node
          PROVE  CallOK(f, n)' /\ AnswerOK(f, n)' /\ HalvesOK(f, n)'
      <3>1. CallOK(f, n) /\ AnswerOK(f, n) /\ HalvesOK(f, n) BY <1>1 DEF FetchOK
      <3>2. node' = node BY DEF Raise
      <3>3. PICK items : items = node[f][n].items OBVIOUS
      <3>4. items \subseteq Item BY <1>1, <3>3, RowType
      <3>5. /\ AsItIs(f, items) => AsItIs(f, items)'
            /\ Full(f, n, items) => Full(f, n, items)'
        BY <1>5, <3>4, StaysSound
      <3>6. Sound(f, n, items) => Sound(f, n, items)'
        <4>1. Once(items) => Once(items)' BY DEF Once
        <4>. HIDE DEF AsItIs, Full, Once
        <4> QED BY <3>5, <4>1, <1>4 DEF Sound
      <3>7. CallOK(f, n)'
        <4>. HIDE DEF Sound
        <4> QED BY <3>1, <3>2, <3>3, <3>6 DEF CallOK
      <3>8. AnswerOK(f, n)'
        BY <1>1, <1>3, <1>4, <3>1, <3>2, FrozenIsLater, AnswerStays
      <3> QED BY <3>1, <3>2, <3>7, <3>8 DEF HalvesOK
    <2>2. RootsOK(f)' BY <1>1, <1>4 DEF RootsOK, FetchOK
    <2>3. ResultOK(f)'
      <3>1. PICK items : items = fetch[f].result OBVIOUS
      <3>2. items \subseteq Item BY <1>2, <3>1 DEF Fetch
      <3>3. AsItIs(f, items) => AsItIs(f, items)' BY <1>5, <3>2, StaysSound
      <3>4. ResultOK(f) BY <1>1 DEF FetchOK
      <3>. HIDE DEF AsItIs
      <3> QED BY <1>4, <3>1, <3>3, <3>4 DEF ResultOK, Once
    <2>4. PermitsOK(f)' BY <1>1 DEF PermitsOK, FetchOK, Calling, In, Raise
    <2>5. fetch'[f].began <= now' BY <1>1, <1>3, <1>4 DEF FetchOK, Frozen
    <2> QED BY <2>1, <2>2, <2>3, <2>4, <2>5 DEF FetchOK
  <1> QED BY <1>2, <1>3, <1>6, OneFetchOK

\* All recursions have ended.
AllDone(f) == \A n \in fetch[f].roots : node[f][n].st = "done"

LEMMA CollectedIs ==
  ASSUME TypeOK, NEW f \in Fetches, FetchOK(f), AllDone(f)
  PROVE  /\ fetch[f].roots \subseteq Node /\ Collected(f) \subseteq Item
         /\ \A n \in fetch[f].roots : Sound(f, n, node[f][n].items)
         /\ AsItIs(f, Collected(f))
  <1>1. fetch[f].roots \subseteq Node BY DEF TypeOK, Fetch
  <1>2. Collected(f) \subseteq Item BY <1>1, RowType DEF Collected
  <1>3. ASSUME NEW n \in fetch[f].roots PROVE Sound(f, n, node[f][n].items)
    <2>. HIDE DEF Sound
    <2> QED BY <1>1 DEF FetchOK, CallOK, AllDone
  <1>4. AsItIs(f, Collected(f)) BY <1>3 DEF AsItIs, Sound, Collected
  <1> QED BY <1>1, <1>2, <1>3, <1>4

LEMMA OneRecursion ==
  ASSUME TypeOK, NEW f \in Fetches, FetchOK(f), AllDone(f),
         Cardinality(fetch[f].roots) = 1
  PROVE  /\ Once(Collected(f))
         /\ ~fetch[f].warned => \A n \in fetch[f].roots : Full(f, n, Collected(f))
  <1>1. IsFiniteSet(fetch[f].roots)
    BY CollectedIs, NodeFinite, FS_Subset
  <1>2. PICK n : fetch[f].roots = {n} BY <1>1, FS_Singleton
  <1>3. Collected(f) = node[f][n].items BY <1>2 DEF Collected
  <1>4. Sound(f, n, node[f][n].items) BY <1>2, CollectedIs
  <1> QED BY <1>2, <1>3, <1>4 DEF Sound

\* Of an operation of several projects the one of the first project remains.
LEMMA SeveralRecursions ==
  ASSUME TypeOK, NEW f \in Fetches, FetchOK(f), AllDone(f),
         Cardinality(fetch[f].roots) # 1
  PROVE  /\ Once(OfProjects(Collected(f)))
         /\ ~fetch[f].warned =>
              \A n \in fetch[f].roots : Full(f, n, OfProjects(Collected(f)))
  <1> DEFINE all == Collected(f)
             only(x) == CHOOSE p : x.page.only = {p}
  <1>1. fetch[f].roots \subseteq Node
        /\ \A n \in fetch[f].roots : Sound(f, n, node[f][n].items)
    BY CollectedIs
  <1>2. ASSUME NEW n \in fetch[f].roots PROVE \E p \in Projects : n.only = {p}
    <2>1. fetch[f].roots # {n} BY FS_Singleton
    <2> QED BY <2>1 DEF FetchOK, RootsOK
  <1>3. \A x \in all : \E n \in fetch[f].roots :
          x \in node[f][n].items /\ x.page.only = n.only
    BY <1>1 DEF Collected, Sound
  <1>4. \A x \in all : only(x) \in Nat /\ x.page.only = {only(x)}
    BY <1>2, <1>3, FetchAssumption
  <1>. HIDE DEF only
  <1>5. OfProjects(all) =
          {x \in all : \A y \in all : y.op = x.op => only(x) <= only(y)}
    BY <1>4 DEF OfProjects
  <1>6. ASSUME NEW x \in OfProjects(all), NEW y \in OfProjects(all), x.op = y.op
        PROVE  x = y
    <2>1. only(x) = only(y) BY <1>4, <1>5, <1>6
    <2>2. PICK m \in fetch[f].roots : x \in node[f][m].items /\ x.page.only = m.only
      BY <1>3, <1>5
    <2>3. PICK n \in fetch[f].roots : y \in node[f][n].items /\ y.page.only = n.only
      BY <1>3, <1>5
    <2>4. m.only = n.only BY <1>4, <1>5, <2>1, <2>2, <2>3
    <2>5. m = n BY <2>4 DEF FetchOK, RootsOK
    <2> QED BY <1>1, <1>6, <2>2, <2>3, <2>5 DEF Sound, Once
  <1>7. ASSUME NEW x \in all
        PROVE  \E y \in OfProjects(all) : y.op = x.op
    <2> DEFINE S == {only(y) : y \in {z \in all : z.op = x.op}}
    <2>1. S \subseteq Nat /\ S # {} BY <1>4
    <2>2. PICK p \in S : \A q \in S : p <= q BY <2>1, Smallest
    <2>3. PICK y \in all : y.op = x.op /\ only(y) = p BY <2>2
    <2>4. \A z \in all : z.op = y.op => only(y) <= only(z) BY <2>2, <2>3
    <2> QED BY <2>3, <2>4, <1>5
  <1>8. ASSUME ~fetch[f].warned, NEW n \in fetch[f].roots
        PROVE  Full(f, n, OfProjects(all))
    <2>1. Full(f, n, node[f][n].items) BY <1>1, <1>8 DEF Sound
    <2>2. node[f][n].items \subseteq all BY DEF Collected
    <2>. HIDE DEF all
    <2> QED BY <2>1, <2>2, <1>7 DEF Full
  <1> QED BY <1>6, <1>8 DEF Once

\* What Return hands over
LEMMA ReturnedIs ==
  ASSUME TypeOK, NEW f \in Fetches, FetchOK(f), AllDone(f), NEW items,
         items \in IF Cardinality(fetch[f].roots) = 1
                   THEN {Collected(f)}
                   ELSE Limited(OfProjects(Collected(f)))
  PROVE  /\ items \subseteq Item /\ Once(items) /\ AsItIs(f, items)
         /\ ~fetch[f].warned
              /\ (Cardinality(fetch[f].roots) = 1 \/ Cardinality(items) < HardLimit)
            => \A n \in fetch[f].roots : Full(f, n, items)
  <1>1. Collected(f) \subseteq Item /\ AsItIs(f, Collected(f)) BY CollectedIs
  <1>2. CASE Cardinality(fetch[f].roots) = 1
    <2>1. items = Collected(f) BY <1>2
    <2> QED BY <1>1, <1>2, <2>1, OneRecursion
  <1>3. CASE Cardinality(fetch[f].roots) # 1
    <2>1. PICK all : all = OfProjects(Collected(f)) OBVIOUS
    <2>2. items \in Limited(all) BY <1>3, <2>1
    <2>3. items \subseteq all BY <2>2 DEF Limited
    <2>4. all \subseteq Collected(f) BY <2>1 DEF OfProjects
    <2>5. Once(all) /\ (~fetch[f].warned => \A n \in fetch[f].roots : Full(f, n, all))
      BY <1>3, <2>1, SeveralRecursions
    <2>6. items \subseteq Item /\ Once(items) /\ AsItIs(f, items)
      BY <1>1, <2>3, <2>4, <2>5 DEF Once, AsItIs
    <2>7. Cardinality(items) < HardLimit => items = all
      <3>1. CASE Cardinality(all) <= HardLimit BY <3>1, <2>2 DEF Limited
      <3>2. CASE ~(Cardinality(all) <= HardLimit)
        <4>1. Cardinality(items) = HardLimit BY <3>2, <2>2 DEF Limited
        <4> QED BY <4>1, FetchAssumption
      <3> QED BY <3>1, <3>2
    <2> QED BY <1>3, <2>5, <2>6, <2>7
  <1> QED BY <1>2, <1>3

LEMMA EndedRecord ==
  ASSUME NEW r \in Fetch, NEW items
  PROVE  [r EXCEPT !.pc = "done", !.result = items] =
           [pc |-> "done", roots |-> r.roots, began |-> r.began, warned |-> r.warned,
            result |-> items]
  <1>1. PICK s : s = [r EXCEPT !.pc = "done"] OBVIOUS
  <1>2. s = [pc |-> "done", roots |-> r.roots, began |-> r.began, warned |-> r.warned,
             result |-> r.result]
    BY <1>1 DEF Fetch
  <1>3. [s EXCEPT !.result = items] =
          [pc |-> "done", roots |-> r.roots, began |-> r.began, warned |-> r.warned,
           result |-> items]
    BY <1>2
  <1>4. [r EXCEPT !.pc = "done", !.result = items] = [s EXCEPT !.result = items]
    BY <1>1
  <1> QED BY <1>3, <1>4

LEMMA ReturnOK ==
  ASSUME IInv, NEW f \in Fetches, Return(f)
  PROVE  IInv'
  <1> DEFINE row == [n \in Node |-> NoCall]
  <1>1. TypeOK /\ FetchOK(f) /\ AllDone(f) BY DEF IInv, Return, AllDone
  <1>2. PICK items \in IF Cardinality(fetch[f].roots) = 1
                       THEN {Collected(f)}
                       ELSE Limited(OfProjects(Collected(f))) :
          fetch' = [fetch EXCEPT ![f] =
                      [fetch[f] EXCEPT !.pc = "done", !.result = items]]
    BY <1>1 DEF Return, TypeOK
  <1>3. /\ items \subseteq Item /\ Once(items) /\ AsItIs(f, items)
        /\ ~fetch[f].warned
             /\ (Cardinality(fetch[f].roots) = 1 \/ Cardinality(items) < HardLimit)
           => \A n \in fetch[f].roots : Full(f, n, items)
    BY <1>1, <1>2, ReturnedIs
  <1> DEFINE ended == [pc |-> "done", roots |-> fetch[f].roots, began |-> fetch[f].began,
                       warned |-> fetch[f].warned, result |-> items]
  <1>4. ended \in Fetch /\ ended = [fetch[f] EXCEPT !.pc = "done", !.result = items]
    <2>1. fetch[f] \in Fetch BY <1>1 DEF TypeOK
    <2>2. ended \in Fetch BY <2>1, <1>3 DEF Fetch
    <2> QED BY <2>1, <2>2, EndedRecord
  <1>5. row \in [Node -> Call] /\ \A n \in Node : row[n].st \in {"none", "waiting"}
    BY PlainType DEF States
  <1>6. /\ fetch' = [fetch EXCEPT ![f] = ended] /\ node' = [node EXCEPT ![f] = row]
        /\ Frozen /\ edits' = edits /\ cache' = cache
    BY <1>2, <1>4 DEF Return, Frozen
  <1>7. /\ ended.pc = "done" /\ ended.roots = fetch[f].roots
        /\ ended.began = fetch[f].began
        /\ ended.warned = fetch[f].warned /\ ended.result = items
    OBVIOUS
  <1>. HIDE DEF row, ended
  <1>8. fetch'[f] = ended /\ node'[f] = row BY <1>1, <1>6 DEF TypeOK
  <1>9. FetchOK(f)'
    <2>1. CallsOK(f)' BY <1>5, <1>8, NoCallsOK
    <2>2. RootsOK(f)' BY <1>1, <1>7, <1>8 DEF RootsOK, FetchOK
    <2>3. /\ Recent(f) \subseteq Recent(f)'
          /\ \A o \in Operations : o \notin Recent(f)' => ledger'[o] = ledger[o]
      BY <1>1, <1>6, <1>7, <1>8, FrozenIsLater, RecentGrows DEF FetchOK
    <2>4. /\ AsItIs(f, items) => AsItIs(f, items)'
          /\ \A n : Full(f, n, items) => Full(f, n, items)'
      BY <1>3, <2>3, StaysSound
    <2>5. ResultOK(f)'
      <3>. HIDE DEF AsItIs, Full
      <3> QED BY <1>3, <1>7, <1>8, <2>4 DEF ResultOK, Uncut
    <2>6. fetch'[f].began <= now' BY <1>1, <1>6, <1>7, <1>8 DEF FetchOK, Frozen
    <2> QED BY <2>1, <2>2, <2>5, <2>6 DEF FetchOK, CallsOK
  <1> QED BY <1>4, <1>5, <1>6, <1>9, OneFetchOK

(***************************************************************************)
(* Theorems                                                                *)
(***************************************************************************)
LEMMA IInvStep == IInv /\ [Next]_vars => IInv'
  <1>. SUFFICES ASSUME IInv, [Next]_vars PROVE IInv'
    OBVIOUS
  <1>1. CASE UNCHANGED vars
    <2>1. TypeOK /\ TypeOK' BY <1>1 DEF IInv, TypeOK, vars
    <2>2. Later BY <1>1, <2>1, FrozenIsLater DEF Frozen, vars
    <2> QED BY <1>1, <2>1, <2>2, OutsideOK DEF vars
  <1>2. ASSUME NEW f \in Fetches, NEW n \in Node, NodeStep(f, n) PROVE IInv'
    BY <1>2, NodeStepOK
  <1>3. ASSUME NEW f \in Fetches, Return(f) \/ Raise(f) \/ Leave(f) PROVE IInv'
    BY <1>3, ReturnOK, RaiseOK, LeaveOK
  <1>4. ASSUME NEW f \in Fetches, NEW r \in Requests, Start(f, r) PROVE IInv'
    BY <1>4, StartOK
  <1>5. ASSUME NEW o \in Operations, NEW parts \in Shapes, Edit(o, parts) PROVE IInv'
    BY <1>5, EditOK
  <1>6. ASSUME NEW e \in cache, Forget(e) PROVE IInv' BY <1>6, ForgetOK
  <1>7. CASE Tick BY <1>7, TickOK
  <1> QED BY <1>1, <1>2, <1>3, <1>4, <1>5, <1>6, <1>7 DEF Next, FetchStep

\* The invariant of the fetches: every page on its way or in the cache shows the
\* ledger as it was when it was asked for or later (AnswerOK, KeptOK), and what the
\* calls gave back so far, and what the caller gets, is sound (CallOK, ResultOK).
THEOREM Invariant == Spec => []IInv
  BY IInvInit, IInvStep, PTL DEF Spec

\* Every variable keeps its type.
THEOREM Typed == Spec => []TypeOK
  <1>1. IInv => TypeOK BY DEF IInv
  <1> QED BY <1>1, Invariant, PTL

\* However deep the halving goes, no fetch has more calls to PlanFact under way
\* than the semaphore has permits.
THEOREM Bounded == Spec => []CallsAreBounded
  <1>1. IInv => CallsAreBounded BY DEF IInv, FetchOK, PermitsOK, CallsAreBounded
  <1> QED BY <1>1, Invariant, PTL

\* No fetch gives back an operation twice, whatever cuts and projects it crosses
\* and however often it is edited meanwhile.
THEOREM NotTwice == Spec => []EachOnce
  <1>1. IInv => EachOnce
    BY DEF IInv, FetchOK, ResultOK, Once, EachOnce
  <1> QED BY <1>1, Invariant, PTL

\* A fetch that is neither warned about nor cut gives back every operation of its
\* period and its projects as it is, but for those edited since cache_ttl before
\* it began, whichever pages it takes from the cache of the client and in whatever
\* order the answers come in.
THEOREM Complete == Spec => []NothingIsMissed
  <1>1. IInv => NothingIsMissed
    <2>. SUFFICES ASSUME IInv, NEW f \in Fetches,
                         fetch[f].pc = "done", ~fetch[f].warned, Uncut(f),
                         NEW n \in fetch[f].roots, NEW o \in Operations \ Recent(f),
                         Wanted(ledger[o], n)
                  PROVE  \E x \in fetch[f].result : x.op = o /\ x.parts = ledger[o]
      BY DEF NothingIsMissed, Uncut
    <2>1. ResultOK(f) BY DEF IInv, FetchOK
    <2>2. PICK x \in fetch[f].result : x.op = o BY <2>1 DEF ResultOK, Full
    <2>3. x.parts = ledger[o] BY <2>1, <2>2 DEF ResultOK, AsItIs
    <2> QED BY <2>2, <2>3
  <1> QED BY <1>1, Invariant, PTL

(***************************************************************************)
(* The tree of the halves                                                  *)
(***************************************************************************)
\* The periods a fetch has calls for form a tree below its roots: two of them
\* have no day in common, or one lies in a half of the other, which was halved.
Inside(m, n) == m.only = n.only /\ n.from <= m.from /\ m.to <= n.to
Under(m, n)  == n.from < n.to /\ (Inside(m, Left(n)) \/ Inside(m, Right(n)))
Apart(m, n)  == m.only # n.only \/ m.to < n.from \/ n.to < m.from

Used(f)      == {n \in Node : node[f][n].st # "none"}
Handed(f, n) == node[f][n].st \in {"joining", "failed"}

Placed(f, m, n) ==
  \/ Apart(m, n)
  \/ Under(m, n) /\ Handed(f, n)
  \/ Under(n, m) /\ Handed(f, m)

TreeOK(f) ==
  /\ \A n \in Used(f) : n.from <= n.to
  /\ \A n \in Node : node[f][n].st = "joining" => {Left(n), Right(n)} \subseteq Used(f)
  /\ \A m, n \in Used(f) : m # n => Placed(f, m, n)
  /\ \A n \in Used(f) : \E r \in fetch[f].roots : Inside(n, r)
  /\ fetch[f].pc = "running" => fetch[f].roots \subseteq Used(f)

TreeInv == IInv /\ \A f \in Fetches : TreeOK(f)

LEMMA NodeDays ==
  ASSUME NEW n \in Node
  PROVE  n.from \in Int /\ n.to \in Int
  BY FetchAssumption DEF Node, Days

\* The halves of a period have no day in common, and lie where it lies.
LEMMA HalvesPlaced ==
  ASSUME NEW n \in Node, n.from < n.to
  PROVE  /\ Apart(Left(n), Right(n))
         /\ Under(Left(n), n) /\ Under(Right(n), n)
         /\ Left(n).from <= Left(n).to /\ Right(n).from <= Right(n).to
  <1>1. /\ Left(n) \in Node /\ Right(n) \in Node
        /\ Left(n).only = n.only /\ Right(n).only = n.only
        /\ Left(n).from = n.from /\ Right(n).to = n.to
        /\ Right(n).from = Left(n).to + 1
        /\ n.from <= Left(n).to /\ Left(n).to < n.to
    BY HalvesType
  <1>2. /\ n.from \in Int /\ n.to \in Int
        /\ Left(n).to \in Int /\ Right(n).from \in Int
    BY <1>1, NodeDays
  <1>. HIDE DEF Left, Right
  <1> QED BY <1>1, <1>2 DEF Apart, Under, Inside

LEMMA HalvesFollow ==
  ASSUME NEW m \in Node, NEW n \in Node, n.from < n.to
  PROVE  /\ Apart(m, n) => Apart(m, Left(n)) /\ Apart(m, Right(n))
         /\ Under(n, m) => Under(Left(n), m) /\ Under(Right(n), m)
         /\ Inside(n, m) => Inside(Left(n), m) /\ Inside(Right(n), m)
  <1>1. /\ Left(n) \in Node /\ Right(n) \in Node
        /\ Left(n).only = n.only /\ Right(n).only = n.only
        /\ Left(n).from = n.from /\ Right(n).to = n.to
        /\ Right(n).from = Left(n).to + 1
        /\ n.from <= Left(n).to /\ Left(n).to < n.to
    BY HalvesType
  <1>2. /\ n.from \in Int /\ n.to \in Int /\ m.from \in Int /\ m.to \in Int
        /\ Left(n).to \in Int /\ Right(n).from \in Int
    BY <1>1, NodeDays
  <1>. HIDE DEF Left, Right
  <1>3. Apart(m, n) => Apart(m, Left(n)) /\ Apart(m, Right(n))
    BY <1>1, <1>2 DEF Apart
  <1>4. ASSUME NEW k, k.from \in Int, k.to \in Int
        PROVE  Inside(n, k) => Inside(Left(n), k) /\ Inside(Right(n), k)
    BY <1>1, <1>2, <1>4 DEF Inside
  <1>5. ASSUME Under(n, m) PROVE Under(Left(n), m) /\ Under(Right(n), m)
    <2>1. m.from < m.to BY <1>5 DEF Under
    <2>2. Left(m) \in Node /\ Right(m) \in Node BY <2>1, HalvesType
    <2>3. /\ Left(m).from \in Int /\ Left(m).to \in Int
          /\ Right(m).from \in Int /\ Right(m).to \in Int
      BY <2>2, NodeDays
    <2>4. /\ Inside(n, Left(m)) => Inside(Left(n), Left(m)) /\ Inside(Right(n), Left(m))
          /\ Inside(n, Right(m)) => Inside(Left(n), Right(m)) /\ Inside(Right(n), Right(m))
      BY <1>4, <2>3
    <2> QED BY <1>5, <2>4 DEF Under
  <1> QED BY <1>2, <1>3, <1>4, <1>5

\* A period does not lie in a half of one that is as small, or has no day of it.
LEMMA UnderIs ==
  ASSUME NEW m \in Node, NEW n \in Node, m.from <= m.to, Under(m, n)
  PROVE  /\ ~Apart(m, n) /\ m.only = n.only
         /\ n.from <= m.from /\ m.to <= n.to
         /\ m.to - m.from < n.to - n.from
  <1>1. n.from < n.to BY DEF Under
  <1>2. /\ Left(n) \in Node /\ Right(n) \in Node
        /\ Left(n).only = n.only /\ Right(n).only = n.only
        /\ Left(n).from = n.from /\ Right(n).to = n.to
        /\ Right(n).from = Left(n).to + 1
        /\ n.from <= Left(n).to /\ Left(n).to < n.to
    BY <1>1, HalvesType
  <1>3. /\ n.from \in Int /\ n.to \in Int /\ m.from \in Int /\ m.to \in Int
        /\ Left(n).to \in Int /\ Right(n).from \in Int
    BY <1>2, NodeDays
  <1>. HIDE DEF Left, Right
  <1> QED BY <1>2, <1>3 DEF Under, Inside, Apart

\* Two periods of the tree have no half in common.
LEMMA HalvesAreOnes ==
  ASSUME NEW m \in Node, NEW n \in Node, m.from < m.to, n.from < n.to,
         Apart(m, n) \/ Under(m, n) \/ Under(n, m)
  PROVE  {Left(m), Right(m)} \cap {Left(n), Right(n)} = {}
  <1>1. ASSUME NEW k \in Node, NEW j \in Node, k.from < k.to, j.from < j.to,
               Under(k, j), NEW c \in {Left(k), Right(k)}, c \in {Left(j), Right(j)}
        PROVE  FALSE
    <2>1. /\ Left(k) \in Node /\ Right(k) \in Node
          /\ Left(k).from = k.from /\ Right(k).to = k.to
          /\ Right(k).from = Left(k).to + 1
          /\ k.from <= Left(k).to /\ Left(k).to < k.to
      BY <1>1, HalvesType
    <2>2. /\ Left(j) \in Node /\ Right(j) \in Node
          /\ Left(j).from = j.from /\ Right(j).to = j.to
          /\ Right(j).from = Left(j).to + 1
          /\ j.from <= Left(j).to /\ Left(j).to < j.to
      BY <1>1, HalvesType
    <2>3. /\ k.from \in Int /\ k.to \in Int /\ j.from \in Int /\ j.to \in Int
          /\ Left(k).to \in Int /\ Left(j).to \in Int
          /\ c.from \in Int /\ c.to \in Int
      BY <1>1, <2>1, <2>2, NodeDays
    <2>4. /\ k.from <= c.from /\ c.to <= k.to /\ c.from <= c.to
          /\ c.to - c.from < k.to - k.from
      BY <1>1, <2>1, <2>3
    <2>5. \/ j.from <= k.from /\ k.to <= Left(j).to
          \/ Left(j).to + 1 <= k.from /\ k.to <= j.to
      BY <1>1, <2>2 DEF Under, Inside
    <2>6. \/ c.from = j.from /\ c.to = Left(j).to
          \/ c.from = Left(j).to + 1 /\ c.to = j.to
      BY <1>1, <2>2
    <2>. HIDE DEF Left, Right
    <2> QED BY <2>3, <2>4, <2>5, <2>6
  <1>2. ASSUME Apart(m, n), NEW c \in {Left(m), Right(m)}, c \in {Left(n), Right(n)}
        PROVE  FALSE
    <2>1. /\ Left(m) \in Node /\ Right(m) \in Node /\ Left(n) \in Node
          /\ Under(Left(m), m) /\ Under(Right(m), m)
          /\ Left(m).from <= Left(m).to /\ Right(m).from <= Right(m).to
          /\ Under(Left(n), n) /\ Under(Right(n), n)
      BY HalvesType, HalvesPlaced
    <2>2. c \in Node /\ c.from <= c.to /\ Under(c, m) /\ Under(c, n)
      BY <1>2, <2>1
    <2>3. /\ c.only = m.only /\ m.from <= c.from /\ c.to <= m.to
          /\ c.only = n.only /\ n.from <= c.from /\ c.to <= n.to
      BY <2>2, UnderIs
    <2>4. /\ c.from \in Int /\ c.to \in Int /\ m.from \in Int /\ m.to \in Int
          /\ n.from \in Int /\ n.to \in Int
      BY <2>2, NodeDays
    <2> QED BY <1>2, <2>2, <2>3, <2>4 DEF Apart
  <1> QED BY <1>1, <1>2

LEMMA NoTreeOK ==
  ASSUME NEW f, \A n \in Node : node'[f][n].st = "none", fetch'[f].pc # "running"
  PROVE  TreeOK(f)'
  BY DEF TreeOK, Used

\* A call that stays in the tree leaves the tree as it is.
LEMMA SameTreeOK ==
  ASSUME NEW f \in Fetches, TreeOK(f),
         fetch'[f].roots = fetch[f].roots,
         fetch'[f].pc = "running" => fetch[f].pc = "running",
         \A n \in Node : /\ node'[f][n].st = "none" <=> node[f][n].st = "none"
                         /\ node'[f][n].st = "joining" => node[f][n].st = "joining"
                         /\ Handed(f, n) => Handed(f, n)'
  PROVE  TreeOK(f)'
  <1>1. Used(f)' = Used(f) BY DEF Used
  <1>2. ASSUME NEW m \in Node, NEW n \in Node, Placed(f, m, n) PROVE Placed(f, m, n)'
    BY <1>2 DEF Placed
  <1>3. \A m, n \in Used(f) : m \in Node /\ n \in Node BY DEF Used
  <1>4. \A n \in Used(f) : n.from <= n.to BY DEF TreeOK
  <1>5. \A n \in Node : node'[f][n].st = "joining" => {Left(n), Right(n)} \subseteq Used(f)
    BY DEF TreeOK
  <1>6. \A m, n \in Used(f) : m # n => Placed(f, m, n)'
    BY <1>2, <1>3 DEF TreeOK
  <1>7. \A n \in Used(f) : \E r \in fetch'[f].roots : Inside(n, r) BY DEF TreeOK
  <1>8. fetch'[f].pc = "running" => fetch'[f].roots \subseteq Used(f) BY DEF TreeOK
  <1>. HIDE DEF Placed, Used
  <1> QED BY <1>1, <1>4, <1>5, <1>6, <1>7, <1>8 DEF TreeOK

LEMMA StartTree ==
  ASSUME IInv, NEW f \in Fetches, NEW r \in Requests, Start(f, r)
  PROVE  TreeOK(f)'
  <1> DEFINE row == [n \in Node |-> IF n \in Roots(r) THEN Plain("waiting") ELSE NoCall]
  <1>1. fetch' = [fetch EXCEPT ![f] = Begun(Roots(r))] /\ node' = [node EXCEPT ![f] = row]
    BY DEF Start
  <1>2. fetch'[f] = Begun(Roots(r)) /\ node'[f] = row BY <1>1 DEF IInv, TypeOK
  <1>3. fetch'[f].roots = Roots(r) BY <1>2 DEF Begun
  <1>4. \A n \in Node : /\ n \in Roots(r) => node'[f][n].st = "waiting"
                        /\ n \notin Roots(r) => node'[f][n].st = "none"
    BY <1>2, PlainType DEF States
  <1>5. /\ Roots(r) \subseteq Node
        /\ \A m, n \in Roots(r) : m # n => m.only # n.only
    BY RootsType
  <1>6. Used(f)' = Roots(r) BY <1>4, <1>5 DEF Used
  <1>7. \A n \in Roots(r) : n.from <= n.to /\ n.from = r.from /\ n.to = r.to
    BY FetchAssumption DEF Roots
  <1>8. \A n \in Roots(r) : Inside(n, n) BY <1>5, <1>7, NodeDays DEF Inside
  <1>9. \A m, n \in Roots(r) : m # n => Placed(f, m, n)' BY <1>5 DEF Placed, Apart
  <1>10. \A n \in Node : node'[f][n].st # "joining" BY <1>4
  <1>. HIDE DEF Placed, Used, Inside
  <1> QED BY <1>3, <1>6, <1>7, <1>8, <1>9, <1>10 DEF TreeOK

LEMMA SplitTree ==
  ASSUME TypeOK, NEW f \in Fetches, NEW n \in Node, TreeOK(f), Split(f, n)
  PROVE  TreeOK(f)'
  <1> DEFINE halves == {Left(n), Right(n)}
  <1>1. Halved(f, n) BY SplitMoves
  <1>2. n.from < n.to /\ node[f][n].st = "answered" /\ fetch' = fetch BY DEF Split
  <1>3. /\ Left(n) \in Node /\ Right(n) \in Node
        /\ Left(n) # n /\ Right(n) # n /\ Left(n) # Right(n)
    BY <1>2, HalvesType
  <1>4. /\ node'[f][n].st = "joining"
        /\ \A m \in halves : node'[f][m].st = "waiting"
        /\ \A m \in Node \ {n, Left(n), Right(n)} : node'[f][m] = node[f][m]
    BY <1>1, <1>3, PlainType DEF Halved, TypeOK, States
  <1>5. /\ Apart(Left(n), Right(n)) /\ Under(Left(n), n) /\ Under(Right(n), n)
        /\ \A c \in halves : c.from <= c.to
    BY <1>2, HalvesPlaced
  <1>6. Used(f)' = Used(f) \cup halves /\ n \in Used(f) /\ Used(f) \subseteq Node
    BY <1>2, <1>3, <1>4 DEF Used
  <1>. HIDE DEF Left, Right
  <1>7. \A m \in Used(f)' : m.from <= m.to BY <1>5, <1>6 DEF TreeOK
  <1>8. \A m \in Node : node'[f][m].st = "joining" => {Left(m), Right(m)} \subseteq Used(f)'
    <2>. SUFFICES ASSUME NEW m \in Node, node'[f][m].st = "joining"
                  PROVE  {Left(m), Right(m)} \subseteq Used(f)'
      OBVIOUS
    <2>1. CASE m = n BY <2>1, <1>6
    <2>2. CASE m # n
      <3>1. m \notin halves BY <1>4
      <3>2. node[f][m].st = "joining" BY <2>2, <3>1, <1>4
      <3> QED BY <3>2, <1>6 DEF TreeOK
    <2> QED BY <2>1, <2>2
  <1>9. \A m \in Used(f) \ (halves \cup {n}) : Handed(f, m) => Handed(f, m)'
    BY <1>4, <1>6 DEF Handed
  <1>10. Handed(f, n)' BY <1>4 DEF Handed
  <1>11. ASSUME NEW m \in Used(f), m \notin halves \cup {n}
         PROVE  /\ Placed(f, m, n)'
                /\ \A c \in halves : Placed(f, m, c)'
    <2>1. m \in Node /\ Placed(f, m, n) /\ ~Handed(f, n)
      BY <1>2, <1>6, <1>11 DEF TreeOK, Handed
    <2>2. CASE Apart(m, n)
      <3>1. \A c \in halves : Apart(m, c) BY <2>1, <2>2, <1>2, HalvesFollow
      <3> QED BY <2>2, <3>1 DEF Placed
    <2>3. CASE Under(n, m) /\ Handed(f, m)
      <3>1. \A c \in halves : Under(c, m) BY <2>1, <2>3, <1>2, HalvesFollow
      <3>2. Handed(f, m)' BY <2>3, <1>9, <1>11
      <3> QED BY <2>3, <3>1, <3>2 DEF Placed
    <2> QED BY <2>1, <2>2, <2>3 DEF Placed
  <1>12. \A m, k : Placed(f, m, k)' => Placed(f, k, m)'
    <2>1. \A m, k : Apart(m, k) => Apart(k, m) BY DEF Apart
    <2>. HIDE DEF Apart
    <2> QED BY <2>1 DEF Placed
  <1>13. \A c \in halves : Placed(f, c, n)' BY <1>5, <1>10 DEF Placed
  <1>14. Placed(f, Left(n), Right(n))' BY <1>5 DEF Placed
  <1>15. ASSUME NEW m \in Used(f), NEW k \in Used(f), m # k,
                m \notin halves \cup {n}, k \notin halves \cup {n}
         PROVE  Placed(f, m, k)'
    <2>1. Placed(f, m, k) BY <1>15 DEF TreeOK
    <2> QED BY <2>1, <1>9, <1>15 DEF Placed
  <1>16. \A m, k \in Used(f)' : m # k => Placed(f, m, k)'
    <2>. SUFFICES ASSUME NEW m \in Used(f)', NEW k \in Used(f)', m # k
                  PROVE  Placed(f, m, k)'
      OBVIOUS
    <2>. HIDE DEF Placed, Used
    <2>1. CASE m \in halves \cup {n} /\ k \in halves \cup {n}
      BY <2>1, <1>12, <1>13, <1>14
    <2>2. CASE m \notin halves \cup {n} /\ k \in halves \cup {n}
      BY <2>2, <1>6, <1>11
    <2>3. CASE m \in halves \cup {n} /\ k \notin halves \cup {n}
      BY <2>3, <1>6, <1>11, <1>12
    <2>4. CASE m \notin halves \cup {n} /\ k \notin halves \cup {n}
      BY <2>4, <1>6, <1>15
    <2> QED BY <2>1, <2>2, <2>3, <2>4
  <1>17. \A m \in Used(f)' : \E r \in fetch'[f].roots : Inside(m, r)
    <2>. SUFFICES ASSUME NEW m \in Used(f)'
                  PROVE  \E r \in fetch[f].roots : Inside(m, r)
      BY <1>2
    <2>1. CASE m \in Used(f) BY <2>1 DEF TreeOK
    <2>2. CASE m \in halves
      <3>1. PICK r \in fetch[f].roots : Inside(n, r) BY <1>6 DEF TreeOK
      <3>2. r \in Node BY DEF TypeOK, Fetch
      <3>3. Inside(m, r) BY <2>2, <3>1, <3>2, <1>2, HalvesFollow
      <3> QED BY <3>3
    <2> QED BY <2>1, <2>2, <1>6
  <1>18. fetch'[f].pc = "running" => fetch'[f].roots \subseteq Used(f)'
    BY <1>2, <1>6 DEF TreeOK
  <1>. HIDE DEF Placed, Used, Inside
  <1> QED BY <1>7, <1>8, <1>16, <1>17, <1>18 DEF TreeOK

LEMMA JoinTree ==
  ASSUME TypeOK, NEW f \in Fetches, NEW n \in Node, FetchOK(f), TreeOK(f), Join(f, n)
  PROVE  TreeOK(f)'
  <1> DEFINE halves == {Left(n), Right(n)}
  <1>1. n.from < n.to /\ node[f][n].st = "joining" /\ fetch' = fetch
    BY DEF Join, FetchOK, HalvesOK
  <1>2. Joined(f, n) BY <1>1, JoinMoves
  <1>3. /\ Left(n) \in Node /\ Right(n) \in Node
        /\ Left(n) # n /\ Right(n) # n /\ Left(n) # Right(n)
    BY <1>1, HalvesType
  <1>4. /\ node'[f][n].st = "done"
        /\ \A m \in halves : node'[f][m].st = "none" /\ node[f][m].st = "done"
        /\ \A m \in Node \ {n, Left(n), Right(n)} : node'[f][m] = node[f][m]
    BY <1>2, <1>3, PlainType DEF Joined, Done, Join, TypeOK, States
  <1>5. /\ Under(Left(n), n) /\ Under(Right(n), n)
        /\ \A c \in halves : c.from <= c.to
    BY <1>1, HalvesPlaced
  <1>6. /\ Used(f)' = Used(f) \ halves /\ n \in Used(f)'
        /\ halves \subseteq Used(f) /\ Used(f) \subseteq Node
    BY <1>1, <1>3, <1>4 DEF Used
  <1>7. \A m \in Used(f) : m.from <= m.to BY DEF TreeOK
  <1>8. \A m \in Used(f) : m # n /\ m \notin halves => (Handed(f, m) <=> Handed(f, m)')
    BY <1>4, <1>6 DEF Handed
  <1>9. Handed(f, n) /\ \A c \in halves : ~Handed(f, c) BY <1>1, <1>4 DEF Handed
  <1>10. ASSUME NEW m \in Used(f)', m # n
         PROVE  Apart(m, n) \/ (Under(n, m) /\ Handed(f, m)')
    <2>1. m \in Used(f) /\ m \notin halves /\ m \in Node /\ m.from <= m.to
      BY <1>6, <1>7, <1>10
    <2>2. Placed(f, m, n) /\ \A c \in halves : Placed(f, m, c)
      BY <1>6, <1>10, <2>1 DEF TreeOK
    <2>3. \A c \in halves : Apart(m, c) \/ Under(c, m) BY <1>9, <2>2 DEF Placed
    <2>4. ASSUME Under(m, n) PROVE FALSE
      <3>1. PICK c \in halves : Inside(m, c) BY <2>4 DEF Under
      <3>2. c \in Node /\ c.from <= c.to BY <1>3, <1>5
      <3>3. /\ m.from \in Int /\ m.to \in Int /\ c.from \in Int /\ c.to \in Int
        BY <2>1, <3>2, NodeDays
      <3>4. ~Apart(m, c) BY <3>1, <3>3, <2>1 DEF Apart, Inside
      <3>5. Under(c, m) BY <2>3, <3>4
      <3>6. c.to - c.from < m.to - m.from BY <3>2, <3>5, <2>1, UnderIs
      <3>7. c.from <= m.from /\ m.to <= c.to BY <3>1 DEF Inside
      <3> QED BY <3>3, <3>6, <3>7
    <2>5. Under(n, m) => Handed(f, m)
      <3>1. ASSUME Under(n, m) PROVE ~Apart(m, n)
        <4>1. ~Apart(n, m) BY <3>1, <1>1, <1>6, <1>7, <2>1, UnderIs
        <4> QED BY <4>1 DEF Apart
      <3> QED BY <2>2, <2>4, <3>1 DEF Placed
    <2> QED BY <2>1, <2>2, <2>4, <2>5, <1>8, <1>10 DEF Placed
  <1>11. ASSUME NEW m \in Used(f)', NEW k \in Used(f)', m # k
         PROVE  Placed(f, m, k)'
    <2>1. CASE m # n /\ k # n
      <3>1. Placed(f, m, k) BY <1>6, <1>11 DEF TreeOK
      <3> QED BY <2>1, <3>1, <1>6, <1>8 DEF Placed
    <2>2. CASE m = n
      <3>1. Apart(k, n) \/ (Under(n, k) /\ Handed(f, k)') BY <1>10, <1>11, <2>2
      <3>2. Apart(k, n) => Apart(n, k) BY DEF Apart
      <3> QED BY <2>2, <3>1, <3>2 DEF Placed
    <2>3. CASE k = n
      <3>1. Apart(m, n) \/ (Under(n, m) /\ Handed(f, m)') BY <1>10, <1>11, <2>3
      <3> QED BY <2>3, <3>1 DEF Placed
    <2> QED BY <2>1, <2>2, <2>3
  <1>12. ASSUME NEW m \in Node, node'[f][m].st = "joining"
         PROVE  {Left(m), Right(m)} \subseteq Used(f)'
    <2>1. m # n /\ m \notin halves BY <1>4, <1>12
    <2>2. node[f][m].st = "joining" BY <2>1, <1>4, <1>12
    <2>3. m \in Used(f) /\ {Left(m), Right(m)} \subseteq Used(f) /\ m.from < m.to
      BY <2>2 DEF TreeOK, Used, FetchOK, HalvesOK
    <2>4. Placed(f, m, n) BY <2>1, <2>3, <1>6 DEF TreeOK
    <2>5. {Left(m), Right(m)} \cap halves = {}
      BY <2>3, <2>4, <1>1, HalvesAreOnes DEF Placed
    <2> QED BY <2>3, <2>5, <1>6
  <1>13. \A m \in Used(f)' : \E r \in fetch'[f].roots : Inside(m, r)
    BY <1>1, <1>6 DEF TreeOK
  <1>14. fetch'[f].pc = "running" => fetch'[f].roots \subseteq Used(f)'
    <2>. SUFFICES ASSUME fetch[f].pc = "running", NEW c \in halves, c \in fetch[f].roots
                  PROVE  FALSE
      BY <1>1, <1>6 DEF TreeOK
    <2>1. PICK r \in fetch[f].roots : Inside(n, r) BY <1>6 DEF TreeOK
    <2>2. r \in Node /\ c \in Node /\ r \in Used(f)
      BY <1>3 DEF TypeOK, Fetch, TreeOK
    <2>3. c.only = n.only /\ n.from <= c.from /\ c.to <= n.to
          /\ c.to - c.from < n.to - n.from /\ c.from <= c.to
      BY <1>1, <1>5, <2>2, UnderIs
    <2>4. c = r
      <3>1. c.only = r.only BY <2>1, <2>3 DEF Inside
      <3>2. c # r => \E p, q \in Projects : p # q /\ c.only = {p} /\ r.only = {q}
        BY DEF FetchOK, RootsOK
      <3> QED BY <3>1, <3>2
    <2>5. n.from \in Int /\ n.to \in Int /\ c.from \in Int /\ c.to \in Int
      BY <2>2, NodeDays
    <2> QED BY <2>1, <2>3, <2>4, <2>5 DEF Inside
  <1>15. \A m \in Used(f)' : m.from <= m.to BY <1>6, <1>7
  <1>. HIDE DEF Placed, Used, Inside, Left, Right
  <1> QED BY <1>11, <1>12, <1>13, <1>14, <1>15 DEF TreeOK

LEMMA NodeStepTree ==
  ASSUME IInv, NEW f \in Fetches, NEW n \in Node, TreeOK(f), NodeStep(f, n)
  PROVE  TreeOK(f)'
  <1>1. TypeOK /\ FetchOK(f) BY DEF IInv
  <1>2. /\ fetch'[f].roots = fetch[f].roots /\ fetch'[f].pc = fetch[f].pc
    <2>1. CASE fetch' = fetch BY <2>1
    <2>2. CASE FullDay(f, n)
      BY <1>1, <2>2 DEF FullDay, TypeOK, Fetch
    <2> QED BY <2>1, <2>2
         DEF NodeStep, Acquire, Cached, Reply, ShortPage, Split, CallFails, Join, JoinFails
  <1>3. CASE Single(f, n)
    <2>1. PICK c \in Call : Becomes(f, n, c) /\ Turns(node[f][n].st, c.st)
      BY <1>1, <1>3, SingleWrites
    <2>2. node'[f][n] = c /\ \A m \in Node : m # n => node'[f][m] = node[f][m]
      BY <1>1, <2>1, WriteCall
    <2>3. \A m \in Node : /\ node'[f][m].st = "none" <=> node[f][m].st = "none"
                          /\ node'[f][m].st = "joining" => node[f][m].st = "joining"
                          /\ Handed(f, m) => Handed(f, m)'
      BY <2>1, <2>2 DEF Handed, Turns
    <2> QED BY <1>2, <2>3, SameTreeOK
  <1>4. CASE Split(f, n) BY <1>1, <1>4, SplitTree
  <1>5. CASE Join(f, n) BY <1>1, <1>5, JoinTree
  <1> QED BY <1>3, <1>4, <1>5 DEF NodeStep, Single

LEMMA TreeInit == Init => TreeInv
  <1>. SUFFICES ASSUME Init PROVE TreeInv
    OBVIOUS
  <1>1. IInv BY IInvInit
  <1>2. ASSUME NEW f \in Fetches PROVE TreeOK(f)
    <2>1. fetch[f] = NoFetch /\ \A n \in Node : node[f][n].st = "none"
      BY PlainType DEF Init, States
    <2> QED BY <2>1 DEF NoFetch, TreeOK, Used
  <1> QED BY <1>1, <1>2 DEF TreeInv

LEMMA TreeStays ==
  ASSUME NEW f \in Fetches, TreeOK(f), node'[f] = node[f],
         fetch'[f].roots = fetch[f].roots,
         fetch'[f].pc = "running" => fetch[f].pc = "running"
  PROVE  TreeOK(f)'
  BY SameTreeOK DEF Handed

LEMMA TreeStep == TreeInv /\ [Next]_vars => TreeInv'
  <1>. SUFFICES ASSUME TreeInv, [Next]_vars PROVE TreeInv'
    OBVIOUS
  <1>1. IInv /\ TypeOK /\ \A f \in Fetches : FetchOK(f) /\ TreeOK(f)
    BY DEF TreeInv, IInv
  <1>2. IInv' BY <1>1, IInvStep
  <1>3. SUFFICES ASSUME NEW g \in Fetches PROVE TreeOK(g)'
    BY <1>2 DEF TreeInv
  <1>4. CASE UNCHANGED vars BY <1>1, <1>4, TreeStays DEF vars
  <1>5. ASSUME NEW f \in Fetches, NEW n \in Node, NodeStep(f, n) PROVE TreeOK(g)'
    <2>1. CASE f = g BY <1>1, <1>5, <2>1, NodeStepTree
    <2>2. CASE f # g
      <3>1. node'[g] = node[g] BY <1>1, <1>5, <2>2, NodeStepWrites
      <3>2. fetch'[g] = fetch[g]
        BY <1>1, <1>5, <2>2
        DEF NodeStep, Acquire, Cached, Reply, ShortPage, FullDay, Split, CallFails, Join,
            JoinFails, TypeOK
      <3> QED BY <1>1, <3>1, <3>2, TreeStays
    <2> QED BY <2>1, <2>2
  <1>6. ASSUME NEW f \in Fetches, NEW r \in Requests, Start(f, r) PROVE TreeOK(g)'
    <2>1. CASE f = g BY <1>1, <1>6, <2>1, StartTree
    <2>2. CASE f # g
      <3>1. node'[g] = node[g] /\ fetch'[g] = fetch[g]
        BY <1>1, <1>6, <2>2 DEF Start, TypeOK
      <3> QED BY <1>1, <3>1, TreeStays
    <2> QED BY <2>1, <2>2
  <1>7. ASSUME NEW f \in Fetches, Return(f) \/ Leave(f) PROVE TreeOK(g)'
    <2>1. node' = [node EXCEPT ![f] = [n \in Node |-> NoCall]]
      BY <1>7 DEF Return, Leave
    <2>2. f # g => fetch'[g] = fetch[g]
      BY <1>1, <1>7 DEF Return, Leave, TypeOK
    <2>3. fetch'[f].pc # "running"
      BY <1>1, <1>7 DEF Return, Leave, TypeOK, NoFetch, Fetch
    <2>4. CASE f = g
      <3>1. \A n \in Node : node'[g][n].st = "none"
        BY <1>1, <2>1, <2>4, PlainType DEF TypeOK, States
      <3> QED BY <2>3, <2>4, <3>1, NoTreeOK
    <2>5. CASE f # g
      <3>1. node'[g] = node[g] BY <1>1, <2>1, <2>5 DEF TypeOK
      <3> QED BY <1>1, <2>2, <2>5, <3>1, TreeStays
    <2> QED BY <2>4, <2>5
  <1>8. ASSUME NEW f \in Fetches, Raise(f) PROVE TreeOK(g)'
    <2>1. /\ node' = node /\ fetch'[g].roots = fetch[g].roots
          /\ fetch'[g].pc = "running" => fetch[g].pc = "running"
      BY <1>1, <1>8 DEF Raise, TypeOK, Fetch
    <2> QED BY <1>1, <2>1, TreeStays
  <1>9. ASSUME NEW o \in Operations, NEW parts \in Shapes, Edit(o, parts)
        PROVE  TreeOK(g)'
    BY <1>1, <1>9, TreeStays DEF Edit
  <1>10. ASSUME NEW e \in cache, Forget(e) PROVE TreeOK(g)'
    BY <1>1, <1>10, TreeStays DEF Forget
  <1>11. CASE Tick BY <1>1, <1>11, TreeStays DEF Tick
  <1> QED BY <1>4, <1>5, <1>6, <1>7, <1>8, <1>9, <1>10, <1>11 DEF Next, FetchStep

\* The periods of the calls of a fetch form a tree: a half that is awaited is
\* never read by anyone else, and never forgotten.
THEOREM HalvesFormATree == Spec => []TreeInv
  BY TreeInit, TreeStep, PTL DEF Spec

LEMMA OpenGoesOn ==
  ASSUME TreeInv, NEW f \in Fetches, Open(f) # {}
  PROVE  \E n \in Open(f) : GoesOn(f, n)
  <1>1. TypeOK /\ FetchOK(f) /\ TreeOK(f) BY DEF TreeInv, IInv
  <1>2. CASE Calling(f) # {} BY <1>2 DEF Open, GoesOn
  <1>3. CASE Calling(f) = {} /\ In(f, "waiting") # {}
    <2>1. Cardinality(Calling(f)) = 0 BY <1>3, FS_EmptySet
    <2>2. Cardinality(Calling(f)) < Permits BY <2>1, FetchAssumption
    <2> QED BY <1>3, <2>2 DEF Open, GoesOn
  <1>4. CASE Calling(f) = {} /\ In(f, "waiting") = {}
    <2> DEFINE J == In(f, "joining")
               spans == {n.to - n.from : n \in J}
    <2>1. J # {} /\ J = Open(f) BY <1>4 DEF Open
    <2>2. \A n \in J : n \in Node /\ node[f][n].st = "joining" /\ n.from < n.to
      BY <1>1 DEF In, FetchOK, HalvesOK
    <2>3. spans \subseteq Nat BY <2>2, NodeDays
    <2>4. PICK least \in spans : \A k \in spans : least <= k
      BY <2>1, <2>3, Smallest
    <2>5. PICK n \in J : n.to - n.from = least BY <2>4
    <2>6. /\ Left(n) \in Node /\ Right(n) \in Node
          /\ \A c \in {Left(n), Right(n)} : c.to - c.from < n.to - n.from
      <3>1. n \in Node /\ n.from < n.to BY <2>2
      <3>2. /\ Left(n) \in Node /\ Right(n) \in Node
            /\ Under(Left(n), n) /\ Under(Right(n), n)
            /\ Left(n).from <= Left(n).to /\ Right(n).from <= Right(n).to
        BY <3>1, HalvesType, HalvesPlaced
      <3> QED BY <3>1, <3>2, UnderIs
    <2>. HIDE DEF J
    <2>7. \A c \in {Left(n), Right(n)} : c \notin J
      <3>. SUFFICES ASSUME NEW c \in {Left(n), Right(n)}, c \in J PROVE FALSE
        OBVIOUS
      <3>1. c.to - c.from \in spans OBVIOUS
      <3>2. least <= c.to - c.from BY <2>4, <3>1
      <3>3. c.to - c.from < least BY <2>5, <2>6
      <3>4. least \in Int /\ c.to - c.from \in Int BY <2>3, <3>1
      <3>. HIDE DEF spans
      <3> QED BY <3>2, <3>3, <3>4
    <2>8. \A c \in {Left(n), Right(n)} : node[f][c].st \in {"done", "failed"}
      <3>. SUFFICES ASSUME NEW c \in {Left(n), Right(n)}
                    PROVE  node[f][c].st \in {"done", "failed"}
        OBVIOUS
      <3>1. c \in Node /\ node[f][c].st # "none"
        BY <1>1, <2>2, <2>6 DEF TreeOK, Used
      <3>2. /\ c \notin In(f, "calling") /\ c \notin In(f, "answered")
            /\ c \notin In(f, "waiting") /\ c \notin J
        BY <1>4, <2>7 DEF Calling
      <3>3. node[f][c].st \in States BY <1>1, <3>1, RowType
      <3> QED BY <3>1, <3>2, <3>3 DEF In, States, J
    <2> QED BY <2>1, <2>5, <2>8 DEF GoesOn, J
  <1> QED BY <1>2, <1>3, <1>4

\* The calls of a fetch never wait for each other, however few permits there are
\* and however deep the halving goes.
THEOREM FetchNeverStuck == Spec => []NeverStuck
  <1>1. ASSUME TreeInv, NEW f \in Fetches, fetch[f].pc = "running", Open(f) = {}
        PROVE  \/ \A n \in fetch[f].roots : node[f][n].st = "done"
               \/ \E n \in fetch[f].roots : node[f][n].st = "failed"
    <2>1. TypeOK /\ TreeOK(f) BY <1>1 DEF TreeInv, IInv
    <2>2. ASSUME NEW n \in fetch[f].roots PROVE node[f][n].st \in {"done", "failed"}
      <3>1. n \in Node /\ node[f][n].st # "none" BY <1>1, <2>1 DEF TreeOK, Used
      <3>2. node[f][n].st \in States BY <2>1, <3>1, RowType
      <3> QED BY <1>1, <3>1, <3>2 DEF Open, Calling, In, States
    <2> QED BY <2>2
  <1>2. TreeInv => NeverStuck BY <1>1, OpenGoesOn DEF NeverStuck
  <1> QED BY <1>2, HalvesFormATree, PTL

(***************************************************************************)
(* The steps ahead of a fetch                                              *)
(***************************************************************************)
LEMMA AheadType ==
  ASSUME NEW n \in Node, NEW st, st # "none" => n.from <= n.to
  PROVE  Ahead(st, n) \in 0..(7 * LastDay)
  <1>1. n.from \in 1..LastDay /\ n.to \in 1..LastDay /\ LastDay \in Nat
    BY FetchAssumption DEF Node, Days
  <1>2. st # "none" => Span(n) \in 1..LastDay BY <1>1 DEF Span
  <1>. HIDE DEF Span
  <1>3. CASE st \in {"waiting", "calling", "answered"}
    <2>1. Ahead(st, n) \in {7 * Span(n) - 4, 7 * Span(n) - 5, 7 * Span(n) - 6}
      BY <1>3 DEF Ahead
    <2> QED BY <2>1, <1>1, <1>2, <1>3
  <1>4. CASE st \notin {"waiting", "calling", "answered"}
    <2>1. Ahead(st, n) \in {0, 1} BY <1>4 DEF Ahead
    <2> QED BY <2>1, <1>1
  <1> QED BY <1>3, <1>4

\* A column of h[n] pairs for each call n
Columns(h) == UNION {{n} \X (1..h[n]) : n \in Node}

LEMMA ColumnsAre ==
  ASSUME NEW h
  PROVE  /\ \A n, i : <<n, i>> \in Columns(h) <=> n \in Node /\ i \in 1..h[n]
         /\ \A x \in Columns(h) : \E n \in Node : \E i \in 1..h[n] : x = <<n, i>>
  BY DEF Columns

Heights == [Node -> 0..(7 * LastDay)]

LEMMA ColumnsFinite ==
  ASSUME NEW h \in Heights
  PROVE  /\ IsFiniteSet(Columns(h))
         /\ Columns(h) \subseteq Node \X (1..(7 * LastDay))
  <1>1. Columns(h) \subseteq Node \X (1..(7 * LastDay))
    <2>. SUFFICES ASSUME NEW x \in Columns(h)
                  PROVE  x \in Node \X (1..(7 * LastDay))
      OBVIOUS
    <2>0. PICK n \in Node : \E i \in 1..h[n] : x = <<n, i>>
      BY ColumnsAre
    <2>1. PICK i \in 1..h[n] : x = <<n, i>> BY <2>0
    <2>2. h[n] \in 0..(7 * LastDay) BY DEF Heights
    <2>3. i \in 1..(7 * LastDay) BY <2>1, <2>2, FetchAssumption
    <2> QED BY <2>1, <2>3
  <1>2. 7 * LastDay \in Int BY FetchAssumption
  <1>3. IsFiniteSet(1..(7 * LastDay)) BY <1>2, FS_Interval
  <1>4. IsFiniteSet(Node \X (1..(7 * LastDay))) BY <1>3, NodeFinite, FS_Product
  <1> QED BY <1>1, <1>4, FS_Subset

\* A call with k steps before it contributes k.
LEMMA Column ==
  ASSUME NEW n, NEW k \in Nat
  PROVE  IsFiniteSet({n} \X (1..k)) /\ Cardinality({n} \X (1..k)) = k
  <1>1. IsFiniteSet({n}) /\ Cardinality({n}) = 1 BY FS_Singleton
  <1>2. IsFiniteSet(1..k) /\ Cardinality(1..k) = k BY FS_Interval
  <1>3. /\ IsFiniteSet({n} \X (1..k))
        /\ Cardinality({n} \X (1..k)) = Cardinality({n}) * Cardinality(1..k)
    BY <1>1, <1>2, FS_Product
  <1> QED BY <1>1, <1>2, <1>3

\* A union is no larger than its parts together.
LEMMA UnionAtMost ==
  ASSUME NEW S, NEW T, IsFiniteSet(S), IsFiniteSet(T)
  PROVE  /\ IsFiniteSet(S \cup T)
         /\ Cardinality(S \cup T) <= Cardinality(S) + Cardinality(T)
  <1>1. /\ IsFiniteSet(S \cup T)
        /\ Cardinality(S \cup T) =
             Cardinality(S) + Cardinality(T) - Cardinality(S \cap T)
    BY FS_Union
  <1>2. IsFiniteSet(S \cap T) BY FS_Intersection
  <1>3. /\ Cardinality(S) \in Nat /\ Cardinality(T) \in Nat
        /\ Cardinality(S \cap T) \in Nat
    BY <1>2, FS_CardinalityType
  <1> QED BY <1>1, <1>3

\* Taking a part out of a set takes its size away.
LEMMA WithoutPart ==
  ASSUME NEW S, NEW T, IsFiniteSet(S), T \subseteq S
  PROVE  /\ IsFiniteSet(S \ T) /\ IsFiniteSet(T)
         /\ Cardinality(S \ T) = Cardinality(S) - Cardinality(T)
  <1>1. IsFiniteSet(T) BY FS_Subset
  <1>2. /\ IsFiniteSet(S \ T)
        /\ Cardinality(S \ T) = Cardinality(S) - Cardinality(S \cap T)
    BY FS_Difference
  <1>3. S \cap T = T OBVIOUS
  <1> QED BY <1>1, <1>2, <1>3

\* One column gets shorter, and none longer.
LEMMA Lower ==
  ASSUME NEW h \in Heights, NEW k \in Heights, NEW n \in Node, k[n] < h[n],
         \A m \in Node : m # n => k[m] <= h[m]
  PROVE  Cardinality(Columns(k)) < Cardinality(Columns(h))
  <1>1. \A m \in Node : h[m] \in Nat /\ k[m] \in Nat /\ k[m] <= h[m]
    BY FetchAssumption DEF Heights
  <1>2. Columns(k) \subseteq Columns(h)
    <2>. SUFFICES ASSUME NEW x \in Columns(k) PROVE x \in Columns(h)
      OBVIOUS
    <2>0. PICK m \in Node : \E i \in 1..k[m] : x = <<m, i>>
      BY ColumnsAre
    <2>1. PICK i \in 1..k[m] : x = <<m, i>> BY <2>0
    <2>2. i \in 1..h[m] BY <1>1, <2>1
    <2> QED BY <2>1, <2>2, ColumnsAre
  <1>3. h[n] \in 1..h[n] /\ h[n] \notin 1..k[n] BY <1>1
  <1>4. <<n, h[n]>> \in Columns(h) /\ <<n, h[n]>> \notin Columns(k)
    BY <1>3, ColumnsAre
  <1>5. IsFiniteSet(Columns(h)) /\ IsFiniteSet(Columns(k)) BY ColumnsFinite
  <1>6. /\ Cardinality(Columns(k)) <= Cardinality(Columns(h))
        /\ Cardinality(Columns(k)) # Cardinality(Columns(h))
    BY <1>2, <1>4, <1>5, FS_Subset
  <1>7. Cardinality(Columns(k)) \in Nat /\ Cardinality(Columns(h)) \in Nat
    BY <1>5, FS_CardinalityType
  <1> QED BY <1>6, <1>7

\* One column becomes a single pair, and two new ones are together at least two
\* pairs shorter than it was.
LEMMA Halving ==
  ASSUME NEW h \in Heights, NEW k \in Heights,
         NEW n \in Node, NEW l \in Node, NEW r \in Node,
         k[n] = 1, k[l] + k[r] + 2 <= h[n],
         \A m \in Node \ {n, l, r} : k[m] = h[m]
  PROVE  Cardinality(Columns(k)) < Cardinality(Columns(h))
  <1> DEFINE C(m, j) == {m} \X (1..j)
             rest == Columns(h) \ C(n, h[n])
             one == C(n, 1)
             left == C(l, k[l])
             right == C(r, k[r])
  <1>1. h[n] \in Nat /\ k[l] \in Nat /\ k[r] \in Nat
    BY FetchAssumption DEF Heights
  <1>2. C(n, h[n]) \subseteq Columns(h) BY DEF Columns
  <1>3. /\ IsFiniteSet(C(n, h[n])) /\ Cardinality(C(n, h[n])) = h[n]
        /\ IsFiniteSet(one) /\ Cardinality(one) = 1
        /\ IsFiniteSet(left) /\ Cardinality(left) = k[l]
        /\ IsFiniteSet(right) /\ Cardinality(right) = k[r]
    BY <1>1, Column
  <1>4. Columns(k) \subseteq rest \cup one \cup left \cup right
    <2>. SUFFICES ASSUME NEW x \in Columns(k)
                  PROVE  x \in rest \cup one \cup left \cup right
      OBVIOUS
    <2>0. PICK m \in Node : \E i \in 1..k[m] : x = <<m, i>>
      BY ColumnsAre
    <2>1. PICK i \in 1..k[m] : x = <<m, i>> BY <2>0
    <2>2. CASE m \in {n, l, r} BY <2>1, <2>2
    <2>3. CASE m \notin {n, l, r}
      <3>1. x \in Columns(h) BY <2>1, <2>3, ColumnsAre
      <3>2. x \notin C(n, h[n]) BY <2>1, <2>3
      <3> QED BY <3>1, <3>2
    <2> QED BY <2>2, <2>3
  <1>5. IsFiniteSet(Columns(h)) /\ IsFiniteSet(Columns(k)) BY ColumnsFinite
  <1>6. IsFiniteSet(rest) /\ Cardinality(rest) = Cardinality(Columns(h)) - h[n]
    BY <1>2, <1>3, <1>5, WithoutPart
  <1>. HIDE DEF C, rest, one, left, right
  <1>7. /\ IsFiniteSet(rest \cup one)
        /\ Cardinality(rest \cup one) <= Cardinality(rest) + 1
    BY <1>3, <1>6, UnionAtMost
  <1>8. /\ IsFiniteSet((rest \cup one) \cup left)
        /\ Cardinality((rest \cup one) \cup left) <= Cardinality(rest \cup one) + k[l]
    BY <1>3, <1>7, UnionAtMost
  <1>9. /\ IsFiniteSet(((rest \cup one) \cup left) \cup right)
        /\ Cardinality(((rest \cup one) \cup left) \cup right) <=
             Cardinality((rest \cup one) \cup left) + k[r]
    BY <1>3, <1>8, UnionAtMost
  <1> DEFINE all == ((rest \cup one) \cup left) \cup right
  <1>10. Cardinality(Columns(k)) <= Cardinality(all)
    BY <1>4, <1>9, FS_Subset
  <1>11. /\ Cardinality(Columns(k)) \in Nat /\ Cardinality(all) \in Nat
         /\ Cardinality((rest \cup one) \cup left) \in Nat
         /\ Cardinality(rest \cup one) \in Nat /\ Cardinality(rest) \in Nat
         /\ Cardinality(Columns(h)) \in Nat
    BY <1>5, <1>6, <1>7, <1>8, <1>9, FS_CardinalityType
  <1> DEFINE a == Cardinality(rest)
             b == Cardinality(rest \cup one)
             c == Cardinality((rest \cup one) \cup left)
             d == Cardinality(all)
             after == Cardinality(Columns(k))
             before == Cardinality(Columns(h))
  <1>12. /\ a = before - h[n] /\ b <= a + 1 /\ c <= b + k[l] /\ d <= c + k[r]
         /\ after <= d
         /\ a \in Nat /\ b \in Nat /\ c \in Nat /\ d \in Nat
         /\ after \in Nat /\ before \in Nat
    BY <1>6, <1>7, <1>8, <1>9, <1>10, <1>11
  <1>. HIDE DEF a, b, c, d, after, before
  <1>13. after < before BY <1>1, <1>12
  <1> QED BY <1>13 DEF after, before

\* How high the columns of a fetch are, for its calls c
HeightsOf(c) == [n \in Node |-> Ahead(c[n].st, n)]

LEMMA HeightsType ==
  ASSUME NEW c, \A n \in Node : c[n].st # "none" => n.from <= n.to
  PROVE  HeightsOf(c) \in Heights
  BY AheadType DEF HeightsOf, Heights

LEMMA StepsAreColumns ==
  ASSUME NEW f
  PROVE  /\ StepsAhead(f) = Columns(HeightsOf(node[f]))
         /\ StepsAhead(f)' = Columns(HeightsOf(node'[f]))
  BY DEF StepsAhead, Columns, HeightsOf

\* What a call has before it falls with each of its moves.
LEMMA AheadFalls ==
  ASSUME NEW n \in Node, n.from <= n.to, NEW before, NEW after, Turns(before, after)
  PROVE  Ahead(after, n) < Ahead(before, n)
  <1>1. n.from \in Int /\ n.to \in Int BY NodeDays
  <1>2. Span(n) \in Int /\ Span(n) >= 1 BY <1>1 DEF Span
  <1>. HIDE DEF Span
  <1>3. /\ Ahead("waiting", n) = 7 * Span(n) - 4
        /\ Ahead("calling", n) = 7 * Span(n) - 5
        /\ Ahead("answered", n) = 7 * Span(n) - 6
        /\ Ahead("joining", n) = 1 /\ Ahead("done", n) = 0
        /\ Ahead("failed", n) = 0
    BY DEF Ahead
  <1>. HIDE DEF Ahead
  <1> QED BY <1>2, <1>3 DEF Turns

LEMMA AheadHalves ==
  ASSUME NEW n \in Node, n.from < n.to
  PROVE  /\ Ahead("joining", n) = 1
         /\ Ahead("waiting", Left(n)) + Ahead("waiting", Right(n)) + 2
              <= Ahead("answered", n)
  <1>1. /\ Left(n) \in Node /\ Right(n) \in Node
        /\ Left(n).from = n.from /\ Right(n).to = n.to
        /\ Right(n).from = Left(n).to + 1
    BY HalvesType
  <1>2. n.from \in Int /\ n.to \in Int /\ Left(n).to \in Int BY <1>1, NodeDays
  <1>3. PICK l \in Int : l = Left(n).to BY <1>2
  <1>4. /\ Span(Left(n)) = l - n.from + 1 /\ Span(Right(n)) = n.to - (l + 1) + 1
        /\ Span(n) = n.to - n.from + 1
    BY <1>1, <1>3 DEF Span
  <1>5. Span(Left(n)) + Span(Right(n)) = Span(n)
    BY <1>2, <1>4
  <1>6. Span(Left(n)) \in Int /\ Span(Right(n)) \in Int /\ Span(n) \in Int
    BY <1>2, <1>4
  <1>. HIDE DEF Span, Left, Right
  <1>7. /\ Ahead("waiting", Left(n)) = 7 * Span(Left(n)) - 4
        /\ Ahead("waiting", Right(n)) = 7 * Span(Right(n)) - 4
        /\ Ahead("answered", n) = 7 * Span(n) - 6
        /\ Ahead("joining", n) = 1
    BY DEF Ahead
  <1> QED BY <1>5, <1>6, <1>7

LEMMA NodeStepNearer ==
  ASSUME TypeOK, NEW f \in Fetches, FetchOK(f), TreeOK(f), TreeOK(f)',
         NEW n \in Node, NodeStep(f, n)
  PROVE  Cardinality(StepsAhead(f)') < Cardinality(StepsAhead(f))
  <1>1. PICK h : h = HeightsOf(node[f]) OBVIOUS
  <1>2. PICK k : k = HeightsOf(node'[f]) OBVIOUS
  <1>3. h \in Heights
    <2>1. \A m \in Node : node[f][m].st # "none" => m.from <= m.to
      BY DEF TreeOK, Used
    <2> QED BY <2>1, <1>1, HeightsType
  <1>4. k \in Heights
    <2>1. \A m \in Node : node'[f][m].st # "none" => m.from <= m.to
      BY DEF TreeOK, Used
    <2> QED BY <2>1, <1>2, HeightsType
  <1>5. SUFFICES Cardinality(Columns(k)) < Cardinality(Columns(h))
    BY <1>1, <1>2, StepsAreColumns
  <1>6. \A m \in Node : /\ h[m] = Ahead(node[f][m].st, m)
                        /\ k[m] = Ahead(node'[f][m].st, m)
    BY <1>1, <1>2 DEF HeightsOf
  <1>7. \A m \in Node : h[m] \in Nat
    BY <1>3, FetchAssumption DEF Heights
  <1>8. n.from <= n.to
    <2>1. node[f][n].st # "none"
      BY DEF NodeStep, Acquire, Cached, Reply, ShortPage, Split, FullDay, CallFails, Join,
             JoinFails, Calling, In
    <2> QED BY <2>1 DEF TreeOK, Used
  <1>9. ASSUME \A m \in Node : m # n =>
                 node'[f][m] = node[f][m] \/ node'[f][m].st = "none",
               k[n] < h[n]
        PROVE  Cardinality(Columns(k)) < Cardinality(Columns(h))
    <2>1. ASSUME NEW m \in Node, m # n PROVE k[m] <= h[m]
      <3>1. CASE node'[f][m] = node[f][m] BY <3>1, <1>6, <1>7
      <3>2. CASE node'[f][m].st = "none"
        <4>1. Ahead("none", m) = 0 BY DEF Ahead
        <4> QED BY <3>2, <4>1, <1>6, <1>7
      <3> QED BY <1>9, <2>1, <3>1, <3>2
    <2> QED BY <2>1, <1>3, <1>4, <1>9, Lower
  <1>10. CASE Single(f, n)
    <2>1. PICK c \in Call : Becomes(f, n, c) /\ Turns(node[f][n].st, c.st)
      BY <1>10, SingleWrites
    <2>2. node'[f][n] = c /\ \A m \in Node : m # n => node'[f][m] = node[f][m]
      BY <2>1, WriteCall
    <2>3. k[n] < h[n] BY <1>6, <1>8, <2>1, <2>2, AheadFalls
    <2> QED BY <1>9, <2>2, <2>3
  <1>11. CASE Split(f, n)
    <2>1. Halved(f, n) /\ n.from < n.to /\ node[f][n].st = "answered"
      BY <1>11, SplitMoves DEF Split
    <2>2. /\ Left(n) \in Node /\ Right(n) \in Node
          /\ Left(n) # n /\ Right(n) # n /\ Left(n) # Right(n)
      BY <2>1, HalvesType
    <2>3. /\ node'[f][n].st = "joining"
          /\ node'[f][Left(n)].st = "waiting" /\ node'[f][Right(n)].st = "waiting"
          /\ \A m \in Node \ {n, Left(n), Right(n)} : node'[f][m] = node[f][m]
      BY <2>1, <2>2, PlainType DEF Halved, TypeOK, States
    <2>4. k[n] = 1 /\ k[Left(n)] + k[Right(n)] + 2 <= h[n]
      BY <1>6, <2>1, <2>2, <2>3, AheadHalves
    <2>5. \A m \in Node \ {n, Left(n), Right(n)} : k[m] = h[m] BY <1>6, <2>3
    <2> QED BY <1>3, <1>4, <2>2, <2>4, <2>5, Halving
  <1>12. CASE Join(f, n)
    <2>1. n.from < n.to /\ node[f][n].st = "joining"
      BY <1>12 DEF Join, FetchOK, HalvesOK
    <2>2. Joined(f, n) BY <1>12, <2>1, JoinMoves
    <2>3. /\ Left(n) \in Node /\ Right(n) \in Node
          /\ Left(n) # n /\ Right(n) # n /\ Left(n) # Right(n)
      BY <2>1, HalvesType
    <2>4. /\ node'[f][n].st = "done"
          /\ \A m \in {Left(n), Right(n)} : node'[f][m].st = "none"
          /\ \A m \in Node \ {n, Left(n), Right(n)} : node'[f][m] = node[f][m]
      BY <2>2, <2>3, PlainType DEF Joined, Done, TypeOK, States
    <2>5. k[n] < h[n]
      <3>1. Ahead("done", n) = 0 /\ Ahead("joining", n) = 1 BY DEF Ahead
      <3> QED BY <1>6, <2>1, <2>4, <3>1
    <2> QED BY <1>9, <2>4, <2>5
  <1> QED BY <1>10, <1>11, <1>12 DEF NodeStep, Single

\* Only a step of one of its calls changes the calls of a fetch that neither
\* begins nor ends.
LEMMA OnlyNodeSteps ==
  ASSUME IInv, [Next]_vars, NEW f \in Fetches,
         fetch'[f].pc = fetch[f].pc, node'[f] # node[f]
  PROVE  \E n \in Node : NodeStep(f, n)
  <1>1. TypeOK /\ \A g \in Fetches : FetchOK(g) BY DEF IInv
  <1>2. CASE UNCHANGED vars BY <1>2 DEF vars
  <1>3. ASSUME NEW g \in Fetches, NEW n \in Node, NodeStep(g, n)
        PROVE  \E m \in Node : NodeStep(f, m)
    <2>1. g = f BY <1>1, <1>3, NodeStepWrites
    <2> QED BY <1>3, <2>1
  <1>4. ASSUME NEW g \in Fetches, Return(g) \/ Leave(g) PROVE FALSE
    <2>1. g = f BY <1>1, <1>4 DEF Return, Leave, TypeOK
    <2>2. fetch'[f].pc # fetch[f].pc
      BY <1>1, <1>4, <2>1 DEF Return, Leave, TypeOK, NoFetch, Fetch
    <2> QED BY <2>2
  <1>5. ASSUME NEW g \in Fetches, NEW r \in Requests, Start(g, r) PROVE FALSE
    <2>1. g = f BY <1>1, <1>5 DEF Start, TypeOK
    <2>2. fetch'[f].pc # fetch[f].pc
      BY <1>1, <1>5, <2>1 DEF Start, Begun, TypeOK
    <2> QED BY <2>2
  <1>6. ASSUME NEW g \in Fetches, Raise(g) PROVE FALSE BY <1>6 DEF Raise
  <1>7. ASSUME NEW o \in Operations, NEW parts \in Shapes, Edit(o, parts) PROVE FALSE
    BY <1>7 DEF Edit
  <1>8. ASSUME NEW e \in cache, Forget(e) PROVE FALSE BY <1>8 DEF Forget
  <1>9. CASE Tick BY <1>9 DEF Tick
  <1> QED BY <1>2, <1>3, <1>4, <1>5, <1>6, <1>7, <1>8, <1>9 DEF Next, FetchStep

\* Whatever PlanFact answers, and whatever is edited meanwhile, each step of the
\* calls of a fetch leaves fewer before it.
THEOREM FetchComesNearer == Spec => EachStepIsNearer
  <1>1. ASSUME TreeInv, TreeInv', [Next]_vars
        PROVE  \A f \in Fetches :
                 fetch'[f].pc = fetch[f].pc /\ node'[f] # node[f] =>
                   Cardinality(StepsAhead(f)') < Cardinality(StepsAhead(f))
    <2>. SUFFICES ASSUME NEW f \in Fetches,
                         fetch'[f].pc = fetch[f].pc, node'[f] # node[f]
                  PROVE  Cardinality(StepsAhead(f)') < Cardinality(StepsAhead(f))
      OBVIOUS
    <2>1. PICK n \in Node : NodeStep(f, n) BY <1>1, OnlyNodeSteps DEF TreeInv
    <2>2. TypeOK /\ FetchOK(f) /\ TreeOK(f) /\ TreeOK(f)'
      BY <1>1 DEF TreeInv, IInv
    <2> QED BY <2>1, <2>2, NodeStepNearer
  <1>2. [][Next]_vars /\ []TreeInv => EachStepIsNearer
    BY <1>1, PTL DEF EachStepIsNearer
  <1> QED BY <1>2, HalvesFormATree, PTL DEF Spec

\* No fetch ever has more steps before it than seven for each day of each project.
StepsBound     == Cardinality(Filters) * (7 * LastDay)
StepsAreFinite ==
  \A f \in Fetches : /\ Cardinality(StepsAhead(f)) \in Nat
                     /\ Cardinality(StepsAhead(f)) <= StepsBound

LEMMA FiltersFinite == IsFiniteSet(Filters) /\ StepsBound \in Nat
  <1>1. IsFiniteSet(SUBSET Projects) BY FetchAssumption, FS_SUBSET
  <1>2. Filters \in SUBSET (SUBSET Projects) BY DEF Filters
  <1>3. IsFiniteSet(Filters) BY <1>1, <1>2, FS_Subset
  <1>4. Cardinality(Filters) \in Nat BY <1>3, FS_CardinalityType
  <1> QED BY <1>3, <1>4, FetchAssumption DEF StepsBound

\* The roots of a fetch differ in their projects only.
LEMMA StartSteps ==
  ASSUME IInv, NEW f \in Fetches, NEW r \in Requests, Start(f, r), TreeOK(f)'
  PROVE  Cardinality(StepsAhead(f)') <= StepsBound
  <1> DEFINE top == 1..(7 * LastDay)
             row == [n \in Node |-> IF n \in Roots(r) THEN Plain("waiting") ELSE NoCall]
             only == [x \in Roots(r) \X top |-> <<x[1].only, x[2]>>]
  <1>1. node'[f] = row
    <2>1. node' = [node EXCEPT ![f] = row] BY DEF Start
    <2> QED BY <2>1 DEF IInv, TypeOK
  <1>2. PICK k : k = HeightsOf(node'[f]) OBVIOUS
  <1>3. k \in Heights
    <2>1. \A m \in Node : node'[f][m].st # "none" => m.from <= m.to
      BY DEF TreeOK, Used
    <2> QED BY <2>1, <1>2, HeightsType
  <1>4. \A n \in Node : n \notin Roots(r) => k[n] = 0
    <2>1. \A n \in Node : n \notin Roots(r) => node'[f][n].st = "none"
      BY <1>1, PlainType DEF States
    <2>2. \A n \in Node : k[n] = Ahead(node'[f][n].st, n) BY <1>2 DEF HeightsOf
    <2> QED BY <2>1, <2>2 DEF Ahead
  <1>5. Columns(k) \subseteq Roots(r) \X top
    <2>. SUFFICES ASSUME NEW x \in Columns(k) PROVE x \in Roots(r) \X top
      OBVIOUS
    <2>0. PICK m \in Node : \E i \in 1..k[m] : x = <<m, i>> BY ColumnsAre
    <2>1. PICK i \in 1..k[m] : x = <<m, i>> BY <2>0
    <2>2. m \in Roots(r) BY <2>1, <1>4
    <2>3. x \in Node \X top BY <1>3, ColumnsFinite
    <2> QED BY <2>1, <2>2, <2>3
  <1>6. IsFiniteSet(top) /\ Cardinality(top) = 7 * LastDay
    <2>1. 7 * LastDay \in Nat BY FetchAssumption
    <2> QED BY <2>1, FS_Interval
  <1>. HIDE DEF top
  <1>7. only \in Injection(Roots(r) \X top, Filters \X top)
    <2>1. \A n \in Roots(r) : n.only \in Filters BY RootsType DEF Node
    <2>2. \A m, n \in Roots(r) : m.only = n.only => m = n BY RootsType
    <2>3. only \in [Roots(r) \X top -> Filters \X top] BY <2>1
    <2>4. \A x, y \in Roots(r) \X top : only[x] = only[y] => x = y BY <2>2
    <2>. HIDE DEF only
    <2> QED BY <2>3, <2>4 DEF Injection, IsInjective
  <1>8. /\ IsFiniteSet(Filters \X top)
        /\ Cardinality(Filters \X top) = StepsBound
    BY <1>6, FiltersFinite, FS_Product DEF StepsBound
  <1>9. /\ IsFiniteSet(Roots(r) \X top)
        /\ Cardinality(Roots(r) \X top) <= StepsBound
    BY <1>7, <1>8, FS_Injection
  <1>10. Cardinality(Columns(k)) <= Cardinality(Roots(r) \X top)
    BY <1>5, <1>9, FS_Subset
  <1>11. IsFiniteSet(Columns(k)) BY <1>3, ColumnsFinite
  <1>12. /\ Cardinality(Columns(k)) \in Nat /\ Cardinality(Roots(r) \X top) \in Nat
         /\ StepsBound \in Nat
    BY <1>9, <1>11, FS_CardinalityType, FiltersFinite
  <1>13. Cardinality(Columns(k)) <= StepsBound BY <1>9, <1>10, <1>12
  <1> QED BY <1>2, <1>13, StepsAreColumns

LEMMA NoSteps ==
  ASSUME NEW c, \A n \in Node : c[n].st = "none"
  PROVE  Columns(HeightsOf(c)) = {}
  <1>1. \A n \in Node : HeightsOf(c)[n] = 0 BY DEF HeightsOf, Ahead
  <1> QED BY <1>1, ColumnsAre

LEMMA StepsType ==
  ASSUME NEW c, \A n \in Node : c[n].st # "none" => n.from <= n.to
  PROVE  Cardinality(Columns(HeightsOf(c))) \in Nat
  BY HeightsType, ColumnsFinite, FS_CardinalityType

\* A fetch has at most seven steps before it for each day of each project it may
\* read, and every one it takes leaves fewer: it ends after as many steps.
THEOREM FetchIsShort == Spec => []StepsAreFinite
  <1>1. ASSUME TreeInv PROVE \A f \in Fetches : Cardinality(StepsAhead(f)) \in Nat
    <2>. SUFFICES ASSUME NEW f \in Fetches PROVE Cardinality(StepsAhead(f)) \in Nat
      OBVIOUS
    <2>1. \A n \in Node : node[f][n].st # "none" => n.from <= n.to
      BY <1>1 DEF TreeInv, TreeOK, Used
    <2> QED BY <2>1, StepsType, StepsAreColumns
  <1>2. ASSUME Init PROVE StepsAreFinite
    <2>. SUFFICES ASSUME NEW f \in Fetches
                  PROVE  /\ Cardinality(StepsAhead(f)) \in Nat
                         /\ Cardinality(StepsAhead(f)) <= StepsBound
      BY DEF StepsAreFinite
    <2>1. \A n \in Node : node[f][n].st = "none"
      BY <1>2, PlainType DEF Init, States
    <2>2. StepsAhead(f) = {} BY <2>1, NoSteps, StepsAreColumns
    <2>3. Cardinality(StepsAhead(f)) = 0 BY <2>2, FS_EmptySet
    <2> QED BY <2>3, FiltersFinite
  <1>3. ASSUME StepsAreFinite, TreeInv, TreeInv', [Next]_vars, NEW f \in Fetches
        PROVE  Cardinality(StepsAhead(f)') <= StepsBound
    <2>1. IInv /\ TypeOK /\ TypeOK' /\ TreeOK(f) /\ TreeOK(f)' /\ FetchOK(f)
      BY <1>3 DEF TreeInv, IInv
    <2>2. Cardinality(StepsAhead(f)) <= StepsBound BY <1>3 DEF StepsAreFinite
    <2>3. CASE node'[f] = node[f] BY <2>2, <2>3, StepsAreColumns
    <2>4. ASSUME NEW n \in Node, NodeStep(f, n)
          PROVE  Cardinality(StepsAhead(f)') <= StepsBound
      <3>1. Cardinality(StepsAhead(f)') < Cardinality(StepsAhead(f))
        BY <2>1, <2>4, NodeStepNearer
      <3>2. Cardinality(StepsAhead(f)') \in Nat
        <4>1. \A m \in Node : node'[f][m].st # "none" => m.from <= m.to
          BY <2>1 DEF TreeOK, Used
        <4> QED BY <4>1, StepsType, StepsAreColumns
      <3>3. Cardinality(StepsAhead(f)) \in Nat BY <1>3 DEF StepsAreFinite
      <3> QED BY <2>2, <3>1, <3>2, <3>3, FiltersFinite
    <2>5. ASSUME NEW r \in Requests, Start(f, r)
          PROVE  Cardinality(StepsAhead(f)') <= StepsBound
      BY <2>1, <2>5, StartSteps
    <2>6. CASE node' = [node EXCEPT ![f] = [n \in Node |-> NoCall]]
      <3>1. \A n \in Node : node'[f][n].st = "none"
        BY <2>1, <2>6, PlainType DEF TypeOK, States
      <3>2. StepsAhead(f)' = {} BY <3>1, NoSteps, StepsAreColumns
      <3>3. Cardinality(StepsAhead(f)') = 0 BY <3>2, FS_EmptySet
      <3> QED BY <3>3, FiltersFinite
    <2>7. \/ node'[f] = node[f]
          \/ \E n \in Node : NodeStep(f, n)
          \/ \E r \in Requests : Start(f, r)
          \/ node' = [node EXCEPT ![f] = [n \in Node |-> NoCall]]
      <3>1. CASE UNCHANGED vars BY <3>1 DEF vars
      <3>2. ASSUME NEW g \in Fetches, NEW n \in Node, NodeStep(g, n)
            PROVE  node'[f] = node[f] \/ \E m \in Node : NodeStep(f, m)
        <4>1. CASE g = f BY <3>2, <4>1
        <4>2. CASE g # f
          <5>1. FetchOK(g) BY <2>1 DEF IInv
          <5> QED BY <2>1, <3>2, <4>2, <5>1, NodeStepWrites
        <4> QED BY <4>1, <4>2
      <3>3. ASSUME NEW g \in Fetches, Return(g) \/ Leave(g)
            PROVE  \/ node'[f] = node[f]
                   \/ node' = [node EXCEPT ![f] = [n \in Node |-> NoCall]]
        BY <2>1, <3>3 DEF Return, Leave, TypeOK
      <3>4. ASSUME NEW g \in Fetches, NEW r \in Requests, Start(g, r)
            PROVE  node'[f] = node[f] \/ \E q \in Requests : Start(f, q)
        BY <2>1, <3>4 DEF Start, TypeOK
      <3>5. ASSUME NEW g \in Fetches, Raise(g) PROVE node'[f] = node[f]
        BY <3>5 DEF Raise
      <3>6. ASSUME NEW o \in Operations, NEW parts \in Shapes, Edit(o, parts)
            PROVE  node'[f] = node[f]
        BY <3>6 DEF Edit
      <3>7. ASSUME NEW e \in cache, Forget(e) PROVE node'[f] = node[f]
        BY <3>7 DEF Forget
      <3>8. CASE Tick BY <3>8 DEF Tick
      <3> QED BY <1>3, <3>1, <3>2, <3>3, <3>4, <3>5, <3>6, <3>7, <3>8 DEF Next, FetchStep
    <2> QED BY <2>3, <2>4, <2>5, <2>6, <2>7
  <1>4. ASSUME StepsAreFinite, TreeInv, TreeInv', [Next]_vars
        PROVE  StepsAreFinite'
    <2>1. \A f \in Fetches : Cardinality(StepsAhead(f)') \in Nat
      <3>. SUFFICES ASSUME NEW f \in Fetches PROVE Cardinality(StepsAhead(f)') \in Nat
        OBVIOUS
      <3>1. \A n \in Node : node'[f][n].st # "none" => n.from <= n.to
        BY <1>4 DEF TreeInv, TreeOK, Used
      <3> QED BY <3>1, StepsType, StepsAreColumns
    <2>2. \A f \in Fetches : Cardinality(StepsAhead(f)') <= StepsBound
      BY <1>3, <1>4
    <2> QED BY <2>1, <2>2 DEF StepsAreFinite, StepsBound
  <1>5. Init /\ [][Next]_vars /\ []TreeInv => []StepsAreFinite
    BY <1>2, <1>4, PTL
  <1> QED BY <1>5, HalvesFormATree, PTL DEF Spec
=============================================================================
