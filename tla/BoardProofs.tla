---------------------------- MODULE BoardProofs ----------------------------
(***************************************************************************)
(* Proofs about Board for any number of requests, tenants, selections and  *)
(* connections: type correctness, that a waiting request holds no          *)
(* connection, that a lock is held exactly by a build, and what the        *)
(* cleanup leaves in the cache.                                            *)
(***************************************************************************)
EXTENDS Board, FiniteSetTheorems, FunctionTheorems, TLAPS

(***************************************************************************)
(* The invariant of the locks: past the lookup a request has its cache     *)
(* key, past the lock's table it has its lock.                             *)
(***************************************************************************)
HasKey  == \A r \in Requests : pc[r] \in Building \cup {"token", "queue"} => key[r] \in CacheKeys
HasLock == \A r \in Requests : pc[r] \in Building \cup {"queue"} => lock[r] \in Requests

LInv == TypeOK /\ HasKey /\ HasLock /\ LocksAreHeldByBuilds

LEMMA InitLInv == Init => LInv
  BY BoardAssumption DEF Init, LInv, TypeOK, HasKey, HasLock, LocksAreHeldByBuilds,
       Pcs, Building, Hours

(* The steps that do not touch the locks move a request along, or end it.   *)
Moves(r, p) ==
  /\ pc' = [pc EXCEPT ![r] = p] /\ p \in Pcs
  /\ pc[r] \in Building <=> p \in Building
  /\ key' \in [Requests -> CacheKeys \cup {None}]
  /\ \A q \in Requests : q # r => key'[q] = key[q]
  /\ p \in Building \cup {"token"} => key'[r] \in CacheKeys
  /\ \A q \in Requests : (q # r \/ p \in Building) => lock'[q] = lock[q]
  /\ p # "queue" /\ lock' \in [Requests -> Requests \cup {None}]
  /\ UNCHANGED lockVars

LEMMA ConnectTyped ==
  ASSUME TypeOK, NEW r \in Requests, Connect(r)
  PROVE  holder' \in [Conns -> Requests \cup {None}]
  BY DEF TypeOK, Connect, Free

LEMMA ReleaseTyped ==
  ASSUME TypeOK, NEW r \in Requests, Release(r)
  PROVE  holder' \in [Conns -> Requests \cup {None}]
  BY DEF TypeOK, Release

LEMMA MovesKeeps ==
  ASSUME LInv, NEW r \in Requests, NEW p, Moves(r, p),
         hour' \in Hours, holder' \in [Conns -> Requests \cup {None}], UNCHANGED cacheVars
  PROVE  LInv'
<1>1. TypeOK'
  BY DEF LInv, TypeOK, Moves, lockVars, cacheVars
<1>2. HasKey' /\ HasLock'
  BY DEF LInv, TypeOK, HasKey, HasLock, Moves, lockVars, Building
<1>3. LocksAreHeldByBuilds'
  BY DEF LInv, TypeOK, LocksAreHeldByBuilds, HasLock, Moves, lockVars
<1> QED  BY <1>1, <1>2, <1>3 DEF LInv

(* The request gets lock l, which is free, or finds the payload.           *)
LEMMA EnterKeeps ==
  ASSUME LInv, NEW r \in Requests, NEW l \in Requests,
         pc[r] \in {"token", "queue"}, owner[l] = None, Enter(r, l),
         holder' \in [Conns -> Requests \cup {None}],
         table' \in [CacheKeys -> Requests \cup {None}],
         waiters' \in [Requests -> Seq(Requests)],
         UNCHANGED <<hour, cacheVars>>
  PROVE  LInv'
<1>1. CASE key[r] \in fresh
  <2>1. End(r, "answered") /\ owner' = owner
    BY <1>1 DEF Enter
  <2>2. TypeOK'
    BY <2>1 DEF LInv, TypeOK, End, Goto, Pcs, cacheVars
  <2>3. HasKey' /\ HasLock' /\ LocksAreHeldByBuilds'
    BY <2>1 DEF LInv, TypeOK, HasKey, HasLock, LocksAreHeldByBuilds, End, Goto, Building
  <2> QED  BY <2>2, <2>3 DEF LInv
<1>2. CASE key[r] \notin fresh
  <2>1. /\ pc' = [pc EXCEPT ![r] = "read"] /\ lock' = [lock EXCEPT ![r] = l]
        /\ owner' = [owner EXCEPT ![l] = r] /\ key' = key
    BY <1>2 DEF Enter, Goto
  <2>2. TypeOK'
    BY <2>1 DEF LInv, TypeOK, Pcs, Building, cacheVars
  <2>3. HasKey' /\ HasLock'
    BY <2>1 DEF LInv, TypeOK, HasKey, HasLock, Building
  <2>4. LocksAreHeldByBuilds'
    BY <2>1, BoardAssumption DEF LInv, TypeOK, HasLock, LocksAreHeldByBuilds, Building
  <2> QED  BY <2>2, <2>3, <2>4 DEF LInv
<1> QED  BY <1>1, <1>2

(* A build ends, well or not, and releases its lock.                       *)
LEMMA EndOfBuildKeeps ==
  ASSUME LInv, NEW r \in Requests, NEW p \in {"answered", "failed"}, pc[r] \in Building,
         End(r, p), owner' = [owner EXCEPT ![lock[r]] = None],
         holder' \in [Conns -> Requests \cup {None}],
         table' \in [CacheKeys -> Requests \cup {None}],
         stored' \in [CacheKeys -> Nat], clock' \in Nat, fresh' \subseteq CacheKeys,
         UNCHANGED <<hour, waiters>>
  PROVE  LInv'
<1>1. lock[r] \in Requests /\ owner[lock[r]] = r
  BY DEF LInv, HasLock, LocksAreHeldByBuilds
<1>2. TypeOK'
  BY <1>1 DEF LInv, TypeOK, End, Goto, Pcs
<1>3. HasKey' /\ HasLock'
  BY DEF LInv, TypeOK, HasKey, HasLock, End, Goto, Building
<1>4. LocksAreHeldByBuilds'
  BY <1>1, BoardAssumption DEF LInv, TypeOK, HasLock, LocksAreHeldByBuilds, End, Goto, Building
<1> QED  BY <1>2, <1>3, <1>4 DEF LInv

LEMMA StepLInv == LInv /\ [Next]_vars => LInv'
<1> SUFFICES ASSUME LInv, [Next]_vars PROVE LInv'
  OBVIOUS
<1>1. TypeOK
  BY DEF LInv
<1>2. ASSUME NEW r \in Requests, Step(r) PROVE LInv'
  <2>1. CASE Arrive(r)
    <3>1. PICK p \in {"auth", "lookup"} : Goto(r, p)
      BY <2>1 DEF Arrive
    <3>2. Moves(r, p)
      BY <1>1, <2>1, <3>1 DEF Arrive, Moves, Goto, Pcs, Building, TypeOK
    <3> QED  BY <1>1, <2>1, <3>2, MovesKeeps, ConnectTyped DEF Arrive, TypeOK
  <2>2. CASE ArriveFails(r)
    <3>1. Moves(r, "failed")
      BY <1>1, <2>2 DEF ArriveFails, Moves, Goto, Pcs, Building, TypeOK
    <3> QED  BY <1>1, <2>2, <3>1, MovesKeeps DEF ArriveFails, TypeOK
  <2>3. CASE TouchBegins(r)
    <3>1. Moves(r, "touch")
      BY <1>1, <2>3 DEF TouchBegins, Moves, Goto, Pcs, Building, TypeOK
    <3> QED  BY <1>1, <2>3, <3>1, MovesKeeps, ConnectTyped DEF TouchBegins, TypeOK
  <2>4. CASE Touch(r)
    <3>1. Moves(r, "lookup")
      BY <1>1, <2>4 DEF Touch, Moves, Goto, Pcs, Building, TypeOK
    <3>2. holder' \in [Conns -> Requests \cup {None}]
      BY <1>1, <2>4 DEF Touch, Held, TypeOK
    <3> QED  BY <1>1, <2>4, <3>1, <3>2, MovesKeeps DEF Touch, TypeOK
  <2>5. CASE TouchFails(r)
    <3>1. Moves(r, "lookup")
      BY <1>1, <2>5 DEF TouchFails, Moves, Goto, Pcs, Building, TypeOK
    <3> QED  BY <1>1, <2>5, <3>1, MovesKeeps DEF TouchFails, TypeOK
  <2>6. CASE Lookup(r)
    <3>1. PICK k \in CacheKeys :
            IF k \in fresh
            THEN Goto(r, "answered") /\ Release(r) /\ UNCHANGED key
            ELSE Goto(r, "token") /\ key' = [key EXCEPT ![r] = k] /\ UNCHANGED holder
      BY <2>6 DEF Lookup
    <3>2. CASE k \in fresh
      <4>1. Moves(r, "answered")
        BY <1>1, <2>6, <3>1, <3>2 DEF Lookup, Moves, Goto, Pcs, Building, TypeOK
      <4> QED  BY <1>1, <2>6, <3>1, <3>2, <4>1, MovesKeeps, ReleaseTyped DEF Lookup, TypeOK
    <3>3. CASE k \notin fresh
      <4>1. Moves(r, "token")
        BY <1>1, <2>6, <3>1, <3>3 DEF Lookup, Moves, Goto, Pcs, Building, TypeOK
      <4> QED  BY <1>1, <2>6, <3>1, <3>3, <4>1, MovesKeeps DEF Lookup, TypeOK
    <3> QED  BY <3>2, <3>3
  <2>7. CASE NoToken(r)
    <3>1. Moves(r, "failed")
      BY <1>1, <2>7 DEF NoToken, Moves, End, Goto, Pcs, Building, TypeOK
    <3> QED  BY <1>1, <2>7, <3>1, MovesKeeps, ReleaseTyped DEF NoToken, TypeOK
  <2>8. CASE Join(r)
    <3> DEFINE l == IF table[key[r]] = None THEN r ELSE table[key[r]]
    <3>1. key[r] \in CacheKeys /\ l \in Requests
      BY <1>1, <2>8 DEF Join, LInv, HasKey, TypeOK
    <3>2. table' = [table EXCEPT ![key[r]] = l] /\ table' \in [CacheKeys -> Requests \cup {None}]
      BY <1>1, <2>8, <3>1 DEF Join, TypeOK
    <3>3. CASE owner[l] = None /\ waiters[l] = <<>>
      <4>1. Enter(r, l) /\ waiters' = waiters
        BY <2>8, <3>3 DEF Join
      <4> HIDE DEF l
      <4> QED  BY <1>1, <2>8, <3>1, <3>2, <3>3, <4>1, EnterKeeps, ReleaseTyped DEF Join, TypeOK
    <3>4. CASE ~(owner[l] = None /\ waiters[l] = <<>>)
      <4>1. /\ waiters' = [waiters EXCEPT ![l] = Append(@, r)]
            /\ lock' = [lock EXCEPT ![r] = l]
            /\ pc' = [pc EXCEPT ![r] = "queue"]
            /\ key' = key /\ owner' = owner
        BY <2>8, <3>4 DEF Join, Goto
      <4> HIDE DEF l
      <4>2. waiters' \in [Requests -> Seq(Requests)]
        BY <1>1, <3>1, <4>1 DEF TypeOK
      <4>3. TypeOK'
        BY <1>1, <2>8, <3>1, <3>2, <4>1, <4>2, ReleaseTyped DEF Join, TypeOK, Pcs, cacheVars
      <4>4. HasKey' /\ HasLock'
        BY <1>1, <2>8, <3>1, <4>1 DEF Join, LInv, HasKey, HasLock, TypeOK, Building
      <4>5. LocksAreHeldByBuilds'
        BY <1>1, <2>8, <3>1, <4>1, BoardAssumption
           DEF Join, LInv, HasLock, LocksAreHeldByBuilds, TypeOK, Building
      <4> QED  BY <4>3, <4>4, <4>5 DEF LInv
    <3> QED  BY <3>3, <3>4
  <2>9. CASE Resume(r)
    <3>1. lock[r] \in Requests
      BY <2>9 DEF Resume, LInv, HasLock
    <3>2. waiters' \in [Requests -> Seq(Requests)]
      BY <1>1, <2>9, <3>1 DEF Resume, TypeOK
    <3> QED  BY <1>1, <2>9, <3>1, <3>2, EnterKeeps DEF Resume, TypeOK
  <2>10. CASE ReadCaches(r)
    <3>1. Moves(r, "names")
      BY <1>1, <2>10 DEF ReadCaches, Moves, Goto, Pcs, Building, LInv, HasKey, TypeOK
    <3> QED  BY <1>1, <2>10, <3>1, MovesKeeps, ConnectTyped DEF ReadCaches, TypeOK
  <2>11. CASE Gather(r)
    <3>1. Moves(r, "gather")
      BY <1>1, <2>11 DEF Gather, Moves, Goto, Pcs, Building, LInv, HasKey, TypeOK
    <3> QED  BY <1>1, <2>11, <3>1, MovesKeeps, ReleaseTyped DEF Gather, TypeOK
  <2>12. CASE Merge(r)
    <3>1. Moves(r, "last_year")
      BY <1>1, <2>12 DEF Merge, Moves, Goto, Pcs, Building, LInv, HasKey, TypeOK
    <3> QED  BY <1>1, <2>12, <3>1, MovesKeeps, ConnectTyped DEF Merge, TypeOK
  <2>13. CASE BuildFails(r)
    <3>1. stored' = stored /\ clock' = clock /\ fresh' = fresh
      BY <2>13 DEF BuildFails, cacheVars
    <3> QED  BY <1>1, <2>13, <3>1, EndOfBuildKeeps, ReleaseTyped DEF BuildFails, TypeOK
  <2>14. CASE Store(r)
    <3>1. key[r] \in CacheKeys
      BY <2>14 DEF Store, LInv, HasKey, Building
    <3>2. /\ clock' \in Nat /\ stored' \in [CacheKeys -> Nat] /\ fresh' \subseteq CacheKeys
          /\ table' \in [CacheKeys -> Requests \cup {None}]
      BY <1>1, <2>14, <3>1 DEF Store, Cleaned, TypeOK
    <3> QED  BY <1>1, <2>14, <3>2, EndOfBuildKeeps, ReleaseTyped DEF Store, Building
  <2>15. CASE NothingSelected(r)
    <3>1. Moves(r, "answered")
      BY <1>1, <2>15 DEF NothingSelected, Moves, End, Goto, Pcs, Building, TypeOK
    <3> QED  BY <1>1, <2>15, <3>1, MovesKeeps, ReleaseTyped DEF NothingSelected, TypeOK
  <2> QED  BY <1>2, <2>1, <2>2, <2>3, <2>4, <2>5, <2>6, <2>7, <2>8, <2>9, <2>10, <2>11,
              <2>12, <2>13, <2>14, <2>15 DEF Step
<1>3. CASE HourPasses
  BY <1>3, BoardAssumption DEF HourPasses, LInv, TypeOK, HasKey, HasLock, LocksAreHeldByBuilds,
       reqVars, cacheVars, lockVars, Hours
<1>4. ASSUME NEW k \in CacheKeys, Expire(k) PROVE LInv'
  BY <1>4 DEF Expire, LInv, TypeOK, HasKey, HasLock, LocksAreHeldByBuilds, reqVars, lockVars
<1>5. CASE Stop \/ UNCHANGED vars
  BY <1>5 DEF Stop, vars, LInv, TypeOK, HasKey, HasLock, LocksAreHeldByBuilds,
       reqVars, cacheVars, lockVars
<1> QED  BY <1>2, <1>3, <1>4, <1>5 DEF Next

LEMMA LInvHolds == Spec => []LInv
  BY InitLInv, StepLInv, PTL DEF Spec

\* Every variable of the board keeps its type (_BOARD_CACHE, _BOARD_LOCKS, the
\* sessions), for any number of requests, tenants and selections.
THEOREM TypeCorrect == Spec => []TypeOK
<1>1. LInv => TypeOK
  BY DEF LInv
<1> QED  BY <1>1, LInvHolds, PTL

\* A lock is held exactly by the request that builds under it: no failure of a
\* build leaves a lock behind, and no lock has two builds (`async with lock`).
THEOREM LocksHaveBuilds == Spec => []LocksAreHeldByBuilds
<1>1. LInv => LocksAreHeldByBuilds
  BY DEF LInv
<1> QED  BY <1>1, LInvHolds, PTL

(***************************************************************************)
(* Connections.                                                            *)
(***************************************************************************)
LEMMA StepWaiters == LInv /\ WaitersHoldNoConnection /\ [Next]_vars => WaitersHoldNoConnection'
<1> SUFFICES ASSUME LInv, WaitersHoldNoConnection, [Next]_vars
             PROVE  WaitersHoldNoConnection'
  OBVIOUS
<1>1. TypeOK
  BY DEF LInv
<1>2. ASSUME NEW r \in Requests, Step(r) PROVE WaitersHoldNoConnection'
  \* Only the request that makes the step changes place or takes a connection.
  <2>1. \A q \in Requests : q # r => pc'[q] = pc[q]
    BY <1>1, <1>2 DEF TypeOK, Step, Arrive, ArriveFails, TouchBegins, Touch, TouchFails, Lookup,
         NothingSelected, NoToken, Join, Resume, Enter, ReadCaches, Gather, Merge, BuildFails, Store, Goto, End
  <2>2. \A c \in Conns, q \in Requests : q # r /\ holder'[c] = q => holder[c] = q
    BY <1>1, <1>2, BoardAssumption
       DEF TypeOK, Step, Arrive, ArriveFails, TouchBegins, Touch, TouchFails, Lookup,
         NothingSelected, NoToken, Join, Resume, ReadCaches, Gather, Merge, BuildFails, Store, Connect, Release,
         Held, Free
  <2>3. pc'[r] = "queue" => Join(r)
    BY <1>1, <1>2 DEF TypeOK, Step, Arrive, ArriveFails, TouchBegins, Touch, TouchFails, Lookup,
         NothingSelected, NoToken, Resume, Enter, ReadCaches, Gather, Merge, BuildFails, Store, Goto, End
  <2>4. Join(r) => \A c \in Conns : holder'[c] # r
    BY BoardAssumption DEF Join, Release
  <2> QED  BY <2>1, <2>2, <2>3, <2>4 DEF WaitersHoldNoConnection, Held
<1>3. CASE UNCHANGED <<pc, holder>>
  BY <1>3 DEF WaitersHoldNoConnection, Held
<1>4. CASE HourPasses \/ (\E k \in CacheKeys : Expire(k)) \/ Stop \/ UNCHANGED vars
  BY <1>3, <1>4 DEF HourPasses, Expire, Stop, vars, reqVars
<1> QED  BY <1>2, <1>4 DEF Next

\* A request that waits for another's build holds no connection of the pool
\* (the commit before `async with lock`).
THEOREM WaitersAreLight == Spec => []WaitersHoldNoConnection
<1>1. Init => WaitersHoldNoConnection
  BY DEF Init, WaitersHoldNoConnection
<1> QED  BY <1>1, StepWaiters, LInvHolds, PTL DEF Spec

(***************************************************************************)
(* The cache.  Entries have distinct times, so the number of newer entries *)
(* numbers the entries of an hour, and the cleanup leaves those numbered   *)
(* 0 .. Cap - 1.                                                           *)
(***************************************************************************)
TimesDiffer(s) == \A c, d \in CacheKeys : s[c] # 0 /\ s[c] = s[d] => c = d

CInv == (\A c \in CacheKeys : stored[c] <= clock) /\ TimesDiffer(stored) /\ CacheIsBounded

\* One hour of one tenant has at most one entry for each selection.
LEMMA HourIsFinite ==
  ASSUME NEW k \in CacheKeys
  PROVE  IsFiniteSet(SameHour(k))
<1> DEFINE f == [c \in SameHour(k) |-> c.filter]
<1>1. f \in [SameHour(k) -> Filters]
  BY DEF SameHour, CacheKeys
<1>2. ASSUME NEW c \in SameHour(k), NEW d \in SameHour(k), c.filter = d.filter
      PROVE  c = d
  BY <1>2 DEF SameHour, CacheKeys
<1>3. f \in Injection(SameHour(k), Filters)
  BY <1>1, <1>2 DEF Injection, IsInjective
<1> QED  BY <1>3, FS_Injection, BoardAssumption

LEMMA NewerIsFinite ==
  ASSUME NEW s, NEW k \in CacheKeys
  PROVE  IsFiniteSet(Newer(s, k)) /\ Cardinality(Newer(s, k)) \in Nat
<1>1. Newer(s, k) \in SUBSET SameHour(k)
  BY DEF Newer
<1> QED  BY <1>1, HourIsFinite, FS_Subset, FS_CardinalityType

\* The number of newer entries falls as the time rises.
LEMMA NewerFalls ==
  ASSUME NEW s \in [CacheKeys -> Nat], NEW c \in CacheKeys, NEW d \in SameHour(c), s[c] < s[d]
  PROVE  Cardinality(Newer(s, d)) < Cardinality(Newer(s, c))
<1>1. Newer(s, d) \in SUBSET Newer(s, c)
  BY DEF Newer, SameHour
<1>2. d \in Newer(s, c) /\ d \notin Newer(s, d) /\ d \in CacheKeys
  BY DEF Newer, SameHour
<1> QED  BY <1>1, <1>2, NewerIsFinite, FS_Subset

\* What the cleanup leaves of a tenant is at most Cap entries.
LEMMA KeptAreFew ==
  ASSUME NEW s \in [CacheKeys -> Nat], TimesDiffer(s), NEW k \in CacheKeys
  PROVE  Cardinality({c \in Kept(s, k) : s[c] # 0 /\ c.pf = k.pf}) <= Cap
<1> DEFINE S == {c \in Kept(s, k) : s[c] # 0 /\ c.pf = k.pf}
           f == [c \in S |-> Cardinality(Newer(s, c))]
<1>1. \A c \in S : c \in CacheKeys /\ c \in SameHour(k) /\ Cardinality(Newer(s, c)) < Cap
  BY DEF Kept, SameHour
<1>2. f \in [S -> 0..(Cap - 1)]
  BY <1>1, NewerIsFinite, BoardAssumption
<1>3. ASSUME NEW c \in S, NEW d \in S, f[c] = f[d] PROVE c = d
  <2>1. c \in SameHour(d) /\ d \in SameHour(c) /\ c \in CacheKeys /\ d \in CacheKeys
    BY <1>1 DEF SameHour
  <2>2. ~(s[c] < s[d]) /\ ~(s[d] < s[c])
    BY <1>3, <2>1, NewerFalls, NewerIsFinite
  <2>3. s[c] = s[d] /\ s[c] # 0
    BY <2>1, <2>2
  <2> QED  BY <2>1, <2>3 DEF TimesDiffer
<1>4. f \in Injection(S, 0..(Cap - 1))
  BY <1>2, <1>3 DEF Injection, IsInjective
<1>5. IsFiniteSet(0..(Cap - 1)) /\ Cardinality(0..(Cap - 1)) = Cap
  BY FS_Interval, BoardAssumption
<1> QED  BY <1>4, <1>5, FS_Injection

\* A step stores a payload, or leaves the entries as they are.
LEMMA OnlyStoreStores ==
  ASSUME [Next]_vars, UNCHANGED <<stored, clock>> => FALSE
  PROVE  \E r \in Requests : Store(r)
  BY DEF Next, Step, Arrive, ArriveFails, TouchBegins, Touch, TouchFails, Lookup, NothingSelected, NoToken, Join,
     Resume, ReadCaches, Gather, Merge, BuildFails, HourPasses, Expire, Stop, vars, cacheVars

LEMMA StepCInv == LInv /\ CInv /\ [Next]_vars => CInv'
<1> SUFFICES ASSUME LInv, CInv, [Next]_vars PROVE CInv'
  OBVIOUS
<1>1. CASE UNCHANGED <<stored, clock>>
  BY <1>1 DEF CInv, TimesDiffer, CacheIsBounded, Cached
<1>2. ASSUME NEW r \in Requests, Store(r) PROVE CInv'
  <2> DEFINE k == key[r]
             s == [stored EXCEPT ![k] = clock + 1]
  <2>1. k \in CacheKeys /\ stored \in [CacheKeys -> Nat] /\ clock \in Nat
    BY <1>2 DEF Store, LInv, TypeOK, HasKey, Building
  <2>2. s \in [CacheKeys -> Nat] /\ TimesDiffer(s) /\ \A c \in CacheKeys : s[c] <= clock + 1
    BY <2>1 DEF CInv, TimesDiffer
  <2>3. stored' = Cleaned(s, k) /\ clock' = clock + 1
    BY <1>2 DEF Store
  <2>4. /\ \A c \in CacheKeys : stored'[c] = (IF c \in Kept(s, k) THEN s[c] ELSE 0)
        /\ \A c \in CacheKeys : c.pf # k.pf => stored'[c] = stored[c]
    BY <2>1, <2>3 DEF Cleaned, Kept
  <2> HIDE DEF s
  <2>5. \A c \in CacheKeys : stored'[c] <= clock'
    BY <2>1, <2>2, <2>3, <2>4
  <2>6. TimesDiffer(stored)'
    BY <2>2, <2>4 DEF TimesDiffer
  <2>7. ASSUME NEW p \in PfKeys PROVE Cardinality({c \in Cached' : c.pf = p}) <= Cap
    <3>1. CASE p = k.pf
      <4>1. {c \in Cached' : c.pf = p} = {c \in Kept(s, k) : s[c] # 0 /\ c.pf = k.pf}
        BY <2>4, <3>1 DEF Cached, Kept
      <4> QED  BY <2>1, <2>2, <4>1, KeptAreFew
    <3>2. CASE p # k.pf
      <4>1. {c \in Cached' : c.pf = p} = {c \in Cached : c.pf = p}
        BY <2>4, <3>2 DEF Cached
      <4> QED  BY <4>1 DEF CInv, CacheIsBounded
    <3> QED  BY <3>1, <3>2
  <2> QED  BY <2>5, <2>6, <2>7 DEF CInv, CacheIsBounded
<1> QED  BY <1>1, <1>2, OnlyStoreStores

LEMMA InitCInv == Init => CInv
<1> SUFFICES ASSUME Init PROVE CInv
  OBVIOUS
<1>1. stored = [c \in CacheKeys |-> 0] /\ clock = 0
  BY DEF Init
<1>2. \A p \in PfKeys : {c \in Cached : c.pf = p} = {}
  BY <1>1 DEF Cached
<1> QED  BY <1>1, <1>2, FS_EmptySet, BoardAssumption DEF CInv, TimesDiffer, CacheIsBounded

LEMMA CInvHolds == Spec => []CInv
  BY InitCInv, StepCInv, LInvHolds, PTL DEF Spec

\* A tenant never has more than Cap payloads in the cache, those of other hours
\* included (the cleanup of get_board, _BOARD_CACHE_MAX_VARIANTS).
THEOREM CacheStaysSmall == Spec => []CacheIsBounded
<1>1. CInv => CacheIsBounded
  BY DEF CInv
<1> QED  BY <1>1, CInvHolds, PTL

\* The cleanup removes the oldest payloads of the hour: the payload just built
\* stays and what survives is newer than what goes (same_hour.sort() and the slice
\* that drops its head).
THEOREM EvictionIsByAge == Spec => OldestGoFirst
<1> DEFINE Stays  == clock' # clock => \E k \in CacheKeys : stored'[k] = clock'
           Oldest == \A c, d \in CacheKeys :
                       /\ c \in SameHour(d)
                       /\ c \in Cached /\ c \notin Cached' /\ d \in Cached'
                       => stored[c] < stored'[d]
<1> DEFINE With(r) == [stored EXCEPT ![key[r]] = clock + 1]
<1>1. ASSUME LInv, CInv, NEW r \in Requests, Store(r)
      PROVE  /\ key[r] \in CacheKeys /\ clock \in Nat /\ clock' = clock + 1
             /\ With(r) \in [CacheKeys -> Nat] /\ With(r)[key[r]] = clock + 1
             /\ \A e \in CacheKeys : e # key[r] => With(r)[e] = stored[e]
             /\ \A e \in CacheKeys : stored[e] <= clock
             /\ \A e \in CacheKeys : stored'[e] = (IF e \in Kept(With(r), key[r]) THEN With(r)[e] ELSE 0)
             /\ key[r] \in Kept(With(r), key[r])
  <2> DEFINE k == key[r]
             s == With(r)
  <2>1. k \in CacheKeys /\ stored \in [CacheKeys -> Nat] /\ clock \in Nat
    BY <1>1 DEF Store, LInv, TypeOK, HasKey, Building
  <2>2. s \in [CacheKeys -> Nat] /\ s[k] = clock + 1 /\ \A e \in CacheKeys : e # k => s[e] = stored[e]
    BY <1>1, <2>1
  <2>3. \A e \in CacheKeys : stored[e] <= clock
    BY <1>1 DEF CInv
  <2>4. clock' = clock + 1 /\ \A e \in CacheKeys : stored'[e] = (IF e \in Kept(s, k) THEN s[e] ELSE 0)
    BY <1>1 DEF Store, Cleaned
  <2>5. Newer(s, k) = {}
    BY <2>1, <2>2, <2>3 DEF Newer, SameHour
  <2>6. k \in Kept(s, k)
    <3> HIDE DEF k, s
    <3>1. Cardinality(Newer(s, k)) < Cap
      BY <2>5, FS_EmptySet, BoardAssumption
    <3> QED  BY <2>1, <3>1 DEF Kept
  <2> QED  BY <2>1, <2>2, <2>3, <2>4, <2>6
<1>2. LInv /\ CInv /\ [Next]_vars => Stays
  <2> SUFFICES ASSUME LInv, CInv, [Next]_vars, clock' # clock
               PROVE  \E k \in CacheKeys : stored'[k] = clock'
    OBVIOUS
  <2>1. PICK r \in Requests : Store(r)
    BY OnlyStoreStores
  <2> QED  BY <1>1, <2>1
<1>3. LInv /\ CInv /\ [Next]_vars => Oldest
  <2> SUFFICES ASSUME LInv, CInv, [Next]_vars,
                      NEW c \in CacheKeys, NEW d \in CacheKeys, c \in SameHour(d),
                      c \in Cached, c \notin Cached', d \in Cached'
               PROVE  stored[c] < stored'[d]
    OBVIOUS
  <2>1. PICK r \in Requests : Store(r)
    BY OnlyStoreStores DEF Cached
  <2> DEFINE k == key[r]
             s == With(r)
  <2>3. /\ k \in CacheKeys /\ clock \in Nat
        /\ s \in [CacheKeys -> Nat] /\ s[k] = clock + 1
        /\ \A e \in CacheKeys : e # k => s[e] = stored[e]
        /\ \A e \in CacheKeys : stored[e] <= clock
        /\ \A e \in CacheKeys : stored'[e] = (IF e \in Kept(s, k) THEN s[e] ELSE 0)
        /\ k \in Kept(s, k)
    BY <1>1, <2>1
  <2> HIDE DEF s
  <2>4. d \in Kept(s, k) /\ stored'[d] = s[d] /\ c \notin Kept(s, k)
    BY <2>3 DEF Cached
  <2>5. c.pf = k.pf /\ d.pf = k.pf /\ c.hour = k.hour /\ d \in SameHour(c)
    BY <2>4 DEF Kept, SameHour
  <2>6. Cardinality(Newer(s, d)) < Cap /\ ~(Cardinality(Newer(s, c)) < Cap)
    BY <2>4, <2>5 DEF Kept
  <2>7. c # d /\ c # k /\ s[c] = stored[c]
    BY <2>3, <2>4
  <2>8. ~(s[d] < s[c])
    BY <2>3, <2>5, <2>6, NewerFalls, NewerIsFinite, BoardAssumption
  <2>9. s[d] # s[c]
    BY <2>3, <2>7 DEF CInv, TimesDiffer, Cached
  <2> QED  BY <2>3, <2>4, <2>7, <2>8, <2>9
<1> QED  BY <1>2, <1>3, LInvHolds, CInvHolds, PTL DEF Spec, OldestGoFirst

(***************************************************************************)
(* The lines.  A line holds exactly the requests that wait for its lock,   *)
(* each once.                                                              *)
(***************************************************************************)
LineOf(s, W) ==
  /\ \A i \in 1..Len(s) : s[i] \in W
  /\ \A i, j \in 1..Len(s) : s[i] = s[j] => i = j
  /\ \A r \in W : \E i \in 1..Len(s) : s[i] = r

Waiting(l) == {r \in Requests : pc[r] = "queue" /\ lock[r] = l}

Lines == \A l \in Requests : LineOf(waiters[l], Waiting(l))

LEMMA LineGrows ==
  ASSUME NEW S, NEW s \in Seq(S), NEW W, NEW r, r \notin W, LineOf(s, W)
  PROVE  LineOf(Append(s, r), W \cup {r})
<1> DEFINE n == Len(s)
           t == Append(s, r)
<1>1. n \in Nat
  OBVIOUS
<1>2. Len(t) = n + 1 /\ t[n + 1] = r /\ \A i \in 1..n : t[i] = s[i]
  OBVIOUS
<1>3. /\ \A i \in 1..n : s[i] \in W
      /\ \A i, j \in 1..n : s[i] = s[j] => i = j
      /\ \A q \in W : \E i \in 1..n : s[i] = q
  BY DEF LineOf
<1> HIDE DEF n, t
<1>4. \A i \in 1..(n + 1) : i \in 1..n \/ i = n + 1
  BY <1>1
<1>5. 1..n \subseteq 1..(n + 1) /\ n + 1 \in 1..(n + 1)
  BY <1>1
<1>6. \A i \in 1..(n + 1) : t[i] \in W \cup {r}
  BY <1>2, <1>3, <1>4
<1>7. \A i, j \in 1..(n + 1) : t[i] = t[j] => i = j
  <2>1. \A i \in 1..n : t[i] # r
    BY <1>2, <1>3
  <2> QED  BY <1>2, <1>3, <1>4, <2>1
<1>8. \A q \in W \cup {r} : \E i \in 1..(n + 1) : t[i] = q
  BY <1>2, <1>3, <1>5
<1>9. LineOf(t, W \cup {r})
  BY <1>2, <1>6, <1>7, <1>8 DEF LineOf
<1> QED  BY <1>9 DEF t

LEMMA LineMoves ==
  ASSUME NEW S, NEW s \in Seq(S), NEW W, s # <<>>, LineOf(s, W)
  PROVE  LineOf(Tail(s), W \ {Head(s)})
<1> DEFINE n == Len(s)
           t == Tail(s)
           h == Head(s)
<1>1. n \in Nat \ {0} /\ h = s[1]
  OBVIOUS
<1>2. Len(t) = n - 1 /\ \A i \in 1..(n - 1) : t[i] = s[i + 1]
  OBVIOUS
<1>3. /\ \A i \in 1..n : s[i] \in W
      /\ \A i, j \in 1..n : s[i] = s[j] => i = j
      /\ \A q \in W : \E i \in 1..n : s[i] = q
  BY DEF LineOf
<1> HIDE DEF n, t, h
<1>4. 1 \in 1..n /\ \A i \in 1..(n - 1) : i + 1 \in 1..n /\ i + 1 # 1
  BY <1>1
<1>5. \A i \in 1..(n - 1) : t[i] \in W \ {h}
  BY <1>1, <1>2, <1>3, <1>4
<1>6. \A i, j \in 1..(n - 1) : t[i] = t[j] => i = j
  <2> SUFFICES ASSUME NEW i \in 1..(n - 1), NEW j \in 1..(n - 1), t[i] = t[j]
               PROVE  i = j
    OBVIOUS
  <2>1. i + 1 = j + 1
    BY <1>2, <1>3, <1>4
  <2> QED  BY <2>1
<1>7. \A q \in W \ {h} : \E i \in 1..(n - 1) : t[i] = q
  <2> SUFFICES ASSUME NEW q \in W, q # h PROVE \E i \in 1..(n - 1) : t[i] = q
    OBVIOUS
  <2>1. PICK i \in 1..n : s[i] = q
    BY <1>3
  <2>2. i # 1
    BY <2>1, <1>1
  <2>3. i - 1 \in 1..(n - 1) /\ (i - 1) + 1 = i
    BY <2>2, <1>1
  <2>4. t[i - 1] = q
    BY <2>1, <2>3, <1>2
  <2> QED  BY <2>3, <2>4
<1>8. LineOf(t, W \ {h})
  BY <1>2, <1>5, <1>6, <1>7 DEF LineOf
<1> QED  BY <1>8 DEF t, h

LEMMA InitLines == Init => Lines
  BY DEF Init, Lines, LineOf, Waiting

\* A step after which the same requests wait for the same locks
LEMMA LinesStay ==
  ASSUME Lines, waiters' = waiters, \A l \in Requests : Waiting(l)' = Waiting(l)
  PROVE  Lines'
  BY DEF Lines, LineOf

\* Only Join and Resume touch a line.
LEMMA QueueStays ==
  ASSUME TypeOK, NEW r \in Requests, Step(r), ~Join(r), ~Resume(r)
  PROVE  Lines => Lines'
<1>1. waiters' = waiters /\ pc[r] # "queue" /\ pc'[r] # "queue"
  BY DEF TypeOK, Step, Arrive, ArriveFails, TouchBegins, Touch, TouchFails, Lookup,
       NothingSelected, NoToken, ReadCaches, Gather, Merge, BuildFails, Store, Goto, End,
       Building, lockVars
<1>2. \A q \in Requests : q # r => pc'[q] = pc[q] /\ lock'[q] = lock[q]
  BY DEF TypeOK, Step, Arrive, ArriveFails, TouchBegins, Touch, TouchFails, Lookup,
       NothingSelected, NoToken, ReadCaches, Gather, Merge, BuildFails, Store, Goto, End
<1>3. \A l \in Requests : Waiting(l)' = Waiting(l)
  BY <1>1, <1>2 DEF Waiting
<1> QED  BY <1>1, <1>3, LinesStay

\* What entering a lock does to the requests that wait
LEMMA EnterLeaves ==
  ASSUME TypeOK, NEW r \in Requests, NEW l \in Requests, Enter(r, l)
  PROVE  /\ pc'[r] # "queue"
         /\ \A q \in Requests : q # r => pc'[q] = pc[q] /\ lock'[q] = lock[q]
  BY DEF TypeOK, Enter, End, Goto

LEMMA StepLines == LInv /\ Lines /\ [Next]_vars => Lines'
<1> SUFFICES ASSUME LInv, Lines, [Next]_vars PROVE Lines'
  OBVIOUS
<1>1. TypeOK
  BY DEF LInv
<1>2. ASSUME NEW r \in Requests, Join(r) PROVE Lines'
  <2>1. PICK l \in Requests : l = IF table[key[r]] = None THEN r ELSE table[key[r]]
    BY <1>1, <1>2 DEF Join, LInv, HasKey, TypeOK
  <2>2. CASE owner[l] = None /\ waiters[l] = <<>>
    <3>1. Enter(r, l) /\ waiters' = waiters /\ pc[r] = "token"
      BY <1>2, <2>1, <2>2 DEF Join
    <3>2. \A m \in Requests : Waiting(m)' = Waiting(m)
      BY <1>1, <3>1, EnterLeaves DEF Waiting
    <3> QED  BY <3>1, <3>2, LinesStay
  <2>3. CASE ~(owner[l] = None /\ waiters[l] = <<>>)
    <3>1. /\ waiters' = [waiters EXCEPT ![l] = Append(@, r)]
          /\ lock' = [lock EXCEPT ![r] = l]
          /\ pc' = [pc EXCEPT ![r] = "queue"]
          /\ pc[r] = "token"
      BY <1>2, <2>1, <2>3 DEF Join, Goto
    <3>2. /\ pc'[r] = "queue" /\ lock'[r] = l
          /\ \A q \in Requests : q # r => pc'[q] = pc[q] /\ lock'[q] = lock[q]
      BY <1>1, <3>1 DEF TypeOK
    <3>3. r \notin Waiting(l)
      BY <3>1 DEF Waiting
    <3>4. \A m \in Requests : m # l => Waiting(m)' = Waiting(m)
      BY <3>1, <3>2 DEF Waiting
    <3>5. Waiting(l)' = Waiting(l) \cup {r}
      BY <3>2 DEF Waiting
    <3>6. /\ waiters[l] \in Seq(Requests)
          /\ waiters'[l] = Append(waiters[l], r)
          /\ \A m \in Requests : m # l => waiters'[m] = waiters[m]
      BY <1>1, <3>1 DEF TypeOK
    <3>7. LineOf(Append(waiters[l], r), Waiting(l) \cup {r})
      BY <3>3, <3>6, LineGrows DEF Lines
    <3> HIDE DEF LineOf, Waiting
    <3> QED  BY <3>4, <3>5, <3>6, <3>7 DEF Lines
  <2> QED  BY <2>2, <2>3
<1>3. ASSUME NEW r \in Requests, Resume(r) PROVE Lines'
  <2>1. PICK l \in Requests : l = lock[r]
    BY <1>3 DEF Resume, LInv, HasLock
  <2>2. /\ pc[r] = "queue" /\ waiters[l] # <<>> /\ Head(waiters[l]) = r /\ Enter(r, l)
        /\ waiters' = [waiters EXCEPT ![l] = Tail(@)]
    BY <1>3, <2>1 DEF Resume
  <2>3. /\ Waiting(l)' = Waiting(l) \ {r}
        /\ \A m \in Requests : m # l => Waiting(m)' = Waiting(m)
    BY <1>1, <2>1, <2>2, EnterLeaves DEF Waiting
  <2>4. /\ waiters[l] \in Seq(Requests)
        /\ waiters'[l] = Tail(waiters[l])
        /\ \A m \in Requests : m # l => waiters'[m] = waiters[m]
    BY <1>1, <2>2 DEF TypeOK
  <2>5. LineOf(Tail(waiters[l]), Waiting(l) \ {r})
    BY <2>2, <2>4, LineMoves DEF Lines
  <2> HIDE DEF LineOf, Waiting
  <2> QED  BY <2>3, <2>4, <2>5 DEF Lines
<1>4. ASSUME NEW r \in Requests, Step(r) PROVE Lines'
  BY <1>1, <1>2, <1>3, <1>4, QueueStays
<1>5. CASE UNCHANGED <<pc, lock, waiters>>
  BY <1>5, LinesStay DEF Waiting
<1>6. CASE HourPasses \/ (\E k \in CacheKeys : Expire(k)) \/ Stop \/ UNCHANGED vars
  BY <1>5, <1>6 DEF HourPasses, Expire, Stop, vars, reqVars, lockVars
<1> QED  BY <1>4, <1>6 DEF Next

\* A request that waits for a build is in the line of its lock, and the lock is
\* held by a build or can be taken by the first in line: no failure, no cleanup
\* and no order of the wake-ups leaves a request waiting for nobody.
THEOREM NoWakeUpIsLost == Spec => []NobodyIsForgotten
<1>1. ASSUME LInv, Lines PROVE NobodyIsForgotten
  <2> SUFFICES ASSUME NEW r \in Requests, pc[r] = "queue"
               PROVE  /\ \E i \in 1..Len(waiters[lock[r]]) : waiters[lock[r]][i] = r
                      /\ \/ \E b \in Requests : owner[lock[r]] = b /\ pc[b] \in Building
                         \/ /\ owner[lock[r]] = None
                            /\ pc[Head(waiters[lock[r]])] = "queue"
                            /\ lock[Head(waiters[lock[r]])] = lock[r]
    BY DEF NobodyIsForgotten
  <2>1. PICK l \in Requests : l = lock[r]
    BY <1>1 DEF LInv, HasLock
  <2>2. /\ LineOf(waiters[l], Waiting(l)) /\ waiters[l] \in Seq(Requests)
        /\ owner[l] \in Requests \cup {None}
    BY <1>1 DEF LInv, TypeOK, Lines
  <2>3. PICK i \in 1..Len(waiters[l]) : waiters[l][i] = r
    BY <2>1, <2>2 DEF LineOf, Waiting
  <2>4. 1 \in 1..Len(waiters[l]) /\ Head(waiters[l]) = waiters[l][1]
    BY <2>2, <2>3
  <2>5. Head(waiters[l]) \in Waiting(l)
    BY <2>2, <2>4 DEF LineOf
  <2>6. CASE owner[l] = None
    BY <2>1, <2>3, <2>5, <2>6 DEF Waiting
  <2>7. CASE owner[l] # None
    <3>1. pc[owner[l]] \in Building /\ owner[l] \in Requests
      BY <1>1, <2>2, <2>7 DEF LInv, LocksAreHeldByBuilds
    <3> QED  BY <2>1, <2>3, <3>1
  <2> QED  BY <2>6, <2>7
<1>2. Init /\ [][Next]_vars /\ []LInv => []Lines
  BY InitLines, StepLines, PTL
<1> QED  BY <1>1, <1>2, LInvHolds, PTL DEF Spec

(***************************************************************************)
(* The connections                                                         *)
(***************************************************************************)
\* Nobody ever has a third connection: the update of last_seen_at gives one back,
\* and then one is left.
TwoAtMost ==
  \A c, d, e \in Conns :
    holder[c] # None /\ holder[c] = holder[d] /\ holder[d] = holder[e]
      => c = d \/ d = e \/ c = e

HInv == EveryConnectionIsInUse /\ TwoAtMost

LEMMA StepConnections == LInv /\ HInv /\ [Next]_vars => HInv'
<1> SUFFICES ASSUME LInv, EveryConnectionIsInUse, TwoAtMost, [Next]_vars
             PROVE  HInv'
  BY DEF HInv
<1>1. TypeOK /\ None \notin Requests
  BY BoardAssumption DEF LInv
<1>2. ASSUME NEW r \in Requests, Step(r) PROVE HInv'
  \* Only the request that makes the step changes place, takes or returns one.
  <2>1. \A q \in Requests : q # r => pc'[q] = pc[q]
    BY <1>1, <1>2 DEF TypeOK, Step, Arrive, ArriveFails, TouchBegins, Touch, TouchFails, Lookup,
         NothingSelected, NoToken, Join, Resume, Enter, ReadCaches, Gather, Merge, BuildFails, Store, Goto, End
  <2>2. \A c \in Conns : /\ holder[c] \in Requests \cup {None}
                         /\ holder'[c] \in Requests \cup {None}
                         /\ holder'[c] \notin {r, None} => holder[c] = holder'[c]
    BY <1>1, <1>2
       DEF TypeOK, Step, Arrive, ArriveFails, TouchBegins, Touch, TouchFails, Lookup,
         NothingSelected, NoToken, Join, Resume, ReadCaches, Gather, Merge, BuildFails, Store, Connect, Release,
         Held, Free
  <2>3. \A c \in Conns : holder'[c] \notin {r, None} =>
          /\ holder[c] = holder'[c] /\ holder'[c] \in Requests
          /\ pc'[holder'[c]] = pc[holder'[c]]
    BY <2>1, <2>2
  <2>4. \A c \in Conns : holder'[c] \notin {r, None} => pc'[holder'[c]] \in InTransaction
    BY <2>3 DEF EveryConnectionIsInUse
  <2>5. \A c, d \in Conns :
          holder'[c] \notin {r, None} /\ holder'[c] = holder'[d] /\ c # d
            => pc'[holder'[c]] = "touch"
    BY <2>3 DEF EveryConnectionIsInUse
  <2>6. ASSUME /\ \A c \in Conns : holder'[c] = r => pc'[r] \in InTransaction
               /\ \A c, d \in Conns :
                    holder'[c] = r /\ holder'[d] = r /\ c # d => pc'[r] = "touch"
               /\ \A c, d, e \in Conns :
                    holder'[c] = r /\ holder'[d] = r /\ holder'[e] = r
                      => c = d \/ d = e \/ c = e
        PROVE  HInv'
    <3>1. \A c \in Conns : holder'[c] # None => pc'[holder'[c]] \in InTransaction
      BY <2>4, <2>6
    <3>2. \A c, d \in Conns :
            holder'[c] # None /\ holder'[c] = holder'[d] /\ c # d
              => pc'[holder'[c]] = "touch"
      BY <2>5, <2>6
    <3>3. \A c, d, e \in Conns :
            holder'[c] # None /\ holder'[c] = holder'[d] /\ holder'[d] = holder'[e]
              => c = d \/ d = e \/ c = e
      <4> SUFFICES ASSUME NEW c \in Conns, NEW d \in Conns, NEW e \in Conns,
                          holder'[c] # None, holder'[c] = holder'[d],
                          holder'[d] = holder'[e]
                   PROVE  c = d \/ d = e \/ c = e
        OBVIOUS
      <4>1. CASE holder'[c] = r
        BY <4>1, <2>6
      <4>2. CASE holder'[c] # r
        <5>1. holder[c] = holder'[c] /\ holder[d] = holder'[d] /\ holder[e] = holder'[e]
          BY <4>2, <2>3
        <5> QED  BY <5>1 DEF TwoAtMost
      <4> QED  BY <4>1, <4>2
    <3> QED  BY <3>1, <3>2, <3>3 DEF HInv, EveryConnectionIsInUse, TwoAtMost, InTransaction
  \* It gives back what it has.
  <2>7. ASSUME Release(r) PROVE HInv'
    <3>1. \A c \in Conns : holder'[c] # r
      BY <1>1, <2>7 DEF Release
    <3> QED  BY <2>6, <3>1
  \* It has at most what it had, and is not in the second session.
  <2>8. ASSUME \A c \in Conns : holder'[c] = r => holder[c] = r, pc[r] # "touch",
               pc[r] \in InTransaction => pc'[r] \in InTransaction
        PROVE  HInv'
    <3>1. \A c \in Conns : holder[c] = r => pc[r] \in InTransaction
      BY <1>1 DEF EveryConnectionIsInUse
    <3>2. \A c, d \in Conns : holder[c] = r /\ holder[d] = r => c = d
      BY <1>1, <2>8 DEF EveryConnectionIsInUse
    <3> QED  BY <2>6, <2>8, <3>1, <3>2
  \* It takes its first connection.
  <2>9. ASSUME Connect(r), pc[r] \notin InTransaction, pc'[r] \in InTransaction
        PROVE  HInv'
    <3>1. \A c \in Conns : holder[c] # r
      BY <1>1, <2>9 DEF EveryConnectionIsInUse
    <3>2. PICK c \in Conns : holder' = [holder EXCEPT ![c] = r]
      BY <2>9 DEF Connect, Free
    <3>3. \A d \in Conns : holder'[d] = r => d = c
      BY <1>1, <3>1, <3>2 DEF TypeOK
    <3> QED  BY <2>6, <2>9, <3>3
  <2>10. CASE Arrive(r)
    <3>1. pc[r] = "new" /\ pc'[r] \in {"auth", "lookup"} /\ Connect(r)
      BY <1>1, <2>10 DEF Arrive, Goto, TypeOK
    <3> QED  BY <2>9, <3>1 DEF InTransaction
  <2>11. CASE ReadCaches(r)
    <3>1. pc[r] = "read" /\ pc'[r] = "names" /\ Connect(r)
      BY <1>1, <2>11 DEF ReadCaches, Goto, TypeOK
    <3> QED  BY <2>9, <3>1 DEF InTransaction
  <2>12. CASE Merge(r)
    <3>1. pc[r] = "gather" /\ pc'[r] = "last_year" /\ Connect(r)
      BY <1>1, <2>12 DEF Merge, Goto, TypeOK
    <3> QED  BY <2>9, <3>1 DEF InTransaction
  <2>13. CASE TouchBegins(r)
    <3>1. pc[r] = "auth" /\ pc'[r] = "touch" /\ Connect(r)
      BY <1>1, <2>13 DEF TouchBegins, Goto, TypeOK
    <3>2. \A d, e \in Conns : holder[d] = r /\ holder[e] = r => d = e
      BY <1>1, <3>1 DEF EveryConnectionIsInUse
    <3>3. PICK c \in Conns : holder' = [holder EXCEPT ![c] = r]
      BY <3>1 DEF Connect, Free
    <3>4. \A d \in Conns : holder'[d] = r => d = c \/ holder[d] = r
      BY <1>1, <3>3 DEF TypeOK
    <3>5. \A d, e, g \in Conns :
            holder'[d] = r /\ holder'[e] = r /\ holder'[g] = r => d = e \/ e = g \/ d = g
      BY <3>2, <3>4
    <3> QED  BY <2>6, <3>1, <3>5 DEF InTransaction
  <2>14. CASE Touch(r)
    <3>1. PICK c \in Conns : holder[c] = r /\ holder' = [holder EXCEPT ![c] = None]
      BY <2>14 DEF Touch, Held
    <3>2. pc'[r] = "lookup"
      BY <1>1, <2>14 DEF Touch, Goto, TypeOK
    <3>3. \A d \in Conns : holder'[d] = r => d # c /\ holder[d] = r
      BY <1>1, <3>1 DEF TypeOK
    <3>4. \A d, e \in Conns : holder'[d] = r /\ holder'[e] = r => d = e
      BY <1>1, <3>1, <3>3 DEF TwoAtMost
    <3> QED  BY <2>6, <3>2, <3>4 DEF InTransaction
  <2>15. CASE ArriveFails(r)
    <3>1. pc[r] = "new" /\ holder' = holder
      BY <2>15 DEF ArriveFails
    <3> QED  BY <2>8, <3>1 DEF InTransaction
  <2>16. CASE TouchFails(r)
    <3>1. pc[r] = "auth" /\ holder' = holder /\ pc'[r] = "lookup"
      BY <1>1, <2>16 DEF TouchFails, Goto, TypeOK
    <3> QED  BY <2>8, <3>1 DEF InTransaction
  <2>17. CASE Lookup(r)
    <3>1. Release(r) \/ (pc[r] = "lookup" /\ holder' = holder /\ pc'[r] = "token")
      BY <1>1, <2>17 DEF Lookup, Goto, TypeOK
    <3> QED  BY <2>7, <2>8, <3>1 DEF InTransaction
  <2>18. CASE Resume(r)
    <3>1. pc[r] = "queue" /\ holder' = holder
      BY <2>18 DEF Resume
    <3> QED  BY <2>8, <3>1 DEF InTransaction
  <2>19. CASE NothingSelected(r) \/ NoToken(r) \/ Join(r) \/ Gather(r)
              \/ BuildFails(r) \/ Store(r)
    <3>1. Release(r)
      BY <2>19 DEF NothingSelected, NoToken, Join, Gather, BuildFails, Store
    <3> QED  BY <2>7, <3>1
  <2> QED  BY <1>2, <2>10, <2>11, <2>12, <2>13, <2>14, <2>15, <2>16, <2>17, <2>18, <2>19
           DEF Step
<1>3. CASE UNCHANGED <<pc, holder>>
  BY <1>3 DEF HInv, EveryConnectionIsInUse, TwoAtMost
<1>4. CASE HourPasses \/ (\E k \in CacheKeys : Expire(k)) \/ Stop \/ UNCHANGED vars
  BY <1>3, <1>4 DEF HourPasses, Expire, Stop, vars, reqVars
<1> QED  BY <1>2, <1>4 DEF Next

\* No connection leaks: one that is taken belongs to a request that is in a
\* transaction just then, and a second one to the update of last_seen_at only,
\* for any number of requests and connections and whatever fails.
THEOREM ConnectionsComeBack == Spec => []EveryConnectionIsInUse
<1>1. Init => HInv
  BY DEF Init, HInv, EveryConnectionIsInUse, TwoAtMost
<1>2. HInv => EveryConnectionIsInUse
  BY DEF HInv
<1>3. Init /\ [][Next]_vars /\ []LInv => []HInv
  BY <1>1, StepConnections, PTL
<1> QED  BY <1>2, <1>3, LInvHolds, PTL DEF Spec

\* The locks of the board together: one build to a lock, and nobody who waits is
\* left without somebody to wake him (`async with lock`, the cleanup of get_board).
THEOREM LocksServeTheirLines == Spec => []LocksAreSound
BY LocksHaveBuilds, NoWakeUpIsLost, PTL DEF LocksAreSound
=============================================================================
