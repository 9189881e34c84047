------------------------- MODULE DodoClientProofs -------------------------
(***************************************************************************)
(* Proofs about DodoClient for any number of calls and tokens, any rate,   *)
(* burst and number of slots: type correctness, the exactness of the two   *)
(* counters (fg_waiting and the semaphore) over cancellations, the         *)
(* priority of live screens, and the bounds on what a bucket grants and on *)
(* what is sent.                                                           *)
(***************************************************************************)
EXTENDS DodoClient, FiniteSetTheorems, TLAPS

\* A call that may still send an attempt has one left.
AttemptsLeft ==
  \A c \in Calls : pc[c] \in {"idle", "waiting", "queued", "backoff"} => tries[c] < Attempts

\* The typing of the state; the bounds of the two counters are a consequence of
\* their exactness.
Typed ==
  /\ cred \in Tokens
  /\ pc \in [Calls -> Pcs]
  /\ token \in [Calls -> Tokens]
  /\ tries \in [Calls -> 0..Attempts]
  /\ renewed \subseteq Calls
  /\ timer \in [Calls -> Nat]
  /\ bucket \in [Tokens -> [tokens : 0..Cap, lag : 0..Cap]]
  /\ fgWaiting \in [Tokens -> Int]
  /\ slots \in Nat
  /\ window \in Window

IInv == Typed /\ FgCountIsExact /\ SlotsAreNotLost /\ AttemptsLeft
----------------------------------------------------------------------------
(* The sets that are counted are finite.                                   *)

LEMMA Finite ==
  /\ IsFiniteSet(InFlight) /\ Cardinality(InFlight) \in Nat
  /\ \A t \in Tokens : IsFiniteSet(Waiting(t)) /\ Cardinality(Waiting(t)) \in Nat
<1>1. IsFiniteSet(InFlight)
  BY FS_Subset, DodoAssumption DEF InFlight
<1>2. \A t \in Tokens : IsFiniteSet(Waiting(t))
  <2> TAKE t \in Tokens
  <2>1. Waiting(t) \in SUBSET Calls
    BY DodoAssumption DEF Waiting
  <2> QED  BY <2>1, FS_Subset, DodoAssumption
<1> QED  BY <1>1, <1>2, FS_CardinalityType

\* The calls that wait for the semaphore can be counted, and so can what they cost.
LEMMA QueuedFinite ==
  ASSUME NEW t
  PROVE  IsFiniteSet(Queued(t)) /\ Cardinality(Queued(t)) \in Nat
<1>1. Queued(t) \in SUBSET Calls
  BY DEF Queued
<1> QED  BY <1>1, FS_Subset, FS_CardinalityType, DodoAssumption

LEMMA CostTimes ==
  ASSUME NEW n \in Nat
  PROVE  Cost * n \in Nat /\ Cost * (n + 1) = (Cost * n) + Cost
  BY DodoAssumption

\* The counters stay within their range.
LEMMA InRange ==
  ASSUME IInv
  PROVE  TypeOK
<1>1. fgWaiting \in [Tokens -> Nat]
  BY Finite DEF IInv, Typed, FgCountIsExact
<1>2. slots <= Parallel
  BY Finite, DodoAssumption DEF IInv, Typed, SlotsAreNotLost
<1> QED  BY <1>1, <1>2, DodoAssumption DEF IInv, Typed, TypeOK
----------------------------------------------------------------------------
(* What a pass of the limiter does to the rest of the state.               *)

LEMMA LevelType ==
  ASSUME Typed, NEW t \in Tokens
  PROVE  /\ Level(t) \in 0..Cap
         /\ Level(t) <= bucket[t].tokens + bucket[t].lag
         /\ bucket[t].tokens \in 0..Cap /\ bucket[t].lag \in 0..Cap
  BY DodoAssumption DEF Typed, Level, AtMost

\* Call c takes a token of t, or sleeps; n is the counter, c included.
Pass(c, t, n) ==
  /\ pc' = [pc EXCEPT ![c] = pc'[c]] /\ pc'[c] \in {"waiting", "queued"}
  /\ timer' \in [Calls -> Nat]
  /\ bucket' \in [Tokens -> [tokens : 0..Cap, lag : 0..Cap]]
  /\ fgWaiting' = [fgWaiting EXCEPT ![t] =
                     IF c \in Fg /\ pc'[c] = "queued" THEN n - 1 ELSE n]
  /\ window' \in Window
  /\ c \notin Fg /\ pc'[c] = "queued" => n = 0

LEMMA DelayType ==
  ASSUME Typed, NEW c \in Calls, NEW t \in Tokens, NEW n \in Int,
         ~MayGo(c, t, n), c \in Fg \/ n >= 0
  PROVE  Delay(c, t, n) \in Nat
<1>1. Level(t) \in Int /\ Level(t) <= Cap
  BY LevelType, DodoAssumption
<1>2. CASE Level(t) < Cost
  BY <1>1, <1>2, DodoAssumption DEF Delay, AtMost
<1>3. CASE ~(Level(t) < Cost)
  <2>1. c \notin Fg /\ n > 0
    BY <1>1, <1>3, DodoAssumption DEF MayGo
  <2> QED  BY <1>1, <1>3, <2>1, DodoAssumption DEF Delay, AtMost
<1> QED  BY <1>2, <1>3

LEMMA PassEffect ==
  ASSUME Typed, NEW c \in Calls, NEW t \in Tokens, NEW n \in Int, c \in Fg \/ n >= 0,
         Granted(c, t, n) \/ Denied(c, t, n)
  PROVE  Pass(c, t, n)
<1>1. CASE Granted(c, t, n)
  <2>1. Level(t) - Cost \in 0..Cap
    BY <1>1, LevelType, DodoAssumption DEF Granted, MayGo
  <2>2. bucket' \in [Tokens -> [tokens : 0..Cap, lag : 0..Cap]]
    BY <1>1, <2>1, DodoAssumption DEF Granted, Typed
  <2>3. window' \in Window
    <3>1. window \in Window /\ window.granted + Cost \in Nat
      BY DodoAssumption DEF Window, Typed
    <3>2. [window EXCEPT !.granted = window.granted + Cost] \in Window
      BY <3>1 DEF Window
    <3> QED  BY <1>1, <3>1, <3>2 DEF Granted, CountGrant
  <2>4. pc' = [pc EXCEPT ![c] = "queued"] /\ pc'[c] = "queued" /\ timer' \in [Calls -> Nat]
    BY <1>1 DEF Granted, Goto, Sleep, Typed
  <2>5. c \notin Fg => n = 0
    BY <1>1 DEF Granted, MayGo
  <2> QED  BY <1>1, <2>2, <2>3, <2>4, <2>5 DEF Granted, AfterGrant, Pass
<1>2. CASE Denied(c, t, n)
  <2>1. bucket' \in [Tokens -> [tokens : 0..Cap, lag : 0..Cap]]
    BY <1>2, LevelType, DodoAssumption DEF Denied, Refused, Typed
  <2>2. pc' = [pc EXCEPT ![c] = "waiting"] /\ pc'[c] = "waiting"
    BY <1>2 DEF Denied, Goto, Typed
  <2>3. timer' \in [Calls -> Nat]
    BY <1>2, DelayType DEF Denied, Sleep, Typed
  <2> QED  BY <1>2, <2>1, <2>2, <2>3 DEF Denied, Pass, Typed
<1> QED  BY <1>1, <1>2

\* A call enters the limiter of t.
Enters(c, t) ==
  /\ pc[c] \in {"idle", "backoff", "renew"}
  /\ token' = [token EXCEPT ![c] = t]
  /\ Pass(c, t, fgWaiting[t] + (IF c \in Fg THEN 1 ELSE 0))
  /\ UNCHANGED <<cred, slots>>

LEMMA EnterEffect ==
  ASSUME IInv, NEW c \in Calls, Begin(c) \/ Retry(c) \/ Renew(c)
  PROVE  \E t \in Tokens : /\ Enters(c, t)
                           /\ tries' \in [Calls -> 0..Attempts]
                           /\ tries'[c] < Attempts
                           /\ \A d \in Calls : d # c => tries'[d] = tries[d]
                           /\ renewed' \subseteq Calls
<1>1. \A t \in Tokens : fgWaiting[t] \in Nat
  BY InRange DEF TypeOK
<1>2. ASSUME NEW t \in Tokens, Enter(c, t)
      PROVE  Pass(c, t, fgWaiting[t] + (IF c \in Fg THEN 1 ELSE 0))
  <2> DEFINE n == fgWaiting[t] + (IF c \in Fg THEN 1 ELSE 0)
  <2>1. n \in Int /\ n >= 0 /\ (Granted(c, t, n) \/ Denied(c, t, n))
    BY <1>1, <1>2 DEF Enter
  <2>2. Pass(c, t, n)
    <3> HIDE DEF n
    <3> QED  BY <2>1, PassEffect DEF IInv
  <2> QED  BY <2>2
<1>3. CASE Begin(c)
  <2>1. Enters(c, cred)
    BY <1>3, <1>2 DEF Begin, Enters, IInv, Typed
  <2> QED  BY <1>3, <2>1 DEF Begin, IInv, Typed, AttemptsLeft
<1>4. CASE Retry(c)
  <2>1. token[c] \in Tokens /\ token = [token EXCEPT ![c] = token[c]]
    BY DEF IInv, Typed
  <2>2. Enters(c, token[c])
    BY <1>4, <1>2, <2>1 DEF Retry, Enters
  <2> QED  BY <1>4, <2>1, <2>2 DEF Retry, IInv, Typed, AttemptsLeft
<1>5. CASE Renew(c)
  <2>1. Enters(c, cred)
    BY <1>5, <1>2 DEF Renew, Enters, IInv, Typed
  <2> QED  BY <1>5, <2>1, DodoAssumption DEF Renew, IInv, Typed
<1> QED  BY <1>3, <1>4, <1>5
----------------------------------------------------------------------------
(* The other steps of a call: it moves to p, outside the limiter, and takes *)
(* or returns a slot if it comes to or leaves "sent".                      *)

Goes(c, p) ==
  /\ pc[c] # "waiting" /\ p \notin {"idle", "waiting", "queued"} /\ p \in Pcs
  /\ pc' = [pc EXCEPT ![c] = p]
  /\ slots' = slots + (IF pc[c] = "sent" /\ p # "sent" THEN 1 ELSE 0)
                    - (IF pc[c] # "sent" /\ p = "sent" THEN 1 ELSE 0)
  /\ slots' \in Nat
  /\ tries' \in [Calls -> 0..Attempts]
  /\ p = "backoff" => tries'[c] < Attempts
  /\ \A d \in Calls : d # c => tries'[d] = tries[d]
  /\ timer' \in [Calls -> Nat]
  /\ window' \in Window
  /\ UNCHANGED <<cred, token, renewed, bucket, fgWaiting>>

Leaves(c) == \/ NoToken(c) \/ Send(c) \/ Answer(c) \/ TryLater(c) \/ GiveUp(c)
             \/ Unauthorized(c) \/ SameToken(c)
             \/ Cancel(c) /\ pc[c] # "waiting"

LEMMA LeaveEffect ==
  ASSUME IInv, NEW c \in Calls, Leaves(c)
  PROVE  \E p \in Pcs : Goes(c, p)
<1> USE DEF IInv, Typed, Goes, Goto, Sleep, Pcs
<1>1. CASE NoToken(c)
  BY <1>1 DEF NoToken
<1>2. CASE Send(c)
  <2>1. window' \in Window
    <3>1. window.sent + Cost \in Nat
      BY DodoAssumption DEF Window
    <3>2. CASE Observed(token[c])
      BY <1>2, <3>1, <3>2 DEF Window, Send, CountSend
    <3>3. CASE ~Observed(token[c])
      BY <1>2, <3>3 DEF Send, CountSend
    <3> QED  BY <3>2, <3>3
  <2>2. tries[c] < Attempts /\ tries' \in [Calls -> 0..Attempts]
    BY <1>2, DodoAssumption DEF Send, AttemptsLeft
  <2> QED  BY <1>2, <2>1, <2>2 DEF Send
<1>3. CASE Answer(c)
  <2>1. PICK p \in Ended : Returned(c, p)
    BY <1>3 DEF Answer
  <2>2. Goes(c, p)
    BY <1>3, <2>1 DEF Answer, Returned, Ended
  <2> QED  BY <2>1, <2>2 DEF Ended
<1>4. CASE TryLater(c)
  BY <1>4, DodoAssumption DEF TryLater, Returned
<1>5. CASE GiveUp(c)
  BY <1>5 DEF GiveUp, Returned
<1>6. CASE Unauthorized(c)
  <2>1. PICK p \in {"renew", "failed"} : Returned(c, p) /\ UNCHANGED <<tries, timer>>
    BY <1>6 DEF Unauthorized
  <2>2. Goes(c, p)
    BY <2>1 DEF Returned
  <2> QED  BY <2>1, <2>2
<1>7. CASE SameToken(c)
  BY <1>7 DEF SameToken
<1>8. CASE Cancel(c) /\ pc[c] # "waiting"
  BY <1>8 DEF Cancel, LeftLimiter, LeftSemaphore
<1> QED  BY <1>1, <1>2, <1>3, <1>4, <1>5, <1>6, <1>7, <1>8 DEF Leaves

(* A waiting call whose caller gave up.                                     *)
Abandons(c) ==
  /\ pc[c] = "waiting"
  /\ pc' = [pc EXCEPT ![c] = "failed"]
  /\ fgWaiting' = [fgWaiting EXCEPT ![token[c]] = IF c \in Fg THEN @ - 1 ELSE @]
  /\ timer' \in [Calls -> Nat]
  /\ UNCHANGED <<cred, token, tries, renewed, bucket, slots, window>>

LEMMA AbandonEffect ==
  ASSUME IInv, NEW c \in Calls, Cancel(c), pc[c] = "waiting"
  PROVE  Abandons(c)
  BY DEF IInv, Typed, Cancel, Goto, Sleep, LeftLimiter, LeftSemaphore, Abandons

(* A waiting call that makes another pass.                                 *)
Passes(c) ==
  /\ pc[c] = "waiting"
  /\ Pass(c, token[c], fgWaiting[token[c]])
  /\ UNCHANGED <<cred, token, tries, renewed, slots>>

LEMMA PollEffect ==
  ASSUME IInv, NEW c \in Calls, Poll(c)
  PROVE  Passes(c)
<1> DEFINE n == fgWaiting[token[c]]
<1>1. token[c] \in Tokens /\ n \in Nat
  BY InRange DEF IInv, Typed, TypeOK
<1>2. Granted(c, token[c], n) \/ Denied(c, token[c], n)
  BY DEF Poll
<1>3. Pass(c, token[c], n)
  <2> HIDE DEF n
  <2> QED  BY <1>1, <1>2, PassEffect DEF IInv
<1> QED  BY <1>3 DEF Poll, Passes

(* The steps of the environment leave the calls where they are.            *)
Around == /\ UNCHANGED <<pc, token, tries, renewed, fgWaiting, slots>>
          /\ cred' \in Tokens /\ timer' \in [Calls -> Nat]
          /\ bucket' \in [Tokens -> [tokens : 0..Cap, lag : 0..Cap]]
          /\ window' \in Window

LEMMA AroundEffect ==
  ASSUME IInv, Tick \/ Observe \/ Rotate \/ UNCHANGED vars
  PROVE  Around
<1>1. CASE Tick
  <2>1. timer' \in [Calls -> Nat]
    BY <1>1 DEF IInv, Typed, Tick
  <2>2. bucket' \in [Tokens -> [tokens : 0..Cap, lag : 0..Cap]]
    <3>1. ASSUME NEW t \in Tokens
          PROVE  [bucket[t] EXCEPT !.lag = AtMost(Cap, @ + 1)] \in [tokens : 0..Cap, lag : 0..Cap]
      <4>1. bucket[t] \in [tokens : 0..Cap, lag : 0..Cap] /\ Cap \in Nat
        BY DodoAssumption DEF IInv, Typed
      <4>2. AtMost(Cap, bucket[t].lag + 1) \in 0..Cap
        BY <4>1 DEF AtMost
      <4> QED  BY <4>1, <4>2
    <3> QED  BY <1>1, <3>1 DEF Tick
  <2>3. window' \in Window
    <3>1. CASE window.token # 0 /\ window.age < Minute
      <4>1. window.age + 1 \in 0..Minute
        BY <3>1, DodoAssumption DEF Window, IInv, Typed
      <4> QED  BY <1>1, <3>1, <4>1 DEF Window, IInv, Typed, Tick
    <3>2. CASE ~(window.token # 0 /\ window.age < Minute)
      BY <1>1, <3>2 DEF IInv, Typed, Tick
    <3> QED  BY <3>1, <3>2
  <2> QED  BY <1>1, <2>1, <2>2, <2>3 DEF IInv, Typed, Tick, Around
<1>2. CASE Observe
  <2>1. PICK t \in Tokens :
          window' = [window EXCEPT !.token = t, !.backlog = Cost * Cardinality(Queued(t))]
    BY <1>2 DEF Observe
  <2>2. Cost * Cardinality(Queued(t)) \in Nat
    BY QueuedFinite, CostTimes
  <2>3. window' \in Window
    <3> DEFINE n == Cost * Cardinality(Queued(t))
    <3>1. n \in Nat /\ window \in Window /\ window' = [window EXCEPT !.token = t, !.backlog = n]
      BY <2>1, <2>2 DEF IInv, Typed
    <3> HIDE DEF n
    <3> QED  BY <3>1 DEF Window
  <2> QED  BY <1>2, <2>3 DEF IInv, Typed, Observe, callVars, Around
<1>3. CASE Rotate
  BY <1>3, DodoAssumption DEF IInv, Typed, Rotate, callVars, Around, Tokens
<1>4. CASE UNCHANGED vars
  BY <1>4 DEF IInv, Typed, vars, callVars, Around
<1> QED  BY <1>1, <1>2, <1>3, <1>4

\* Every step is of one of these five forms.
LEMMA Forms ==
  ASSUME IInv, [Next]_vars
  PROVE  \/ Around
         \/ \E c \in Calls : \/ Begin(c) \/ Retry(c) \/ Renew(c)
                             \/ Passes(c) \/ Abandons(c)
                             \/ \E p \in Pcs : Goes(c, p)
  BY LeaveEffect, AbandonEffect, PollEffect, AroundEffect DEF Next, Step, Leaves
----------------------------------------------------------------------------
(* IInv is inductive.                                                      *)

LEMMA InitIInv == Init => IInv
<1> SUFFICES ASSUME Init PROVE IInv
  OBVIOUS
<1>1. Typed
  BY DodoAssumption DEF Window, Init, Typed, Tokens, Pcs
<1>2. \A t \in Tokens : Waiting(t) = {}
  BY DodoAssumption DEF Init, Waiting
<1>3. InFlight = {}
  BY DEF Init, InFlight
<1>4. FgCountIsExact
  BY <1>2, FS_EmptySet DEF Init, FgCountIsExact
<1>5. SlotsAreNotLost
  BY <1>3, FS_EmptySet, DodoAssumption DEF Init, SlotsAreNotLost
<1>6. AttemptsLeft
  BY DodoAssumption DEF Init, AttemptsLeft
<1> QED  BY <1>1, <1>4, <1>5, <1>6 DEF IInv

LEMMA EntersKeeps ==
  ASSUME IInv, NEW c \in Calls, Begin(c) \/ Retry(c) \/ Renew(c)
  PROVE  IInv'
<1>1. PICK t \in Tokens : /\ Enters(c, t)
                          /\ tries' \in [Calls -> 0..Attempts]
                          /\ tries'[c] < Attempts
                          /\ \A d \in Calls : d # c => tries'[d] = tries[d]
                          /\ renewed' \subseteq Calls
  BY EnterEffect
<1>2. fgWaiting[t] = Cardinality(Waiting(t)) /\ fgWaiting[t] \in Nat
  BY InRange DEF IInv, FgCountIsExact, TypeOK
<1>3. Typed'
  BY <1>1, <1>2 DEF Window, IInv, Typed, Enters, Pass, Pcs
<1>4. \A u \in Tokens : u # t => Waiting(u)' = Waiting(u) /\ fgWaiting'[u] = fgWaiting[u]
  BY <1>1, DodoAssumption DEF IInv, Typed, Enters, Pass, Waiting
<1>5. fgWaiting'[t] = Cardinality(Waiting(t)')
  <2>1. CASE c \in Fg /\ pc'[c] = "waiting"
    <3>1. Waiting(t)' = Waiting(t) \cup {c} /\ c \notin Waiting(t)
      BY <1>1, <2>1, DodoAssumption DEF IInv, Typed, Enters, Pass, Waiting
    <3>2. Cardinality(Waiting(t) \cup {c}) = Cardinality(Waiting(t)) + 1
      BY <3>1, Finite, FS_AddElement
    <3>3. fgWaiting'[t] = fgWaiting[t] + 1
      BY <1>1, <2>1 DEF IInv, Typed, Enters, Pass
    <3> QED  BY <1>2, <3>1, <3>2, <3>3
  <2>2. CASE ~(c \in Fg /\ pc'[c] = "waiting")
    <3>1. Waiting(t)' = Waiting(t)
      BY <1>1, <2>2, DodoAssumption DEF IInv, Typed, Enters, Pass, Waiting
    <3>2. fgWaiting'[t] = fgWaiting[t]
      BY <1>1, <1>2, <2>2 DEF IInv, Typed, Enters, Pass
    <3> QED  BY <1>2, <3>1, <3>2
  <2> QED  BY <2>1, <2>2
<1>6. FgCountIsExact'
  BY <1>4, <1>5 DEF IInv, FgCountIsExact
<1>7. InFlight' = InFlight
  BY <1>1 DEF IInv, Typed, Enters, Pass, InFlight
<1>8. SlotsAreNotLost'
  BY <1>1, <1>7 DEF IInv, SlotsAreNotLost, Enters
<1>9. AttemptsLeft'
  BY <1>1 DEF IInv, Typed, AttemptsLeft, Enters, Pass
<1> QED  BY <1>3, <1>6, <1>8, <1>9 DEF IInv

LEMMA PassesKeeps ==
  ASSUME IInv, NEW c \in Calls, Passes(c)
  PROVE  IInv'
<1>0. PICK t \in Tokens : t = token[c]
  BY DEF IInv, Typed
<1>1. fgWaiting[t] = Cardinality(Waiting(t)) /\ fgWaiting[t] \in Nat
  BY InRange DEF IInv, FgCountIsExact, TypeOK
<1>2. Typed'
  <2>1. pc' \in [Calls -> Pcs]
    BY DEF IInv, Typed, Passes, Pass, Pcs
  <2>2. fgWaiting' \in [Tokens -> Int]
    BY <1>0, <1>1 DEF IInv, Typed, Passes, Pass
  <2> QED  BY <2>1, <2>2 DEF IInv, Typed, Passes, Pass
<1>3. \A u \in Tokens : u # t => Waiting(u)' = Waiting(u) /\ fgWaiting'[u] = fgWaiting[u]
  BY <1>0, DodoAssumption DEF IInv, Typed, Passes, Pass, Waiting
<1>4. fgWaiting'[t] = Cardinality(Waiting(t)')
  <2>1. CASE c \in Fg /\ pc'[c] = "queued"
    <3>1. Waiting(t)' = Waiting(t) \ {c} /\ c \in Waiting(t)
      BY <1>0, <2>1, DodoAssumption DEF IInv, Typed, Passes, Pass, Waiting
    <3>2. Cardinality(Waiting(t) \ {c}) = Cardinality(Waiting(t)) - 1
      BY <1>1, <3>1, Finite, FS_RemoveElement
    <3>3. fgWaiting'[t] = fgWaiting[t] - 1
      BY <1>0, <1>1, <2>1 DEF IInv, Typed, Passes, Pass
    <3> QED  BY <1>1, <3>1, <3>2, <3>3
  <2>2. CASE ~(c \in Fg /\ pc'[c] = "queued")
    <3>1. Waiting(t)' = Waiting(t)
      BY <1>0, <2>2, DodoAssumption DEF IInv, Typed, Passes, Pass, Waiting
    <3>2. fgWaiting'[t] = fgWaiting[t]
      BY <1>0, <1>1, <2>2 DEF IInv, Typed, Passes, Pass
    <3> QED  BY <1>1, <3>1, <3>2
  <2> QED  BY <2>1, <2>2
<1>5. FgCountIsExact'
  BY <1>3, <1>4 DEF IInv, FgCountIsExact
<1>6. InFlight' = InFlight
  BY DEF IInv, Typed, Passes, Pass, InFlight
<1>7. SlotsAreNotLost'
  BY <1>6 DEF IInv, SlotsAreNotLost, Passes
<1>8. AttemptsLeft'
  BY DEF IInv, Typed, AttemptsLeft, Passes, Pass
<1> QED  BY <1>2, <1>5, <1>7, <1>8 DEF IInv

LEMMA AbandonsKeeps ==
  ASSUME IInv, NEW c \in Calls, Abandons(c)
  PROVE  IInv'
<1>0. PICK t \in Tokens : t = token[c]
  BY DEF IInv, Typed
<1>1. fgWaiting[t] = Cardinality(Waiting(t)) /\ fgWaiting[t] \in Nat
  BY InRange DEF IInv, FgCountIsExact, TypeOK
<1>2. Typed'
  BY <1>0, <1>1 DEF IInv, Typed, Abandons, Pcs
<1>3. \A u \in Tokens : u # t => Waiting(u)' = Waiting(u) /\ fgWaiting'[u] = fgWaiting[u]
  BY <1>0, DodoAssumption DEF IInv, Typed, Abandons, Waiting
<1>4. fgWaiting'[t] = Cardinality(Waiting(t)')
  <2>1. CASE c \in Fg
    <3>1. Waiting(t)' = Waiting(t) \ {c} /\ c \in Waiting(t)
      BY <1>0, <2>1, DodoAssumption DEF IInv, Typed, Abandons, Waiting
    <3>2. Cardinality(Waiting(t) \ {c}) = Cardinality(Waiting(t)) - 1
      BY <1>1, <3>1, Finite, FS_RemoveElement
    <3>3. fgWaiting'[t] = fgWaiting[t] - 1
      BY <1>0, <1>1, <2>1 DEF IInv, Typed, Abandons
    <3> QED  BY <1>1, <3>1, <3>2, <3>3
  <2>2. CASE c \notin Fg
    <3>1. Waiting(t)' = Waiting(t) /\ fgWaiting'[t] = fgWaiting[t]
      BY <1>0, <2>2, DodoAssumption DEF IInv, Typed, Abandons, Waiting
    <3> QED  BY <1>1, <3>1
  <2> QED  BY <2>1, <2>2
<1>5. FgCountIsExact'
  BY <1>3, <1>4 DEF IInv, FgCountIsExact
<1>6. InFlight' = InFlight
  BY DEF IInv, Typed, Abandons, InFlight
<1>7. SlotsAreNotLost'
  BY <1>6 DEF IInv, SlotsAreNotLost, Abandons
<1>8. AttemptsLeft'
  BY DEF IInv, Typed, AttemptsLeft, Abandons
<1> QED  BY <1>2, <1>5, <1>7, <1>8 DEF IInv

LEMMA GoesKeeps ==
  ASSUME IInv, NEW c \in Calls, NEW p \in Pcs, Goes(c, p)
  PROVE  IInv'
<1>1. Typed'
  BY DEF IInv, Typed, Goes
<1>2. \A u \in Tokens : Waiting(u)' = Waiting(u)
  BY DodoAssumption DEF IInv, Typed, Goes, Waiting
<1>3. FgCountIsExact'
  BY <1>2 DEF IInv, FgCountIsExact, Goes
<1>4. SlotsAreNotLost'
  <2>1. CASE pc[c] # "sent" /\ p = "sent"
    <3>1. InFlight' = InFlight \cup {c} /\ c \notin InFlight
      BY <2>1 DEF IInv, Typed, Goes, InFlight
    <3>2. Cardinality(InFlight \cup {c}) = Cardinality(InFlight) + 1
      BY <3>1, Finite, FS_AddElement
    <3>3. slots' = slots - 1
      BY <2>1 DEF IInv, Typed, Goes
    <3> QED  BY <3>1, <3>2, <3>3, Finite, DodoAssumption DEF IInv, Typed, SlotsAreNotLost
  <2>2. CASE pc[c] = "sent" /\ p # "sent"
    <3>1. InFlight' = InFlight \ {c} /\ c \in InFlight
      BY <2>2 DEF IInv, Typed, Goes, InFlight
    <3>2. Cardinality(InFlight \ {c}) = Cardinality(InFlight) - 1
      BY <3>1, Finite, FS_RemoveElement
    <3>3. slots' = slots + 1
      BY <2>2 DEF IInv, Typed, Goes
    <3> QED  BY <3>1, <3>2, <3>3, Finite, DodoAssumption DEF IInv, Typed, SlotsAreNotLost
  <2>3. CASE pc[c] = "sent" <=> p = "sent"
    <3>1. InFlight' = InFlight /\ slots' = slots
      BY <2>3 DEF IInv, Typed, Goes, InFlight
    <3> QED  BY <3>1 DEF IInv, SlotsAreNotLost
  <2> QED  BY <2>1, <2>2, <2>3
<1>5. AttemptsLeft'
  BY DEF IInv, Typed, AttemptsLeft, Goes
<1> QED  BY <1>1, <1>3, <1>4, <1>5 DEF IInv

LEMMA AroundKeeps ==
  ASSUME IInv, Around
  PROVE  IInv'
<1>1. Typed'
  BY DEF IInv, Typed, Around
<1>2. InFlight' = InFlight /\ \A u \in Tokens : Waiting(u)' = Waiting(u)
  BY DEF InFlight, Waiting, Around
<1>3. FgCountIsExact' /\ SlotsAreNotLost' /\ AttemptsLeft'
  BY <1>2 DEF IInv, FgCountIsExact, SlotsAreNotLost, AttemptsLeft, Around
<1> QED  BY <1>1, <1>3 DEF IInv

LEMMA StepIInv == IInv /\ [Next]_vars => IInv'
  BY Forms, EntersKeeps, PassesKeeps, AbandonsKeeps, GoesKeeps, AroundKeeps

LEMMA IInvHolds == Spec => []IInv
  BY InitIInv, StepIInv, PTL DEF Spec

\* The variables of the client keep their types, the counters their ranges.
THEOREM TypeCorrect == Spec => []TypeOK
  BY InRange, IInvHolds, PTL

\* fg_waiting is the number of foreground calls in the limiter at every moment,
\* cancellations included (the try/finally of acquire).
THEOREM CounterIsExact == Spec => []FgCountIsExact
<1>1. IInv => FgCountIsExact
  BY DEF IInv
<1> QED  BY <1>1, IInvHolds, PTL

\* The semaphore of _get loses no slot and lends none twice.
THEOREM SlotsAccounted == Spec => []SlotsAreNotLost
<1>1. IInv => SlotsAreNotLost
  BY DEF IInv
<1> QED  BY <1>1, IInvHolds, PTL
----------------------------------------------------------------------------
(* Priority.                                                               *)

\* A background call is granted a token only while no foreground call waits in the
\* limiter of that token (the fg_waiting test of acquire, which is worth what the
\* counter is worth).
THEOREM LiveScreensFirst == Spec => ForegroundFirst
<1> DEFINE First == \A c \in Calls \ Fg : pc[c] # "queued" /\ pc'[c] = "queued"
                       => Waiting(token'[c]) = {}
<1>1. IInv /\ [Next]_vars => First
  <2> SUFFICES ASSUME IInv, [Next]_vars, NEW c \in Calls, c \notin Fg,
                      pc[c] # "queued", pc'[c] = "queued"
               PROVE  Waiting(token'[c]) = {}
    OBVIOUS
  <2>1. PICK d \in Calls : \/ Begin(d) \/ Retry(d) \/ Renew(d)
                           \/ Passes(d) \/ Abandons(d)
                           \/ \E p \in Pcs : Goes(d, p)
    BY Forms DEF Around
  <2>2. ASSUME NEW t \in Tokens, fgWaiting[t] = 0 PROVE Waiting(t) = {}
    BY <2>2, Finite, FS_EmptySet DEF IInv, FgCountIsExact
  <2>3. CASE Begin(d) \/ Retry(d) \/ Renew(d)
    <3>1. PICK t \in Tokens : Enters(d, t)
      BY <2>3, EnterEffect
    <3>2. d = c /\ token'[c] = t
      BY <3>1 DEF IInv, Typed, Enters, Pass
    <3>3. fgWaiting[t] = 0
      BY <3>1, <3>2 DEF IInv, Typed, Enters, Pass
    <3> QED  BY <2>2, <3>2, <3>3
  <2>4. CASE Passes(d)
    <3>1. d = c /\ token'[c] = token[c]
      BY <2>4 DEF IInv, Typed, Passes, Pass
    <3>2. PICK t \in Tokens : t = token[c]
      BY DEF IInv, Typed
    <3>3. fgWaiting[t] = 0
      BY <2>4, <3>1, <3>2 DEF IInv, Typed, Passes, Pass
    <3> QED  BY <2>2, <3>1, <3>2, <3>3
  <2>5. CASE Abandons(d)
    BY <2>5 DEF IInv, Typed, Abandons
  <2>6. CASE \E p \in Pcs : Goes(d, p)
    BY <2>6 DEF IInv, Typed, Goes
  <2> QED  BY <2>1, <2>3, <2>4, <2>5, <2>6
<1> QED  BY <1>1, IInvHolds, PTL DEF Spec, ForegroundFirst
----------------------------------------------------------------------------
(* The bucket: while the minute lasts, what was granted, what is left and   *)
(* what the next update adds never exceed the burst and the elapsed time;   *)
(* before its first grant the bucket's level alone is bounded.              *)

Balance(t) == window.granted + bucket[t].tokens + bucket[t].lag

Metered ==
  /\ window.token = 0 => window.granted = 0
  /\ \A t \in Tokens : window.token = t =>
       \/ window.granted = 0
       \/ window.age < Minute /\ Balance(t) <= Cap + window.age
       \/ window.age = Minute /\ window.granted <= Cap + window.age

\* A step that grants nothing and touches no bucket.
LEMMA MeteredStays ==
  ASSUME Metered, bucket' = bucket, window'.token = window.token,
         window'.age = window.age, window'.granted = window.granted
  PROVE  Metered'
  BY DEF Metered, Balance

LEMMA MeteredPass ==
  ASSUME TypeOK, Metered, NEW c \in Calls, NEW t \in Tokens, NEW n \in Int,
         Granted(c, t, n) \/ Denied(c, t, n)
  PROVE  Metered'
<1>1. /\ Level(t) \in 0..Cap /\ Level(t) <= bucket[t].tokens + bucket[t].lag
      /\ bucket[t].tokens \in 0..Cap /\ bucket[t].lag \in 0..Cap
  BY DodoAssumption DEF TypeOK, Level, AtMost
<1>2. /\ window.token \in Tokens \cup {0} /\ window.age \in 0..Minute
      /\ window.granted \in Nat /\ Minute \in Nat /\ Cap \in Nat /\ Cost \in Nat
  BY DodoAssumption DEF Window, TypeOK
<1>3. CASE window.token # t
  <2>1. window' = window /\ \A u \in Tokens : u # t => bucket'[u] = bucket[u]
    BY <1>3 DEF Granted, Denied, CountGrant, Observed, TypeOK
  <2> QED  BY <1>3, <2>1 DEF Metered, Balance
<1>4. CASE window.token = t /\ Denied(c, t, n)
  <2>1. window' = window /\ bucket'[t].tokens = Level(t) /\ bucket'[t].lag = 0
    BY <1>4 DEF Denied, Refused, TypeOK
  <2>2. t # 0
    BY DEF Tokens
  <2> QED  BY <1>1, <1>2, <1>4, <2>1, <2>2 DEF Metered, Balance
<1>5. CASE window.token = t /\ Granted(c, t, n) /\ window.age < Minute
  <2>1. /\ window'.token = t /\ window'.age = window.age
        /\ window'.granted = window.granted + Cost
        /\ bucket'[t].tokens = Level(t) - Cost /\ bucket'[t].lag = 0
    BY <1>2, <1>5 DEF Granted, CountGrant, Observed, TypeOK
  <2>2. Balance(t)' = window.granted + Level(t)
    BY <1>1, <1>2, <2>1 DEF Balance
  <2>3. window.granted + Level(t) <= Cap + window.age
    BY <1>1, <1>2, <1>5 DEF Metered, Balance
  <2>4. Balance(t)' <= Cap + window'.age /\ window'.age < Minute
    BY <1>5, <2>1, <2>2, <2>3
  <2>5. t # 0
    BY DEF Tokens
  <2> QED  BY <2>1, <2>4, <2>5 DEF Metered
<1>6. CASE window.token = t /\ Granted(c, t, n) /\ ~(window.age < Minute)
  <2>1. window' = window
    BY <1>6 DEF Granted, CountGrant, Observed
  <2>2. t # 0
    BY DEF Tokens
  <2> QED  BY <1>2, <1>6, <2>1, <2>2 DEF Metered, Balance
<1> QED  BY <1>3, <1>4, <1>5, <1>6

LEMMA MeteredTick ==
  ASSUME TypeOK, Metered, Tick
  PROVE  Metered'
<1>1. /\ window.token \in Tokens \cup {0} /\ window.age \in 0..Minute
      /\ window.granted \in Nat /\ Minute \in Nat /\ Cap \in Nat
  BY DodoAssumption DEF Window, TypeOK
<1>2. window'.token = window.token /\ window'.granted = window.granted
  BY DEF Tick, TypeOK
<1>3. ASSUME NEW t \in Tokens, window.token = t, window.granted # 0
      PROVE  \/ window'.age < Minute /\ Balance(t)' <= Cap + window'.age
             \/ window'.age = Minute /\ window'.granted <= Cap + window'.age
  <2>1. /\ bucket[t].tokens \in 0..Cap /\ bucket[t].lag \in 0..Cap
        /\ bucket'[t].tokens = bucket[t].tokens
        /\ bucket'[t].lag <= bucket[t].lag + 1 /\ bucket'[t].lag \in Int
    BY <1>1 DEF Tick, TypeOK, AtMost
  <2>2. CASE window.age < Minute
    <3>1. window'.age = window.age + 1
      BY <1>1, <1>3, <2>2 DEF Tick, TypeOK, Tokens
    <3>2. Balance(t) <= Cap + window.age
      BY <1>1, <1>3, <2>2 DEF Metered
    <3>3. Balance(t)' <= Balance(t) + 1 /\ window.granted <= Balance(t)
      BY <1>1, <1>2, <2>1 DEF Balance
    <3>4. Balance(t) \in Int /\ Balance(t)' \in Int
      BY <1>1, <1>2, <2>1 DEF Balance
    <3> QED  BY <1>1, <1>2, <2>2, <3>1, <3>2, <3>3, <3>4
  <2>3. CASE ~(window.age < Minute)
    <3>1. window.age = Minute
      BY <1>1, <2>3
    <3>2. window' = window
      BY <2>3 DEF Tick
    <3> QED  BY <1>1, <1>3, <3>1, <3>2 DEF Metered
  <2> QED  BY <2>2, <2>3
<1> QED  BY <1>2, <1>3 DEF Metered

LEMMA StepMetered == IInv /\ Metered /\ [Next]_vars => Metered'
<1> SUFFICES ASSUME IInv, Metered, [Next]_vars PROVE Metered'
  OBVIOUS
<1> USE InRange
<1>1. ASSUME NEW c \in Calls, Begin(c) \/ Retry(c) \/ Renew(c) \/ Poll(c)
      PROVE  Metered'
  <2>1. \E t \in Tokens, n \in Int : Granted(c, t, n) \/ Denied(c, t, n)
    <3>1. \A t \in Tokens : Enter(c, t) => \E n \in Int : Granted(c, t, n) \/ Denied(c, t, n)
      BY DEF Enter, TypeOK
    <3>2. cred \in Tokens /\ token[c] \in Tokens /\ fgWaiting[token[c]] \in Int
      BY DEF TypeOK
    <3>3. CASE Begin(c) \/ Retry(c) \/ Renew(c)
      BY <3>1, <3>2, <3>3 DEF Begin, Retry, Renew
    <3>4. CASE Poll(c)
      BY <3>2, <3>4 DEF Poll
    <3> QED  BY <1>1, <3>3, <3>4
  <2> QED  BY <2>1, MeteredPass
<1>2. ASSUME NEW c \in Calls, \/ NoToken(c) \/ Send(c) \/ Answer(c) \/ TryLater(c)
                              \/ GiveUp(c) \/ Unauthorized(c) \/ SameToken(c) \/ Cancel(c)
      PROVE  Metered'
  <2>1. /\ bucket' = bucket /\ window'.token = window.token
        /\ window'.age = window.age /\ window'.granted = window.granted
    BY <1>2 DEF Window, TypeOK, NoToken, Send, CountSend, Answer, Returned, TryLater, GiveUp,
                Unauthorized, SameToken, Cancel
  <2> QED  BY <2>1, MeteredStays
<1>3. CASE Tick
  BY <1>3, MeteredTick
<1>4. CASE Observe
  BY <1>4 DEF Observe, Metered, TypeOK
<1>5. CASE Rotate \/ UNCHANGED vars
  BY <1>5, MeteredStays DEF Rotate, vars
<1> QED  BY <1>1, <1>2, <1>3, <1>4, <1>5 DEF Next, Step

\* In a minute of one token, whenever it begins, the limiter grants at most the
\* burst and what the rate yields (_RateLimiter.acquire, "rpm + burst").
THEOREM BurstPlusRate == Spec => []GrantsAreMetered
<1>1. Init => Metered
  BY DEF Init, Metered
<1>2. IInv /\ Metered => GrantsAreMetered
  <2> SUFFICES ASSUME TypeOK, Metered PROVE GrantsAreMetered
    BY InRange
  <2>1. /\ window.token \in Tokens \cup {0} /\ window.age \in Nat
        /\ window.granted \in Nat /\ Cap \in Nat
    BY DodoAssumption DEF Window, TypeOK
  <2>2. CASE window.granted = 0
    BY <2>1, <2>2 DEF GrantsAreMetered
  <2>3. CASE window.granted # 0
    <3>1. PICK t \in Tokens : window.token = t
      BY <2>1, <2>3 DEF Metered
    <3>2. bucket[t].tokens \in Nat /\ bucket[t].lag \in Nat
      BY DodoAssumption DEF TypeOK
    <3> QED  BY <2>1, <2>3, <3>1, <3>2 DEF Metered, Balance, GrantsAreMetered
  <2> QED  BY <2>2, <2>3
<1> QED  BY <1>1, <1>2, IInvHolds, StepMetered, PTL DEF Spec
----------------------------------------------------------------------------
(* The way from the limiter to the server: what was sent and what is ready  *)
(* to be sent comes from the backlog or was granted since.                  *)

Flow ==
  /\ window.token = 0 => window.sent = 0 /\ window.granted = 0
  /\ window.token # 0 =>
       \/ /\ window.age < Minute
          /\ window.sent + (Cost * Cardinality(Queued(window.token)))
               <= window.granted + window.backlog
       \/ /\ window.age = Minute
          /\ window.sent <= window.granted + window.backlog

LEMMA AgeType ==
  ASSUME Typed
  PROVE  window.age \in Nat /\ Minute \in Nat /\ window.age <= Minute
  BY DodoAssumption DEF Typed, Window

\* With fewer calls ready and the same counts the balance holds.
LEMMA FlowStays ==
  ASSUME Flow, Typed, window' = window,
         Queued(window.token)' \subseteq Queued(window.token)
  PROVE  Flow'
<1> DEFINE t == window.token
<1>1. /\ Cardinality(Queued(t)) \in Nat /\ Cardinality(Queued(t)') \in Nat
      /\ Cardinality(Queued(t)') <= Cardinality(Queued(t))
  BY QueuedFinite, FS_Subset, FS_CardinalityType
<1>2. \A n, m \in Nat : n <= m => Cost * n <= Cost * m
  BY DodoAssumption
<1>3. /\ Cost * Cardinality(Queued(t)) \in Nat /\ Cost * Cardinality(Queued(t)') \in Nat
      /\ Cost * Cardinality(Queued(t)') <= Cost * Cardinality(Queued(t))
  BY <1>1, <1>2, CostTimes
<1>4. window.sent \in Nat /\ window.granted \in Nat /\ window.backlog \in Nat
  BY DEF Typed, Window
<1> DEFINE a == Cost * Cardinality(Queued(t))
           b == Cost * Cardinality(Queued(t)')
<1>5. /\ t = 0 => window.sent = 0 /\ window.granted = 0
      /\ t # 0 => \/ window.age < Minute /\ window.sent + a <= window.granted + window.backlog
                  \/ window.age = Minute /\ window.sent <= window.granted + window.backlog
  BY DEF Flow
<1>6. a \in Nat /\ b \in Nat /\ b <= a
  BY <1>3
<1>7. Flow' <=>
        /\ t = 0 => window.sent = 0 /\ window.granted = 0
        /\ t # 0 => \/ window.age < Minute /\ window.sent + b <= window.granted + window.backlog
                    \/ window.age = Minute /\ window.sent <= window.granted + window.backlog
  BY DEF Flow
<1> HIDE DEF a, b
<1>8. window.sent + a <= window.granted + window.backlog
        => window.sent + b <= window.granted + window.backlog
  BY <1>4, <1>6
<1> QED  BY <1>5, <1>7, <1>8

\* A pass of call c at the limiter of t: a grant adds one to both sides.
LEMMA FlowPass ==
  ASSUME Flow, Typed, NEW c \in Calls, NEW t \in Tokens, NEW n \in Int,
         Granted(c, t, n) \/ Denied(c, t, n), token' = [token EXCEPT ![c] = t],
         pc[c] # "queued"
  PROVE  Flow'
<1>1. \A d \in Calls : d # c => pc'[d] = pc[d] /\ token'[d] = token[d]
  BY DEF Granted, Denied, Goto, Typed
<1>2. token'[c] = t
  BY DEF Typed
<1>3. t # 0
  BY DEF Tokens
<1>4. CASE Granted(c, t, n) /\ Observed(t)
  <2> DEFINE q == Cardinality(Queued(t))
             a == Cost * q
  <2>1. pc'[c] = "queued"
    BY <1>4 DEF Granted, Goto, Typed
  <2>2. Queued(t)' = Queued(t) \cup {c} /\ c \notin Queued(t)
    BY <1>1, <1>2, <2>1 DEF Queued
  <2>3. Cardinality(Queued(t)') = q + 1 /\ q \in Nat
    BY <2>2, QueuedFinite, FS_AddElement
  <2>4. window' = [window EXCEPT !.granted = @ + Cost]
    BY <1>4 DEF Granted, CountGrant
  <2>5. /\ window'.token = t /\ window'.age = window.age /\ window'.sent = window.sent
        /\ window'.granted = window.granted + Cost /\ window'.backlog = window.backlog
        /\ window.token = t /\ window.age < Minute
    BY <1>4, <2>4 DEF Observed, Typed, Window
  <2>6. window.sent + a <= window.granted + window.backlog
    <3>1. window.age # Minute
      BY <2>5, DodoAssumption DEF Typed, Window
    <3> QED  BY <1>3, <2>5, <3>1 DEF Flow
  <2>7. Cost * Cardinality(Queued(t)') = a + Cost /\ a \in Nat
    BY <2>3, CostTimes
  <2>8. window.sent + (a + Cost) <= (window.granted + Cost) + window.backlog
    <3>1. window.sent \in Nat /\ window.granted \in Nat /\ window.backlog \in Nat
      BY DEF Typed, Window
    <3> HIDE DEF a
    <3> QED  BY <2>6, <2>7, <3>1, DodoAssumption
  <2> HIDE DEF a, q
  <2> QED  BY <1>3, <2>5, <2>7, <2>8 DEF Flow
<1>5. CASE ~(Granted(c, t, n) /\ Observed(t))
  <2>1. window' = window
    BY <1>5 DEF Granted, Denied, CountGrant
  <2>2. CASE window.token # t \/ Denied(c, t, n)
    <3>1. Queued(window.token)' \subseteq Queued(window.token)
      <4>1. ASSUME Denied(c, t, n) PROVE pc'[c] = "waiting"
        BY <4>1 DEF Denied, Goto, Typed
      <4> QED  BY <1>1, <1>2, <2>1, <2>2, <4>1 DEF Queued
    <3> QED  BY <2>1, <3>1, FlowStays
  <2>3. CASE window.token = t /\ Granted(c, t, n)
    <3>1. window.age = Minute
      <4>1. ~(window.age < Minute)
        BY <1>5, <2>3 DEF Observed
      <4> QED  BY <4>1, AgeType
    <3>2. window.sent <= window.granted + window.backlog
      BY <1>3, <2>3, <3>1, DodoAssumption DEF Flow
    <3> QED  BY <1>3, <2>1, <2>3, <3>1, <3>2 DEF Flow
  <2> QED  BY <2>2, <2>3
<1> QED  BY <1>4, <1>5

\* An attempt leaves: one less is ready, one more is sent.
LEMMA FlowSend ==
  ASSUME Flow, Typed, NEW c \in Calls, Send(c)
  PROVE  Flow'
<1> DEFINE t == token[c]
<1>1. /\ pc[c] = "queued" /\ pc'[c] = "sent" /\ token' = token /\ t \in Tokens /\ t # 0
      /\ \A d \in Calls : d # c => pc'[d] = pc[d]
  BY DEF Send, Goto, Typed, Tokens
<1>2. CASE Observed(t)
  <2> DEFINE q == Cardinality(Queued(t)')
             b == Cost * q
  <2>1. Queued(t)' = Queued(t) \ {c} /\ c \in Queued(t)
    BY <1>1 DEF Queued
  <2>2. Cardinality(Queued(t)) = q + 1 /\ q \in Nat
    <3>1. IsFiniteSet(Queued(t)) /\ Cardinality(Queued(t)) \in Nat
      BY QueuedFinite
    <3>2. Cardinality(Queued(t) \ {c}) = Cardinality(Queued(t)) - 1
      BY <2>1, <3>1, FS_RemoveElement
    <3>3. IsFiniteSet(Queued(t)')
      BY <2>1, <3>1, FS_Subset
    <3>4. q \in Nat
      BY <3>3, FS_CardinalityType
    <3> QED  BY <2>1, <3>1, <3>2, <3>4
  <2>3. /\ window'.token = t /\ window'.age = window.age /\ window'.sent = window.sent + Cost
        /\ window'.granted = window.granted /\ window'.backlog = window.backlog
        /\ window.token = t /\ window.age < Minute
    BY <1>2 DEF Send, CountSend, Observed, Typed, Window
  <2>4. Cost * Cardinality(Queued(t)) = b + Cost /\ b \in Nat
    BY <2>2, CostTimes
  <2>5. window.sent + (Cost * Cardinality(Queued(t))) <= window.granted + window.backlog
    <3>1. window.age # Minute
      BY <2>3, DodoAssumption DEF Typed, Window
    <3> QED  BY <1>1, <2>3, <3>1 DEF Flow
  <2>6. (window.sent + Cost) + b <= window.granted + window.backlog
    <3>1. window.sent \in Nat /\ window.granted \in Nat /\ window.backlog \in Nat
      BY DEF Typed, Window
    <3> HIDE DEF b
    <3> QED  BY <2>4, <2>5, <3>1, DodoAssumption
  <2>7. (window.sent + (Cost * Cardinality(Queued(window.token))))'
           = (window.sent + Cost) + b
    <3>1. Queued(window.token)' = Queued(t)'
      BY <1>1, <2>3 DEF Queued
    <3> QED  BY <2>3, <3>1
  <2> HIDE DEF b, q
  <2> QED  BY <1>1, <2>3, <2>6, <2>7 DEF Flow
<1>3. CASE ~Observed(t)
  <2>1. window' = window
    BY <1>3 DEF Send, CountSend
  <2>2. Queued(window.token)' \subseteq Queued(window.token)
    BY <1>1, <2>1 DEF Queued
  <2> QED  BY <2>1, <2>2, FlowStays
<1> QED  BY <1>2, <1>3

LEMMA StepFlow == IInv /\ Flow /\ [Next]_vars => Flow'
<1> SUFFICES ASSUME IInv, Flow, [Next]_vars PROVE Flow'
  OBVIOUS
<1>0. Typed /\ TypeOK
  BY InRange DEF IInv
<1>1. ASSUME NEW c \in Calls, Begin(c) \/ Retry(c) \/ Renew(c) \/ Poll(c)
      PROVE  Flow'
  <2>1. cred \in Tokens /\ token[c] \in Tokens /\ token = [token EXCEPT ![c] = token[c]]
        /\ pc[c] # "queued"
    BY <1>0, <1>1 DEF Typed, Begin, Retry, Renew, Poll
  <2>2. \E t \in Tokens : /\ token' = [token EXCEPT ![c] = t]
                          /\ Enter(c, t) \/ Granted(c, t, fgWaiting[t])
                                         \/ Denied(c, t, fgWaiting[t])
    <3>1. CASE Begin(c) \/ Renew(c)
      BY <2>1, <3>1 DEF Begin, Renew
    <3>2. CASE Retry(c)
      BY <2>1, <3>2 DEF Retry
    <3>3. CASE Poll(c)
      BY <2>1, <3>3 DEF Poll
    <3> QED  BY <1>1, <3>1, <3>2, <3>3
  <2>3. \E t \in Tokens, n \in Int : /\ token' = [token EXCEPT ![c] = t]
                                     /\ Granted(c, t, n) \/ Denied(c, t, n)
    <3>1. PICK t \in Tokens : /\ token' = [token EXCEPT ![c] = t]
                              /\ Enter(c, t) \/ Granted(c, t, fgWaiting[t])
                                             \/ Denied(c, t, fgWaiting[t])
      BY <2>2
    <3>2. fgWaiting[t] \in Int /\ fgWaiting[t] + 1 \in Int /\ fgWaiting[t] + 0 \in Int
      BY <1>0 DEF TypeOK
    <3>3. Enter(c, t) => \E n \in Int : Granted(c, t, n) \/ Denied(c, t, n)
      BY <3>2 DEF Enter
    <3> QED  BY <3>1, <3>2, <3>3
  <2> QED  BY <1>0, <2>1, <2>3, FlowPass
<1>2. ASSUME NEW c \in Calls, Send(c) PROVE Flow'
  BY <1>0, <1>2, FlowSend
<1>3. ASSUME NEW c \in Calls, \/ NoToken(c) \/ Answer(c) \/ TryLater(c) \/ GiveUp(c)
                              \/ Unauthorized(c) \/ SameToken(c) \/ Cancel(c)
      PROVE  Flow'
  <2>1. window' = window /\ token' = token /\ pc'[c] # "queued"
        /\ \A d \in Calls : d # c => pc'[d] = pc[d]
    BY <1>0, <1>3 DEF Typed, NoToken, Answer, Returned, TryLater, GiveUp, Unauthorized,
                      SameToken, Cancel, Goto, Ended
  <2>2. Queued(window.token)' \subseteq Queued(window.token)
    BY <2>1 DEF Queued
  <2> QED  BY <1>0, <2>1, <2>2, FlowStays
<1>4. CASE Tick
  <2> DEFINE a == Cost * Cardinality(Queued(window.token))
  <2>1. pc' = pc /\ token' = token
    BY <1>4 DEF Tick
  <2>2. CASE window.token # 0 /\ window.age < Minute
    <3>1. /\ window'.token = window.token /\ window'.age = window.age + 1
          /\ window'.sent = window.sent /\ window'.granted = window.granted
          /\ window'.backlog = window.backlog
      BY <1>0, <1>4, <2>2 DEF Tick, Typed, Window
    <3>2. Queued(window.token)' = Queued(window.token)
      BY <2>1, <3>1 DEF Queued
    <3>3. /\ window.sent \in Nat /\ window.granted \in Nat /\ window.backlog \in Nat
          /\ window.age \in Nat /\ Minute \in Nat
      BY <1>0, DodoAssumption DEF Typed, Window
    <3>4. a \in Nat
      BY QueuedFinite, CostTimes
    <3>5. window.sent + a <= window.granted + window.backlog
      BY <2>2, <3>3 DEF Flow
    <3>6. (Cost * Cardinality(Queued(window.token)))' = a
      BY <3>2
    <3> HIDE DEF a
    <3>7. window.sent <= window.granted + window.backlog
      BY <3>3, <3>4, <3>5
    <3>8. window.age + 1 < Minute \/ window.age + 1 = Minute
      BY <2>2, <3>3
    <3> QED  BY <2>2, <3>1, <3>5, <3>6, <3>7, <3>8 DEF Flow
  <2>3. CASE ~(window.token # 0 /\ window.age < Minute)
    <3>1. window' = window
      BY <1>4, <2>3 DEF Tick
    <3>2. Queued(window.token)' \subseteq Queued(window.token)
      BY <2>1, <3>1 DEF Queued
    <3> QED  BY <1>0, <3>1, <3>2, FlowStays
  <2> QED  BY <2>2, <2>3
<1>5. CASE Observe
  <2>1. PICK t \in Tokens :
          window' = [window EXCEPT !.token = t, !.backlog = Cost * Cardinality(Queued(t))]
    BY <1>5 DEF Observe
  <2> DEFINE a == Cost * Cardinality(Queued(t))
  <2>2. a \in Nat
    BY QueuedFinite, CostTimes
  <2>3. /\ window'.token = t /\ window'.age = window.age /\ window'.sent = 0
        /\ window'.granted = 0 /\ window'.backlog = a /\ t # 0
    <3>1. window.sent = 0 /\ window.granted = 0 /\ t # 0 /\ window \in Window
      BY <1>0, <1>5 DEF Observe, Flow, Typed, Tokens
    <3>2. window' = [window EXCEPT !.token = t, !.backlog = a]
      BY <2>1
    <3> HIDE DEF a
    <3> QED  BY <3>1, <3>2 DEF Window
  <2>4. Queued(t)' = Queued(t)
    BY <1>5 DEF Observe, callVars, Queued
  <2>5. (Cost * Cardinality(Queued(window.token)))' = a
    BY <2>3, <2>4
  <2>6. window.age < Minute \/ window.age = Minute
    BY <1>0, AgeType
  <2> HIDE DEF a
  <2> QED  BY <2>2, <2>3, <2>5, <2>6 DEF Flow
<1>6. CASE Rotate \/ UNCHANGED vars
  <2>1. window' = window /\ pc' = pc /\ token' = token
    BY <1>6 DEF Rotate, vars, callVars
  <2>2. Queued(window.token)' \subseteq Queued(window.token)
    BY <2>1 DEF Queued
  <2> QED  BY <1>0, <2>1, <2>2, FlowStays
<1> QED  BY <1>1, <1>2, <1>3, <1>4, <1>5, <1>6 DEF Next, Step

\* What a minute of one token carries, whenever it begins, is at most the burst, the
\* rate and the backlog it found at the semaphore (_get takes its token first).
THEOREM MinuteCarriesItsBacklog == Spec => []SendsAreMetered
<1>1. Init => Flow
  BY DEF Init, Flow
<1>2. TypeOK /\ Flow /\ GrantsAreMetered => SendsAreMetered
  <2> SUFFICES ASSUME TypeOK, Flow, GrantsAreMetered PROVE SendsAreMetered
    OBVIOUS
  <2>1. /\ window.sent \in Nat /\ window.granted \in Nat /\ window.backlog \in Nat
        /\ window.age \in Nat /\ Cap \in Nat
    BY DodoAssumption DEF TypeOK, Window
  <2>2. window.sent <= window.granted + window.backlog
    <3> DEFINE a == Cost * Cardinality(Queued(window.token))
    <3>1. a \in Nat
      BY QueuedFinite, CostTimes
    <3>2. CASE window.token = 0
      BY <2>1, <3>2 DEF Flow
    <3>3. CASE window.token # 0
      <4>1. \/ window.sent + a <= window.granted + window.backlog
            \/ window.sent <= window.granted + window.backlog
        BY <3>3 DEF Flow
      <4> HIDE DEF a
      <4> QED  BY <2>1, <3>1, <4>1
    <3> QED  BY <3>2, <3>3
  <2> QED  BY <2>1, <2>2 DEF GrantsAreMetered, SendsAreMetered
<1> QED  BY <1>1, <1>2, IInvHolds, TypeCorrect, BurstPlusRate, StepFlow, PTL DEF Spec

\* A minute of a token: what the limiter lets through in it and what is sent in it
\* are bounded, for any calls, slots, retries, renewals and cancellations.
THEOREM MinutesAreBounded == Spec => []MinutesAreMetered
BY BurstPlusRate, MinuteCarriesItsBacklog, PTL DEF MinutesAreMetered
=============================================================================
