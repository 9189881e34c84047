--------------------------- MODULE OpsSyncProofs ---------------------------
(***************************************************************************)
(* Proofs about OpsSync for any number of users, keys and pulls and any    *)
(* calls: type correctness; that a mark has a pull that will remove it,    *)
(* unless reading the user raises; that the marks keep pulls of one key    *)
(* apart as long as users keep their key and the warm-up is off; that no   *)
(* write takes a stored rate back; and that a pull has a bounded number of *)
(* steps ahead, which every one of its steps makes smaller.                *)
(***************************************************************************)
EXTENDS OpsSync, FiniteSetTheorems, TLAPS

WritingPcs == {"batch", "later", "retry"}

\* What the program counter of a pull says of its other fields
Shape(s) ==
  /\ s.pc # "idle" => s.mark \in PfKeys /\ s.user \in Users
  /\ s.pc \in WritingPcs => s.key \in PfKeys
  /\ s.pc = "later" => s.stage \in 1..Len(Later)

TInv == TypeOK /\ \A t \in Syncs : Shape(sync[t])

(***************************************************************************)
(* Every step of a pull has one of six effects on the marks.               *)
(***************************************************************************)
\* The pull goes on, or starts with the key its user has now.
Continues(t, s) ==
  /\ s.pc \in WritingPcs
  /\ Worker(t)
  /\ s.mark = sync[t].mark /\ s.user = sync[t].user
  /\ s.key = (IF sync[t].pc = "scheduled" THEN keyOf[s.user] ELSE sync[t].key)
  /\ inflight' = inflight

\* It ends and removes its mark, and that of the key it wrote to.
Stops(t, s) ==
  /\ s = Idle
  /\ Worker(t)
  /\ \E k \in PfKeys :
       /\ IF sync[t].pc = "scheduled"
          THEN k = sync[t].mark \/ k = keyOf[sync[t].user]
          ELSE k = sync[t].key
       /\ inflight' = inflight \ {sync[t].mark, k}

Leaks(t, s) ==
  "database" \in faults /\ s = Idle /\ Worker(t) /\ inflight' = inflight

\* A click finds the mark, or makes it.
Refused(t, s) ==
  s = Idle /\ sync[t].pc = "clicked" /\ inflight' = inflight

Marks(t, s) ==
  /\ sync[t].pc = "clicked" /\ sync[t].mark \notin inflight
  /\ s.pc = "scheduled" /\ s.mark = sync[t].mark /\ s.user = sync[t].user
  /\ inflight' = inflight \cup {s.mark}

\* The warm-up calls the worker, or not.
Warms(t, s) ==
  /\ sync[t].pc = "checked"
  /\ \/ s = Idle
     \/ s.pc = "scheduled" /\ s.mark = sync[t].mark /\ s.user = sync[t].user
  /\ inflight' = inflight

Effect(t, s) ==
  \/ Continues(t, s) \/ Stops(t, s) \/ Leaks(t, s)
  \/ Refused(t, s) \/ Marks(t, s) \/ Warms(t, s)

LEMMA IdleType == Idle \in Sync /\ Shape(Idle) /\ Idle.pc = "idle"
<1>1. 0 \in 0..Len(Later) /\ 0 \in 0..Rounds  BY SyncAssumption DEF Rounds
<1> QED  BY <1>1 DEF Idle, Sync, Pcs, Shape, WritingPcs

\* What is written has the type of a row.
LEMMA ColumnType ==
  ASSUME NEW got, NEW f \in Fields
  PROVE  Column(got, f) \in Stored
  BY DEF Column, Known, Stored, Fields

LEMMA WriteType ==
  ASSUME NEW k, NEW got, Write(k, got), row \in [PfKeys -> [Fields -> Stored]]
  PROVE  row' \in [PfKeys -> [Fields -> Stored]]
<1>1. CASE row' = row
  BY <1>1
<1>2. CASE row' = [row EXCEPT ![k] = Upsert(row[k], got)]
  <2>1. ASSUME k \in PfKeys PROVE Upsert(row[k], got) \in [Fields -> Stored]
    BY <2>1, ColumnType DEF Upsert
  <2> DEFINE W == [Fields -> Stored]
  <2> HIDE DEF W
  <2> QED
    BY <1>2, <2>1 DEF W
<1> QED
  BY <1>1, <1>2 DEF Write

\* Ending is always typed and stops the pull.
LEMMA EndEffect ==
  ASSUME TInv, NEW t \in Syncs, Writing(t), End(t)
  PROVE  Goto(t, Idle) /\ Stops(t, Idle)
<1>1. sync[t].key \in PfKeys /\ Worker(t) /\ sync[t].pc # "scheduled"
  BY DEF TInv, Shape, Writing, WritingPcs, Worker
<1> QED
  BY <1>1 DEF End, Stops

\* A pull that has a key keeps its mark, user and key.
LEMMA GoesOn ==
  ASSUME TInv, NEW t \in Syncs, Writing(t), NEW s \in Sync,
         s.pc \in WritingPcs, s.mark = sync[t].mark, s.key = sync[t].key,
         s.user = sync[t].user, s.pc = "later" => s.stage \in 1..Len(Later),
         inflight' = inflight
  PROVE  Shape(s) /\ Continues(t, s)
<1>1. sync[t] \in Sync /\ Shape(sync[t])
  BY DEF TInv, TypeOK
<1> QED
  BY <1>1 DEF Shape, Continues, Writing, WritingPcs, Worker

\* A call of the first batch, or a retry of it
LEMMA CallEffect ==
  ASSUME TInv, NEW t \in Syncs, NEW c \in First,
         BatchOk(t, c) \/ BatchFails(t, c) \/ RetryOk(t, c) \/ RetryFails(t, c)
  PROVE  \E s \in Sync : Shape(s) /\ Goto(t, s) /\ Effect(t, s)
<1> DEFINE q == sync[t]
<1>1. q \in Sync /\ Shape(q) /\ c \in Calls
  BY SyncAssumption DEF TInv, TypeOK, Calls
<1>2. q.pc \in {"batch", "retry"} /\ Writing(t)
  BY DEF BatchOk, BatchFails, RetryOk, RetryFails, Writing
<1>3. CASE \E s \in Sync : /\ Goto(t, s) /\ inflight' = inflight
                           /\ s.pc = q.pc /\ s.mark = q.mark /\ s.key = q.key
                           /\ s.user = q.user
  BY <1>2, <1>3, GoesOn DEF WritingPcs, Effect
<1>4. CASE BatchOk(t, c)
  <2> DEFINE s == [q EXCEPT !.pending = @ \ {c}, !.got = @ \cup {c}]
  <2>1. s \in Sync /\ s.pc = q.pc /\ s.mark = q.mark /\ s.key = q.key /\ s.user = q.user
    BY <1>1 DEF Sync
  <2> QED  BY <1>3, <1>4, <2>1 DEF BatchOk
<1>5. CASE BatchFails(t, c)
  <2> DEFINE s1 == [q EXCEPT !.pending = @ \ {c}, !.failed = @ \cup {c}]
             s2 == [q EXCEPT !.pending = @ \ {c}, !.abort = TRUE]
  <2>1. s1 \in Sync /\ s1.pc = q.pc /\ s1.mark = q.mark /\ s1.key = q.key /\ s1.user = q.user
    BY <1>1 DEF Sync
  <2>2. s2 \in Sync /\ s2.pc = q.pc /\ s2.mark = q.mark /\ s2.key = q.key /\ s2.user = q.user
    BY <1>1 DEF Sync
  <2>3. (Goto(t, s1) \/ Goto(t, s2)) /\ inflight' = inflight
    BY <1>5 DEF BatchFails
  <2> HIDE DEF s1, s2
  <2> QED  BY <1>3, <2>1, <2>2, <2>3
<1>6. CASE RetryOk(t, c)
  <2> DEFINE s == [q EXCEPT !.pending = @ \ {c}, !.failed = @ \ {c}, !.got = @ \cup {c}]
  <2>1. s \in Sync /\ s.pc = q.pc /\ s.mark = q.mark /\ s.key = q.key /\ s.user = q.user
    BY <1>1 DEF Sync
  <2> QED  BY <1>3, <1>6, <2>1 DEF RetryOk
<1>7. CASE RetryFails(t, c)
  <2> DEFINE s == [q EXCEPT !.pending = @ \ {c}]
  <2>1. s \in Sync /\ s.pc = q.pc /\ s.mark = q.mark /\ s.key = q.key /\ s.user = q.user
    BY <1>1 DEF Sync
  <2>2. CASE End(t)
    BY <1>2, <2>2, EndEffect, IdleType DEF Effect
  <2>3. CASE Goto(t, s) /\ inflight' = inflight
    BY <1>3, <2>1, <2>3
  <2> QED  BY <1>7, <2>2, <2>3 DEF RetryFails
<1> QED  BY <1>4, <1>5, <1>6, <1>7

LEMMA AdvanceEffect ==
  ASSUME TInv, NEW t \in Syncs, sync[t].pc = "later", NEW got \in SUBSET Calls,
         Advance(t, got)
  PROVE  \E s \in Sync : Shape(s) /\ Goto(t, s) /\ Effect(t, s)
<1> DEFINE q == [sync[t] EXCEPT !.got = got]
<1>1. Writing(t) /\ sync[t] \in Sync /\ sync[t].stage \in 1..Len(Later)
  BY DEF Writing, TInv, TypeOK, Shape
<1>2. q \in Sync /\ q.pc = "later" /\ q.mark = sync[t].mark /\ q.key = sync[t].key
      /\ q.user = sync[t].user /\ q.stage = sync[t].stage
  BY <1>1 DEF Sync
<1> HIDE DEF q
<1>3. CASE q.stage < Len(Later)
  <2> DEFINE s == [q EXCEPT !.stage = @ + 1]
  <2>1. q.stage + 1 \in 1..Len(Later) /\ q.stage + 1 \in 0..Len(Later)
    BY <1>1, <1>2, <1>3, SyncAssumption
  <2>2. s \in Sync /\ s.pc = "later" /\ s.mark = q.mark /\ s.key = q.key
        /\ s.user = q.user /\ s.stage = q.stage + 1
    BY <1>2, <2>1 DEF Sync
  <2>3. Goto(t, s) /\ inflight' = inflight
    BY <1>3 DEF Advance, q
  <2> HIDE DEF s
  <2> QED  BY <1>1, <1>2, <2>1, <2>2, <2>3, GoesOn DEF WritingPcs, Effect
<1>4. CASE ~(q.stage < Len(Later)) /\ q.failed = {}
  <2>1. End(t)
    BY <1>4 DEF Advance, q
  <2> QED  BY <1>1, <2>1, EndEffect, IdleType DEF Effect
<1>5. CASE ~(q.stage < Len(Later)) /\ q.failed # {}
  <2> DEFINE s == [q EXCEPT !.pc = "retry", !.stage = 0, !.round = 1,
                            !.pending = q.failed]
  <2>1. 0 \in 0..Len(Later) /\ 1 \in 0..Rounds
    BY SyncAssumption DEF Rounds
  <2>2. s \in Sync /\ s.pc = "retry" /\ s.mark = q.mark /\ s.key = q.key
        /\ s.user = q.user
    BY <1>2, <2>1 DEF Sync, Pcs
  <2>3. Goto(t, s) /\ inflight' = inflight
    BY <1>5 DEF Advance, q
  <2> HIDE DEF s
  <2> QED  BY <1>1, <1>2, <2>2, <2>3, GoesOn DEF WritingPcs, Effect
<1> QED  BY <1>3, <1>4, <1>5

LEMMA StepEffect ==
  ASSUME TInv, NEW t \in Syncs, SyncStep(t)
  PROVE  \E s \in Sync : Shape(s) /\ Goto(t, s) /\ Effect(t, s)
<1> DEFINE q == sync[t]
<1>1. q \in Sync /\ Shape(q)
  BY DEF TInv, TypeOK
<1>2. CASE Schedule(t)
  <2> DEFINE s == [q EXCEPT !.pc = "scheduled"]
  <2>1. s \in Sync /\ s.pc = "scheduled" /\ s.mark = q.mark /\ s.user = q.user
    BY <1>1 DEF Sync, Pcs
  <2>2. CASE q.mark \in inflight
    BY <1>2, <2>2, IdleType DEF Schedule, Effect, Refused
  <2>3. CASE q.mark \notin inflight
    <3>1. Goto(t, s) /\ inflight' = inflight \cup {q.mark} /\ q.pc = "clicked"
      BY <1>2, <2>3 DEF Schedule
    <3> HIDE DEF s
    <3>2. Shape(s)
      BY <1>1, <2>1, <3>1 DEF Shape, WritingPcs
    <3> QED  BY <2>1, <2>3, <3>1, <3>2 DEF Effect, Marks
  <2> QED  BY <2>2, <2>3
<1>3. CASE Vanished(t)
  <2>1. q.pc = "scheduled" /\ Goto(t, Idle) /\ inflight' = inflight \ {q.mark}
        /\ Worker(t) /\ q.mark \in PfKeys
    BY <1>1, <1>3 DEF Vanished, Worker, Shape
  <2>2. Stops(t, Idle)
    BY <2>1 DEF Stops
  <2> QED  BY <2>1, <2>2, IdleType DEF Effect
<1>4. CASE Begin(t)
  <2> DEFINE s == [q EXCEPT !.pc = "batch", !.key = keyOf[q.user], !.pending = First]
  <2>1. q.pc = "scheduled" /\ Worker(t) /\ keyOf[q.user] \in PfKeys
    BY <1>1, <1>4 DEF Begin, Worker, TInv, TypeOK, Shape
  <2>2. s \in Sync /\ s.pc = "batch" /\ s.mark = q.mark /\ s.user = q.user
        /\ s.key = keyOf[q.user]
    BY <1>1, <2>1 DEF Sync, Pcs
  <2>3. CASE Goto(t, s) /\ inflight' = inflight
    <3> HIDE DEF s
    <3>1. Shape(s) /\ Continues(t, s)
      BY <1>1, <2>1, <2>2, <2>3 DEF Shape, Continues, WritingPcs
    <3> QED  BY <2>2, <2>3, <3>1 DEF Effect
  <2>4. CASE Goto(t, Idle) /\ inflight' = inflight \ {q.mark, keyOf[q.user]}
    <3>1. Stops(t, Idle)
      BY <2>1, <2>4 DEF Stops
    <3> QED  BY <2>4, <3>1, IdleType DEF Effect
  <2> QED  BY <1>4, <2>3, <2>4 DEF Begin
<1>5. CASE BeginFails(t)
  <2>1. Goto(t, Idle) /\ Leaks(t, Idle)
    BY <1>5 DEF BeginFails, Leaks, Worker
  <2> QED  BY <2>1, IdleType DEF Effect
<1>6. CASE WarmRun(t)
  <2> DEFINE s == [q EXCEPT !.pc = "scheduled"]
  <2>1. s \in Sync /\ s.pc = "scheduled" /\ s.mark = q.mark /\ s.user = q.user
    BY <1>1 DEF Sync, Pcs
  <2>2. q.pc = "checked" /\ inflight' = inflight /\ (Goto(t, s) \/ Goto(t, Idle))
    BY <1>6 DEF WarmRun
  <2> HIDE DEF s
  <2>3. Shape(s)
    BY <1>1, <2>1, <2>2 DEF Shape, WritingPcs
  <2> QED  BY <2>1, <2>2, <2>3, IdleType DEF Effect, Warms
<1>7. CASE \E c \in First : BatchOk(t, c) \/ BatchFails(t, c)
                            \/ RetryOk(t, c) \/ RetryFails(t, c)
  BY <1>7, CallEffect
<1>8. CASE BatchOver(t)
  <2> DEFINE s == [q EXCEPT !.pc = "later", !.stage = 1]
  <2>1. q.pc = "batch" /\ Writing(t)
    BY <1>8 DEF BatchOver, Writing
  <2>2. CASE End(t)
    BY <2>1, <2>2, EndEffect, IdleType DEF Effect
  <2>3. CASE Goto(t, s) /\ inflight' = inflight
    <3>1. 1 \in 0..Len(Later) /\ 1 \in 1..Len(Later)
      BY SyncAssumption
    <3>2. s \in Sync /\ s.pc = "later" /\ s.mark = q.mark /\ s.key = q.key
          /\ s.user = q.user /\ s.stage = 1
      BY <1>1, <3>1 DEF Sync, Pcs
    <3> HIDE DEF s
    <3> QED  BY <2>1, <2>3, <3>1, <3>2, GoesOn DEF WritingPcs, Effect
  <2> QED  BY <1>8, <2>2, <2>3 DEF BatchOver
<1>9. CASE LaterCall(t)
  <2>1. q.pc = "later" /\ q.stage \in 1..Len(Later) /\ q.got \in SUBSET Calls
    BY <1>1, <1>9 DEF LaterCall, Shape, Sync
  <2>2. Later[q.stage] \in Calls
    BY <2>1, SyncAssumption DEF Calls
  <2>3. PICK got \in {q.got, q.got \cup {Later[q.stage]}} : Advance(t, got)
    BY <1>9 DEF LaterCall
  <2> QED  BY <2>1, <2>2, <2>3, AdvanceEffect
<1>10. CASE LaterTimeout(t)
  <2>1. Writing(t) /\ End(t)
    BY <1>10 DEF LaterTimeout, Writing
  <2> QED  BY <2>1, EndEffect, IdleType DEF Effect
<1>11. CASE RoundOver(t)
  <2> DEFINE s == [q EXCEPT !.round = @ + 1, !.pending = q.failed]
  <2>1. q.pc = "retry" /\ Writing(t)
    BY <1>11 DEF RoundOver, Writing
  <2>2. CASE End(t)
    BY <2>1, <2>2, EndEffect, IdleType DEF Effect
  <2>3. CASE Goto(t, s) /\ inflight' = inflight /\ q.round # Rounds
    <3>1. q.round + 1 \in 0..Rounds
      BY <1>1, <2>3 DEF Sync, Rounds
    <3>2. s \in Sync /\ s.pc = "retry" /\ s.mark = q.mark /\ s.key = q.key
          /\ s.user = q.user
      BY <1>1, <2>1, <3>1 DEF Sync
    <3> HIDE DEF s
    <3> QED  BY <2>1, <2>3, <3>2, GoesOn DEF WritingPcs, Effect
  <2> QED  BY <1>11, <2>2, <2>3 DEF RoundOver
<1> QED
  BY <1>2, <1>3, <1>4, <1>5, <1>6, <1>7, <1>8, <1>9, <1>10, <1>11 DEF SyncStep

\* A step leaves the users' keys alone and writes rows of the right type.
LEMMA StepRow ==
  ASSUME TInv, NEW t \in Syncs, SyncStep(t)
  PROVE  keyOf' = keyOf /\ faults' = faults /\ row' \in [PfKeys -> [Fields -> Stored]]
<1> USE DEF TInv, TypeOK
<1>0. faults' = faults
  BY DEF SyncStep
<1>1. CASE \E c \in First : BatchOk(t, c) \/ RetryOk(t, c)
  BY <1>0, <1>1, WriteType DEF BatchOk, RetryOk
<1>2. CASE LaterCall(t)
  BY <1>0, <1>2, WriteType DEF LaterCall
<1>3. CASE \/ Schedule(t) \/ Vanished(t) \/ Begin(t) \/ BeginFails(t) \/ WarmRun(t)
           \/ \E c \in First : BatchFails(t, c) \/ RetryFails(t, c)
           \/ BatchOver(t) \/ LaterTimeout(t) \/ RoundOver(t)
  BY <1>0, <1>3 DEF Schedule, Vanished, Begin, BeginFails, WarmRun, BatchFails,
              RetryFails, BatchOver, LaterTimeout, RoundOver
<1> QED  BY <1>1, <1>2, <1>3 DEF SyncStep

\* The other steps: a click or a check fills an idle slot.
Arrives(t, s) ==
  /\ sync[t].pc = "idle"
  /\ s.pc \in (IF "warmup" \in faults THEN {"clicked", "checked"} ELSE {"clicked"})
  /\ s.mark = keyOf[s.user]
  /\ Goto(t, s)
  /\ UNCHANGED <<keyOf, inflight, row>>

LEMMA ArrivalEffect ==
  ASSUME TInv, NEW t \in Syncs, NEW u \in Users, Click(t, u) \/ WarmCheck(t, u)
  PROVE  \E s \in Sync : Shape(s) /\ Arrives(t, s)
<1> DEFINE s1 == [Idle EXCEPT !.pc = "clicked", !.user = u, !.mark = keyOf[u]]
           s2 == [Idle EXCEPT !.pc = "checked", !.user = u, !.mark = keyOf[u]]
<1>1. ASSUME keyOf[u] # NoKey PROVE keyOf[u] \in PfKeys
  BY <1>1 DEF TInv, TypeOK
<1>2. ASSUME keyOf[u] \in PfKeys
      PROVE  /\ s1 \in Sync /\ s1.pc = "clicked" /\ s1.user = u /\ s1.mark = keyOf[u]
             /\ s2 \in Sync /\ s2.pc = "checked" /\ s2.user = u /\ s2.mark = keyOf[u]
  BY <1>2, IdleType DEF Sync, Pcs
<1>3. CASE Click(t, u)
  <2>1. sync[t].pc = "idle" /\ keyOf[u] \in PfKeys /\ Goto(t, s1)
        /\ UNCHANGED <<keyOf, inflight, row>>
    BY <1>1, <1>3 DEF Click
  <2> HIDE DEF s1, s2
  <2> QED  BY <1>2, <2>1 DEF Arrives, Shape, WritingPcs
<1>4. CASE WarmCheck(t, u)
  <2>1. sync[t].pc = "idle" /\ keyOf[u] \in PfKeys /\ Goto(t, s2)
        /\ UNCHANGED <<keyOf, inflight, row>> /\ "warmup" \in faults
    BY <1>1, <1>4 DEF WarmCheck
  <2> HIDE DEF s1, s2
  <2> QED  BY <1>2, <2>1 DEF Arrives, Shape, WritingPcs
<1> QED  BY <1>3, <1>4

\* Every step, by its effect
LEMMA NextEffect ==
  ASSUME TInv, Next
  PROVE  /\ faults' = faults
         /\ \/ \E t \in Syncs, s \in Sync : /\ Shape(s) /\ Goto(t, s) /\ Effect(t, s)
                                            /\ keyOf' = keyOf
                                            /\ row' \in [PfKeys -> [Fields -> Stored]]
            \/ \E t \in Syncs, s \in Sync : Shape(s) /\ Arrives(t, s)
            \/ \E u \in Users, k \in PfKeys \cup {NoKey} : Reassign(u, k)
            \/ Restart
<1>1. CASE \E t \in Syncs : SyncStep(t)
  BY <1>1, StepEffect, StepRow
<1>2. CASE OtherStep
  BY <1>2, ArrivalEffect DEF OtherStep
<1> QED  BY <1>1, <1>2 DEF Next

LEMMA EffectType ==
  ASSUME TInv, NEW t \in Syncs, NEW s \in Sync, Shape(s), Effect(t, s)
  PROVE  inflight' \subseteq PfKeys
  BY DEF Effect, Continues, Stops, Leaks, Refused, Marks, Warms, TInv, TypeOK,
         Shape, Sync

LEMMA GotoType ==
  ASSUME TInv, NEW t \in Syncs, NEW s \in Sync, Shape(s), Goto(t, s)
  PROVE  sync' \in [Syncs -> Sync] /\ \A r \in Syncs : Shape(sync'[r])
<1>1. sync' \in [Syncs -> Sync]
  <2> HIDE DEF Sync
  <2> QED  BY DEF Goto, TInv, TypeOK
<1>2. ASSUME NEW r \in Syncs PROVE Shape(sync'[r])
  <2>1. sync'[r] = IF r = t THEN s ELSE sync[r]
    BY DEF Goto, TInv, TypeOK
  <2> QED  BY <2>1 DEF TInv
<1> QED  BY <1>1, <1>2

LEMMA TypeStep == TInv /\ [Next]_vars => TInv'
<1> SUFFICES ASSUME TInv, [Next]_vars PROVE TInv'
  OBVIOUS
<1>1. CASE Next
  <2>0. faults' \in FaultSets
    BY <1>1, NextEffect DEF TInv, TypeOK
  <2>1. ASSUME NEW t \in Syncs, NEW s \in Sync, Shape(s), Goto(t, s), Effect(t, s),
               keyOf' = keyOf, row' \in [PfKeys -> [Fields -> Stored]]
        PROVE  TInv'
    <3>1. inflight' \subseteq PfKeys
      BY <2>1, EffectType
    <3>2. sync' \in [Syncs -> Sync] /\ \A r \in Syncs : Shape(sync'[r])
      BY <2>1, GotoType
    <3> QED  BY <2>0, <2>1, <3>1, <3>2 DEF TInv, TypeOK, Shape
  <2>2. ASSUME NEW t \in Syncs, NEW s \in Sync, Shape(s), Arrives(t, s)
        PROVE  TInv'
    <3>1. sync' \in [Syncs -> Sync] /\ \A r \in Syncs : Shape(sync'[r])
      BY <2>2, GotoType DEF Arrives
    <3> QED  BY <2>0, <2>2, <3>1 DEF Arrives, TInv, TypeOK, Shape
  <2>3. ASSUME NEW u \in Users, NEW k \in PfKeys \cup {NoKey}, Reassign(u, k)
        PROVE  TInv'
    BY <2>0, <2>3 DEF Reassign, TInv, TypeOK, Shape
  <2>4. CASE Restart
    BY <2>0, <2>4, IdleType DEF Restart, TInv, TypeOK, Shape, WritingPcs
  <2> QED  BY <1>1, <2>1, <2>2, <2>3, <2>4, NextEffect
<1>2. CASE UNCHANGED vars
  BY <1>2 DEF vars, TInv, TypeOK, Shape
<1> QED  BY <1>1, <1>2

LEMMA TypeInit == Init => TInv
<1> SUFFICES ASSUME Init PROVE TInv  OBVIOUS
<1>1. sync \in [Syncs -> Sync] /\ \A t \in Syncs : Shape(sync[t])
  BY IdleType DEF Init
<1>2. keyOf \in [Users -> PfKeys \cup {NoKey}] /\ inflight \subseteq PfKeys
      /\ row \in [PfKeys -> [Fields -> Stored]] /\ faults \in FaultSets
  BY DEF Init, Stored
<1> QED  BY <1>1, <1>2 DEF TInv, TypeOK

\* Every variable keeps its type, and a pull that writes has its user's key.
THEOREM TypeCorrect == Spec => []TypeOK
<1>1. TInv => TypeOK  BY DEF TInv
<1> QED  BY TypeInit, TypeStep, <1>1, PTL DEF Spec

(***************************************************************************)
(* A mark has an owner, unless reading the user can raise.                 *)
(***************************************************************************)
LEMMA GotoMakes ==
  ASSUME TInv, NEW t \in Syncs, NEW s \in Sync, Goto(t, s)
  PROVE  \A r \in Syncs : sync'[r] = IF r = t THEN s ELSE sync[r]
<1> HIDE DEF Sync
<1> QED  BY DEF Goto, TInv, TypeOK

HasOwner == \A k \in inflight : \E t \in Syncs : Worker(t) /\ sync[t].mark = k

LEMMA OwnerStep ==
  ASSUME "database" \notin faults, TInv, HasOwner, [Next]_vars
  PROVE  HasOwner'
<1>1. ASSUME NEW t \in Syncs, NEW s \in Sync, Goto(t, s), Effect(t, s)
      PROVE  HasOwner'
  <2>1. \A r \in Syncs : sync'[r] = IF r = t THEN s ELSE sync[r]
    BY <1>1, GotoMakes
  <2>2. CASE Continues(t, s)
    BY <2>1, <2>2 DEF Continues, HasOwner, Worker, WritingPcs
  <2>3. CASE Stops(t, s)
    <3>1. ASSUME NEW k \in inflight', NEW r \in Syncs, Worker(r), sync[r].mark = k
          PROVE  r # t /\ k \in inflight
      BY <2>3, <3>1 DEF Stops
    <3> QED  BY <2>1, <2>3, <3>1 DEF Stops, HasOwner, Worker
  <2>4. CASE Refused(t, s)
    BY <2>1, <2>4 DEF Refused, HasOwner, Worker
  <2>5. CASE Marks(t, s)
    BY <2>1, <2>5 DEF Marks, HasOwner, Worker
  <2>6. CASE Warms(t, s)
    BY <2>1, <2>6 DEF Warms, HasOwner, Worker
  <2> QED  BY <1>1, <2>2, <2>3, <2>4, <2>5, <2>6 DEF Effect, Leaks
<1>2. ASSUME NEW t \in Syncs, NEW s \in Sync, Arrives(t, s)
      PROVE  HasOwner'
  <2>1. \A r \in Syncs : sync'[r] = IF r = t THEN s ELSE sync[r]
    BY <1>2, GotoMakes DEF Arrives
  <2> QED  BY <1>2, <2>1 DEF Arrives, HasOwner, Worker
<1>3. ASSUME NEW u \in Users, NEW k \in PfKeys \cup {NoKey}, Reassign(u, k)
      PROVE  HasOwner'
  BY <1>3 DEF Reassign, HasOwner, Worker
<1>4. CASE Restart
  BY <1>4 DEF Restart, HasOwner
<1>5. CASE UNCHANGED vars
  BY <1>5 DEF vars, HasOwner, Worker
<1> QED  BY <1>1, <1>2, <1>3, <1>4, <1>5, NextEffect

\* Unless reading the user raises, every mark belongs to a pull that removes
\* it when it ends, also when users change key, lose it, or the warm-up runs.
THEOREM MarksAreOwned == Spec => []MarkHasOwner
<1>1. Init => MarkHasOwner
  BY DEF Init, MarkHasOwner
<1>2. TInv /\ MarkHasOwner /\ [Next]_vars => MarkHasOwner'
  <2> SUFFICES ASSUME TInv, MarkHasOwner, [Next]_vars, ("database" \notin faults)'
               PROVE  HasOwner'
    BY DEF MarkHasOwner, HasOwner, Worker
  <2>1. faults' = faults
    BY NextEffect DEF vars
  <2> QED  BY <2>1, OwnerStep DEF MarkHasOwner, HasOwner
<1> QED  BY TypeInit, TypeStep, <1>1, <1>2, PTL DEF Spec

(***************************************************************************)
(* The marks keep pulls apart, if users keep their key and every pull that *)
(* runs made a mark.                                                       *)
(***************************************************************************)
\* A click and a worker have the key of their user; a worker's mark is there
\* and no other worker has it; the key it writes to is the marked one.
Apart ==
  /\ \A t \in Syncs :
       /\ sync[t].pc # "checked"
       /\ sync[t].pc # "idle" => sync[t].mark = keyOf[sync[t].user]
       /\ Worker(t) => sync[t].mark \in inflight
       /\ Writing(t) => sync[t].key = sync[t].mark
  /\ \A s, t \in Syncs :
       Worker(s) /\ Worker(t) /\ sync[s].mark = sync[t].mark => s = t

LEMMA ApartStep ==
  ASSUME OnlyClicks, TInv, Apart, [Next]_vars
  PROVE  Apart'
<1>1. ASSUME NEW t \in Syncs, NEW s \in Sync, Goto(t, s), Effect(t, s), keyOf' = keyOf
      PROVE  Apart'
  <2>1. \A r \in Syncs : sync'[r] = IF r = t THEN s ELSE sync[r]
    BY <1>1, GotoMakes
  <2>2. CASE Continues(t, s)
    BY <1>1, <2>1, <2>2 DEF Continues, Apart, Worker, Writing, WritingPcs
  <2>3. CASE s = Idle
    <3>1. ~Worker(t)' /\ ~Writing(t)' /\ sync'[t].pc = "idle"
      BY <2>1, <2>3, IdleType DEF Worker, Writing
    <3>2. ASSUME NEW r \in Syncs, Worker(r), r # t
          PROVE  sync[r].mark \in inflight'
      <4>1. sync[r].mark \in inflight
        BY <3>2 DEF Apart
      <4>2. CASE Stops(t, s)
        <5>1. sync[r].mark # sync[t].mark
          BY <3>2, <4>2 DEF Apart, Stops
        <5>2. PICK k \in PfKeys : /\ k = sync[t].mark
                                  /\ inflight' = inflight \ {sync[t].mark, k}
          BY <4>2 DEF Stops, Apart, Worker, Writing
        <5> QED  BY <4>1, <5>1, <5>2
      <4>3. CASE inflight' = inflight
        BY <4>1, <4>3
      <4> QED
        BY <1>1, <2>3, <4>2, <4>3, IdleType
           DEF Effect, Continues, Leaks, Refused, Marks, Warms, WritingPcs
    <3> QED  BY <1>1, <2>1, <3>1, <3>2 DEF Apart, Worker, Writing
  <2>4. CASE Marks(t, s)
    <3>1. \A r \in Syncs : Worker(r) => sync[r].mark # s.mark
      BY <2>4 DEF Marks, Apart
    <3>2. ~Writing(t)' /\ s.mark = keyOf[s.user]
      BY <2>1, <2>4 DEF Marks, Apart, Writing
    <3> QED  BY <1>1, <2>1, <2>4, <3>1, <3>2 DEF Marks, Apart, Worker, Writing
  <2> QED
    BY <1>1, <2>2, <2>3, <2>4 DEF Effect, Stops, Leaks, Refused, Warms, Apart
<1>2. ASSUME NEW t \in Syncs, NEW s \in Sync, Arrives(t, s)
      PROVE  Apart'
  <2>1. \A r \in Syncs : sync'[r] = IF r = t THEN s ELSE sync[r]
    BY <1>2, GotoMakes DEF Arrives
  <2> QED  BY <1>2, <2>1 DEF OnlyClicks, Arrives, Apart, Worker, Writing
<1>3. CASE Restart
  BY <1>3, IdleType DEF Restart, Apart, Worker, Writing
<1>4. CASE UNCHANGED vars
  BY <1>4 DEF vars, Apart, Worker, Writing
<1> QED  BY <1>1, <1>2, <1>3, <1>4, NextEffect DEF Reassign, OnlyClicks

LEMMA ApartInit == Init => Apart
  BY IdleType DEF Init, Apart, Worker, Writing

LEMMA ClicksApart == Spec => [](OnlyClicks => Apart)
<1>1. Init => (OnlyClicks => Apart)
  BY ApartInit
<1>2. TInv /\ (OnlyClicks => Apart) /\ [Next]_vars => (OnlyClicks => Apart)'
  <2> SUFFICES ASSUME TInv, OnlyClicks => Apart, [Next]_vars, OnlyClicks' PROVE Apart'
    OBVIOUS
  <2>1. faults' = faults
    BY NextEffect DEF vars
  <2>2. OnlyClicks
    BY <2>1 DEF OnlyClicks
  <2>3. Apart
    BY <2>2
  <2> QED  BY <2>2, <2>3, ApartStep
<1> QED  BY TypeInit, TypeStep, <1>1, <1>2, PTL DEF Spec

\* As long as no user changes key and the warm-up is off, two pulls never
\* write to the same key and month, whatever fails and restarts.
THEOREM PullsAreApart == Spec => []OneSyncPerKey
<1>1. (OnlyClicks => Apart) => OneSyncPerKey
  BY DEF Apart, OneSyncPerKey, Worker, Writing
<1> QED  BY ClicksApart, <1>1, PTL

\* And whoever writes is marked: the polled status is right.
THEOREM StatusIsTrue == Spec => []WritesAreMarked
<1>1. (OnlyClicks => Apart) => WritesAreMarked
  BY DEF Apart, WritesAreMarked, Worker, Writing
<1> QED  BY ClicksApart, <1>1, PTL

\* The marks do what they are there for: one writer to a key and month, and its
\* mark shows (main._OPS_SYNC_INFLIGHT).
THEOREM MarksAreTrue == Spec => []MarksKeepPullsApart
BY PullsAreApart, StatusIsTrue, PTL DEF MarksKeepPullsApart

(***************************************************************************)
(* What a write pass does to the columns.                                  *)
(***************************************************************************)
Rates == Fields \ {"late_delivery_certs", "delivery_orders_count",
                   "late_delivery_certs_pct"}

\* A rate is computed from its calls or is None: never a zero.
LEMMA RatesAreNeverZero ==
  ASSUME NEW got, NEW f \in Rates
  PROVE  Column(got, f) \in {"null", "value"}
  BY DEF Column, Known, Rates, Fields

LEMMA WriteKeepsRates ==
  ASSUME row \in [PfKeys -> [Fields -> Stored]], NEW k, NEW got, Write(k, got),
         NEW p \in PfKeys, NEW f \in Rates, row[p][f] = "value"
  PROVE  row'[p][f] = "value"
<1>1. CASE row' = row
  BY <1>1
<1>2. CASE row' = [row EXCEPT ![k] = Upsert(row[k], got)]
  <2>1. CASE p # k
    BY <1>2, <2>1
  <2>2. CASE p = k
    <3>1. row'[p] = Upsert(row[p], got) /\ f \in Fields
      BY <1>2, <2>2 DEF Rates
    <3>2. row'[p][f] = IF Column(got, f) = "null" THEN row[p][f] ELSE Column(got, f)
      BY <3>1 DEF Upsert
    <3> QED  BY <3>2, RatesAreNeverZero
  <2> QED  BY <2>1, <2>2
<1> QED  BY <1>1, <1>2 DEF Write

LEMMA OnlyWritePassesWrite ==
  ASSUME Next
  PROVE  row' = row \/ \E k, got : Write(k, got)
<1>1. CASE OtherStep
  BY <1>1 DEF OtherStep, Click, WarmCheck, Reassign, Restart
<1>2. ASSUME NEW t \in Syncs, SyncStep(t) PROVE row' = row \/ \E k, got : Write(k, got)
  <2>1. CASE \E c \in First : BatchOk(t, c) \/ RetryOk(t, c)
    BY <2>1 DEF BatchOk, RetryOk
  <2>2. CASE LaterCall(t)
    BY <2>2 DEF LaterCall
  <2>3. CASE \/ Schedule(t) \/ Vanished(t) \/ Begin(t) \/ BeginFails(t) \/ WarmRun(t)
             \/ \E c \in First : BatchFails(t, c) \/ RetryFails(t, c)
             \/ BatchOver(t) \/ LaterTimeout(t) \/ RoundOver(t)
    BY <2>3 DEF Schedule, Vanished, Begin, BeginFails, WarmRun, BatchFails,
                RetryFails, BatchOver, LaterTimeout, RoundOver
  <2> QED  BY <1>2, <2>1, <2>2, <2>3 DEF SyncStep
<1> QED  BY <1>1, <1>2 DEF Next

\* However pulls of one key overlap, fail, are repeated and die with the process, a
\* rate once read from Dodo IS is never replaced by nothing (upsert_ops_metric:
\* COALESCE over the columns; _write_pass: None without its calls).
THEOREM RatesStay == Spec => RatesAreKept
<1> DEFINE Kept == \A k \in PfKeys :
                     \A f \in Fields \ {"late_delivery_certs", "delivery_orders_count",
                                        "late_delivery_certs_pct"} :
                       row[k][f] = "value" => row'[k][f] = "value"
<1>1. TInv /\ [Next]_vars => [Kept]_row
  <2> SUFFICES ASSUME TInv, [Next]_vars, row' # row,
                      NEW k \in PfKeys, NEW f \in Rates, row[k][f] = "value"
               PROVE  row'[k][f] = "value"
    BY DEF Rates
  <2>1. \E p, got : Write(p, got)
    BY OnlyWritePassesWrite DEF vars
  <2> QED  BY <2>1, WriteKeepsRates DEF TInv, TypeOK
<1> QED  BY TypeInit, TypeStep, <1>1, PTL DEF Spec, RatesAreKept

(***************************************************************************)
(* Every pull ends: each of its steps takes one off what it has left.      *)
(***************************************************************************)
\* Of the calls waited for, one less is one less.
LEMMA FewerCalls ==
  ASSUME NEW P \in SUBSET First
  PROVE  /\ Cardinality(P) \in Nat /\ Cardinality(P) <= Cardinality(First)
         /\ Cardinality(First) \in Nat
         /\ \A c \in P : Cardinality(P \ {c}) = Cardinality(P) - 1
<1>1. IsFiniteSet(FirstCalls)
  <2>1. IsFiniteSet({"productivity"})
    BY FS_Singleton
  <2>2. IsFiniteSet({"productivity"} \cup {"vouchers"})
    BY <2>1, FS_AddElement
  <2>3. IsFiniteSet(({"productivity"} \cup {"vouchers"}) \cup {"delivery-stats"})
    BY <2>2, FS_AddElement
  <2>4. IsFiniteSet((({"productivity"} \cup {"vouchers"}) \cup {"delivery-stats"})
                      \cup {"handover-restaurant"})
    BY <2>3, FS_AddElement
  <2>5. FirstCalls = (({"productivity"} \cup {"vouchers"}) \cup {"delivery-stats"})
                       \cup {"handover-restaurant"}
    BY DEF FirstCalls
  <2> QED  BY <2>4, <2>5
<1>2. IsFiniteSet(First)
  BY <1>1, FS_Subset, SyncAssumption
<1>3. IsFiniteSet(P) /\ Cardinality(P) <= Cardinality(First)
  BY <1>2, FS_Subset
<1>4. \A c \in P : Cardinality(P \ {c}) = Cardinality(P) - 1
  BY <1>3, FS_RemoveElement
<1> QED
  BY <1>2, <1>3, <1>4, FS_CardinalityType

\* A pull that runs has at least one step left, and at most the first round,
\* the later calls and the two rounds of retries.
AtMost == 1 + Round + Len(Later) + (Rounds * Round)

LEMMA StepsLeftType ==
  ASSUME NEW s \in Sync, Shape(s)
  PROVE  /\ StepsLeft(s) \in 0..AtMost
         /\ s.pc \in {"scheduled", "batch", "later", "retry"} => StepsLeft(s) > 0
<1> DEFINE n == Cardinality(s.pending)
           F == Cardinality(First)
           L == Len(Later)
<1>1. n \in Nat /\ F \in Nat /\ n <= F /\ L \in Nat
  BY FewerCalls, SyncAssumption DEF Sync
<1>2. s.round \in {0, 1, 2} /\ s.pc \in Pcs
  BY DEF Sync, Rounds
<1>3. Round = F + 1 /\ Rounds * Round = 2 * (F + 1) /\ Rounds = 2
  BY DEF Round, Rounds
<1>4. s.pc = "later" => s.stage \in 1..L
  BY DEF Shape
<1>5. StepsLeft(s) = (CASE s.pc = "scheduled" -> 1 + (F + 1) + L + (2 * (F + 1))
                       [] s.pc = "batch" -> n + 1 + L + (2 * (F + 1))
                       [] s.pc = "later" -> (L - s.stage) + 1 + (2 * (F + 1))
                       [] s.pc = "retry" -> n + 1 + ((2 - s.round) * (F + 1))
                       [] OTHER -> 0)
  BY <1>3 DEF StepsLeft
<1>6. AtMost = 1 + (F + 1) + L + (2 * (F + 1))
  BY <1>3 DEF AtMost
<1> HIDE DEF n, F, L
<1>7. CASE s.pc = "retry"
  <2>1. CASE s.round = 0  BY <1>1, <1>5, <1>6, <1>7, <2>1
  <2>2. CASE s.round = 1  BY <1>1, <1>5, <1>6, <1>7, <2>2
  <2>3. CASE s.round = 2  BY <1>1, <1>5, <1>6, <1>7, <2>3
  <2> QED  BY <1>2, <2>1, <2>2, <2>3
<1>8. CASE s.pc # "retry"
  BY <1>1, <1>2, <1>4, <1>5, <1>6, <1>8 DEF Pcs
<1> QED  BY <1>7, <1>8

\* The worker's steps, by what they take off
LEMMA CallCounts ==
  ASSUME TInv, NEW t \in Syncs, NEW c \in First,
         BatchOk(t, c) \/ BatchFails(t, c) \/ RetryOk(t, c) \/ RetryFails(t, c)
  PROVE  \/ sync'[t] = Idle
         \/ StepsLeft(sync'[t]) < StepsLeft(sync[t])
<1> DEFINE q == sync[t]
           F == Cardinality(First)
           L == Len(Later)
<1>1. q \in Sync /\ Shape(q) /\ q.pc \in {"batch", "retry"} /\ c \in q.pending
  BY DEF TInv, TypeOK, BatchOk, BatchFails, RetryOk, RetryFails
<1>2. \A s : Goto(t, s) => sync'[t] = s
  <2> HIDE DEF Sync
  <2> QED  BY DEF Goto, TInv, TypeOK
<1>3. \/ sync'[t] = Idle
      \/ /\ sync'[t].pc = q.pc /\ sync'[t].pending = q.pending \ {c}
         /\ sync'[t].round = q.round
  <2> DEFINE Took(s) == s.pc = q.pc /\ s.pending = q.pending \ {c} /\ s.round = q.round
             s1 == [q EXCEPT !.pending = @ \ {c}, !.got = @ \cup {c}]
             s2 == [q EXCEPT !.pending = @ \ {c}, !.failed = @ \cup {c}]
             s3 == [q EXCEPT !.pending = @ \ {c}, !.abort = TRUE]
             s4 == [q EXCEPT !.pending = @ \ {c}, !.failed = @ \ {c}, !.got = @ \cup {c}]
             s5 == [q EXCEPT !.pending = @ \ {c}]
  <2>1. Took(s1) /\ Took(s2) /\ Took(s3) /\ Took(s4) /\ Took(s5)
    BY <1>1 DEF Sync
  <2>2. \/ sync'[t] = Idle \/ sync'[t] = s1 \/ sync'[t] = s2 \/ sync'[t] = s3
        \/ sync'[t] = s4 \/ sync'[t] = s5
    BY <1>2 DEF BatchOk, BatchFails, RetryOk, RetryFails, End
  <2> HIDE DEF s1, s2, s3, s4, s5
  <2> QED  BY <2>1, <2>2
<1>4. ASSUME sync'[t] # Idle PROVE StepsLeft(sync'[t]) < StepsLeft(q)
  <2> DEFINE m == Cardinality(q.pending)
             rest == IF q.pc = "batch" THEN L + (Rounds * Round)
                                       ELSE (Rounds - q.round) * Round
  <2>1. Cardinality(q.pending \ {c}) = m - 1 /\ m \in Nat /\ F \in Nat /\ L \in Nat
    BY <1>1, FewerCalls, SyncAssumption DEF Sync
  <2>2. rest \in Int
    BY <1>1, <2>1 DEF Sync, Rounds, Round
  <2>3. StepsLeft(q) = m + 1 + rest
    <3>1. CASE q.pc = "batch"
      BY <2>1, <3>1 DEF StepsLeft, Round, Rounds
    <3>2. CASE q.pc = "retry"
      BY <3>2 DEF StepsLeft
    <3> QED  BY <1>1, <3>1, <3>2
  <2>4. StepsLeft(sync'[t]) = (m - 1) + 1 + rest
    <3>1. CASE q.pc = "batch"
      <4>1. PICK s : s = sync'[t]
        OBVIOUS
      <4>2. s.pc = "batch" /\ s.pending = q.pending \ {c}
        BY <1>3, <1>4, <3>1, <4>1
      <4>3. StepsLeft(s) = Cardinality(q.pending \ {c}) + 1 + L + (Rounds * Round)
        BY <4>2 DEF StepsLeft
      <4>4. Rounds * Round \in Int
        BY <2>1 DEF Rounds, Round
      <4> HIDE DEF m, F, L
      <4>5. rest = L + (Rounds * Round)
        BY <3>1
      <4> HIDE DEF rest
      <4> QED  BY <2>1, <4>1, <4>3, <4>4, <4>5
    <3>2. CASE q.pc = "retry"
      <4>1. PICK s : s = sync'[t]
        OBVIOUS
      <4>2. s.pc = "retry" /\ s.pending = q.pending \ {c} /\ s.round = q.round
        BY <1>3, <1>4, <3>2, <4>1
      <4>3. StepsLeft(s) = Cardinality(q.pending \ {c}) + 1 + ((Rounds - q.round) * Round)
        BY <4>2 DEF StepsLeft
      <4> QED  BY <2>1, <3>2, <4>1, <4>3
    <3> QED  BY <1>1, <3>1, <3>2
  <2> HIDE DEF m, rest
  <2> QED  BY <2>1, <2>2, <2>3, <2>4
<1> QED  BY <1>4

LEMMA LaterCounts ==
  ASSUME TInv, NEW t \in Syncs, sync[t].pc = "later", NEW got \in SUBSET Calls,
         Advance(t, got)
  PROVE  \/ sync'[t] = Idle
         \/ StepsLeft(sync'[t]) < StepsLeft(sync[t])
<1> DEFINE q == sync[t]
           F == Cardinality(First)
           L == Len(Later)
           p == [q EXCEPT !.got = got]
<1>1. q \in Sync /\ q.stage \in 1..L /\ L \in Nat /\ q.failed \in SUBSET First
  BY SyncAssumption DEF TInv, TypeOK, Shape, Sync
<1>2. \A s : Goto(t, s) => sync'[t] = s
  <2> HIDE DEF Sync
  <2> QED  BY DEF Goto, TInv, TypeOK
<1>3. p \in Sync /\ p.pc = "later" /\ p.stage = q.stage /\ p.failed = q.failed
  BY <1>1 DEF Sync
<1>4. F \in Nat /\ Round = F + 1 /\ Rounds * Round = 2 * (F + 1)
      /\ Cardinality(q.failed) \in Nat /\ Cardinality(q.failed) <= F
  BY <1>1, FewerCalls DEF Round, Rounds
<1>5. StepsLeft(q) = (L - q.stage) + 1 + (2 * (F + 1))
  BY <1>4 DEF StepsLeft
<1>6. CASE p.stage < L
  <2> DEFINE s == [p EXCEPT !.stage = @ + 1]
  <2>1. s.pc = "later" /\ s.stage = q.stage + 1
    BY <1>3 DEF Sync
  <2>2. sync'[t] = s
    BY <1>2, <1>6 DEF Advance
  <2> HIDE DEF s
  <2>3. StepsLeft(s) = (L - (q.stage + 1)) + 1 + (2 * (F + 1))
    BY <1>4, <2>1 DEF StepsLeft
  <2> HIDE DEF F, L
  <2> QED  BY <1>1, <1>4, <1>5, <2>2, <2>3
<1>7. CASE ~(p.stage < L) /\ p.failed = {}
  BY <1>2, <1>7 DEF Advance, End
<1>8. CASE ~(p.stage < L) /\ p.failed # {}
  <2> DEFINE s == [p EXCEPT !.pc = "retry", !.stage = 0, !.round = 1,
                            !.pending = p.failed]
  <2>1. s.pc = "retry" /\ s.round = 1 /\ s.pending = q.failed
    BY <1>3 DEF Sync
  <2>2. sync'[t] = s
    BY <1>2, <1>8 DEF Advance
  <2> HIDE DEF s
  <2>3. StepsLeft(s) = Cardinality(q.failed) + 1 + ((Rounds - 1) * Round)
    BY <2>1 DEF StepsLeft
  <2>4. (Rounds - 1) * Round = F + 1
    BY <1>4 DEF Rounds
  <2> HIDE DEF F, L
  <2> QED  BY <1>1, <1>4, <1>5, <2>2, <2>3, <2>4
<1> QED  BY <1>6, <1>7, <1>8

LEMMA StepCounts ==
  ASSUME TInv, NEW t \in Syncs, Worker(t), SyncStep(t)
  PROVE  \/ sync'[t] = Idle
         \/ StepsLeft(sync'[t]) < StepsLeft(sync[t])
<1> DEFINE q == sync[t]
           F == Cardinality(First)
           L == Len(Later)
<1>1. q \in Sync /\ Shape(q) /\ q.pc \in {"scheduled", "batch", "later", "retry"}
  BY DEF TInv, TypeOK, Worker
<1>2. \A s : Goto(t, s) => sync'[t] = s
  <2> HIDE DEF Sync
  <2> QED  BY DEF Goto, TInv, TypeOK
<1>3. F \in Nat /\ L \in Nat /\ L > 0 /\ Round = F + 1 /\ Rounds * Round = 2 * (F + 1)
  BY FewerCalls, SyncAssumption DEF Round, Rounds
<1>4. CASE Vanished(t) \/ BeginFails(t) \/ LaterTimeout(t)
  BY <1>2, <1>4 DEF Vanished, BeginFails, LaterTimeout, End
<1>5. CASE Begin(t)
  <2> DEFINE s == [q EXCEPT !.pc = "batch", !.key = keyOf[q.user], !.pending = First]
  <2>1. q.pc = "scheduled" /\ (sync'[t] = s \/ sync'[t] = Idle)
    BY <1>2, <1>5 DEF Begin
  <2>2. s.pc = "batch" /\ s.pending = First
    BY <1>1 DEF Sync
  <2> HIDE DEF s
  <2>3. StepsLeft(s) = F + 1 + L + (2 * (F + 1))
    BY <1>3, <2>2 DEF StepsLeft
  <2>4. StepsLeft(q) = 1 + (F + 1) + L + (2 * (F + 1))
    BY <1>3, <2>1 DEF StepsLeft
  <2> HIDE DEF F, L
  <2> QED  BY <1>3, <2>1, <2>3, <2>4
<1>6. CASE \E c \in First : BatchOk(t, c) \/ BatchFails(t, c)
                            \/ RetryOk(t, c) \/ RetryFails(t, c)
  BY <1>6, CallCounts
<1>7. CASE BatchOver(t)
  <2> DEFINE s == [q EXCEPT !.pc = "later", !.stage = 1]
  <2>1. q.pc = "batch" /\ q.pending = {} /\ (sync'[t] = s \/ sync'[t] = Idle)
    BY <1>2, <1>7 DEF BatchOver, End
  <2>2. s.pc = "later" /\ s.stage = 1
    BY <1>1 DEF Sync
  <2> HIDE DEF s
  <2>3. StepsLeft(s) = (L - 1) + 1 + (2 * (F + 1))
    BY <1>3, <2>2 DEF StepsLeft
  <2>4. Cardinality(q.pending) = 0
    BY <2>1, FS_EmptySet
  <2>5. StepsLeft(q) = 0 + 1 + L + (2 * (F + 1))
    BY <1>3, <2>1, <2>4 DEF StepsLeft
  <2> HIDE DEF F, L
  <2> QED  BY <1>3, <2>1, <2>3, <2>5
<1>8. CASE LaterCall(t)
  <2>1. q.pc = "later" /\ q.stage \in 1..L /\ q.got \in SUBSET Calls
    BY <1>1, <1>8 DEF LaterCall, Shape, Sync
  <2>2. Later[q.stage] \in Calls
    BY <2>1, SyncAssumption DEF Calls
  <2>3. PICK got \in {q.got, q.got \cup {Later[q.stage]}} : Advance(t, got)
    BY <1>8 DEF LaterCall
  <2> QED  BY <2>1, <2>2, <2>3, LaterCounts
<1>9. CASE RoundOver(t)
  <2> DEFINE s == [q EXCEPT !.round = @ + 1, !.pending = q.failed]
             n == Cardinality(q.failed)
  <2>1. q.pc = "retry" /\ q.pending = {}
        /\ (sync'[t] = Idle \/ (sync'[t] = s /\ q.round # Rounds))
    BY <1>2, <1>9 DEF RoundOver, End
  <2>2. s.pc = "retry" /\ s.round = q.round + 1 /\ s.pending = q.failed
        /\ q.round \in {0, 1, 2} /\ q.failed \in SUBSET First
    BY <1>1, <2>1 DEF Sync, Rounds
  <2> HIDE DEF s
  <2>3. StepsLeft(s) = n + 1 + ((Rounds - (q.round + 1)) * Round)
    BY <2>2 DEF StepsLeft
  <2>4. StepsLeft(q) = Cardinality(q.pending) + 1 + ((Rounds - q.round) * Round)
    BY <2>1 DEF StepsLeft
  <2>5. Cardinality(q.pending) = 0 /\ n \in Nat /\ n <= F
    BY <2>1, <2>2, FS_EmptySet, FewerCalls
  <2>6. q.round = 0 =>
          (Rounds - (q.round + 1)) * Round = F + 1 /\ (Rounds - q.round) * Round = 2 * (F + 1)
    BY <1>3 DEF Rounds
  <2>7. q.round = 1 =>
          (Rounds - (q.round + 1)) * Round = 0 /\ (Rounds - q.round) * Round = F + 1
    BY <1>3 DEF Rounds
  <2> HIDE DEF n, F, L
  <2> QED  BY <1>3, <2>1, <2>2, <2>3, <2>4, <2>5, <2>6, <2>7 DEF Rounds
<1> QED
  BY <1>1, <1>4, <1>5, <1>6, <1>7, <1>8, <1>9 DEF SyncStep, Schedule, WarmRun

\* Each step of a pull brings its end nearer, for any calls in the first batch and
\* after it, any users and keys, and whatever fails (the loop over the rounds of
\* _run_ops_sync counts to two and takes only what has failed).
THEOREM PullIsFinite == Spec => EveryStepCounts
<1> DEFINE Counts == \A t \in Syncs :
             Worker(t) /\ sync'[t] # sync[t] => StepsLeft(sync'[t]) < StepsLeft(sync[t])
<1>1. ASSUME TInv, [Next]_vars PROVE [Counts]_sync
  <2> SUFFICES ASSUME NEW t \in Syncs, Worker(t), sync'[t] # sync[t]
               PROVE  StepsLeft(sync'[t]) < StepsLeft(sync[t])
    OBVIOUS
  <2>1. StepsLeft(sync[t]) \in Int /\ StepsLeft(sync[t]) > 0
    <3>1. sync[t] \in Sync /\ Shape(sync[t])
          /\ sync[t].pc \in {"scheduled", "batch", "later", "retry"}
      BY <1>1 DEF TInv, TypeOK, Worker
    <3>2. AtMost \in Int
      BY FewerCalls, SyncAssumption DEF AtMost, Round, Rounds
    <3> QED  BY <3>1, <3>2, StepsLeftType
  <2>2. StepsLeft(Idle) = 0
    BY DEF StepsLeft, Idle
  <2>3. sync'[t] = Idle \/ SyncStep(t)
    <3>1. CASE Next
      <4>1. CASE \E r \in Syncs : SyncStep(r)
        <5>1. PICK r \in Syncs : SyncStep(r)
          BY <4>1
        <5>2. PICK s \in Sync : Goto(r, s)
          BY <1>1, <5>1, StepEffect
        <5>3. sync'[t] = IF t = r THEN s ELSE sync[t]
          BY <1>1, <5>2, GotoMakes
        <5> QED  BY <5>1, <5>3
      <4>2. CASE \E r \in Syncs, u \in Users : Click(r, u) \/ WarmCheck(r, u)
        <5>1. PICK r \in Syncs, u \in Users : Click(r, u) \/ WarmCheck(r, u)
          BY <4>2
        <5>2. PICK s \in Sync : Arrives(r, s)
          BY <1>1, <5>1, ArrivalEffect
        <5>3. sync'[t] = IF t = r THEN s ELSE sync[t]
          BY <1>1, <5>2, GotoMakes DEF Arrives
        <5> QED  BY <5>2, <5>3 DEF Arrives, Worker
      <4>3. CASE \E u \in Users, k \in PfKeys \cup {NoKey} : Reassign(u, k)
        BY <4>3 DEF Reassign
      <4>4. CASE Restart
        BY <4>4 DEF Restart
      <4> QED  BY <3>1, <4>1, <4>2, <4>3, <4>4 DEF Next, OtherStep
    <3>2. CASE UNCHANGED vars
      BY <3>2 DEF vars
    <3> QED  BY <1>1, <3>1, <3>2
  <2> QED  BY <1>1, <2>1, <2>2, <2>3, StepCounts
<1>2. TInv /\ [Next]_vars => [Counts]_sync
  BY <1>1
<1> QED  BY TypeInit, TypeStep, <1>2, PTL DEF Spec, EveryStepCounts

\* And no pull has more of them ahead than one round of the first batch, the later
\* calls and two rounds of retries: with the above, a bound on a pull's length.
THEOREM PullIsShort == Spec => [](\A t \in Syncs : StepsLeft(sync[t]) \in 0..AtMost)
<1>1. TInv => \A t \in Syncs : StepsLeft(sync[t]) \in 0..AtMost
  BY StepsLeftType DEF TInv, TypeOK
<1> QED  BY TypeInit, TypeStep, <1>1, PTL DEF Spec
=============================================================================
