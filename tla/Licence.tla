------------------------------ MODULE Licence ------------------------------
(***************************************************************************)
(* The licences of a tenant (licensing.py): asked of sa, kept in the       *)
(* process for a while, kept longer for the time sa does not answer.       *)
(* One tenant: entries of others do not meet.                              *)
(***************************************************************************)
EXTENDS Naturals

CONSTANTS
  Askers,          \* requests that can ask at once
  Fresh, Stale,    \* _TTL_SEC, _STALE_TTL_SEC
  Patience,        \* the client's timeout
  MaxTime          \* bound

\* What the proofs assume of the constants.
LicenceAssumption ==
  /\ Fresh \in Nat /\ Stale \in Nat /\ Patience \in Nat /\ MaxTime \in Nat
  /\ 0 < Stale /\ Fresh <= Stale

VARIABLES
  time,
  entry,   \* _cache of the tenant: of the moment the question was put, asof is history
  asker,   \* the requests: the time and the entry they saw
  served   \* the last answer given from a known entry: when, and of when

licenceVars == <<time, entry, asker, served>>

NoEntry == [known |-> FALSE, time |-> 0, asof |-> 0, caps |-> FALSE]
NotAsking == [at |-> "idle", now |-> 0, hit |-> NoEntry]

LicenceInit ==
  /\ time = 0
  /\ entry = NoEntry
  /\ asker = [a \in Askers |-> NotAsking]
  /\ served = [at |-> 0, asof |-> 0]

\* Nobody waits for sa longer than the client's timeout.
LicenceTick ==
  /\ time < MaxTime
  /\ \A a \in Askers : asker[a].at = "sa" => time < asker[a].now + Patience
  /\ time' = time + 1
  /\ UNCHANGED <<entry, asker, served>>

\* An entry without caps (no unit, sa not configured) is an answer too: unknown.
Serve(e) == served' = IF e.caps THEN [at |-> time, asof |-> e.asof] ELSE served

Ask(a) ==
  /\ asker[a].at = "idle"
  /\ IF entry.known /\ time - entry.time < Fresh
     THEN Serve(entry) /\ UNCHANGED asker
     ELSE asker' = [asker EXCEPT ![a] = [at |-> "sa", now |-> time, hit |-> entry]] /\ UNCHANGED served
  /\ UNCHANGED <<time, entry>>

\* Mutant of Answered: the entry is dated when the answer comes.
AnsweredNow(a, asof, caps) == [known |-> TRUE, time |-> time, asof |-> asof, caps |-> caps]

\* It is dated with the time read before the question.
Answered(a, asof, caps) == [known |-> TRUE, time |-> asker[a].now, asof |-> asof, caps |-> caps]

\* sa answered at some moment since the question; a slow answer replaces a newer one.
Answer(a) ==
  /\ asker[a].at = "sa"
  /\ \E asof \in asker[a].now..time, caps \in BOOLEAN :
       /\ entry' = Answered(a, asof, caps)
       /\ Serve(entry')
  /\ asker' = [asker EXCEPT ![a] = NotAsking]
  /\ UNCHANGED time

\* The entry seen before the question is good until it is stale; without one, unknown.
Fail(a) ==
  /\ asker[a].at = "sa"
  /\ LET hit == asker[a].hit IN
     IF hit.known /\ asker[a].now - hit.time < Stale THEN Serve(hit) ELSE UNCHANGED served
  /\ asker' = [asker EXCEPT ![a] = NotAsking]
  /\ UNCHANGED <<time, entry>>

LicenceNext == LicenceTick \/ \E a \in Askers : Ask(a) \/ Answer(a) \/ Fail(a)

LicenceSpec == LicenceInit /\ [][LicenceNext]_licenceVars

\* No answer is older than the stale age and one wait for sa, however the requests that
\* ask, fail and overwrite each other's entry overlap ("last-known-good, пока не протух").
NothingStaleIsServed == served.at - served.asof < Stale + Patience

LicenceTypeOK ==
  /\ time \in 0..MaxTime
  /\ entry \in [known : BOOLEAN, time : Nat, asof : Nat, caps : BOOLEAN]
  /\ asker \in [Askers -> [at : {"idle", "sa"}, now : Nat,
                           hit : [known : BOOLEAN, time : Nat, asof : Nat, caps : BOOLEAN]]]
  /\ served \in [at : Nat, asof : Nat]
=============================================================================
