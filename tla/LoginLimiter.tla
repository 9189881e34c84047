---------------------------- MODULE LoginLimiter ----------------------------
(***************************************************************************)
(* The limiter of logins (auth/ratelimit.py) as the login and sso_link     *)
(* handlers use it: one window per address, one per name, both looked at   *)
(* before the account is read and written after the password is verified.  *)
(***************************************************************************)
EXTENDS Naturals, Sequences, FiniteSets

CONSTANTS
  Addresses, Names,    \* what attempts come with
  Attempts,            \* attempts that can run at once
  PerAddress, PerName, \* max_attempts of the two limiters
  Window,
  MaxNow               \* bound

\* What the constants have to be; both limiters let somebody try.
LimiterAssumption ==
  /\ PerAddress \in Nat \ {0} /\ PerName \in Nat \ {0}
  /\ Window \in Nat /\ MaxNow \in Nat
  /\ IsFiniteSet(Attempts)

VARIABLES
  moment,
  failures,  \* _failures of both limiters: times, oldest first
  attempt    \* the attempts under way

limiterVars == <<moment, failures, attempt>>

Counted == Addresses \cup Names
Limit(k) == IF k \in Addresses THEN PerAddress ELSE PerName
Nobody == [at |-> "idle", keys |-> {}]

LimiterInit ==
  /\ moment = 0
  /\ failures = [k \in Counted |-> <<>>]
  /\ attempt = [a \in Attempts |-> Nobody]

LimiterTick == moment < MaxNow /\ moment' = moment + 1 /\ UNCHANGED <<failures, attempt>>

\* check drops what left the window, from the oldest on, before it counts
Old(t) == t + Window < moment
Expired(q) == CHOOSE n \in 0..Len(q) : /\ \A i \in 1..n : Old(q[i])
                                       /\ n = Len(q) \/ ~Old(q[n + 1])
Recent(k) == SubSeq(failures[k], Expired(failures[k]) + 1, Len(failures[k]))

\* Mutant of Allowed: one failure more than the limit
AllowedOver(k) == Len(Recent(k)) <= Limit(k)

Allowed(k) == Len(Recent(k)) < Limit(k)

\* The limiter of the name is asked only when the one of the address agrees.
Check(a, ip, name) ==
  /\ attempt[a].at = "idle"
  /\ LET asked == IF Allowed(ip) THEN {ip, name} ELSE {ip} IN
     /\ failures' = [k \in Counted |-> IF k \in asked THEN Recent(k) ELSE failures[k]]
     /\ attempt' = IF \A k \in asked : Allowed(k)
                   THEN [attempt EXCEPT ![a] = [at |-> "verify", keys |-> {ip, name}]]
                   ELSE attempt
  /\ UNCHANGED moment

Wrong(a) ==
  /\ attempt[a].at = "verify"
  /\ failures' = [k \in Counted |-> IF k \in attempt[a].keys THEN Append(failures[k], moment)
                                    ELSE failures[k]]
  /\ attempt' = [attempt EXCEPT ![a] = Nobody]
  /\ UNCHANGED moment

Right(a) ==
  /\ attempt[a].at = "verify"
  /\ failures' = [k \in Counted |-> IF k \in attempt[a].keys THEN <<>> ELSE failures[k]]
  /\ attempt' = [attempt EXCEPT ![a] = Nobody]
  /\ UNCHANGED moment

\* The database fails while the account is read.
Lost(a) == attempt[a].at = "verify" /\ attempt' = [attempt EXCEPT ![a] = Nobody]
           /\ UNCHANGED <<moment, failures>>

LimiterNext ==
  \/ LimiterTick
  \/ \E a \in Attempts : \/ \E ip \in Addresses, name \in Names : Check(a, ip, name)
                         \/ Wrong(a) \/ Right(a) \/ Lost(a)

LimiterSpec == LimiterInit /\ [][LimiterNext]_limiterVars

LimiterTypeOK ==
  /\ moment \in 0..MaxNow
  /\ failures \in [Counted -> Seq(0..MaxNow)]
  /\ attempt \in [Attempts -> [at : {"idle", "verify"}, keys : SUBSET Counted]]

\* Failures of one address or name in one window: never more than the limit and the other
\* attempts that were checked before the last of them was written.
BurstIsBounded ==
  \A k \in Counted : Len(Recent(k)) < Limit(k) + Cardinality(Attempts)
=============================================================================
