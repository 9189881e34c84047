------------------------------ MODULE Sessions ------------------------------
(***************************************************************************)
(* Server sessions (auth/sessions.py, auth/dependencies.py, the login,     *)
(* logout, password and session handlers of auth/router.py).               *)
(*                                                                         *)
(* A request reads its session, renews it in a short transaction of its    *)
(* own, and then does its work in the transaction of the request; other    *)
(* requests of the same cookie and other logins run in between.            *)
(***************************************************************************)
EXTENDS Naturals, FiniteSets

CONSTANTS
  Users, Tokens,  \* tokens are numbers, used in order
  Visits,         \* requests that can run at once
  Ttl, Ceiling,   \* SESSION_TTL_DAYS, SESSION_ABSOLUTE_TTL_DAYS
  Interval,       \* TOUCH_MIN_INTERVAL
  None,
  MaxClock,       \* bound: how far time goes
  MaxChanges      \* bound: changes of password of a user

\* What the proofs assume of the constants.
SessionsAssumption ==
  /\ Tokens \subseteq Nat /\ None \notin Tokens
  /\ Ttl \in Nat /\ Ceiling \in Nat /\ Interval \in Nat
  /\ MaxClock \in Nat /\ MaxChanges \in Nat

VARIABLES
  clock,
  session,  \* sessions: with pw, the password its login gave; late is history
  pwd,      \* users: how often each changed its password
  visit     \* the requests under way

vars == <<clock, session, pwd, visit>>

NoSession == [is |-> "none", user |-> None, born |-> 0, seen |-> 0, exp |-> 0,
              pw |-> 0, late |-> FALSE]
Away == [at |-> "idle", op |-> "", user |-> None, token |-> None, seen |-> 0, exp |-> 0,
         pw |-> 0, late |-> FALSE]

Init ==
  /\ clock = 0
  /\ session = [t \in Tokens |-> NoSession]
  /\ pwd = [u \in Users |-> 0]
  /\ visit = [v \in Visits |-> Away]

Live(t) == session[t].is = "live"
Gone(S) == [t \in Tokens |-> IF t \in S THEN [NoSession EXCEPT !.is = "gone"] ELSE session[t]]
SessionsOf(u) == {t \in Tokens : Live(t) /\ session[t].user = u}
EarlierOf(n, m) == IF n < m THEN n ELSE m

Goes(v, rec) == visit' = [visit EXCEPT ![v] = rec]
Leaves(v) == Goes(v, Away)

Tick == clock < MaxClock /\ clock' = clock + 1 /\ UNCHANGED <<session, pwd, visit>>

---------------------------------------------------------------------------
(* Login: the password is verified, then the session is inserted *)

Login(v, u) ==
  /\ visit[v].at = "idle"
  /\ \E t \in Tokens : session[t].is = "none"
  /\ Goes(v, [Away EXCEPT !.at = "insert", !.op = "login", !.user = u, !.pw = pwd[u]])
  /\ UNCHANGED <<clock, session, pwd>>

CreateSession(v) ==
  /\ visit[v].at = "insert"
  /\ \E t \in Tokens :
       /\ session[t].is = "none" /\ \A o \in Tokens : o < t => session[o].is # "none"
       /\ session' = [session EXCEPT ![t] =
            [is |-> "live", user |-> visit[v].user, born |-> clock, seen |-> clock,
             exp |-> clock + Ttl, pw |-> visit[v].pw, late |-> visit[v].late]]
  /\ Leaves(v) /\ UNCHANGED <<clock, pwd>>

---------------------------------------------------------------------------
(* A request with a cookie *)

Enter(v, t, op) ==
  /\ visit[v].at = "idle"
  /\ Live(t) /\ clock < session[t].exp
  /\ Goes(v, [Away EXCEPT !.at = "touch", !.op = op, !.user = session[t].user, !.token = t,
                          !.seen = session[t].seen])
  /\ UNCHANGED <<clock, session, pwd>>

\* An expired session is swept by the callers that do not answer 401 (its error
\* rolls the deletion back).
Sweep(t) ==
  /\ Live(t) /\ session[t].exp <= clock
  /\ session' = Gone({t})
  /\ UNCHANGED <<clock, pwd, visit>>

\* Mutant of RenewedTo: no ceiling.
RenewedWithoutCeiling(t) == clock + Ttl

RenewedTo(t) == EarlierOf(clock + Ttl, session[t].born + Ceiling)

\* touch_session_detached: not more often than the interval.
Touch(v) ==
  /\ visit[v].at = "touch"
  /\ IF clock - visit[v].seen < Interval
     THEN Goes(v, [visit[v] EXCEPT !.at = "work", !.seen = 0])
     ELSE Goes(v, [visit[v] EXCEPT !.at = "renew", !.seen = clock,
                                   !.exp = RenewedTo(visit[v].token)])
  /\ UNCHANGED <<clock, session, pwd>>

\* An UPDATE by token; of a deleted session it changes nothing.  Its errors (no
\* connection, the row is locked for two seconds) are swallowed.
Renew(v) ==
  /\ visit[v].at = "renew"
  /\ LET t == visit[v].token IN
     \/ Live(t) /\ session' = [session EXCEPT ![t].seen = visit[v].seen, ![t].exp = visit[v].exp]
     \/ UNCHANGED session
  /\ Goes(v, [visit[v] EXCEPT !.at = "work", !.seen = 0, !.exp = 0])
  /\ UNCHANGED <<clock, pwd>>

\* A handler that leaves the sessions alone, or fails.
Work(v) == visit[v].at = "work" /\ Leaves(v) /\ UNCHANGED <<clock, session, pwd>>

\* logout does not renew: read, delete, commit.
Logout(t) == Live(t) /\ session' = Gone({t}) /\ UNCHANGED <<clock, pwd, visit>>

\* One of the user's own unexpired sessions, not the current one.
Revoke(v) ==
  /\ visit[v].at = "work" /\ visit[v].op = "revoke"
  /\ \E t \in SessionsOf(visit[v].user) \ {visit[v].token} :
       clock < session[t].exp /\ session' = Gone({t})
  /\ Leaves(v) /\ UNCHANGED <<clock, pwd>>

\* Mutant of Others: the comparison with the current token is turned round.
OnlyOwn(v) == SessionsOf(visit[v].user) \cap {visit[v].token}

\* revoke_other_sessions
Others(v) == SessionsOf(visit[v].user) \ {visit[v].token}

\* The session that changes the password counts as one of the new password.
ChangePassword(v) ==
  /\ visit[v].at = "work" /\ visit[v].op = "password" /\ pwd[visit[v].user] < MaxChanges
  /\ LET u == visit[v].user
         own == visit[v].token
         rest == Gone(Others(v)) IN
     /\ pwd' = [pwd EXCEPT ![u] = @ + 1]
     /\ session' = IF Live(own)
                   THEN [rest EXCEPT ![own].pw = pwd[u] + 1, ![own].late = FALSE]
                   ELSE rest
     /\ visit' = [w \in Visits |->
          IF w = v THEN Away
          ELSE IF visit[w].at = "insert" /\ visit[w].user = u THEN [visit[w] EXCEPT !.late = TRUE]
          ELSE visit[w]]
  /\ UNCHANGED clock

\* The account is deleted (admin_delete_user): the foreign key takes its sessions along.
DeleteAccount(u) ==
  /\ SessionsOf(u) # {}
  /\ session' = Gone(SessionsOf(u))
  /\ UNCHANGED <<clock, pwd, visit>>

Next ==
  \/ Tick
  \/ \E t \in Tokens : Sweep(t) \/ Logout(t)
  \/ \E u \in Users : DeleteAccount(u)
  \/ \E v \in Visits :
       \/ \E u \in Users : Login(v, u)
       \/ \E t \in Tokens, op \in {"read", "revoke", "password"} : Enter(v, t, op)
       \/ CreateSession(v) \/ Touch(v) \/ Renew(v)
       \/ Work(v) \/ Revoke(v) \/ ChangePassword(v)

Spec == Init /\ [][Next]_vars

---------------------------------------------------------------------------
(* Properties *)

SessionRows == [is : {"none", "live", "gone"}, user : Users \cup {None}, born : Nat, seen : Nat,
                exp : Nat, pw : Nat, late : BOOLEAN]
VisitRows == [at : {"idle", "insert", "touch", "renew", "work"},
              op : {"", "login", "read", "revoke", "password"},
              user : Users \cup {None}, token : Tokens \cup {None}, seen : Nat, exp : Nat,
              pw : Nat, late : BOOLEAN]

TypeOK ==
  /\ clock \in Nat
  /\ session \in [Tokens -> SessionRows]
  /\ pwd \in [Users -> Nat]
  /\ visit \in [Visits -> VisitRows]

Life == INSTANCE SessionLife WITH
  life <- [t \in Tokens |-> [state |-> session[t].is, born |-> session[t].born, exp |-> session[t].exp]],
  inside <- [t \in Tokens |-> {v \in Visits : visit[v].token = t}],
  now <- clock

\* Every session lives the life SessionLife states: renewals that are late, doubled or
\* overtaken by a logout neither revive it nor push it past the ceiling.
LivesOnce == Life!Spec

\* After a change of password no session of an older password lives ("все остальные
\* сессии отзываются"), except one whose login had verified the old one before the
\* change and is inserted after it.
OldPasswordIsOut ==
  \A t \in Tokens : Live(t) => session[t].late \/ session[t].pw = pwd[session[t].user]
=============================================================================
