----------------------------- MODULE AuthProofs -----------------------------
(***************************************************************************)
(* A request's way in, for any accounts, tenants, sessions and requests:   *)
(* accounts and access (Access), sessions against the life SessionLife     *)
(* states (Sessions), licences (Licence) and the limiter of logins         *)
(* (LoginLimiter); at the end the four together, as MCAuth composes them.  *)
(***************************************************************************)
EXTENDS MCAuth, FiniteSetTheorems, SequenceTheorems, TLAPS

\* A set of numbers has a least one.
LEMMA Smallest ==
  ASSUME NEW S, S \subseteq Nat, S # {}
  PROVE  \E n \in S : \A m \in S : n <= m
<1> DEFINE Below == OpToRel(<, Nat)
<1>1. IsWellFoundedOn(Below, Nat)
  BY NatLessThanWellFounded
<1>2. \A m, n \in Nat : m < n => <<m, n>> \in Below
  BY DEF OpToRel
<1> HIDE DEF Below
<1>3. PICK n \in S : \A m \in S : ~(<<m, n>> \in Below)
  BY <1>1, WFMin
<1>4. ASSUME NEW m \in S PROVE n <= m
  <2>1. ~(m < n)
    BY <1>2, <1>3
  <2> QED BY <2>1
<1> QED BY <1>3, <1>4

-----------------------------------------------------------------------------
(* Sessions: the inductive invariant *)

\* What the requests under way know of their session: that it was there, whose
\* it is, and a renewal that respects the present and the ceiling.
VisitInv ==
  \A v \in Visits, t \in Tokens :
    visit[v].token = t =>
      /\ session[t].is # "none"
      /\ Live(t) => session[t].user = visit[v].user
      /\ visit[v].at = "renew" =>
           /\ visit[v].exp <= clock + Ttl
           /\ Live(t) => visit[v].exp <= session[t].born + Ceiling

\* A login under way has verified the password in force, or is late.
LoginInv ==
  \A v \in Visits :
    visit[v].at = "insert" =>
      /\ visit[v].token = None
      /\ visit[v].late \/ visit[v].pw = pwd[visit[v].user]

\* A request under way has a user, and a session unless it is a login.
UserInv ==
  /\ \A v \in Visits : visit[v].at # "idle" => visit[v].user \in Users
  /\ \A v \in Visits : visit[v].at \in {"touch", "renew", "work"} => visit[v].token \in Tokens
  /\ \A t \in Tokens : Live(t) => session[t].user \in Users

SessionsInv == TypeOK /\ VisitInv /\ LoginInv /\ UserInv /\ OldPasswordIsOut

-----------------------------------------------------------------------------
LEMMA SessionsInitHolds == ASSUME SessionsAssumption PROVE Init => SessionsInv
<1> SUFFICES ASSUME Init PROVE SessionsInv
  OBVIOUS
<1>1. /\ \A t \in Tokens : session[t].is = "none"
      /\ \A v \in Visits : visit[v].token = None /\ visit[v].at = "idle"
  BY DEF Init, NoSession, Away
<1>2. TypeOK
  BY DEF Init, TypeOK, NoSession, Away, SessionRows, VisitRows
<1>3. VisitInv /\ LoginInv
  BY <1>1 DEF VisitInv, LoginInv, SessionsAssumption
<1>4. UserInv /\ OldPasswordIsOut
  BY <1>1 DEF UserInv, OldPasswordIsOut, Live
<1> QED BY <1>2, <1>3, <1>4 DEF SessionsInv

LEMMA AwayRow == Away \in VisitRows /\ Away.token = None /\ Away.at = "idle"
  BY DEF Away, VisitRows

\* Taking sessions away leaves them gone and the others as they are.
LEMMA GoneRows ==
  ASSUME TypeOK, NEW S \in SUBSET Tokens
  PROVE  /\ Gone(S) \in [Tokens -> SessionRows]
         /\ \A t \in S : Gone(S)[t].is = "gone"
         /\ \A t \in Tokens \ S : Gone(S)[t] = session[t]
  BY DEF TypeOK, Gone, NoSession, SessionRows

\* Sessions are taken away, and requests leave or stay as they are.
LEMMA RemovalHolds ==
  ASSUME SessionsAssumption, SessionsInv, NEW S \in SUBSET Tokens,
         session' = Gone(S), clock' = clock, pwd' = pwd,
         visit' \in [Visits -> VisitRows],
         \A v \in Visits : visit'[v] \in {visit[v], Away}
  PROVE  SessionsInv'
<1>1. /\ session' \in [Tokens -> SessionRows]
      /\ \A t \in S : session'[t].is = "gone"
      /\ \A t \in Tokens \ S : session'[t] = session[t]
  BY GoneRows DEF SessionsInv
<1>2. \A t \in Tokens : Live(t)' => Live(t) /\ session'[t] = session[t]
  BY <1>1 DEF Live
<1>3. \A t \in Tokens : session[t].is # "none" => session'[t].is # "none"
  BY <1>1
<1>4. TypeOK'
  BY <1>1 DEF SessionsInv, TypeOK
<1>5. VisitInv'
  BY <1>2, <1>3, AwayRow DEF SessionsInv, VisitInv, SessionsAssumption
<1>6. LoginInv' /\ UserInv'
  BY <1>2, AwayRow DEF SessionsInv, LoginInv, UserInv
<1>7. OldPasswordIsOut'
  BY <1>2 DEF SessionsInv, OldPasswordIsOut
<1> QED BY <1>4, <1>5, <1>6, <1>7 DEF SessionsInv

\* A request moves to another row; the sessions and passwords stay.
LEMMA VisitMovesHolds ==
  ASSUME SessionsAssumption, SessionsInv, NEW v \in Visits, NEW rec \in VisitRows,
         Goes(v, rec), clock' = clock, session' = session, pwd' = pwd,
         \A t \in Tokens : rec.token = t =>
           /\ session[t].is # "none"
           /\ Live(t) => session[t].user = rec.user
           /\ rec.at = "renew" => /\ rec.exp <= clock + Ttl
                                  /\ Live(t) => rec.exp <= session[t].born + Ceiling,
         rec.at = "insert" => /\ rec.token = None
                              /\ rec.late \/ rec.pw = pwd[rec.user],
         rec.at # "idle" => rec.user \in Users,
         rec.at \in {"touch", "renew", "work"} => rec.token \in Tokens
  PROVE  SessionsInv'
<1>1. /\ visit' \in [Visits -> VisitRows]
      /\ visit'[v] = rec
      /\ \A w \in Visits \ {v} : visit'[w] = visit[w]
  BY DEF SessionsInv, TypeOK, Goes
<1>2. TypeOK'
  BY <1>1 DEF SessionsInv, TypeOK
<1>3. VisitInv'
  BY <1>1 DEF SessionsInv, VisitInv, Live
<1>4. LoginInv' /\ UserInv'
  BY <1>1 DEF SessionsInv, LoginInv, UserInv, Live
<1>5. OldPasswordIsOut'
  BY DEF SessionsInv, OldPasswordIsOut, Live
<1> QED BY <1>2, <1>3, <1>4, <1>5 DEF SessionsInv

-----------------------------------------------------------------------------
(* Sessions: one lemma per action *)

LEMMA ClockHolds == ASSUME SessionsAssumption, SessionsInv, Tick PROVE SessionsInv'
<1>1. clock' = clock + 1 /\ session' = session /\ pwd' = pwd /\ visit' = visit
  BY DEF Tick
<1>2. TypeOK'
  BY <1>1 DEF SessionsInv, TypeOK
<1>3. \A w \in Visits : visit[w].exp \in Nat
  BY DEF SessionsInv, TypeOK, VisitRows
<1>4. VisitInv'
  BY <1>1, <1>3 DEF SessionsInv, VisitInv, TypeOK, Live, SessionsAssumption
<1>5. LoginInv' /\ UserInv' /\ OldPasswordIsOut'
  BY <1>1 DEF SessionsInv, LoginInv, UserInv, OldPasswordIsOut, Live
<1> QED BY <1>2, <1>4, <1>5 DEF SessionsInv

LEMMA LoginHolds ==
  ASSUME SessionsAssumption, SessionsInv, NEW v \in Visits, NEW u \in Users, Login(v, u)
  PROVE  SessionsInv'
<1> DEFINE rec == [Away EXCEPT !.at = "insert", !.op = "login", !.user = u, !.pw = pwd[u]]
<1>1. /\ rec \in VisitRows /\ rec.token = None /\ rec.at = "insert" /\ rec.user = u
      /\ rec.pw = pwd[u]
  BY DEF SessionsInv, TypeOK, Away, VisitRows
<1>2. Goes(v, rec) /\ clock' = clock /\ session' = session /\ pwd' = pwd
  BY DEF Login
<1> HIDE DEF rec
<1> QED BY <1>1, <1>2, VisitMovesHolds DEF SessionsAssumption

LEMMA EnterHolds ==
  ASSUME SessionsAssumption, SessionsInv, NEW v \in Visits, NEW t \in Tokens,
         NEW op \in {"read", "revoke", "password"}, Enter(v, t, op)
  PROVE  SessionsInv'
<1> DEFINE rec == [Away EXCEPT !.at = "touch", !.op = op, !.user = session[t].user,
                               !.token = t, !.seen = session[t].seen]
<1>1. session[t].user \in Users /\ session[t].is = "live"
  BY DEF Enter, SessionsInv, UserInv, Live
<1>2. /\ rec \in VisitRows /\ rec.token = t /\ rec.at = "touch"
      /\ rec.user = session[t].user
  BY <1>1 DEF SessionsInv, TypeOK, Away, VisitRows, SessionRows
<1>3. Goes(v, rec) /\ clock' = clock /\ session' = session /\ pwd' = pwd
  BY DEF Enter
<1> HIDE DEF rec
<1> QED BY <1>1, <1>2, <1>3, VisitMovesHolds

LEMMA TouchHolds ==
  ASSUME SessionsAssumption, SessionsInv, NEW v \in Visits, Touch(v)
  PROVE  SessionsInv'
<1> DEFINE old  == visit[v]
           rest == [old EXCEPT !.at = "work", !.seen = 0]
           due  == [old EXCEPT !.at = "renew", !.seen = clock, !.exp = RenewedTo(old.token)]
<1>1. /\ old \in VisitRows /\ old.at = "touch" /\ old.user \in Users
      /\ old.token \in Tokens
      /\ clock' = clock /\ session' = session /\ pwd' = pwd /\ clock \in Nat
  BY DEF Touch, SessionsInv, TypeOK, UserInv
<1>2. CASE clock - old.seen < Interval
  <2>1. /\ rest \in VisitRows /\ rest.token = old.token /\ rest.at = "work"
        /\ rest.user = old.user
    BY <1>1 DEF VisitRows
  <2>2. Goes(v, rest)
    BY <1>2 DEF Touch
  <2>3. \A t \in Tokens : rest.token = t =>
          session[t].is # "none" /\ (Live(t) => session[t].user = rest.user)
    BY <2>1 DEF SessionsInv, VisitInv
  <2> HIDE DEF rest, old
  <2> QED BY <1>1, <2>1, <2>2, <2>3, VisitMovesHolds
<1>3. CASE ~ (clock - old.seen < Interval)
  <2>1. Goes(v, due)
    BY <1>3 DEF Touch
  <2>2. session[old.token].born \in Nat
    BY <1>1 DEF SessionsInv, TypeOK, SessionRows
  <2>3. /\ RenewedTo(old.token) \in Nat
        /\ RenewedTo(old.token) <= clock + Ttl
        /\ RenewedTo(old.token) <= session[old.token].born + Ceiling
    <3> DEFINE start == session[old.token].born
    <3>1. start \in Nat /\ clock \in Nat /\ Ttl \in Nat /\ Ceiling \in Nat
      BY <1>1, <2>2 DEF SessionsAssumption
    <3>2. RenewedTo(old.token)
            = IF clock + Ttl < start + Ceiling THEN clock + Ttl ELSE start + Ceiling
      BY DEF RenewedTo, EarlierOf
    <3> HIDE DEF start
    <3>3. QED BY <3>1, <3>2 DEF start
  <2>4. /\ due \in VisitRows /\ due.token = old.token /\ due.at = "renew"
        /\ due.user = old.user /\ due.exp = RenewedTo(old.token)
    BY <1>1, <2>3 DEF VisitRows
  <2>5. \A t \in Tokens : due.token = t =>
          session[t].is # "none" /\ (Live(t) => session[t].user = due.user)
    BY <2>4 DEF SessionsInv, VisitInv
  <2> HIDE DEF due, old
  <2> QED BY <1>1, <2>1, <2>3, <2>4, <2>5, VisitMovesHolds
<1> QED BY <1>2, <1>3

LEMMA WorkHolds ==
  ASSUME SessionsAssumption, SessionsInv, NEW v \in Visits, Work(v)
  PROVE  SessionsInv'
<1>1. Goes(v, Away) /\ clock' = clock /\ session' = session /\ pwd' = pwd
  BY DEF Work, Leaves
<1> QED BY <1>1, AwayRow, VisitMovesHolds DEF SessionsAssumption

LEMMA RenewHolds ==
  ASSUME SessionsAssumption, SessionsInv, NEW v \in Visits, Renew(v)
  PROVE  SessionsInv'
<1> DEFINE old == visit[v]
           rec == [old EXCEPT !.at = "work", !.seen = 0, !.exp = 0]
           t   == old.token
<1>1. /\ old \in VisitRows /\ old.at = "renew" /\ old.user \in Users /\ t \in Tokens
      /\ clock' = clock /\ pwd' = pwd /\ clock \in Nat
  BY DEF Renew, SessionsInv, TypeOK, UserInv
<1>2. /\ rec \in VisitRows /\ rec.token = t /\ rec.at = "work" /\ rec.user = old.user
  BY <1>1 DEF VisitRows
<1>3. Goes(v, rec)
  BY DEF Renew
<1>4. \A r \in Tokens : t = r =>
        session[r].is # "none" /\ (Live(r) => session[r].user = rec.user)
  BY <1>2 DEF SessionsInv, VisitInv
<1>5. CASE UNCHANGED session
  <2> HIDE DEF rec, old
  <2> QED BY <1>1, <1>2, <1>3, <1>4, <1>5, VisitMovesHolds
<1>6. CASE Live(t) /\ session' = [session EXCEPT ![t].seen = old.seen, ![t].exp = old.exp]
  <2>1. /\ session[t] \in SessionRows
        /\ session' = [session EXCEPT ![t] = [session[t] EXCEPT !.seen = old.seen,
                                                                !.exp = old.exp]]
    BY <1>1, <1>6 DEF SessionsInv, TypeOK
  <2>2. /\ session' \in [Tokens -> SessionRows]
        /\ \A r \in Tokens : /\ session'[r].is = session[r].is
                             /\ session'[r].user = session[r].user
                             /\ session'[r].born = session[r].born
                             /\ session'[r].pw = session[r].pw
                             /\ session'[r].late = session[r].late
    BY <1>1, <2>1 DEF SessionsInv, TypeOK, SessionRows, VisitRows
  <2>3. /\ visit' \in [Visits -> VisitRows]
        /\ visit'[v] = rec
        /\ \A w \in Visits \ {v} : visit'[w] = visit[w]
    BY <1>2, <1>3 DEF SessionsInv, TypeOK, Goes
  <2> HIDE DEF rec, old
  <2>4. TypeOK'
    BY <1>1, <2>2, <2>3 DEF SessionsInv, TypeOK
  <2>5. VisitInv'
    BY <1>1, <1>2, <1>4, <2>2, <2>3 DEF SessionsInv, VisitInv, Live
  <2>6. LoginInv' /\ UserInv'
    BY <1>1, <1>2, <2>2, <2>3 DEF SessionsInv, LoginInv, UserInv, Live
  <2>7. OldPasswordIsOut'
    BY <1>1, <2>2 DEF SessionsInv, OldPasswordIsOut, Live
  <2> QED BY <2>4, <2>5, <2>6, <2>7 DEF SessionsInv
<1> QED BY <1>5, <1>6 DEF Renew

LEMMA CreateSessionHolds ==
  ASSUME SessionsAssumption, SessionsInv, NEW v \in Visits, CreateSession(v)
  PROVE  SessionsInv'
<1> DEFINE row == [is |-> "live", user |-> visit[v].user, born |-> clock, seen |-> clock,
                   exp |-> clock + Ttl, pw |-> visit[v].pw, late |-> visit[v].late]
<1>1. PICK t \in Tokens : session[t].is = "none" /\ session' = [session EXCEPT ![t] = row]
  BY DEF CreateSession
<1>2. /\ visit[v].at = "insert" /\ Goes(v, Away) /\ clock' = clock /\ pwd' = pwd
      /\ clock \in Nat /\ visit[v] \in VisitRows /\ visit[v].user \in Users
      /\ visit[v].late \/ visit[v].pw = pwd[visit[v].user]
  BY DEF CreateSession, Leaves, SessionsInv, TypeOK, UserInv, LoginInv
<1>3. /\ row \in SessionRows /\ row.is = "live" /\ row.user \in Users
      /\ row.late \/ row.pw = pwd[row.user]
  <2>1. visit[v].pw \in Nat /\ visit[v].late \in BOOLEAN
    BY <1>2 DEF VisitRows
  <2>2. row \in SessionRows
    <3>1. clock + Ttl \in Nat
      BY <1>2 DEF SessionsAssumption
    <3> QED BY <1>2, <2>1, <3>1 DEF SessionRows
  <2>3. /\ row.is = "live" /\ row.user = visit[v].user
        /\ row.pw = visit[v].pw /\ row.late = visit[v].late
    OBVIOUS
  <2> QED BY <1>2, <2>2, <2>3
<1>4. /\ session' \in [Tokens -> SessionRows]
      /\ session'[t] = row
      /\ \A r \in Tokens \ {t} : session'[r] = session[r]
  BY <1>1, <1>3 DEF SessionsInv, TypeOK
<1>5. /\ visit' \in [Visits -> VisitRows]
      /\ visit'[v] = Away
      /\ \A w \in Visits \ {v} : visit'[w] = visit[w]
  BY <1>2, AwayRow DEF SessionsInv, TypeOK, Goes
<1> HIDE DEF row
<1>6. TypeOK'
  BY <1>2, <1>4, <1>5 DEF SessionsInv, TypeOK
<1>7. VisitInv'
  <2>1. \A w \in Visits : visit[w].token # t
    BY <1>1 DEF SessionsInv, VisitInv
  <2> QED BY <1>2, <1>4, <1>5, <2>1, AwayRow
        DEF SessionsInv, VisitInv, Live, SessionsAssumption
<1>8. LoginInv' /\ UserInv'
  BY <1>2, <1>3, <1>4, <1>5, AwayRow DEF SessionsInv, LoginInv, UserInv, Live
<1>9. OldPasswordIsOut'
  BY <1>2, <1>3, <1>4 DEF SessionsInv, OldPasswordIsOut, Live
<1> QED BY <1>6, <1>7, <1>8, <1>9 DEF SessionsInv

LEMMA SweepHolds ==
  ASSUME SessionsAssumption, SessionsInv, NEW t \in Tokens, Sweep(t) \/ Logout(t)
  PROVE  SessionsInv'
<1>1. session' = Gone({t}) /\ clock' = clock /\ pwd' = pwd /\ visit' = visit
  BY DEF Sweep, Logout
<1>2. visit' \in [Visits -> VisitRows] /\ \A v \in Visits : visit'[v] \in {visit[v], Away}
  BY <1>1 DEF SessionsInv, TypeOK
<1>3. {t} \in SUBSET Tokens
  OBVIOUS
<1> QED BY <1>1, <1>2, <1>3, RemovalHolds

LEMMA DeleteAccountHolds ==
  ASSUME SessionsAssumption, SessionsInv, NEW u \in Users, DeleteAccount(u)
  PROVE  SessionsInv'
<1>1. session' = Gone(SessionsOf(u)) /\ clock' = clock /\ pwd' = pwd /\ visit' = visit
  BY DEF DeleteAccount
<1>2. visit' \in [Visits -> VisitRows] /\ \A v \in Visits : visit'[v] \in {visit[v], Away}
  BY <1>1 DEF SessionsInv, TypeOK
<1>3. SessionsOf(u) \in SUBSET Tokens
  BY DEF SessionsOf
<1> QED BY <1>1, <1>2, <1>3, RemovalHolds

LEMMA RevokeHolds ==
  ASSUME SessionsAssumption, SessionsInv, NEW v \in Visits, Revoke(v)
  PROVE  SessionsInv'
<1>1. PICK t \in Tokens : session' = Gone({t})
  BY DEF Revoke, SessionsOf
<1>2. Goes(v, Away) /\ clock' = clock /\ pwd' = pwd
  BY DEF Revoke, Leaves
<1>3. visit' \in [Visits -> VisitRows] /\ \A w \in Visits : visit'[w] \in {visit[w], Away}
  BY <1>2, AwayRow DEF SessionsInv, TypeOK, Goes
<1>4. {t} \in SUBSET Tokens
  OBVIOUS
<1> QED BY <1>1, <1>2, <1>3, <1>4, RemovalHolds

\* The change of a password: the other sessions of the user are gone, its own
\* is one of the new password, and logins that verified the old one are late.
LEMMA ChangePasswordHolds ==
  ASSUME SessionsAssumption, SessionsInv, NEW v \in Visits, ChangePassword(v)
  PROVE  SessionsInv'
<1> DEFINE u    == visit[v].user
           own  == visit[v].token
           rest == Gone(Others(v))
<1>1. /\ u \in Users /\ own \in Tokens /\ clock' = clock /\ clock \in Nat
      /\ pwd' = [pwd EXCEPT ![u] = @ + 1] /\ pwd \in [Users -> Nat]
  BY DEF ChangePassword, SessionsInv, TypeOK, UserInv
<1>2. /\ session' = IF Live(own)
                    THEN [rest EXCEPT ![own].pw = pwd[u] + 1, ![own].late = FALSE]
                    ELSE rest
      /\ visit' = [w \in Visits |->
           IF w = v THEN Away
           ELSE IF visit[w].at = "insert" /\ visit[w].user = u
                THEN [visit[w] EXCEPT !.late = TRUE]
                ELSE visit[w]]
  BY DEF ChangePassword
<1>3. Others(v) \in SUBSET Tokens /\ own \notin Others(v)
      /\ \A t \in Tokens \ {own} : Live(t) /\ session[t].user = u => t \in Others(v)
  BY DEF Others, SessionsOf
<1>4. Live(own) => session[own].user = u
  BY <1>1 DEF SessionsInv, VisitInv
<1>5. /\ rest \in [Tokens -> SessionRows] /\ rest[own] = session[own]
      /\ \A t \in Others(v) : rest[t].is = "gone"
      /\ \A t \in Tokens \ Others(v) : rest[t] = session[t]
  BY <1>1, <1>3, GoneRows DEF SessionsInv
<1>6. /\ session' \in [Tokens -> SessionRows]
      /\ \A t \in Tokens \ {own} : session'[t] = rest[t]
      /\ session'[own].is = session[own].is
      /\ session'[own].user = session[own].user
      /\ session'[own].born = session[own].born
      /\ Live(own) => session'[own].pw = pwd[u] + 1
  <2> HIDE DEF rest, own, u
  <2>1. pwd[u] + 1 \in Nat
    BY <1>1
  <2>2. CASE Live(own)
    <3>1. session' = [rest EXCEPT ![own] = [rest[own] EXCEPT !.pw = pwd[u] + 1, !.late = FALSE]]
      BY <1>1, <1>2, <1>5, <2>2
    <3>2. [rest[own] EXCEPT !.pw = pwd[u] + 1, !.late = FALSE] \in SessionRows
      BY <1>1, <1>5, <2>1 DEF SessionRows
    <3>3. /\ session'[own] = [rest[own] EXCEPT !.pw = pwd[u] + 1, !.late = FALSE]
          /\ rest[own] \in SessionRows
      BY <1>1, <1>5, <3>1
    <3> QED BY <1>1, <1>5, <3>1, <3>2, <3>3 DEF SessionRows
  <2>3. CASE ~ Live(own)
    BY <1>1, <1>2, <1>5, <2>3
  <2> QED BY <2>2, <2>3
<1>7. \A t \in Tokens : Live(t)' => Live(t) /\ t \notin Others(v)
  BY <1>5, <1>6 DEF Live
<1>8. /\ visit' \in [Visits -> VisitRows]
      /\ \A w \in Visits : /\ visit'[w].token \in {visit[w].token, None}
                           /\ visit'[w].at # "idle" =>
                                /\ visit'[w].at = visit[w].at
                                /\ visit'[w].token = visit[w].token
                                /\ visit'[w].user = visit[w].user
                                /\ visit'[w].exp = visit[w].exp
                                /\ visit'[w].pw = visit[w].pw
                                /\ visit'[w].late = visit[w].late
                                   \/ visit'[w].late = TRUE
      /\ \A w \in Visits : visit'[w].at = "insert" /\ visit'[w].user = u
                             => visit'[w].late = TRUE
      /\ \A w \in Visits : visit'[w].at = "idle" =>
                             visit'[w].token = None \/ visit'[w] = visit[w]
  <2> HIDE DEF rest, own, u
  <2>1. visit \in [Visits -> VisitRows]
    BY DEF SessionsInv, TypeOK
  <2>2. ASSUME NEW w \in Visits
        PROVE  [visit[w] EXCEPT !.late = TRUE] \in VisitRows
    BY <2>1 DEF VisitRows
  <2>3. ASSUME NEW w \in Visits
        PROVE  /\ visit'[w] \in VisitRows
               /\ visit'[w].token \in {visit[w].token, None}
               /\ visit'[w].at # "idle" =>
                    /\ visit'[w].at = visit[w].at
                    /\ visit'[w].token = visit[w].token
                    /\ visit'[w].user = visit[w].user
                    /\ visit'[w].exp = visit[w].exp
                    /\ visit'[w].pw = visit[w].pw
                    /\ visit'[w].late = visit[w].late \/ visit'[w].late = TRUE
               /\ visit'[w].at = "insert" /\ visit'[w].user = u => visit'[w].late = TRUE
               /\ visit'[w].at = "idle" => visit'[w].token = None \/ visit'[w] = visit[w]
    <3>1. CASE w = v
      <4>1. visit'[w] = Away
        BY <1>2, <3>1
      <4> QED BY <4>1, AwayRow
    <3>2. CASE w # v /\ visit[w].at = "insert" /\ visit[w].user = u
      <4>1. visit'[w] = [visit[w] EXCEPT !.late = TRUE]
        BY <1>2, <3>2
      <4> QED BY <2>1, <2>2, <3>2, <4>1 DEF VisitRows
    <3>3. CASE w # v /\ ~ (visit[w].at = "insert" /\ visit[w].user = u)
      <4>1. visit'[w] = visit[w]
        BY <1>2, <3>3
      <4> QED BY <2>1, <3>3, <4>1
    <3> QED BY <3>1, <3>2, <3>3
  <2>4. visit' \in [Visits -> VisitRows]
    BY <1>2, <2>3
  <2> QED BY <2>3, <2>4
<1> HIDE DEF rest
<1>9. TypeOK'
  BY <1>1, <1>6, <1>8 DEF SessionsInv, TypeOK
<1>10. VisitInv'
  <2> SUFFICES ASSUME NEW w \in Visits, NEW t \in Tokens, visit'[w].token = t
               PROVE  /\ session'[t].is # "none"
                      /\ Live(t)' => session'[t].user = visit'[w].user
                      /\ visit'[w].at = "renew" =>
                           /\ visit'[w].exp <= clock' + Ttl
                           /\ Live(t)' => visit'[w].exp <= session'[t].born + Ceiling
    BY DEF VisitInv
  <2>1. visit[w].token = t
    BY <1>8 DEF SessionsAssumption
  <2>2. session[t].is # "none" /\ (Live(t) => session[t].user = visit[w].user)
    BY <2>1 DEF SessionsInv, VisitInv
  <2>3. session'[t].is # "none"
    BY <1>5, <1>6, <2>2
  <2>4. Live(t)' => /\ session'[t].user = session[t].user
                    /\ session'[t].born = session[t].born
    BY <1>5, <1>6, <1>7
  <2>5. visit'[w].user = visit[w].user
    BY <1>8, <2>1 DEF SessionsAssumption
  <2>6. visit'[w].at = "renew" =>
          visit[w].at = "renew" /\ visit'[w].exp = visit[w].exp
    BY <1>8
  <2> QED BY <1>1, <1>7, <2>1, <2>2, <2>3, <2>4, <2>5, <2>6 DEF SessionsInv, VisitInv
<1>11. LoginInv'
  BY <1>1, <1>8 DEF SessionsInv, LoginInv, UserInv
<1>12. UserInv'
  BY <1>5, <1>6, <1>7, <1>8 DEF SessionsInv, UserInv
<1>13. OldPasswordIsOut'
  <2> SUFFICES ASSUME NEW t \in Tokens, Live(t)'
               PROVE  session'[t].late \/ session'[t].pw = pwd'[session'[t].user]
    BY DEF OldPasswordIsOut
  <2>1. Live(t) /\ t \notin Others(v)
    BY <1>7
  <2>2. CASE t = own
    BY <1>1, <1>4, <1>6, <2>1, <2>2
  <2>3. CASE t # own
    <3>1. session[t].user # u /\ session[t].user \in Users
      BY <1>3, <2>1, <2>3 DEF SessionsInv, UserInv
    <3>2. session'[t] = session[t]
      BY <1>5, <1>6, <2>1, <2>3
    <3> QED BY <1>1, <2>1, <3>1, <3>2 DEF SessionsInv, OldPasswordIsOut
  <2> QED BY <2>2, <2>3
<1> QED BY <1>9, <1>10, <1>11, <1>12, <1>13 DEF SessionsInv

LEMMA SessionsNextHolds ==
  ASSUME SessionsAssumption, SessionsInv, [Next]_vars PROVE SessionsInv'
<1>1. CASE UNCHANGED vars
  BY <1>1 DEF vars, SessionsInv, TypeOK, VisitInv, LoginInv, UserInv, OldPasswordIsOut, Live
<1>2. CASE Tick
  BY <1>2, ClockHolds
<1>3. ASSUME NEW t \in Tokens, Sweep(t) \/ Logout(t) PROVE SessionsInv'
  BY <1>3, SweepHolds
<1>4. ASSUME NEW u \in Users, DeleteAccount(u) PROVE SessionsInv'
  BY <1>4, DeleteAccountHolds
<1>5. ASSUME NEW v \in Visits, NEW u \in Users, Login(v, u) PROVE SessionsInv'
  BY <1>5, LoginHolds
<1>6. ASSUME NEW v \in Visits, NEW t \in Tokens, NEW op \in {"read", "revoke", "password"},
             Enter(v, t, op)
      PROVE  SessionsInv'
  BY <1>6, EnterHolds
<1>7. ASSUME NEW v \in Visits,
             CreateSession(v) \/ Touch(v) \/ Renew(v) \/ Work(v) \/ Revoke(v)
               \/ ChangePassword(v)
      PROVE  SessionsInv'
  BY <1>7, CreateSessionHolds, TouchHolds, RenewHolds, WorkHolds, RevokeHolds,
     ChangePasswordHolds
<1> QED BY <1>1, <1>2, <1>3, <1>4, <1>5, <1>6, <1>7 DEF Next

LEMMA SessionsInvariant == ASSUME SessionsAssumption PROVE Spec => []SessionsInv
<1>1. Init => SessionsInv
  BY SessionsInitHolds
<1>2. SessionsInv /\ [Next]_vars => SessionsInv'
  BY SessionsNextHolds
<1> QED BY <1>1, <1>2, PTL DEF Spec

\* However requests, logins and changes of password overlap, no session of an
\* older password lives, except one whose login had verified it before the
\* change (router.py, change_password and revoke_other_sessions).
THEOREM PasswordsAreOut ==
  ASSUME SessionsAssumption PROVE Spec => [](TypeOK /\ OldPasswordIsOut)
<1>1. SessionsInv => TypeOK /\ OldPasswordIsOut
  BY DEF SessionsInv
<1> QED BY <1>1, SessionsInvariant, PTL

-----------------------------------------------------------------------------
(* Sessions: what a step does to a session, and who may enter with it *)

Stays(t) ==
  /\ session'[t].is = session[t].is
  /\ session'[t].born = session[t].born
  /\ session'[t].exp = session[t].exp

Starts(t) ==
  /\ session[t].is = "none"
  /\ session'[t].is = "live" /\ session'[t].born = clock /\ session'[t].exp = clock + Ttl

IsRenewed(t) ==
  /\ session[t].is = "live"
  /\ session'[t].is = "live" /\ session'[t].born = session[t].born
  /\ session'[t].exp <= clock + Ttl
  /\ session'[t].exp <= session[t].born + Ceiling

IsRemoved(t) == session[t].is = "live" /\ session'[t].is = "gone"

Lives(t) == Stays(t) \/ Starts(t) \/ IsRenewed(t) \/ IsRemoved(t)

NobodyEnters(t) == \A v \in Visits : visit'[v].token = t => visit[v].token = t

LEMMA RemovalLives ==
  ASSUME TypeOK, NEW S \in SUBSET Tokens, \A t \in S : Live(t), session' = Gone(S),
         NEW t \in Tokens
  PROVE  Stays(t) \/ IsRemoved(t)
<1>1. CASE t \in S
  BY <1>1, GoneRows DEF IsRemoved, Live
<1>2. CASE t \notin S
  BY <1>2, GoneRows DEF Stays
<1> QED BY <1>1, <1>2

LEMMA ChangePasswordLives ==
  ASSUME SessionsAssumption, SessionsInv, NEW v \in Visits, ChangePassword(v),
         NEW t \in Tokens
  PROVE  Lives(t)
<1> DEFINE own  == visit[v].token
           rest == Gone(Others(v))
<1>1. Others(v) \in SUBSET Tokens /\ \A r \in Others(v) : Live(r)
  BY DEF Others, SessionsOf
<1>2. rest \in [Tokens -> SessionRows] /\ own \in Tokens
  BY <1>1, GoneRows DEF SessionsInv, UserInv, ChangePassword
<1>3. (rest[t].is = "gone" /\ Live(t)) \/ rest[t] = session[t]
  BY <1>1, GoneRows DEF SessionsInv
<1>4. session' = IF Live(own)
                 THEN [rest EXCEPT ![own].pw = pwd[visit[v].user] + 1, ![own].late = FALSE]
                 ELSE rest
  BY DEF ChangePassword
<1> HIDE DEF rest, own
<1>5. /\ session'[t].is = rest[t].is
      /\ session'[t].born = rest[t].born
      /\ session'[t].exp = rest[t].exp
  BY <1>2, <1>4 DEF SessionRows
<1> QED BY <1>3, <1>5 DEF Lives, Stays, IsRemoved, Live

LEMMA RenewLives ==
  ASSUME SessionsAssumption, SessionsInv, NEW v \in Visits, Renew(v), NEW t \in Tokens
  PROVE  Lives(t)
<1> DEFINE own == visit[v].token
<1>1. visit[v].at = "renew" /\ own \in Tokens /\ session \in [Tokens -> SessionRows]
  BY DEF Renew, SessionsInv, UserInv, TypeOK
<1>2. CASE UNCHANGED session
  BY <1>2 DEF Lives, Stays
<1>3. CASE Live(own) /\ session' = [session EXCEPT ![own].seen = visit[v].seen,
                                                   ![own].exp = visit[v].exp]
  <2>1. CASE t # own
    BY <1>1, <1>3, <2>1 DEF Lives, Stays
  <2>2. CASE t = own
    <3>1. visit[v].exp <= clock + Ttl /\ visit[v].exp <= session[t].born + Ceiling
      BY <1>1, <1>3, <2>2 DEF SessionsInv, VisitInv
    <3>2. /\ session'[t].is = session[t].is
          /\ session'[t].born = session[t].born
          /\ session'[t].exp = visit[v].exp
      BY <1>1, <1>3, <2>2 DEF SessionRows
    <3> QED BY <1>3, <2>2, <3>1, <3>2 DEF Lives, IsRenewed, Live
  <2> QED BY <2>1, <2>2
<1> QED BY <1>2, <1>3 DEF Renew

LEMMA CreateSessionLives ==
  ASSUME SessionsAssumption, SessionsInv, NEW v \in Visits, CreateSession(v), NEW t \in Tokens
  PROVE  Lives(t)
<1> DEFINE row == [is |-> "live", user |-> visit[v].user, born |-> clock, seen |-> clock,
                   exp |-> clock + Ttl, pw |-> visit[v].pw, late |-> visit[v].late]
<1>1. PICK r \in Tokens : session[r].is = "none" /\ session' = [session EXCEPT ![r] = row]
  BY DEF CreateSession
<1>2. row.is = "live" /\ row.born = clock /\ row.exp = clock + Ttl
  OBVIOUS
<1> HIDE DEF row
<1> QED BY <1>1, <1>2 DEF Lives, Stays, Starts, SessionsInv, TypeOK

\* A request that leaves or goes on enters no session.
LEMMA OnlyEntersByEnter ==
  ASSUME SessionsAssumption, SessionsInv, NEW v \in Visits, NEW rec, Goes(v, rec),
         rec.token \in {visit[v].token, None}, NEW t \in Tokens
  PROVE  NobodyEnters(t)
<1>1. visit' = [visit EXCEPT ![v] = rec] /\ visit \in [Visits -> VisitRows]
  BY DEF Goes, SessionsInv, TypeOK
<1> QED BY <1>1 DEF NobodyEnters, SessionsAssumption

Entered(t) == Live(t) /\ clock < session[t].exp

Refines ==
  /\ clock' \in {clock, clock + 1}
  /\ \A t \in Tokens : Lives(t) /\ (NobodyEnters(t) \/ Entered(t))

\* A step that leaves the sessions alone, and enters none.
LEMMA StillLives ==
  ASSUME session' = session, NEW t \in Tokens PROVE Lives(t)
  BY DEF Lives, Stays

LEMMA RemovalRefines ==
  ASSUME SessionsAssumption, SessionsInv, NEW S \in SUBSET Tokens, \A t \in S : Live(t),
         session' = Gone(S), clock' = clock, \A t \in Tokens : NobodyEnters(t)
  PROVE  Refines
<1>1. TypeOK
  BY DEF SessionsInv
<1> QED BY <1>1, RemovalLives DEF Refines, Lives

LEMMA NextRefines ==
  ASSUME SessionsAssumption, SessionsInv, [Next]_vars PROVE Refines
<1>1. visit \in [Visits -> VisitRows]
  BY DEF SessionsInv, TypeOK
<1>2. CASE UNCHANGED vars
  BY <1>2, StillLives DEF vars, Refines, NobodyEnters
<1>3. CASE Tick
  BY <1>3, StillLives DEF Tick, Refines, NobodyEnters
<1>4. ASSUME NEW t \in Tokens, Sweep(t) \/ Logout(t) PROVE Refines
  <2>1. /\ Live(t) /\ session' = Gone({t}) /\ clock' = clock
        /\ \A r \in Tokens : NobodyEnters(r)
    BY <1>4 DEF Sweep, Logout, NobodyEnters
  <2> QED BY <2>1, RemovalRefines
<1>5. ASSUME NEW u \in Users, DeleteAccount(u) PROVE Refines
  <2>1. /\ session' = Gone(SessionsOf(u)) /\ clock' = clock
        /\ \A r \in Tokens : NobodyEnters(r)
    BY <1>5 DEF DeleteAccount, NobodyEnters
  <2>2. SessionsOf(u) \in SUBSET Tokens /\ \A r \in SessionsOf(u) : Live(r)
    BY DEF SessionsOf
  <2> QED BY <2>1, <2>2, RemovalRefines
<1>6. ASSUME NEW v \in Visits, NEW u \in Users, Login(v, u) PROVE Refines
  <2> DEFINE rec == [Away EXCEPT !.at = "insert", !.op = "login", !.user = u, !.pw = pwd[u]]
  <2>1. Goes(v, rec) /\ rec.token = None /\ clock' = clock /\ session' = session
    BY <1>6 DEF Login, Away
  <2> HIDE DEF rec
  <2> QED BY <2>1, OnlyEntersByEnter, StillLives DEF Refines
<1>7. ASSUME NEW v \in Visits, NEW t \in Tokens, NEW op \in {"read", "revoke", "password"},
             Enter(v, t, op)
      PROVE  Refines
  <2> DEFINE rec == [Away EXCEPT !.at = "touch", !.op = op, !.user = session[t].user,
                                 !.token = t, !.seen = session[t].seen]
  <2>1. rec.token = t /\ clock' = clock /\ session' = session /\ Entered(t)
    BY <1>7 DEF Enter, Away, Entered
  <2>2. visit' = [visit EXCEPT ![v] = rec]
    BY <1>7 DEF Enter, Goes
  <2> HIDE DEF rec
  <2>3. \A r \in Tokens \ {t} : NobodyEnters(r)
    BY <1>1, <2>1, <2>2 DEF NobodyEnters
  <2> QED BY <2>1, <2>3, StillLives DEF Refines
<1>8. ASSUME NEW v \in Visits, Touch(v) \/ Work(v) PROVE Refines
  <2>1. PICK rec : Goes(v, rec) /\ rec.token \in {visit[v].token, None}
    <3> DEFINE rest == [visit[v] EXCEPT !.at = "work", !.seen = 0]
               due  == [visit[v] EXCEPT !.at = "renew", !.seen = clock,
                                        !.exp = RenewedTo(visit[v].token)]
    <3>1. rest.token = visit[v].token /\ due.token = visit[v].token
      BY <1>1 DEF VisitRows
    <3>2. Goes(v, rest) \/ Goes(v, due) \/ Goes(v, Away)
      BY <1>8 DEF Touch, Work, Leaves
    <3> HIDE DEF rest, due
    <3> QED BY <3>1, <3>2, AwayRow
  <2>2. clock' = clock /\ session' = session
    BY <1>8 DEF Touch, Work
  <2> QED BY <2>1, <2>2, OnlyEntersByEnter, StillLives DEF Refines
<1>9. ASSUME NEW v \in Visits, Renew(v) PROVE Refines
  <2> DEFINE rec == [visit[v] EXCEPT !.at = "work", !.seen = 0, !.exp = 0]
  <2>1. Goes(v, rec) /\ clock' = clock
    BY <1>9 DEF Renew
  <2>2. rec.token = visit[v].token
    BY <1>1 DEF VisitRows
  <2> HIDE DEF rec
  <2> QED BY <1>9, <2>1, <2>2, OnlyEntersByEnter, RenewLives DEF Refines
<1>10. ASSUME NEW v \in Visits, CreateSession(v) PROVE Refines
  <2>1. Goes(v, Away) /\ clock' = clock
    BY <1>10 DEF CreateSession, Leaves
  <2> QED BY <1>10, <2>1, AwayRow, OnlyEntersByEnter, CreateSessionLives DEF Refines
<1>11. ASSUME NEW v \in Visits, Revoke(v) PROVE Refines
  <2>1. PICK t \in Tokens : Live(t) /\ session' = Gone({t})
    BY <1>11 DEF Revoke, SessionsOf
  <2>2. Goes(v, Away) /\ clock' = clock
    BY <1>11 DEF Revoke, Leaves
  <2>3. \A r \in Tokens : NobodyEnters(r)
    BY <2>2, AwayRow, OnlyEntersByEnter
  <2> QED BY <2>1, <2>2, <2>3, RemovalRefines
<1>12. ASSUME NEW v \in Visits, ChangePassword(v) PROVE Refines
  <2>1. clock' = clock
    BY <1>12 DEF ChangePassword
  <2>2. \A w \in Visits : visit'[w].token \in {visit[w].token, None}
    <3>1. ASSUME NEW w \in Visits
          PROVE  [visit[w] EXCEPT !.late = TRUE].token = visit[w].token
      BY <1>1 DEF VisitRows
    <3>2. \A w \in Visits :
            visit'[w] \in {Away, [visit[w] EXCEPT !.late = TRUE], visit[w]}
      BY <1>12 DEF ChangePassword
    <3> QED BY <3>1, <3>2, AwayRow
  <2>3. \A t \in Tokens : NobodyEnters(t)
    BY <2>2 DEF NobodyEnters, SessionsAssumption
  <2> QED BY <1>12, <2>1, <2>3, ChangePasswordLives DEF Refines
<1> QED BY <1>2, <1>3, <1>4, <1>5, <1>6, <1>7, <1>8, <1>9, <1>10, <1>11, <1>12 DEF Next

\* A step of this kind is a step of the life of sessions.
LEMMA RefinesIsLife ==
  ASSUME Refines PROVE Life!Next
<1> DEFINE life   == [t \in Tokens |-> [state |-> session[t].is, born |-> session[t].born,
                                        exp |-> session[t].exp]]
           inside == [t \in Tokens |-> {v \in Visits : visit[v].token = t}]
<1>1. clock' \in {clock, clock + 1}
  BY DEF Refines
<1>2. ASSUME NEW t \in Tokens
      PROVE  life'[t] = life[t] \/ Life!Start(t) \/ Life!Renew(t) \/ Life!Remove(t)
  <2>1. CASE Stays(t)
    BY <2>1 DEF Stays
  <2>2. CASE Starts(t)
    BY <2>2 DEF Starts, Life!Start
  <2>3. CASE IsRenewed(t)
    BY <2>3 DEF IsRenewed, Life!Renew
  <2>4. CASE IsRemoved(t)
    BY <2>4 DEF IsRemoved, Life!Remove
  <2> QED BY <2>1, <2>2, <2>3, <2>4 DEF Refines, Lives
<1>3. ASSUME NEW t \in Tokens
      PROVE  inside'[t] \subseteq inside[t] \/ Life!Enter(t)
  <2>1. CASE NobodyEnters(t)
    BY <2>1 DEF NobodyEnters
  <2>2. CASE Entered(t)
    BY <2>2 DEF Entered, Live, Life!Enter
  <2> QED BY <2>1, <2>2 DEF Refines
<1> QED BY <1>1, <1>2, <1>3 DEF Life!Next

LEMMA InitIsLife == ASSUME SessionsAssumption, Init PROVE Life!Init
  BY DEF Init, Life!Init, NoSession, Away, SessionsAssumption

\* Sessions implement the life SessionLife states (auth/sessions.py): late,
\* doubled or overtaken renewals never revive one nor push it past its ceiling.
THEOREM SessionsImplementLife == ASSUME SessionsAssumption PROVE Spec => LivesOnce
<1>1. Init => Life!Init
  BY InitIsLife
<1>2. SessionsInv /\ [Next]_vars => [Life!Next]_(Life!vars)
  BY NextRefines, RefinesIsLife
<1> QED BY <1>1, <1>2, SessionsInvariant, PTL DEF Spec, LivesOnce, Life!Spec

-----------------------------------------------------------------------------
(* Licences: no answer long after it was true *)

Entries == [known : BOOLEAN, time : Nat, asof : Nat, caps : BOOLEAN]

\* An answer is not older than the date of its entry, and nobody has waited
\* longer than the client's timeout.
DatedInv ==
  /\ entry.time <= entry.asof
  /\ \A a \in Askers : asker[a].at = "sa" => /\ time <= asker[a].now + Patience
                                             /\ asker[a].hit.time <= asker[a].hit.asof

LicenceInv == LicenceTypeOK /\ DatedInv /\ NothingStaleIsServed

LEMMA LicenceInitHolds == ASSUME LicenceAssumption PROVE LicenceInit => LicenceInv
  BY DEF LicenceAssumption, LicenceInit, LicenceInv, LicenceTypeOK, DatedInv, NothingStaleIsServed,
         Entries, NoEntry, NotAsking

\* What serving an entry leaves, when it is not too old.
LEMMA ServeHolds ==
  ASSUME LicenceAssumption, LicenceInv,
         NEW e \in Entries,
         time - e.asof < Stale + Patience,
         Serve(e)
  PROVE  /\ served' \in [at : Nat, asof : Nat]
         /\ served'.at - served'.asof < Stale + Patience
  BY DEF LicenceAssumption, LicenceInv, LicenceTypeOK, NothingStaleIsServed, Serve, Entries

LEMMA LicenceTickHolds == ASSUME LicenceAssumption, LicenceInv, LicenceTick PROVE LicenceInv'
  BY DEF LicenceAssumption, LicenceInv, LicenceTypeOK, DatedInv, NothingStaleIsServed, LicenceTick

LEMMA AskHolds ==
  ASSUME LicenceAssumption, LicenceInv, NEW a \in Askers, Ask(a)
  PROVE  LicenceInv'
<1>1. entry \in Entries /\ time \in Nat
  BY DEF LicenceInv, LicenceTypeOK, Entries, LicenceAssumption
<1>2. CASE entry.known /\ time - entry.time < Fresh
  <2>1. Serve(entry) /\ UNCHANGED <<asker, time, entry>>
    BY <1>2 DEF Ask
  <2>2. time - entry.asof < Stale + Patience
    BY <1>1, <1>2 DEF LicenceAssumption, LicenceInv, DatedInv, Entries
  <2>3. /\ served' \in [at : Nat, asof : Nat]
        /\ served'.at - served'.asof < Stale + Patience
    BY <1>1, <2>1, <2>2, ServeHolds
  <2> QED BY <2>1, <2>3 DEF LicenceInv, LicenceTypeOK, DatedInv, NothingStaleIsServed
<1>3. CASE ~ (entry.known /\ time - entry.time < Fresh)
  <2>1. /\ asker' = [asker EXCEPT ![a] = [at |-> "sa", now |-> time, hit |-> entry]]
        /\ UNCHANGED <<served, time, entry>>
    BY <1>3 DEF Ask
  <2> QED BY <1>1, <2>1 DEF LicenceAssumption, LicenceInv, LicenceTypeOK, DatedInv,
                            NothingStaleIsServed, Entries
<1> QED BY <1>2, <1>3

LEMMA AnswerHolds ==
  ASSUME LicenceAssumption, LicenceInv, NEW a \in Askers, Answer(a)
  PROVE  LicenceInv'
<1>1. PICK asof \in asker[a].now..time, caps \in BOOLEAN :
        entry' = Answered(a, asof, caps) /\ Serve(entry')
  BY DEF Answer
<1>2. /\ asker[a].at = "sa" /\ asker' = [asker EXCEPT ![a] = NotAsking] /\ time' = time
  BY DEF Answer
<1>3. asker[a].now \in Nat /\ time \in Nat /\ asof \in Nat /\ asker[a].now <= asof
  BY <1>1 DEF LicenceInv, LicenceTypeOK, LicenceAssumption
<1>4. entry' \in Entries /\ entry'.time <= entry'.asof /\ entry'.asof = asof
  BY <1>1, <1>3 DEF Answered, Entries
<1>5. time - entry'.asof < Stale + Patience
  BY <1>2, <1>3, <1>4 DEF LicenceAssumption, LicenceInv, DatedInv
<1>6. PICK e \in Entries : e = entry'
  BY <1>4
<1>7. /\ served' \in [at : Nat, asof : Nat]
      /\ served'.at - served'.asof < Stale + Patience
  BY <1>1, <1>5, <1>6, ServeHolds
<1> QED BY <1>2, <1>4, <1>7 DEF LicenceInv, LicenceTypeOK, DatedInv, NothingStaleIsServed,
                                Entries, NotAsking, NoEntry

LEMMA FailureHolds ==
  ASSUME LicenceAssumption, LicenceInv, NEW a \in Askers, Fail(a)
  PROVE  LicenceInv'
<1> DEFINE hit == asker[a].hit
<1>1. /\ asker[a].at = "sa" /\ asker' = [asker EXCEPT ![a] = NotAsking]
      /\ UNCHANGED <<time, entry>>
  BY DEF Fail
<1>2. hit \in Entries /\ asker[a].now \in Nat /\ time \in Nat
  BY DEF LicenceInv, LicenceTypeOK, Entries, LicenceAssumption
<1>3. /\ served' \in [at : Nat, asof : Nat]
      /\ served'.at - served'.asof < Stale + Patience
  <2>1. CASE hit.known /\ asker[a].now - hit.time < Stale
    <3>1. Serve(hit)
      BY <2>1 DEF Fail
    <3>2. time - hit.asof < Stale + Patience
      BY <1>1, <1>2, <2>1 DEF LicenceAssumption, LicenceInv, DatedInv, Entries
    <3> QED BY <1>2, <3>1, <3>2, ServeHolds
  <2>2. CASE ~ (hit.known /\ asker[a].now - hit.time < Stale)
    BY <2>2 DEF Fail, LicenceInv, LicenceTypeOK, NothingStaleIsServed
  <2> QED BY <2>1, <2>2
<1> QED BY <1>1, <1>3 DEF LicenceInv, LicenceTypeOK, DatedInv, NothingStaleIsServed,
                          NotAsking, NoEntry

LEMMA LicenceNextHolds ==
  ASSUME LicenceAssumption, LicenceInv, [LicenceNext]_licenceVars PROVE LicenceInv'
<1>1. CASE UNCHANGED licenceVars
  BY <1>1 DEF licenceVars, LicenceInv, LicenceTypeOK, DatedInv, NothingStaleIsServed
<1>2. CASE LicenceTick
  BY <1>2, LicenceTickHolds
<1>3. ASSUME NEW a \in Askers, Ask(a) PROVE LicenceInv'
  BY <1>3, AskHolds
<1>4. ASSUME NEW a \in Askers, Answer(a) PROVE LicenceInv'
  BY <1>4, AnswerHolds
<1>5. ASSUME NEW a \in Askers, Fail(a) PROVE LicenceInv'
  BY <1>5, FailureHolds
<1> QED BY <1>1, <1>2, <1>3, <1>4, <1>5 DEF LicenceNext

\* However the requests that ask sa, fail and overwrite each other's entry
\* overlap, no answer from a known entry is older than the stale age and one
\* wait for sa (licensing.py: the entry is dated before the question).
THEOREM NothingStale ==
  ASSUME LicenceAssumption PROVE LicenceSpec => []NothingStaleIsServed
<1>1. LicenceInit => LicenceInv
  BY LicenceInitHolds
<1>2. LicenceInv /\ [LicenceNext]_licenceVars => LicenceInv'
  BY LicenceNextHolds
<1>3. LicenceInv => NothingStaleIsServed
  BY DEF LicenceInv
<1> QED BY <1>1, <1>2, <1>3, PTL DEF LicenceSpec

-----------------------------------------------------------------------------
(* The limiter: a burst is bounded *)

\* Of a queue the failures up to n, and no more, have left the window at m.
Expires(q, m, n) ==
  /\ n \in 0..Len(q)
  /\ \A i \in 1..n : q[i] + Window < m
  /\ n = Len(q) \/ ~ (q[n + 1] + Window < m)

\* What check leaves of a queue at a moment.
ExpiredAt(q, m) == CHOOSE n \in 0..Len(q) : /\ \A i \in 1..n : q[i] + Window < m
                                            /\ n = Len(q) \/ ~ (q[n + 1] + Window < m)
RecentAt(q, m) == SubSeq(q, ExpiredAt(q, m) + 1, Len(q))

LEMMA RecentNow == \A k : Recent(k) = RecentAt(failures[k], moment)
  BY DEF Recent, RecentAt, Expired, ExpiredAt, Old

LEMMA RecentNext == \A k : Recent(k)' = RecentAt(failures'[k], moment')
  BY DEF Recent, RecentAt, Expired, ExpiredAt, Old

\* Of any queue some number of failures has expired, and only one.
LEMMA ExpiredEnds ==
  ASSUME LimiterAssumption, NEW q \in Seq(Nat), NEW m \in Nat
  PROVE  Expires(q, m, ExpiredAt(q, m))
<1> DEFINE S == {n \in 0..Len(q) : n = Len(q) \/ ~ (q[n + 1] + Window < m)}
<1>1. S \in SUBSET Nat /\ Len(q) \in S
  OBVIOUS
<1>2. PICK n \in S : \A o \in S : n <= o
  BY <1>1, Smallest
<1>3. \A i \in 1..n : q[i] + Window < m
  <2> SUFFICES ASSUME NEW i \in 1..n PROVE q[i] + Window < m
    OBVIOUS
  <2>1. i - 1 \in 0..Len(q) /\ ~ (n <= i - 1) /\ (i - 1) + 1 = i
    OBVIOUS
  <2>2. i - 1 \notin S
    BY <1>2, <2>1
  <2> QED BY <2>1, <2>2
<1>4. \E e \in 0..Len(q) : /\ \A i \in 1..e : q[i] + Window < m
                           /\ e = Len(q) \/ ~ (q[e + 1] + Window < m)
  BY <1>2, <1>3
<1> QED BY <1>4 DEF ExpiredAt, Expires

LEMMA ExpiredIsTheEnd ==
  ASSUME LimiterAssumption, NEW q \in Seq(Nat), NEW m \in Nat, NEW n, Expires(q, m, n)
  PROVE  ExpiredAt(q, m) = n
<1> DEFINE e == ExpiredAt(q, m)
<1>1. Expires(q, m, e)
  BY ExpiredEnds
<1> HIDE DEF e
<1>2. e \in Nat /\ n \in Nat /\ Window \in Nat
  BY <1>1 DEF Expires, LimiterAssumption
<1>3. ~ (e < n)
  <2> SUFFICES ASSUME e < n PROVE FALSE
    OBVIOUS
  <2>1. e + 1 \in 1..n /\ e # Len(q)
    BY <1>2 DEF Expires
  <2> QED BY <1>1, <2>1 DEF Expires
<1>4. ~ (n < e)
  <2> SUFFICES ASSUME n < e PROVE FALSE
    OBVIOUS
  <2>1. n + 1 \in 1..e /\ n # Len(q)
    BY <1>1, <1>2 DEF Expires
  <2> QED BY <1>1, <2>1 DEF Expires
<1> QED BY <1>2, <1>3, <1>4 DEF e

\* What is left is a part of the queue, of the length of what has not expired.
LEMMA RecentIsLeft ==
  ASSUME LimiterAssumption, NEW q \in Seq(0..MaxNow), NEW m \in Nat, NEW n, Expires(q, m, n)
  PROVE  /\ RecentAt(q, m) \in Seq(0..MaxNow)
         /\ Len(RecentAt(q, m)) = Len(q) - n
         /\ \A i \in 1..(Len(q) - n) : RecentAt(q, m)[i] = q[n + i]
<1>1. q \in Seq(Nat)
  BY SeqMonotonic DEF LimiterAssumption
<1>2. RecentAt(q, m) = SubSeq(q, n + 1, Len(q)) /\ n \in 0..Len(q)
  BY <1>1, ExpiredIsTheEnd DEF RecentAt, Expires
<1> DEFINE r == SubSeq(q, n + 1, Len(q))
<1>3. \A i \in (n + 1)..Len(q) : q[i] \in 0..MaxNow
  <2> SUFFICES ASSUME NEW i \in (n + 1)..Len(q) PROVE q[i] \in 0..MaxNow
    OBVIOUS
  <2>1. i \in 1..Len(q)
    BY <1>2
  <2> QED BY <2>1, ElementOfSeq
<1>4. n \in Nat /\ Len(q) \in Nat /\ n + 1 \in Int /\ n <= Len(q)
  BY <1>2
<1>5. /\ r \in Seq(0..MaxNow)
      /\ Len(r) = IF n + 1 <= Len(q) THEN Len(q) - (n + 1) + 1 ELSE 0
      /\ \A i \in 1..(Len(q) - (n + 1) + 1) : r[i] = q[(n + 1) + i - 1]
  BY <1>3, <1>4, SubSeqProperties
<1> HIDE DEF r
<1>6. Len(r) = Len(q) - n /\ \A i \in 1..(Len(q) - n) : r[i] = q[n + i]
  BY <1>4, <1>5
<1> QED BY <1>2, <1>5, <1>6 DEF r

\* Pruning a second time, adding the failure of now, and the passing of time.
LEMMA PrunedTwice ==
  ASSUME LimiterAssumption, NEW q \in Seq(0..MaxNow), NEW m \in Nat
  PROVE  Len(RecentAt(RecentAt(q, m), m)) = Len(RecentAt(q, m))
<1> DEFINE n == ExpiredAt(q, m)
           r == RecentAt(q, m)
<1>1. q \in Seq(Nat)
  BY DEF LimiterAssumption
<1>2. Expires(q, m, n)
  BY <1>1, ExpiredEnds
<1>3. r \in Seq(0..MaxNow) /\ Len(r) = Len(q) - n /\ \A i \in 1..(Len(q) - n) : r[i] = q[n + i]
  BY <1>2, RecentIsLeft
<1>4. Expires(r, m, 0)
  BY <1>2, <1>3 DEF Expires
<1> HIDE DEF r
<1>5. Len(RecentAt(r, m)) = Len(r) - 0
  BY <1>3, <1>4, RecentIsLeft
<1> QED BY <1>3, <1>5 DEF r

LEMMA OneMore ==
  ASSUME LimiterAssumption, NEW q \in Seq(0..MaxNow), NEW m \in 0..MaxNow
  PROVE  Len(RecentAt(Append(q, m), m)) = Len(RecentAt(q, m)) + 1
<1> DEFINE n == ExpiredAt(q, m)
           r == Append(q, m)
<1>1. q \in Seq(Nat) /\ m \in Nat /\ Window \in Nat
  BY DEF LimiterAssumption
<1>2. Expires(q, m, n)
  BY <1>1, ExpiredEnds
<1>3. r \in Seq(0..MaxNow) /\ Len(r) = Len(q) + 1 /\ r[Len(q) + 1] = m
      /\ \A i \in 1..Len(q) : r[i] = q[i]
  OBVIOUS
<1> HIDE DEF n, r
<1>4. Expires(r, m, n)
  <2>1. n \in 0..Len(r) /\ \A i \in 1..n : r[i] = q[i]
    BY <1>2, <1>3 DEF Expires
  <2>2. n = Len(r) \/ ~ (r[n + 1] + Window < m)
    <3>1. CASE n = Len(q)
      <4>1. r[n + 1] = m
        BY <1>3, <3>1
      <4> QED BY <1>1, <4>1
    <3>2. CASE n # Len(q)
      <4>1. n + 1 \in 1..Len(q)
        BY <1>2, <3>2 DEF Expires
      <4>2. r[n + 1] = q[n + 1]
        BY <1>3, <4>1
      <4> QED BY <1>2, <3>2, <4>2 DEF Expires
    <3> QED BY <3>1, <3>2
  <2> QED BY <1>2, <2>1, <2>2 DEF Expires
<1>5. Len(RecentAt(r, m)) = Len(r) - n /\ Len(RecentAt(q, m)) = Len(q) - n
  BY <1>1, <1>2, <1>3, <1>4, RecentIsLeft
<1>6. n \in Nat
  BY <1>2 DEF Expires
<1> QED BY <1>3, <1>5, <1>6 DEF r

LEMMA TimeOnlyTakes ==
  ASSUME LimiterAssumption, NEW q \in Seq(0..MaxNow), NEW m \in Nat
  PROVE  Len(RecentAt(q, m + 1)) <= Len(RecentAt(q, m))
<1> DEFINE n == ExpiredAt(q, m)
           o == ExpiredAt(q, m + 1)
<1>1. q \in Seq(Nat) /\ m + 1 \in Nat /\ Window \in Nat
  BY DEF LimiterAssumption
<1>2. Expires(q, m, n) /\ Expires(q, m + 1, o)
  BY <1>1, ExpiredEnds
<1>3. Len(RecentAt(q, m)) = Len(q) - n /\ Len(RecentAt(q, m + 1)) = Len(q) - o
  BY <1>1, <1>2, RecentIsLeft
<1> HIDE DEF n, o
<1>4. n <= o
  <2> SUFFICES ASSUME ~ (n <= o) PROVE FALSE
    OBVIOUS
  <2>1. n \in Nat /\ o \in Nat /\ o # Len(q) /\ o + 1 \in 1..n /\ o + 1 \in 1..Len(q)
    BY <1>2 DEF Expires
  <2>2. q[o + 1] + Window < m
    BY <1>2, <2>1 DEF Expires
  <2>4. ~ (q[o + 1] + Window < m + 1)
    BY <1>2, <2>1 DEF Expires
  <2>3. q[o + 1] \in Nat
    BY <1>1, <2>1
  <2> QED BY <1>1, <2>2, <2>3, <2>4
<1> QED BY <1>2, <1>3, <1>4 DEF Expires

LEMMA NothingToForget ==
  ASSUME LimiterAssumption, NEW m \in Nat PROVE Len(RecentAt(<<>>, m)) = 0
<1> DEFINE q == <<>>
<1>1. q \in Seq(0..MaxNow) /\ Len(q) = 0
  OBVIOUS
<1> HIDE DEF q
<1>2. Expires(q, m, 0)
  BY <1>1 DEF Expires
<1>3. Len(RecentAt(q, m)) = Len(q) - 0
  BY <1>1, <1>2, RecentIsLeft
<1>4. Len(RecentAt(q, m)) = 0
  BY <1>1, <1>3
<1> QED BY <1>4 DEF q

\* The attempts that were let in with a key and have not been counted yet.
Trying(k) == {a \in Attempts : attempt[a].at = "verify" /\ k \in attempt[a].keys}

\* Each of them can still add a failure: the two together are bounded.
BurstInv ==
  \A k \in Counted :
    Len(Recent(k)) + Cardinality(Trying(k)) < Limit(k) + Cardinality(Attempts)

LimiterInv == LimiterTypeOK /\ BurstInv

LEMMA TryingIsFinite ==
  ASSUME LimiterAssumption, NEW S \in SUBSET Attempts
  PROVE  /\ Cardinality(S) \in Nat /\ Cardinality(Attempts) \in Nat
         /\ Cardinality(S) <= Cardinality(Attempts)
         /\ \A a \in S : Cardinality(S \ {a}) = Cardinality(S) - 1
         /\ \A T \in SUBSET S : Cardinality(T) \in Nat /\ Cardinality(T) <= Cardinality(S)
<1>1. IsFiniteSet(Attempts) /\ IsFiniteSet(S)
  BY FS_Subset DEF LimiterAssumption
<1>2. \A T \in SUBSET S : Cardinality(T) \in Nat /\ Cardinality(T) <= Cardinality(S)
  BY <1>1, FS_Subset, FS_CardinalityType
<1> QED BY <1>1, <1>2, FS_Subset, FS_CardinalityType, FS_RemoveElement

LEMMA LimitsAreNumbers ==
  ASSUME LimiterAssumption, NEW k \in Counted PROVE Limit(k) \in Nat \ {0}
  BY DEF LimiterAssumption, Limit

\* A step that leaves no queue longer than its attempts were told of.
LEMMA BurstStays ==
  ASSUME LimiterAssumption, LimiterInv, LimiterTypeOK',
         \A k \in Counted :
           \/ /\ Len(RecentAt(failures'[k], moment')) <= Len(RecentAt(failures[k], moment))
              /\ Trying(k)' \subseteq Trying(k)
           \/ /\ Len(RecentAt(failures'[k], moment')) <= Len(RecentAt(failures[k], moment)) + 1
              /\ \E a \in Trying(k) : Trying(k)' = Trying(k) \ {a}
           \/ /\ Len(RecentAt(failures'[k], moment')) < Limit(k)
              /\ Trying(k)' \subseteq Attempts
  PROVE  BurstInv'
<1> SUFFICES ASSUME NEW k \in Counted
             PROVE  Len(RecentAt(failures'[k], moment')) + Cardinality(Trying(k)')
                      < Limit(k) + Cardinality(Attempts)
  BY RecentNext DEF BurstInv, Limit, Counted
<1> DEFINE new == Len(RecentAt(failures'[k], moment'))
           old == Len(RecentAt(failures[k], moment))
<1>1. old \in Nat /\ new \in Nat
  <2>1. /\ failures[k] \in Seq(0..MaxNow) /\ moment \in Nat
        /\ failures'[k] \in Seq(0..MaxNow) /\ moment' \in Nat
    BY DEF LimiterInv, LimiterTypeOK, Counted
  <2>2. /\ failures[k] \in Seq(Nat) /\ failures'[k] \in Seq(Nat)
    BY <2>1, SeqMonotonic DEF LimiterAssumption
  <2>3. RecentAt(failures[k], moment) \in Seq(0..MaxNow)
    BY <2>1, <2>2, ExpiredEnds, RecentIsLeft
  <2>4. RecentAt(failures'[k], moment') \in Seq(0..MaxNow)
    BY <2>1, <2>2, ExpiredEnds, RecentIsLeft
  <2> QED BY <2>3, <2>4
<1>2. old + Cardinality(Trying(k)) < Limit(k) + Cardinality(Attempts)
  BY RecentNow DEF LimiterInv, BurstInv
<1>3. Trying(k) \in SUBSET Attempts /\ Trying(k)' \in SUBSET Attempts
  BY DEF Trying
<1>4. Limit(k) \in Nat \ {0}
  BY LimitsAreNumbers
<1> HIDE DEF new, old
<1>5. CASE new <= old /\ Trying(k)' \subseteq Trying(k)
  <2>1. Cardinality(Trying(k)') <= Cardinality(Trying(k))
    BY <1>3, <1>5, TryingIsFinite
  <2>2. /\ Cardinality(Trying(k)') \in Nat /\ Cardinality(Trying(k)) \in Nat
        /\ Cardinality(Attempts) \in Nat
    BY <1>3, TryingIsFinite
  <2> QED BY <1>1, <1>2, <1>4, <1>5, <2>1, <2>2 DEF new
<1>6. ASSUME new <= old + 1, NEW a \in Trying(k), Trying(k)' = Trying(k) \ {a}
      PROVE  new + Cardinality(Trying(k)') < Limit(k) + Cardinality(Attempts)
  <2>1. Cardinality(Trying(k)') = Cardinality(Trying(k)) - 1
    BY <1>3, <1>6, TryingIsFinite
  <2>2. Cardinality(Trying(k)) \in Nat /\ Cardinality(Attempts) \in Nat
    BY <1>3, TryingIsFinite
  <2> QED BY <1>1, <1>2, <1>4, <1>6, <2>1, <2>2
<1>7. CASE new < Limit(k)
  <2>1. /\ Cardinality(Trying(k)') <= Cardinality(Attempts)
        /\ Cardinality(Trying(k)') \in Nat /\ Cardinality(Attempts) \in Nat
    BY <1>3, TryingIsFinite
  <2> QED BY <1>1, <1>4, <1>7, <2>1 DEF new
<1> QED BY <1>5, <1>6, <1>7 DEF new, old

LEMMA LimiterInitHolds == ASSUME LimiterAssumption, LimiterInit PROVE LimiterInv
<1>1. LimiterTypeOK
  BY DEF LimiterAssumption, LimiterInit, LimiterTypeOK, Nobody
<1>2. ASSUME NEW k \in Counted
      PROVE  Len(Recent(k)) + Cardinality(Trying(k)) < Limit(k) + Cardinality(Attempts)
  <2>1. Trying(k) = {}
    BY DEF Trying, LimiterInit, Nobody
  <2>2. failures[k] = <<>> /\ moment \in Nat
    BY DEF LimiterInit
  <2>4. Len(Recent(k)) = 0
    BY <2>2, RecentNow, NothingToForget
  <2>5. Cardinality(Trying(k)) = 0 /\ Cardinality(Attempts) \in Nat
    BY <2>1, FS_EmptySet, FS_CardinalityType DEF LimiterAssumption
  <2> QED BY <2>4, <2>5, LimitsAreNumbers
<1> QED BY <1>1, <1>2 DEF LimiterInv, BurstInv

\* What the lemmas about queues say of those of a state.
LEMMA QueueFacts ==
  ASSUME LimiterAssumption, LimiterTypeOK, NEW k \in Counted
  PROVE  /\ failures[k] \in Seq(0..MaxNow) /\ moment \in Nat /\ moment \in 0..MaxNow
         /\ RecentAt(failures[k], moment) \in Seq(0..MaxNow)
         /\ Len(RecentAt(failures[k], moment)) \in Nat
<1>1. failures[k] \in Seq(0..MaxNow) /\ moment \in Nat /\ moment \in 0..MaxNow
  BY DEF LimiterTypeOK
<1>2. failures[k] \in Seq(Nat)
  BY <1>1, SeqMonotonic DEF LimiterAssumption
<1> QED BY <1>1, <1>2, ExpiredEnds, RecentIsLeft

LEMMA LimiterTickHolds == ASSUME LimiterAssumption, LimiterInv, LimiterTick PROVE LimiterInv'
<1>1. /\ moment' = moment + 1 /\ failures' = failures /\ attempt' = attempt
      /\ moment < MaxNow
  BY DEF LimiterTick
<1>2. LimiterTypeOK'
  BY <1>1 DEF LimiterInv, LimiterTypeOK, LimiterAssumption, Counted
<1>3. \A k \in Counted : /\ Len(RecentAt(failures'[k], moment'))
                              <= Len(RecentAt(failures[k], moment))
                         /\ Trying(k)' = Trying(k)
  BY <1>1, QueueFacts, TimeOnlyTakes DEF LimiterInv, Trying
<1> QED BY <1>2, <1>3, BurstStays DEF LimiterInv

LEMMA CheckHolds ==
  ASSUME LimiterAssumption, LimiterInv, NEW a \in Attempts,
         NEW ip \in Addresses, NEW name \in Names, Check(a, ip, name)
  PROVE  LimiterInv'
<1> DEFINE asked == IF Allowed(ip) THEN {ip, name} ELSE {ip}
           rec == [at |-> "verify", keys |-> {ip, name}]
<1>1. /\ moment' = moment
      /\ failures' = [k \in Counted |-> IF k \in asked THEN Recent(k) ELSE failures[k]]
      /\ attempt' = IF \A k \in asked : Allowed(k) THEN [attempt EXCEPT ![a] = rec] ELSE attempt
  BY DEF Check
<1>2. /\ \A k \in Counted : Recent(k) = RecentAt(failures[k], moment)
      /\ \A k \in Counted : failures'[k] \in {failures[k], RecentAt(failures[k], moment)}
  BY <1>1, RecentNow
<1>3. ip \in Counted /\ name \in Counted /\ rec \in [at : {"idle", "verify"}, keys : SUBSET Counted]
  BY DEF Counted
<1>4. LimiterTypeOK'
  <2>1. failures' \in [Counted -> Seq(0..MaxNow)]
    <3>1. \A k \in Counted : Recent(k) \in Seq(0..MaxNow) /\ failures[k] \in Seq(0..MaxNow)
      BY <1>2, QueueFacts DEF LimiterInv
    <3> HIDE DEF asked
    <3> QED BY <1>1, <3>1
  <2>2. attempt' \in [Attempts -> [at : {"idle", "verify"}, keys : SUBSET Counted]]
    <3> HIDE DEF asked, rec
    <3> QED BY <1>1, <1>3 DEF LimiterInv, LimiterTypeOK
  <2> QED BY <1>1, <2>1, <2>2 DEF LimiterInv, LimiterTypeOK, Counted
<1>5. \A k \in Counted : Len(RecentAt(failures'[k], moment')) = Len(RecentAt(failures[k], moment))
  BY <1>1, <1>2, QueueFacts, PrunedTwice DEF LimiterInv
<1>6. ASSUME NEW k \in Counted
      PROVE  \/ Trying(k)' \subseteq Trying(k)
             \/ /\ Len(RecentAt(failures'[k], moment')) < Limit(k)
                /\ Trying(k)' \subseteq Attempts
  <2>1. Trying(k)' \subseteq Attempts
    BY DEF Trying
  <2>2. CASE attempt' = attempt
    BY <2>2 DEF Trying
  <2>3. CASE attempt' # attempt /\ k \notin {ip, name}
    <3>1. attempt' = [attempt EXCEPT ![a] = rec] /\ attempt \in [Attempts -> [at : {"idle", "verify"}, keys : SUBSET Counted]]
      BY <1>1, <2>3 DEF LimiterInv, LimiterTypeOK
    <3> QED BY <2>3, <3>1 DEF Trying
  <2>4. CASE attempt' # attempt /\ k \in {ip, name}
    <3>1. \A o \in asked : Allowed(o)
      BY <1>1, <2>4
    <3>2. Allowed(k)
      BY <2>4, <3>1
    <3>3. Len(RecentAt(failures[k], moment)) < Limit(k)
      BY <1>2, <3>2 DEF Allowed
    <3> QED BY <1>5, <2>1, <3>3
  <2> QED BY <2>2, <2>3, <2>4
<1>7. \A k \in Counted : Len(RecentAt(failures'[k], moment')) <= Len(RecentAt(failures[k], moment))
  BY <1>5, QueueFacts DEF LimiterInv
<1> QED BY <1>4, <1>6, <1>7, BurstStays DEF LimiterInv

\* An attempt that ends is no longer counted as one under way.
LEMMA AttemptEnds ==
  ASSUME LimiterAssumption, LimiterInv, NEW a \in Attempts, attempt[a].at = "verify",
         attempt' = [attempt EXCEPT ![a] = Nobody], NEW k \in Counted
  PROVE  /\ attempt' \in [Attempts -> [at : {"idle", "verify"}, keys : SUBSET Counted]]
         /\ Trying(k)' \subseteq Trying(k)
         /\ k \in attempt[a].keys => a \in Trying(k) /\ Trying(k)' = Trying(k) \ {a}
<1>1. attempt' \in [Attempts -> [at : {"idle", "verify"}, keys : SUBSET Counted]]
  BY DEF LimiterInv, LimiterTypeOK, Nobody
<1>2. \A b \in Attempts : attempt'[b] = IF b = a THEN Nobody ELSE attempt[b]
  BY DEF LimiterInv, LimiterTypeOK
<1> QED BY <1>1, <1>2 DEF Trying, Nobody

LEMMA WrongHolds ==
  ASSUME LimiterAssumption, LimiterInv, NEW a \in Attempts, Wrong(a)
  PROVE  LimiterInv'
<1>1. /\ moment' = moment /\ attempt[a].at = "verify"
      /\ failures' = [k \in Counted |-> IF k \in attempt[a].keys THEN Append(failures[k], moment)
                                        ELSE failures[k]]
      /\ attempt' = [attempt EXCEPT ![a] = Nobody]
  BY DEF Wrong
<1>2. LimiterTypeOK'
  <2>1. \A k \in Counted : Append(failures[k], moment) \in Seq(0..MaxNow)
    BY QueueFacts DEF LimiterInv
  <2>2. failures' \in [Counted -> Seq(0..MaxNow)]
    BY <1>1, <2>1 DEF LimiterInv, LimiterTypeOK
  <2>3. attempt' \in [Attempts -> [at : {"idle", "verify"}, keys : SUBSET Counted]]
    BY <1>1 DEF LimiterInv, LimiterTypeOK, Nobody
  <2> QED BY <1>1, <2>2, <2>3 DEF LimiterInv, LimiterTypeOK, Counted
<1>3. ASSUME NEW k \in Counted
      PROVE  \/ /\ Len(RecentAt(failures'[k], moment')) <= Len(RecentAt(failures[k], moment))
                /\ Trying(k)' \subseteq Trying(k)
             \/ /\ Len(RecentAt(failures'[k], moment')) <= Len(RecentAt(failures[k], moment)) + 1
                /\ \E b \in Trying(k) : Trying(k)' = Trying(k) \ {b}
  <2>1. CASE k \in attempt[a].keys
    <3>1. Len(RecentAt(failures'[k], moment')) = Len(RecentAt(failures[k], moment)) + 1
      BY <1>1, <2>1, QueueFacts, OneMore DEF LimiterInv
    <3>2. a \in Trying(k) /\ Trying(k)' = Trying(k) \ {a}
      BY <1>1, <2>1, AttemptEnds
    <3>3. Len(RecentAt(failures[k], moment)) \in Nat
      BY QueueFacts DEF LimiterInv
    <3> QED BY <3>1, <3>2, <3>3
  <2>2. CASE k \notin attempt[a].keys
    <3>1. failures'[k] = failures[k] /\ Trying(k)' \subseteq Trying(k)
      BY <1>1, <2>2, AttemptEnds
    <3>2. Len(RecentAt(failures[k], moment)) \in Nat
      BY QueueFacts DEF LimiterInv
    <3> QED BY <1>1, <3>1, <3>2
  <2> QED BY <2>1, <2>2
<1> QED BY <1>2, <1>3, BurstStays DEF LimiterInv

\* The right password, or an attempt that fails for another reason.
LEMMA RightOrLostHolds ==
  ASSUME LimiterAssumption, LimiterInv, NEW a \in Attempts, Right(a) \/ Lost(a)
  PROVE  LimiterInv'
<1>1. /\ moment' = moment /\ attempt[a].at = "verify"
      /\ attempt' = [attempt EXCEPT ![a] = Nobody]
      /\ failures' \in [Counted -> Seq(0..MaxNow)]
      /\ \A k \in Counted : failures'[k] \in {<<>>, failures[k]}
  <2>1. failures \in [Counted -> Seq(0..MaxNow)] /\ <<>> \in Seq(0..MaxNow)
    BY DEF LimiterInv, LimiterTypeOK
  <2>2. CASE Right(a)
    BY <2>1, <2>2 DEF Right
  <2>3. CASE Lost(a)
    BY <2>1, <2>3 DEF Lost
  <2> QED BY <2>2, <2>3
<1>2. LimiterTypeOK'
  <2>1. attempt' \in [Attempts -> [at : {"idle", "verify"}, keys : SUBSET Counted]]
    BY <1>1 DEF LimiterInv, LimiterTypeOK, Nobody
  <2> QED BY <1>1, <2>1 DEF LimiterInv, LimiterTypeOK, Counted
<1>3. Len(RecentAt(<<>>, moment)) = 0
  BY NothingToForget DEF LimiterInv, LimiterTypeOK
<1>4. ASSUME NEW k \in Counted
      PROVE  /\ Len(RecentAt(failures'[k], moment')) <= Len(RecentAt(failures[k], moment))
             /\ Trying(k)' \subseteq Trying(k)
  <2>1. Trying(k)' \subseteq Trying(k)
    BY <1>1, AttemptEnds
  <2>2. Len(RecentAt(failures[k], moment)) \in Nat
    BY QueueFacts DEF LimiterInv
  <2> QED BY <1>1, <1>3, <2>1, <2>2
<1> QED BY <1>2, <1>4, BurstStays DEF LimiterInv

LEMMA LimiterNextHolds ==
  ASSUME LimiterAssumption, LimiterInv, [LimiterNext]_limiterVars PROVE LimiterInv'
<1>1. CASE UNCHANGED limiterVars
  BY <1>1 DEF limiterVars, LimiterInv, LimiterTypeOK, BurstInv, Recent, Expired, Old, Trying,
              Counted, Limit
<1>2. CASE LimiterNext
  BY <1>2, LimiterTickHolds, CheckHolds, WrongHolds, RightOrLostHolds DEF LimiterNext
<1> QED BY <1>1, <1>2

\* However many attempts verify a password at once, the failures of an address or a
\* name in one window stay below the limit and the number of attempts (ratelimit.py:
\* asked before the password is verified, told after it).
THEOREM BurstsAreBounded ==
  ASSUME LimiterAssumption PROVE LimiterSpec => []BurstIsBounded
<1>1. LimiterInit => LimiterInv
  BY LimiterInitHolds
<1>2. LimiterInv /\ [LimiterNext]_limiterVars => LimiterInv'
  BY LimiterNextHolds
<1>3. LimiterInv => BurstIsBounded
  <2> SUFFICES ASSUME LimiterInv, NEW k \in Counted
               PROVE  Len(Recent(k)) < Limit(k) + Cardinality(Attempts)
    BY DEF BurstIsBounded
  <2>1. Cardinality(Trying(k)) \in Nat /\ Cardinality(Attempts) \in Nat
    BY TryingIsFinite DEF Trying
  <2>2. Len(Recent(k)) \in Nat /\ Limit(k) \in Nat
    BY RecentNow, QueueFacts, LimitsAreNumbers DEF LimiterInv
  <2> QED BY <2>1, <2>2 DEF LimiterInv, BurstInv
<1> QED BY <1>1, <1>2, <1>3, PTL DEF LimiterSpec

-----------------------------------------------------------------------------
(* Access: the inductive invariant *)

\* A row that was never inserted is empty, and a request is somebody's.
RowsInv ==
  /\ \A a \in Accounts : user[a].role = "none" => user[a] = NoUser
  /\ \A r \in Requests : request[r].status \in {"pending", "approved", "denied"}
                           => request[r].sub \in Subs

\* What a handler at a place has found or was given.
Carries(rec) ==
  /\ rec.at \in {"units", "insert", "names"} => rec.sub \in Subs /\ rec.op \in {"sso", "ask"}
  /\ rec.at = "names" => rec.acc \in Accounts /\ rec.key \in Tenants /\ rec.op = "sso"
  /\ rec.at = "write" =>
       /\ rec.op \in {"ask", "approve", "deny", "link", "ssolink"} => rec.sub \in Subs
       /\ rec.op \in {"ask", "drop", "connect"} => rec.key \in Tenants
       /\ rec.op \in {"approve", "deny"} => rec.req \in Requests
       /\ rec.op \notin {"ask"} => rec.actor \in Accounts
       /\ rec.op \in {"role", "key", "reset", "delete"} => rec.acc \in Accounts
       /\ rec.op \in {"role", "create"} => rec.arg \in Roles

\* What stays true of its rows whoever else writes: the account that is unlinked has a
\* password, unless it was deleted, and the request that is decided was made.
Lasting(rec) ==
  rec.at = "write" =>
    /\ rec.op = "unlink" => user[rec.actor].role = "gone" \/ user[rec.actor].password
    /\ rec.op \in {"approve", "deny"} => request[rec.req].status # "none"

\* What a handler that runs alone read is still so.
Knows(rec) ==
  /\ rec.at \in {"insert", "names"} => \A o \in Tenants : Held(o, UnitsOf[rec.sub]) = {}
  /\ rec.at = "write" =>
       /\ rec.op \in {"approve", "deny"} => request[rec.req].status = "pending"
       /\ rec.op = "ssolink" => user[rec.actor].sub = Null
       /\ rec.op \in {"role", "delete"} =>
            /\ IsSuper(rec.acc) => IsSuper(rec.actor)
            /\ rec.actor = rec.acc => rec.op = "role" /\ rec.arg = "super_admin"

CallsInv == \A c \in Calls : Carries(call[c]) /\ Lasting(call[c])

\* The rows that are not committed yet are nobody else's.
ReservedInv ==
  \A c \in Inserting :
    /\ user[call[c].acc].role = "none"
    /\ \A d \in Inserting \ {c} : call[d].acc # call[c].acc

AloneInv == \A c \in Active : alone[c] => Active = {c} /\ Knows(call[c])

AccessInv ==
  AccessTypeOK /\ RowsInv /\ CallsInv /\ ReservedInv /\ AloneInv /\ CanSignIn

-----------------------------------------------------------------------------
(* Access: how handlers start and end *)

LEMMA EmptyRows ==
  /\ NoUser \in UserRows /\ NoTenant \in KeyRows /\ NoRequest \in RequestRows
  /\ Idle \in Records /\ Idle.at = "idle"
  /\ NoUser.role = "none" /\ NoUser.password = FALSE /\ NoUser.sub = Null /\ NoUser.key = Null
  /\ NoRequest.status = "none"
  BY DEF NoUser, NoTenant, NoRequest, Idle, UserRows, KeyRows, RequestRows, Records

LEMMA AccessInitHolds == ASSUME AccessAssumption, AccessInit PROVE AccessInv
<1> DEFINE founder == [role |-> "network_admin", key |-> Home, sub |-> FounderSub,
                       password |-> FALSE, name |-> FounderSub]
<1>1. \A c \in Calls : call[c] = Idle /\ call[c].at = "idle"
  BY EmptyRows DEF AccessInit
<1>2. /\ RootRow \in UserRows /\ RootRow.password = TRUE /\ RootRow.role = "super_admin"
      /\ founder \in UserRows /\ founder.sub # Null /\ founder.role = "network_admin"
  BY DEF RootRow, NoUser, UserRows, Roles, AccessAssumption
<1>3. /\ user \in [Accounts -> UserRows]
      /\ \A a \in Accounts : user[a] \in {RootRow, founder, NoUser}
  <2>1. CASE Installed
    BY <1>2, <2>1, EmptyRows DEF Installed
  <2>2. CASE Running
    BY <1>2, <2>2, EmptyRows DEF Running
  <2> QED BY <2>1, <2>2 DEF AccessInit
<1>4. RowsInv /\ CanSignIn
  <2>1. \A a \in Accounts : user[a].role = "none" => user[a] = NoUser
    BY <1>2, <1>3
  <2>2. CanSignIn
    BY <1>2, <1>3, EmptyRows DEF CanSignIn, Exists, Roles
  <2>3. \A r \in Requests : request[r].status = "none"
    BY EmptyRows DEF AccessInit
  <2> QED BY <2>1, <2>2, <2>3 DEF RowsInv
<1>5. tenant \in [Tenants -> KeyRows] /\ born \in [Tenants -> SUBSET Units]
  <2>1. CASE Installed
    BY <2>1, EmptyRows DEF Installed
  <2>2. CASE Running
    <3>1. [is |-> "live", name |-> FounderSub] \in KeyRows
      BY DEF KeyRows, AccessAssumption
    <3> QED BY <2>2, <3>1, EmptyRows DEF Running, AccessAssumption
  <2> QED BY <2>1, <2>2 DEF AccessInit
<1>6. AccessTypeOK
  BY <1>3, <1>5, EmptyRows DEF AccessInit, AccessTypeOK, AccessAssumption
<1>7. CallsInv
  BY <1>1 DEF CallsInv, Carries, Lasting
<1>8. ReservedInv /\ AloneInv
  BY <1>1 DEF ReservedInv, AloneInv, Inserting, Active
<1> QED BY <1>4, <1>6, <1>7, <1>8 DEF AccessInv

\* A handler that begins carries what it should; it knows its rows when no other runs.
LEMMA BeginsHolds ==
  ASSUME AccessAssumption, AccessInv, NEW c \in Calls, NEW rec \in Records, Begins(c, rec),
         rec.at \in {"units", "write"}, Carries(rec), Lasting(rec), Knows(rec)
  PROVE  AccessInv'
<1>1. /\ call[c].at = "idle" /\ left > 0 /\ left' = left - 1
      /\ call' = [call EXCEPT ![c] = rec] /\ UNCHANGED <<user, tenant, unit, request, born>>
      /\ alone' = [d \in Calls |-> IF d = c THEN Active = {} ELSE alone[d] /\ call[d].at = "idle"]
  BY DEF Begins, Arrives, rows
<1>2. call \in [Calls -> Records]
  BY DEF AccessInv, AccessTypeOK
<1>3. AccessTypeOK' /\ RowsInv' /\ CanSignIn'
  <2>1. left' \in 0..Budget
    BY <1>1 DEF AccessInv, AccessTypeOK, AccessAssumption
  <2>2. alone' \in [Calls -> BOOLEAN]
    BY <1>1, Zenon DEF AccessInv, AccessTypeOK
  <2>3. RowsInv' /\ CanSignIn'
    BY <1>1 DEF AccessInv, RowsInv, CanSignIn, Exists
  <2> QED BY <1>1, <2>1, <2>2, <2>3 DEF AccessInv, AccessTypeOK
<1>4. CallsInv'
  BY <1>1, <1>2 DEF AccessInv, CallsInv, Carries, Lasting
<1>5. ReservedInv'
  <2>1. Inserting' = Inserting /\ c \notin Inserting
    BY <1>1, <1>2 DEF Inserting
  <2> QED BY <1>1, <1>2, <2>1 DEF AccessInv, ReservedInv, Inserting
<1>6. AloneInv'
  <2> SUFFICES ASSUME NEW d \in Active', alone'[d] PROVE Active' = {d} /\ Knows(call[d])'
    BY DEF AloneInv
  <2>1. d \in Calls
    BY DEF Active
  <2>2. d = c /\ Active = {}
    BY <1>1, <1>2, <2>1 DEF Active
  <2>3. Active' = {c}
    BY <1>1, <1>2, <2>2 DEF Active
  <2>4. Knows(call[c])'
    BY <1>1, <1>2 DEF Knows, Held, IsSuper
  <2> QED BY <2>2, <2>3, <2>4
<1> QED BY <1>3, <1>4, <1>5, <1>6 DEF AccessInv

\* A handler that goes from one await to the next, and may reserve rows.
LEMMA MovesHolds ==
  ASSUME AccessAssumption, AccessInv, NEW c \in Active, NEW rec \in Records, Moves(c, rec),
         rec.at # "idle", Carries(rec), Lasting(rec), alone[c] => Knows(rec),
         rec.at = "names" => /\ user[rec.acc].role = "none"
                             /\ \A d \in Inserting \ {c} : call[d].acc # rec.acc
  PROVE  AccessInv'
<1>1. /\ call' = [call EXCEPT ![c] = rec]
      /\ UNCHANGED <<user, tenant, unit, request, born, left, alone>>
  BY DEF Moves, rows
<1>2. call \in [Calls -> Records] /\ c \in Calls
  BY DEF AccessInv, AccessTypeOK, Active
<1>3. AccessTypeOK' /\ RowsInv' /\ CanSignIn'
  BY <1>1, <1>2 DEF AccessInv, AccessTypeOK, RowsInv, CanSignIn, Exists
<1>4. CallsInv'
  BY <1>1, <1>2 DEF AccessInv, CallsInv, Carries, Lasting
<1>5. ReservedInv'
  BY <1>1, <1>2 DEF AccessInv, ReservedInv, Inserting
<1>6. AloneInv'
  <2> SUFFICES ASSUME NEW d \in Active', alone'[d] PROVE Active' = {d} /\ Knows(call[d])'
    BY DEF AloneInv
  <2>1. Active' = Active
    BY <1>1, <1>2 DEF Active
  <2>2. Active = {d} /\ d = c
    BY <1>1, <2>1 DEF AccessInv, AloneInv
  <2>3. Knows(call[c])'
    BY <1>1, <1>2, <2>2 DEF Knows, Held, IsSuper
  <2> QED BY <2>1, <2>2, <2>3
<1> QED BY <1>3, <1>4, <1>5, <1>6 DEF AccessInv

\* What a handler that ends may have written: passwords stay, deleted accounts do not
\* come back, rows that others reserved are left alone.
RowsAreKept(c) ==
  /\ RowsInv' /\ CanSignIn'
  /\ \A a \in Accounts : user[a].role = "gone" => user'[a].role = "gone"
  /\ \A a \in Accounts : user[a].password => user'[a].password \/ user'[a].role = "gone"
  /\ \A r \in Requests : request[r].status # "none" => request'[r].status # "none"
  /\ \A d \in Inserting \ {c} : user'[call[d].acc] = user[call[d].acc]

LEMMA EndsHolds ==
  ASSUME AccessAssumption, AccessInv, NEW c \in Active, Ends(c),
         user' \in [Accounts -> UserRows], tenant' \in [Tenants -> KeyRows],
         unit' \in [Tenants -> [Units -> {"none", "lite", "liteoff", "linked", "linkedoff"}]],
         request' \in [Requests -> RequestRows], born' \in [Tenants -> SUBSET Units],
         RowsAreKept(c)
  PROVE  AccessInv'
<1>1. call' = [call EXCEPT ![c] = Idle] /\ UNCHANGED <<left, alone>>
  BY DEF Ends
<1>2. call \in [Calls -> Records] /\ c \in Calls /\ Idle \in Records /\ Idle.at = "idle"
  BY DEF AccessInv, AccessTypeOK, Active, Idle, Records
<1>3. AccessTypeOK' /\ RowsInv' /\ CanSignIn'
  BY <1>1, <1>2 DEF AccessInv, AccessTypeOK, RowsAreKept
<1>4. CallsInv'
  <2> SUFFICES ASSUME NEW d \in Calls PROVE Carries(call'[d]) /\ Lasting(call[d])'
    BY DEF CallsInv, Carries
  <2>1. CASE d = c
    BY <1>1, <1>2, <2>1 DEF Carries, Lasting
  <2>2. CASE d # c
    <3>1. call'[d] = call[d] /\ Carries(call[d]) /\ Lasting(call[d])
      BY <1>1, <1>2, <2>2 DEF AccessInv, CallsInv
    <3>2. /\ call[d].at = "write" /\ call[d].op = "unlink" => call[d].actor \in Accounts
          /\ call[d].at = "write" /\ call[d].op \in {"approve", "deny"} => call[d].req \in Requests
      BY <3>1 DEF Carries
    <3> QED BY <3>1, <3>2 DEF Lasting, RowsAreKept
  <2> QED BY <2>1, <2>2
<1>5. ReservedInv'
  <2>1. Inserting' = Inserting \ {c}
    BY <1>1, <1>2 DEF Inserting
  <2>2. \A d \in Inserting \ {c} : call'[d] = call[d]
    BY <1>1, <1>2 DEF Inserting
  <2> QED BY <2>1, <2>2 DEF AccessInv, ReservedInv, RowsAreKept
<1>6. AloneInv'
  <2>1. Active' = Active \ {c} /\ alone' = alone
    BY <1>1, <1>2 DEF Active
  <2> QED BY <2>1 DEF AccessInv, AloneInv
<1> QED BY <1>3, <1>4, <1>5, <1>6 DEF AccessInv

\* An error leaves the rows as they are.
LEMMA FailsHolds ==
  ASSUME AccessAssumption, AccessInv, NEW c \in Calls, Fails(c)
  PROVE  AccessInv'
<1>1. c \in Active /\ Ends(c) /\ UNCHANGED <<user, tenant, unit, request, born>>
  BY DEF Fails, Active, rows
<1>2. RowsAreKept(c)
  BY <1>1 DEF RowsAreKept, AccessInv, RowsInv, CanSignIn, Exists
<1> QED BY <1>1, <1>2, EndsHolds DEF AccessInv, AccessTypeOK

\* A handler without an await, which changes rows of tenants and units only.
LEMMA AtOnceHolds ==
  ASSUME AccessAssumption, AccessInv, NEW c \in Calls, AtOnce(c),
         UNCHANGED <<user, request>>, tenant' \in [Tenants -> KeyRows],
         unit' \in [Tenants -> [Units -> {"none", "lite", "liteoff", "linked", "linkedoff"}]],
         born' \in [Tenants -> SUBSET Units]
  PROVE  AccessInv'
<1>1. /\ call[c].at = "idle" /\ left > 0 /\ left' = left - 1 /\ UNCHANGED call
      /\ alone' = [d \in Calls |-> IF d = c THEN Active = {} ELSE alone[d] /\ call[d].at = "idle"]
  BY DEF AtOnce, Arrives
<1>2. AccessTypeOK' /\ RowsInv' /\ CanSignIn'
  <2>1. left' \in 0..Budget
    BY <1>1 DEF AccessInv, AccessTypeOK, AccessAssumption
  <2>2. alone' \in [Calls -> BOOLEAN]
    BY <1>1, Zenon DEF AccessInv, AccessTypeOK
  <2>3. RowsInv' /\ CanSignIn'
    BY <1>1 DEF AccessInv, RowsInv, CanSignIn, Exists
  <2> QED BY <1>1, <2>1, <2>2, <2>3 DEF AccessInv, AccessTypeOK
<1>3. CallsInv' /\ ReservedInv'
  BY <1>1 DEF AccessInv, CallsInv, Carries, Lasting, ReservedInv, Inserting
<1>4. AloneInv'
  BY <1>1 DEF AloneInv, Active
<1> QED BY <1>2, <1>3, <1>4 DEF AccessInv

-----------------------------------------------------------------------------
(* Access: the first steps of handlers *)

LEMMA AskingHolds ==
  ASSUME AccessAssumption, AccessInv, NEW c \in Calls, NEW s \in Subs,
         SignIn(c, s) \/ AskAccess(c, s)
  PROVE  AccessInv'
<1>1. PICK op \in {"sso", "ask"} :
        Begins(c, [Idle EXCEPT !.at = "units", !.op = op, !.sub = s])
  BY DEF SignIn, AskAccess
<1> DEFINE rec == [Idle EXCEPT !.at = "units", !.op = op, !.sub = s]
<1>2. rec \in Records /\ rec.at = "units" /\ rec.op = op /\ rec.sub = s
  BY DEF Idle, Records
<1> HIDE DEF rec
<1>3. Carries(rec) /\ Lasting(rec) /\ Knows(rec)
  BY <1>2 DEF Carries, Lasting, Knows
<1>4. Begins(c, rec)
  BY <1>1 DEF rec
<1> QED BY <1>2, <1>3, <1>4, BeginsHolds

LEMMA DecideHolds ==
  ASSUME AccessAssumption, AccessInv, NEW c \in Calls, NEW a \in Accounts, NEW r \in Requests,
         NEW op \in {"approve", "deny"}, Decide(c, a, r, op)
  PROVE  AccessInv'
<1>1. request[r].status = "pending" /\ request[r].sub \in Subs /\ request[r].key \in Tenants \cup {Null}
  BY DEF Decide, AccessInv, RowsInv, AccessTypeOK, RequestRows
<1>2. PICK taken \in Accounts \cup {Null} :
        Begins(c, [Idle EXCEPT !.at = "write", !.op = op, !.actor = a, !.req = r,
                               !.sub = request[r].sub, !.acc = taken, !.key = request[r].key])
  BY DEF Decide, AccountsOf
<1> DEFINE rec == [Idle EXCEPT !.at = "write", !.op = op, !.actor = a, !.req = r,
                               !.sub = request[r].sub, !.acc = taken, !.key = request[r].key]
<1>3. /\ rec \in Records /\ rec.at = "write" /\ rec.op = op
      /\ rec.actor = a /\ rec.req = r /\ rec.sub = request[r].sub
  BY <1>1 DEF Idle, Records
<1> HIDE DEF rec
<1>4. Carries(rec) /\ Lasting(rec) /\ Knows(rec)
  BY <1>1, <1>3 DEF Carries, Lasting, Knows
<1>5. Begins(c, rec)
  BY <1>2 DEF rec
<1> QED BY <1>3, <1>4, <1>5, BeginsHolds

LEMMA StartLinkHolds ==
  ASSUME AccessAssumption, AccessInv, NEW c \in Calls, NEW a \in Accounts, NEW s \in Subs,
         NEW op \in {"link", "ssolink"}, StartLink(c, a, s, op)
  PROVE  AccessInv'
<1> DEFINE rec == [Idle EXCEPT !.at = "write", !.op = op, !.actor = a, !.sub = s]
<1>1. Begins(c, rec) /\ (op = "ssolink" => user[a].sub = Null)
  BY DEF StartLink
<1>2. rec \in Records /\ rec.at = "write" /\ rec.op = op /\ rec.actor = a /\ rec.sub = s
  BY DEF Idle, Records
<1> HIDE DEF rec
<1>3. Carries(rec) /\ Lasting(rec) /\ Knows(rec)
  BY <1>1, <1>2 DEF Carries, Lasting, Knows
<1> QED BY <1>1, <1>2, <1>3, BeginsHolds

LEMMA StartUnlinkHolds ==
  ASSUME AccessAssumption, AccessInv, NEW c \in Calls, NEW a \in Accounts, StartUnlink(c, a)
  PROVE  AccessInv'
<1> DEFINE rec == [Idle EXCEPT !.at = "write", !.op = "unlink", !.actor = a]
<1>1. Begins(c, rec) /\ user[a].password
  BY DEF StartUnlink
<1>2. rec \in Records /\ rec.at = "write" /\ rec.op = "unlink" /\ rec.actor = a
  BY DEF Idle, Records
<1> HIDE DEF rec
<1>3. Carries(rec) /\ Lasting(rec) /\ Knows(rec)
  BY <1>1, <1>2 DEF Carries, Lasting, Knows
<1> QED BY <1>1, <1>2, <1>3, BeginsHolds

LEMMA CreateUserHolds ==
  ASSUME AccessAssumption, AccessInv, NEW c \in Calls, NEW a \in Accounts, NEW role \in Roles,
         NEW t \in Tenants \cup {Null}, CreateUser(c, a, role, t)
  PROVE  AccessInv'
<1> DEFINE rec == [Idle EXCEPT !.at = "write", !.op = "create", !.actor = a, !.key = t, !.arg = role]
<1>1. Begins(c, rec)
  BY DEF CreateUser
<1>2. rec \in Records /\ rec.at = "write" /\ rec.op = "create" /\ rec.actor = a /\ rec.arg = role
  BY DEF Idle, Records
<1> HIDE DEF rec
<1>3. Carries(rec) /\ Lasting(rec) /\ Knows(rec)
  BY <1>2 DEF Carries, Lasting, Knows
<1> QED BY <1>1, <1>2, <1>3, BeginsHolds

\* An administrator who may manage an account is a super admin when that account is.
LEMMA SetRoleHolds ==
  ASSUME AccessAssumption, AccessInv, NEW c \in Calls, NEW a \in Accounts, NEW b \in Accounts,
         NEW role \in Roles, SetRole(c, a, b, role)
  PROVE  AccessInv'
<1> DEFINE rec == [Idle EXCEPT !.at = "write", !.op = "role", !.actor = a, !.acc = b, !.arg = role]
<1>1. Begins(c, rec) /\ (IsSuper(b) => IsSuper(a)) /\ (a = b => role = "super_admin")
  BY DEF SetRole, MayManage
<1>2. /\ rec \in Records /\ rec.at = "write" /\ rec.op = "role"
      /\ rec.actor = a /\ rec.acc = b /\ rec.arg = role
  BY DEF Idle, Records
<1> HIDE DEF rec
<1>3. Carries(rec) /\ Lasting(rec) /\ Knows(rec)
  BY <1>1, <1>2 DEF Carries, Lasting, Knows
<1> QED BY <1>1, <1>2, <1>3, BeginsHolds

LEMMA SetKeyHolds ==
  ASSUME AccessAssumption, AccessInv, NEW c \in Calls, NEW a \in Accounts, NEW b \in Accounts,
         NEW t \in Tenants \cup {Null}, SetKey(c, a, b, t)
  PROVE  AccessInv'
<1> DEFINE rec == [Idle EXCEPT !.at = "write", !.op = "key", !.actor = a, !.acc = b, !.key = t]
<1>1. Begins(c, rec)
  BY DEF SetKey
<1>2. rec \in Records /\ rec.at = "write" /\ rec.op = "key" /\ rec.actor = a /\ rec.acc = b
  BY DEF Idle, Records
<1> HIDE DEF rec
<1>3. Carries(rec) /\ Lasting(rec) /\ Knows(rec)
  BY <1>2 DEF Carries, Lasting, Knows
<1> QED BY <1>1, <1>2, <1>3, BeginsHolds

LEMMA ResetOrDeleteHolds ==
  ASSUME AccessAssumption, AccessInv, NEW c \in Calls, NEW a \in Accounts, NEW b \in Accounts,
         ResetPassword(c, a, b) \/ DeleteUser(c, a, b)
  PROVE  AccessInv'
<1>1. PICK op \in {"reset", "delete"} :
        /\ Begins(c, [Idle EXCEPT !.at = "write", !.op = op, !.actor = a, !.acc = b])
        /\ op = "delete" => a # b /\ (IsSuper(b) => IsSuper(a))
  BY DEF ResetPassword, DeleteUser, MayManage
<1> DEFINE rec == [Idle EXCEPT !.at = "write", !.op = op, !.actor = a, !.acc = b]
<1>2. rec \in Records /\ rec.at = "write" /\ rec.op = op /\ rec.actor = a /\ rec.acc = b
  BY DEF Idle, Records
<1> HIDE DEF rec
<1>3. Carries(rec) /\ Lasting(rec) /\ Knows(rec)
  BY <1>1, <1>2 DEF Carries, Lasting, Knows
<1>4. Begins(c, rec)
  BY <1>1 DEF rec
<1> QED BY <1>2, <1>3, <1>4, BeginsHolds

LEMMA CountUsersHolds ==
  ASSUME AccessAssumption, AccessInv, NEW c \in Calls, NEW a \in Accounts, NEW t \in Tenants,
         CountUsers(c, a, t)
  PROVE  AccessInv'
<1> DEFINE rec == [Idle EXCEPT !.at = "write", !.op = "drop", !.actor = a, !.key = t]
<1>1. Begins(c, rec)
  BY DEF CountUsers
<1>2. rec \in Records /\ rec.at = "write" /\ rec.op = "drop" /\ rec.actor = a /\ rec.key = t
  BY DEF Idle, Records
<1> HIDE DEF rec
<1>3. Carries(rec) /\ Lasting(rec) /\ Knows(rec)
  BY <1>2 DEF Carries, Lasting, Knows
<1> QED BY <1>1, <1>2, <1>3, BeginsHolds

LEMMA TryPlanFactHolds ==
  ASSUME AccessAssumption, AccessInv, NEW c \in Calls, NEW a \in Accounts, TryPlanFact(c, a)
  PROVE  AccessInv'
<1> DEFINE rec == [Idle EXCEPT !.at = "write", !.op = "connect", !.actor = a, !.key = user[a].key]
<1>1. Begins(c, rec) /\ user[a].key \in Tenants
  BY DEF TryPlanFact, AccessInv, AccessTypeOK, UserRows
<1>2. rec \in Records /\ rec.at = "write" /\ rec.op = "connect" /\ rec.actor = a /\ rec.key \in Tenants
  BY <1>1 DEF Idle, Records
<1> HIDE DEF rec
<1>3. Carries(rec) /\ Lasting(rec) /\ Knows(rec)
  BY <1>2 DEF Carries, Lasting, Knows
<1> QED BY <1>1, <1>2, <1>3, BeginsHolds

\* The handlers that write at once: keys made and renamed, units edited.
LEMMA KeysHold ==
  ASSUME AccessAssumption, AccessInv, NEW c \in Calls, NEW a \in Accounts,
         CreateKey(c, a) \/ \E t \in Tenants : RenameKey(c, a, t)
  PROVE  AccessInv'
<1>1. AtOnce(c) /\ UNCHANGED <<user, unit, request, born>>
  BY DEF CreateKey, RenameKey
<1>2. tenant' \in [Tenants -> KeyRows]
  BY DEF CreateKey, RenameKey, AccessInv, AccessTypeOK, KeyRows
<1> QED BY <1>1, <1>2, AtOnceHolds DEF AccessInv, AccessTypeOK

LEMMA EditUnitHolds ==
  ASSUME AccessAssumption, AccessInv, NEW c \in Calls, NEW a \in Accounts, NEW t \in Tenants,
         NEW u \in Units, EditUnit(c, a, t, u)
  PROVE  AccessInv'
<1>1. AtOnce(c) /\ UNCHANGED <<user, tenant, request, born>>
  BY DEF EditUnit
<1>2. unit' \in [Tenants -> [Units -> {"none", "lite", "liteoff", "linked", "linkedoff"}]]
  <2>1. unit[t][u] \in {"none", "lite", "liteoff", "linked", "linkedoff"}
    BY DEF AccessInv, AccessTypeOK
  <2>2. unit[t][u] # "none" => Flipped(unit[t][u]) \in {"lite", "liteoff", "linked", "linkedoff"}
    BY <2>1 DEF Flipped
  <2>3. PICK h \in {"none", "lite", "liteoff", "linked", "linkedoff"} :
          unit' = [unit EXCEPT ![t][u] = h]
    BY <2>2 DEF EditUnit
  <2> QED BY <2>3 DEF AccessInv, AccessTypeOK
<1> QED BY <1>1, <1>2, AtOnceHolds DEF AccessInv, AccessTypeOK

LEMMA StartHolds ==
  ASSUME AccessAssumption, AccessInv, NEW c \in Calls, Start(c)
  PROVE  AccessInv'
<1>1. ASSUME NEW s \in Subs, SignIn(c, s) \/ AskAccess(c, s) PROVE AccessInv'
  BY <1>1, AskingHolds
<1>2. ASSUME NEW a \in Accounts, StartUnlink(c, a) \/ CreateKey(c, a) \/ TryPlanFact(c, a)
      PROVE  AccessInv'
  BY <1>2, StartUnlinkHolds, KeysHold, TryPlanFactHolds
<1>3. ASSUME NEW a \in Accounts, NEW r \in Requests, NEW op \in {"approve", "deny"}, Decide(c, a, r, op)
      PROVE  AccessInv'
  BY <1>3, DecideHolds
<1>4. ASSUME NEW a \in Accounts, NEW s \in Subs, NEW op \in {"link", "ssolink"}, StartLink(c, a, s, op)
      PROVE  AccessInv'
  BY <1>4, StartLinkHolds
<1>5. ASSUME NEW a \in Accounts, NEW role \in Roles, NEW t \in Tenants \cup {Null},
             CreateUser(c, a, role, t)
      PROVE  AccessInv'
  BY <1>5, CreateUserHolds
<1>6. ASSUME NEW a \in Accounts, NEW b \in Accounts,
             ResetPassword(c, a, b) \/ DeleteUser(c, a, b)
      PROVE  AccessInv'
  BY <1>6, ResetOrDeleteHolds
<1>7. ASSUME NEW a \in Accounts, NEW b \in Accounts, NEW role \in Roles, SetRole(c, a, b, role)
      PROVE  AccessInv'
  BY <1>7, SetRoleHolds
<1>8. ASSUME NEW a \in Accounts, NEW b \in Accounts, NEW t \in Tenants \cup {Null}, SetKey(c, a, b, t)
      PROVE  AccessInv'
  BY <1>8, SetKeyHolds
<1>9. ASSUME NEW a \in Accounts, NEW t \in Tenants, RenameKey(c, a, t) \/ CountUsers(c, a, t)
      PROVE  AccessInv'
  BY <1>9, KeysHold, CountUsersHolds
<1>10. ASSUME NEW a \in Accounts, NEW t \in Tenants, NEW u \in Units, EditUnit(c, a, t, u)
       PROVE  AccessInv'
  BY <1>10, EditUnitHolds
<1> QED BY <1>1, <1>2, <1>3, <1>4, <1>5, <1>6, <1>7, <1>8, <1>9, <1>10 DEF Start

-----------------------------------------------------------------------------
(* Access: the later steps *)

LEMMA NewRows ==
  /\ \A a \in NewUser : /\ a \in Accounts /\ user[a].role = "none"
                        /\ \A d \in Inserting : call[d].acc # a
  /\ NewTenant \subseteq Tenants
  /\ \A r \in NewRequest : r \in Requests /\ request[r].status = "none"
  BY DEF NewUser, NewTenant, NewRequest, Least

\* The lookup finds a tenant whenever some tenant holds one of the units: among
\* those that do there is one that holds the most (find_tenant_by_units).
LEMMA NetworkIsFound ==
  ASSUME AccessAssumption, NEW us \in SUBSET Units, TenantsByUnits(us) = {}
  PROVE  \A o \in Tenants : Held(o, us) = {}
<1> DEFINE N == Cardinality(us)
           size(t) == Cardinality(Held(t, us))
           S == {n \in Nat : \E t \in Tenants : n = N - size(t)}
<1> SUFFICES ASSUME NEW o \in Tenants, Held(o, us) # {} PROVE FALSE
  OBVIOUS
<1>1. IsFiniteSet(us) /\ N \in Nat
  BY FS_Subset, FS_CardinalityType DEF AccessAssumption
<1>2. \A t \in Tenants : IsFiniteSet(Held(t, us)) /\ size(t) \in Nat /\ size(t) <= N
  <2> TAKE t \in Tenants
  <2>1. Held(t, us) \in SUBSET us
    BY DEF Held
  <2> QED BY <1>1, <2>1, FS_Subset, FS_CardinalityType
<1>3. size(o) > 0
  BY <1>2, FS_EmptySet
<1> HIDE DEF size, N
<1>4. N - size(o) \in S /\ S \subseteq Nat
  BY <1>1, <1>2
<1>5. PICK n \in S : \A m \in S : n <= m
  BY <1>4, Smallest
<1>6. PICK t \in Tenants : n = N - size(t)
  BY <1>5
<1>7. \A q \in Tenants : size(q) <= size(t)
  <2> TAKE q \in Tenants
  <2>1. N - size(q) \in S
    BY <1>1, <1>2
  <2> QED BY <1>1, <1>2, <1>5, <1>6, <2>1
<1>8. size(t) > 0
  BY <1>2, <1>3, <1>7
<1>9. Held(t, us) # {}
  BY <1>8, FS_EmptySet DEF size
<1> QED BY <1>7, <1>9 DEF TenantsByUnits, size

LEMMA ResolveHolds ==
  ASSUME AccessAssumption, AccessInv, NEW c \in Calls, Resolve(c)
  PROVE  AccessInv'
<1> DEFINE rec == [call[c] EXCEPT !.at = "insert"]
<1>1. call[c].at = "units" /\ call[c].op = "sso" /\ call[c] \in Records /\ Carries(call[c])
  BY DEF Resolve, At, AccessInv, AccessTypeOK, CallsInv
<1>2. CASE Fails(c)
  BY <1>2, FailsHolds
<1>3. CASE Moves(c, rec) /\ TenantsByUnits(UnitsOf[call[c].sub]) = {}
  <2>1. rec \in Records /\ rec.at = "insert" /\ rec.sub = call[c].sub /\ rec.op = "sso"
    BY <1>1 DEF Records
  <2>2. rec.sub \in Subs /\ UnitsOf[rec.sub] \subseteq Units
    BY <1>1, <2>1 DEF Carries, AccessAssumption
  <2> HIDE DEF rec
  <2>3. Carries(rec) /\ Lasting(rec) /\ Knows(rec)
    BY <1>3, <2>1, <2>2, NetworkIsFound DEF Carries, Lasting, Knows
  <2>4. c \in Active /\ Moves(c, rec)
    BY <1>1, <1>3 DEF Active
  <2> QED BY <2>1, <2>3, <2>4, MovesHolds
<1> QED BY <1>2, <1>3 DEF Resolve

LEMMA InsertOwnerHolds ==
  ASSUME AccessAssumption, AccessInv, NEW c \in Calls, InsertOwner(c)
  PROVE  AccessInv'
<1>1. call[c].at = "insert" /\ call[c].op = "sso" /\ call[c] \in Records /\ Carries(call[c])
  BY DEF InsertOwner, At, AccessInv, AccessTypeOK, CallsInv
<1>2. CASE Fails(c)
  BY <1>2, FailsHolds
<1>3. ASSUME NEW a \in NewUser, NEW t \in NewTenant,
             Moves(c, [call[c] EXCEPT !.at = "names", !.acc = a, !.key = t])
      PROVE  AccessInv'
  <2> DEFINE rec == [call[c] EXCEPT !.at = "names", !.acc = a, !.key = t]
  <2>1. a \in Accounts /\ t \in Tenants
    BY NewRows
  <2>2. /\ rec \in Records /\ rec.at = "names" /\ rec.sub = call[c].sub /\ rec.op = "sso"
        /\ rec.acc = a /\ rec.key = t
    BY <1>1, <2>1 DEF Records
  <2>3. Moves(c, rec)
    BY <1>3
  <2> HIDE DEF rec
  <2>4. c \in Active
    BY <1>1 DEF Active
  <2>5. Carries(rec) /\ Lasting(rec) /\ (alone[c] => Knows(rec))
    BY <1>1, <2>1, <2>2, <2>4 DEF Carries, Lasting, Knows, AccessInv, AloneInv
  <2> QED BY <2>2, <2>3, <2>4, <2>5, MovesHolds, NewRows
<1> QED BY <1>2, <1>3 DEF InsertOwner

\* A request that was made stays one, and somebody's.
RequestIsKept(r) ==
  /\ request[r].status # "none" => request'[r].status # "none"
  /\ request'[r].status \in {"pending", "approved", "denied"} => request'[r].sub \in Subs

\* A row of a user written by a handler that ends, the tenants' rows aside.
LEMMA WritesHold ==
  ASSUME AccessAssumption, AccessInv, NEW c \in Active, Ends(c),
         NEW a \in Accounts, NEW row \in UserRows,
         user' = [user EXCEPT ![a] = row],
         row.role # "none",
         row.role \in Roles => row.password \/ row.sub # Null,
         user[a].role = "gone" => row.role = "gone",
         user[a].password => row.password \/ row.role = "gone",
         \A d \in Inserting \ {c} : call[d].acc # a,
         tenant' \in [Tenants -> KeyRows],
         unit' \in [Tenants -> [Units -> {"none", "lite", "liteoff", "linked", "linkedoff"}]],
         request' \in [Requests -> RequestRows], born' \in [Tenants -> SUBSET Units],
         \A r \in Requests : RequestIsKept(r)
  PROVE  AccessInv'
<1>1. user \in [Accounts -> UserRows]
  BY DEF AccessInv, AccessTypeOK
<1>2. user' \in [Accounts -> UserRows]
  BY <1>1
<1>3. RowsInv' /\ CanSignIn'
  BY <1>1 DEF AccessInv, RowsInv, CanSignIn, Exists, RequestIsKept
<1>4. \A d \in Inserting \ {c} : user'[call[d].acc] = user[call[d].acc]
  BY <1>1 DEF AccessInv, CallsInv, Carries, Inserting
<1>5. \A r \in Requests : request[r].status # "none" => request'[r].status # "none"
  BY DEF RequestIsKept
<1> QED BY <1>1, <1>2, <1>3, <1>4, <1>5, EndsHolds DEF RowsAreKept

LEMMA CommitOwnerHolds ==
  ASSUME AccessAssumption, AccessInv, NEW c \in Calls, CommitOwner(c)
  PROVE  AccessInv'
<1> DEFINE s == call[c].sub
           t == call[c].key
           a == call[c].acc
           row == [role |-> "network_admin", key |-> t, sub |-> s, password |-> FALSE, name |-> s]
<1>1. c \in Inserting /\ c \in Active /\ s \in Subs /\ t \in Tenants /\ a \in Accounts
  BY DEF CommitOwner, At, AccessInv, CallsInv, Carries, Inserting, Active
<1>2. row \in UserRows /\ s # Null
  BY <1>1 DEF UserRows, Roles, AccessAssumption
<1>3. /\ user' = [user EXCEPT ![a] = row] /\ Ends(c) /\ UNCHANGED request
      /\ tenant' = [tenant EXCEPT ![t] = [is |-> "live", name |-> s]]
      /\ unit' = [unit EXCEPT ![t] = [u \in Units |-> IF u \in Licensed[s] THEN "lite" ELSE "none"]]
      /\ born' = [born EXCEPT ![t] = Licensed[s]]
  BY DEF CommitOwner
<1>4. user[a].role = "none" /\ \A d \in Inserting \ {c} : call[d].acc # a
  BY <1>1 DEF AccessInv, ReservedInv
<1>5. user[a].password = FALSE
  BY <1>1, <1>4, EmptyRows DEF AccessInv, RowsInv
<1>6. tenant' \in [Tenants -> KeyRows] /\ born' \in [Tenants -> SUBSET Units]
  BY <1>1, <1>3 DEF AccessInv, AccessTypeOK, KeyRows, AccessAssumption
<1>7. unit' \in [Tenants -> [Units -> {"none", "lite", "liteoff", "linked", "linkedoff"}]]
  BY <1>3 DEF AccessInv, AccessTypeOK
<1>8. /\ request' \in [Requests -> RequestRows]
      /\ \A r \in Requests : RequestIsKept(r)
  BY <1>3 DEF AccessInv, AccessTypeOK, RowsInv, RequestIsKept
<1>9. row.role = "network_admin" /\ row.sub = s
  OBVIOUS
<1> HIDE DEF row, a, s, t
<1> QED BY <1>1, <1>2, <1>3, <1>4, <1>5, <1>6, <1>7, <1>8, <1>9, WritesHold

LEMMA FindNetworkHolds ==
  ASSUME AccessAssumption, AccessInv, NEW c \in Calls, FindNetwork(c)
  PROVE  AccessInv'
<1>1. call[c].at = "units" /\ call[c].op = "ask" /\ call[c] \in Records /\ Carries(call[c])
  BY DEF FindNetwork, At, AccessInv, AccessTypeOK, CallsInv
<1>2. CASE Fails(c)
  BY <1>2, FailsHolds
<1>3. ASSUME NEW t \in Tenants, Moves(c, [call[c] EXCEPT !.at = "write", !.key = t])
      PROVE  AccessInv'
  <2> DEFINE rec == [call[c] EXCEPT !.at = "write", !.key = t]
  <2>1. /\ rec \in Records /\ rec.at = "write" /\ rec.sub = call[c].sub /\ rec.op = "ask"
        /\ rec.key = t
    BY <1>1 DEF Records
  <2>2. Moves(c, rec)
    BY <1>3
  <2> HIDE DEF rec
  <2>3. Carries(rec) /\ Lasting(rec) /\ Knows(rec)
    BY <1>1, <2>1 DEF Carries, Lasting, Knows
  <2>4. c \in Active
    BY <1>1 DEF Active
  <2> QED BY <2>1, <2>2, <2>3, <2>4, MovesHolds
<1> QED BY <1>2, <1>3 DEF FindNetwork, TenantsByUnits

\* A handler that ends and leaves the users alone.
LEMMA OtherWritesHold ==
  ASSUME AccessAssumption, AccessInv, NEW c \in Active, Ends(c), UNCHANGED user,
         tenant' \in [Tenants -> KeyRows],
         unit' \in [Tenants -> [Units -> {"none", "lite", "liteoff", "linked", "linkedoff"}]],
         request' \in [Requests -> RequestRows], born' \in [Tenants -> SUBSET Units],
         \A r \in Requests : RequestIsKept(r)
  PROVE  AccessInv'
<1>1. RowsAreKept(c)
  BY DEF RowsAreKept, AccessInv, RowsInv, CanSignIn, Exists, RequestIsKept
<1> QED BY <1>1, EndsHolds DEF AccessInv, AccessTypeOK

LEMMA InsertRequestHolds ==
  ASSUME AccessAssumption, AccessInv, NEW c \in Calls, InsertRequest(c)
  PROVE  AccessInv'
<1>1. c \in Active /\ call[c].sub \in Subs /\ call[c].key \in Tenants
  BY DEF InsertRequest, At, AccessInv, CallsInv, Carries, Active
<1>2. CASE Fails(c)
  BY <1>2, FailsHolds
<1>3. ASSUME NEW r \in NewRequest, Ends(c), UNCHANGED <<user, tenant, unit, born>>,
             request' = [request EXCEPT ![r] = [status |-> "pending", key |-> call[c].key,
                                                sub |-> call[c].sub]]
      PROVE  AccessInv'
  <2>1. request' \in [Requests -> RequestRows]
    BY <1>1, <1>3, NewRows DEF AccessInv, AccessTypeOK, RequestRows
  <2>2. \A q \in Requests : RequestIsKept(q)
    BY <1>1, <1>3, NewRows DEF AccessInv, AccessTypeOK, RowsInv, RequestIsKept
  <2> QED BY <1>1, <1>3, <2>1, <2>2, OtherWritesHold DEF AccessInv, AccessTypeOK
<1> QED BY <1>2, <1>3 DEF InsertRequest

\* A decision keeps the request somebody's.
LEMMA MarkedRows ==
  ASSUME AccessAssumption, AccessInv, NEW c \in Active, call[c].at = "write",
         call[c].op \in {"approve", "deny"}, NEW status \in {"approved", "denied"},
         Decidable(c), MarkDecided(c, status)
  PROVE  /\ request' \in [Requests -> RequestRows]
         /\ \A q \in Requests : RequestIsKept(q)
<1> DEFINE r == call[c].req
<1>1. r \in Requests /\ call[c].sub \in Subs
  BY DEF AccessInv, CallsInv, Carries, Active
<1>2. request' = [request EXCEPT ![r].status = status] /\ request[r].status # "gone"
  BY DEF MarkDecided, Decidable
<1>3. request \in [Requests -> RequestRows]
  BY DEF AccessInv, AccessTypeOK
<1>4. request[r].status # "none"
  BY DEF AccessInv, CallsInv, Lasting, Active
<1> QED BY <1>1, <1>2, <1>3, <1>4 DEF AccessInv, RowsInv, RequestRows, RequestIsKept

\* The rows of tenants and requests of a handler that writes a user only.
LEMMA UserWritesHold ==
  ASSUME AccessAssumption, AccessInv, NEW c \in Active, Ends(c), UNCHANGED <<tenant, unit, request, born>>,
         NEW a \in Accounts, NEW row \in UserRows,
         user' = [user EXCEPT ![a] = row],
         row.role # "none",
         row.role \in Roles => row.password \/ row.sub # Null,
         user[a].role = "gone" => row.role = "gone",
         user[a].password => row.password \/ row.role = "gone",
         \A d \in Inserting \ {c} : call[d].acc # a
  PROVE  AccessInv'
<1>1. \A r \in Requests : RequestIsKept(r)
  BY DEF AccessInv, RowsInv, RequestIsKept
<1>2. /\ tenant' \in [Tenants -> KeyRows] /\ request' \in [Requests -> RequestRows]
      /\ unit' \in [Tenants -> [Units -> {"none", "lite", "liteoff", "linked", "linkedoff"}]]
      /\ born' \in [Tenants -> SUBSET Units]
  BY DEF AccessInv, AccessTypeOK
<1> QED BY <1>1, <1>2, WritesHold

\* An account that is there is not one whose insertion is under way.
LEMMA ExistingRows ==
  ASSUME AccessInv, NEW a \in Accounts, Exists(a)
  PROVE  /\ user[a] \in UserRows /\ user[a].role \in Roles
         /\ user[a].password \/ user[a].sub # Null
         /\ \A d \in Inserting : call[d].acc # a
<1>1. user[a] \in UserRows /\ user[a].role \in Roles
  BY DEF AccessInv, AccessTypeOK, Exists
<1>2. user[a].role # "none"
  BY <1>1 DEF Roles
<1> QED BY <1>1, <1>2 DEF AccessInv, CanSignIn, Exists, ReservedInv

LEMMA ApproveHolds ==
  ASSUME AccessAssumption, AccessInv, NEW c \in Calls, Approve(c)
  PROVE  AccessInv'
<1> DEFINE s == call[c].sub
           row == [role |-> "user", key |-> call[c].key, sub |-> s, password |-> FALSE, name |-> s]
<1>1. /\ c \in Active /\ call[c].at = "write" /\ call[c].op = "approve"
      /\ s \in Subs /\ s # Null /\ call[c].key \in Tenants \cup {Null}
  BY DEF Approve, At, AccessInv, AccessTypeOK, CallsInv, Carries, Active, Records, AccessAssumption
<1>2. CASE Fails(c)
  BY <1>2, FailsHolds
<1>3. CASE /\ Decidable(c) /\ MarkDecided(c, "approved") /\ Ends(c)
           /\ UNCHANGED <<user, tenant, unit, born>>
  <2>1. request' \in [Requests -> RequestRows] /\ \A q \in Requests : RequestIsKept(q)
    BY <1>1, <1>3, MarkedRows
  <2> QED BY <1>1, <1>3, <2>1, OtherWritesHold DEF AccessInv, AccessTypeOK
<1>4. CASE /\ Decidable(c) /\ MarkDecided(c, "approved") /\ Ends(c)
           /\ UNCHANGED <<tenant, unit, born>>
           /\ \E a \in NewUser : user' = [user EXCEPT ![a] = row]
  <2>1. request' \in [Requests -> RequestRows] /\ \A q \in Requests : RequestIsKept(q)
    BY <1>1, <1>4, MarkedRows
  <2>2. PICK a \in NewUser : user' = [user EXCEPT ![a] = row]
    BY <1>4
  <2>3. row \in UserRows /\ row.role = "user" /\ row.sub = s
    BY <1>1 DEF UserRows, Roles
  <2>4. /\ a \in Accounts /\ user[a].role = "none" /\ user[a].password = FALSE
        /\ \A d \in Inserting : call[d].acc # a
    BY NewRows, EmptyRows DEF AccessInv, RowsInv
  <2> HIDE DEF row, s
  <2>5. /\ tenant' \in [Tenants -> KeyRows] /\ born' \in [Tenants -> SUBSET Units]
        /\ unit' \in [Tenants -> [Units -> {"none", "lite", "liteoff", "linked", "linkedoff"}]]
    BY <1>4 DEF AccessInv, AccessTypeOK
  <2> QED BY <1>1, <1>4, <2>1, <2>2, <2>3, <2>4, <2>5, WritesHold
<1> QED BY <1>2, <1>3, <1>4 DEF Approve

LEMMA DenyHolds ==
  ASSUME AccessAssumption, AccessInv, NEW c \in Calls, Deny(c)
  PROVE  AccessInv'
<1>1. c \in Active /\ call[c].at = "write" /\ call[c].op = "deny"
  BY DEF Deny, At, Active
<1>2. CASE Fails(c)
  BY <1>2, FailsHolds
<1>3. CASE /\ Decidable(c) /\ MarkDecided(c, "denied") /\ Ends(c)
           /\ UNCHANGED <<user, tenant, unit, born>>
  <2>1. request' \in [Requests -> RequestRows] /\ \A q \in Requests : RequestIsKept(q)
    BY <1>1, <1>3, MarkedRows
  <2> QED BY <1>1, <1>3, <2>1, OtherWritesHold DEF AccessInv, AccessTypeOK
<1> QED BY <1>2, <1>3 DEF Deny

LEMMA LinkHolds ==
  ASSUME AccessAssumption, AccessInv, NEW c \in Calls, Link(c)
  PROVE  AccessInv'
<1> DEFINE s == call[c].sub
           a == call[c].actor
           row == [user[a] EXCEPT !.sub = s]
<1>1. c \in Active /\ s \in Subs /\ s # Null /\ a \in Accounts
  BY DEF Link, AccessInv, CallsInv, Carries, Active, AccessAssumption
<1>2. CASE Fails(c)
  BY <1>2, FailsHolds
<1>3. CASE /\ Exists(a) /\ user' = [user EXCEPT ![a].sub = s] /\ Ends(c)
           /\ UNCHANGED <<tenant, unit, request, born>>
  <2>1. user[a] \in UserRows /\ user[a].role \in Roles /\ \A d \in Inserting : call[d].acc # a
    BY <1>1, <1>3, ExistingRows
  <2>2. /\ row \in UserRows /\ row.role = user[a].role /\ row.sub = s
        /\ row.password = user[a].password
    BY <1>1, <2>1 DEF UserRows
  <2>3. user' = [user EXCEPT ![a] = row]
    BY <1>3
  <2>4. row.role # "none" /\ user[a].role # "gone"
    BY <2>1, <2>2 DEF Roles
  <2> HIDE DEF row, s, a
  <2>5. /\ row.role \in Roles => row.password \/ row.sub # Null
        /\ user[a].password => row.password \/ row.role = "gone"
    BY <1>1, <2>2, Zenon
  <2>6. \A d \in Inserting \ {c} : call[d].acc # a
    BY <2>1
  <2>7. Ends(c) /\ UNCHANGED <<tenant, unit, request, born>>
    BY <1>3
  <2> QED BY <1>1, <2>2, <2>3, <2>4, <2>5, <2>6, <2>7, UserWritesHold
<1> QED BY <1>2, <1>3 DEF Link

\* The unlinked account keeps the password it had when the handler began.
LEMMA UnlinkHolds ==
  ASSUME AccessAssumption, AccessInv, NEW c \in Calls, Unlink(c)
  PROVE  AccessInv'
<1> DEFINE a == call[c].actor
           row == [user[a] EXCEPT !.sub = Null]
<1>1. c \in Active /\ a \in Accounts /\ (user[a].role = "gone" \/ user[a].password)
  BY DEF Unlink, At, AccessInv, CallsInv, Carries, Lasting, Active
<1>2. CASE Fails(c)
  BY <1>2, FailsHolds
<1>3. CASE /\ Exists(a) /\ user' = [user EXCEPT ![a].sub = Null] /\ Ends(c)
           /\ UNCHANGED <<tenant, unit, request, born>>
  <2>1. user[a] \in UserRows /\ user[a].role \in Roles /\ \A d \in Inserting : call[d].acc # a
    BY <1>1, <1>3, ExistingRows
  <2>2. row \in UserRows /\ row.role = user[a].role /\ row.password = user[a].password
    BY <1>1, <2>1 DEF UserRows
  <2>3. user' = [user EXCEPT ![a] = row]
    BY <1>3
  <2>4. row.role # "none" /\ user[a].role # "gone" /\ row.password
    BY <1>1, <2>1, <2>2 DEF Roles
  <2> HIDE DEF row, a
  <2> QED BY <1>1, <1>3, <2>1, <2>2, <2>3, <2>4, UserWritesHold
<1> QED BY <1>2, <1>3 DEF Unlink

LEMMA InsertUserHolds ==
  ASSUME AccessAssumption, AccessInv, NEW c \in Calls, InsertUser(c)
  PROVE  AccessInv'
<1> DEFINE row == [role |-> call[c].arg, key |-> call[c].key, sub |-> Null, password |-> TRUE,
                   name |-> Null]
<1>1. /\ c \in Active /\ call[c].arg \in Roles /\ call[c].key \in Tenants \cup {Null}
  BY DEF InsertUser, At, AccessInv, AccessTypeOK, CallsInv, Carries, Active, Records
<1>2. CASE Fails(c)
  BY <1>2, FailsHolds
<1>3. ASSUME NEW a \in NewUser, user' = [user EXCEPT ![a] = row], Ends(c),
             UNCHANGED <<tenant, unit, request, born>>
      PROVE  AccessInv'
  <2>1. row \in UserRows /\ row.role # "none" /\ row.password = TRUE
    BY <1>1 DEF UserRows, Roles
  <2>2. /\ a \in Accounts /\ user[a].role = "none"
        /\ \A d \in Inserting : call[d].acc # a
    BY NewRows
  <2>3. user' = [user EXCEPT ![a] = row]
    BY <1>3
  <2> HIDE DEF row
  <2> QED BY <1>1, <1>3, <2>1, <2>2, <2>3, UserWritesHold
<1> QED BY <1>2, <1>3 DEF InsertUser

\* What an update makes of the row of an account that is there.
LEMMA UpdatedRow ==
  ASSUME AccessAssumption, AccessInv, NEW c \in Calls,
         call[c].at = "write", call[c].op \in {"role", "key", "reset", "delete"},
         Exists(call[c].acc)
  PROVE  LET row == Updated(c, user[call[c].acc]) IN
         /\ call[c].acc \in Accounts /\ row \in UserRows
         /\ row.role # "none"
         /\ row.role \in Roles => row.password \/ row.sub # Null
         /\ user[call[c].acc].password => row.password \/ row.role = "gone"
         /\ row.role = "gone" \/ row.sub = user[call[c].acc].sub
<1> DEFINE b == call[c].acc
<1>1. /\ b \in Accounts /\ call[c].key \in Tenants \cup {Null}
      /\ call[c].op = "role" => call[c].arg \in Roles
  BY DEF AccessInv, AccessTypeOK, CallsInv, Carries, Records
<1>2. /\ user[b] \in UserRows /\ user[b].role \in Roles
      /\ user[b].password \/ user[b].sub # Null
  BY <1>1, ExistingRows
<1>3. CASE call[c].op = "role"
  BY <1>1, <1>2, <1>3 DEF Updated, UserRows, Roles
<1>4. CASE call[c].op = "key"
  BY <1>1, <1>2, <1>4 DEF Updated, UserRows, Roles
<1>5. CASE call[c].op = "reset"
  BY <1>1, <1>2, <1>5 DEF Updated, UserRows, Roles
<1>6. CASE call[c].op = "delete"
  BY <1>1, <1>2, <1>6 DEF Updated, UserRows, Roles, NoUser
<1> QED BY <1>3, <1>4, <1>5, <1>6

LEMMA UpdateUserHolds ==
  ASSUME AccessAssumption, AccessInv, NEW c \in Calls, UpdateUser(c)
  PROVE  AccessInv'
<1> DEFINE b == call[c].acc
           row == Updated(c, user[b])
<1>1. /\ c \in Active /\ call[c].at = "write" /\ call[c].op \in {"role", "key", "reset", "delete"}
  BY DEF UpdateUser, Active
<1>2. CASE Fails(c)
  BY <1>2, FailsHolds
<1>3. CASE /\ Exists(b) /\ user' = [user EXCEPT ![b] = row] /\ Ends(c)
           /\ UNCHANGED <<tenant, unit, request, born>>
  <2>1. /\ b \in Accounts /\ row \in UserRows /\ row.role # "none"
        /\ row.role \in Roles => row.password \/ row.sub # Null
        /\ user[b].password => row.password \/ row.role = "gone"
    BY <1>1, <1>3, UpdatedRow
  <2>2. user[b].role # "gone" /\ \A d \in Inserting : call[d].acc # b
    BY <1>3, <2>1, ExistingRows DEF Roles
  <2>3. user' = [user EXCEPT ![b] = row]
    BY <1>3
  <2> HIDE DEF row, b
  <2> QED BY <1>1, <1>3, <2>1, <2>2, <2>3, UserWritesHold
<1> QED BY <1>2, <1>3 DEF UpdateUser

LEMMA DeleteKeyHolds ==
  ASSUME AccessAssumption, AccessInv, NEW c \in Calls, DeleteKey(c)
  PROVE  AccessInv'
<1> DEFINE t == call[c].key
<1>1. c \in Active /\ t \in Tenants /\ t # Null
  BY DEF DeleteKey, At, AccessInv, CallsInv, Carries, Active, AccessAssumption
<1>2. /\ tenant' = [tenant EXCEPT ![t] = [is |-> "gone", name |-> Null]]
      /\ unit' = [unit EXCEPT ![t] = [u \in Units |-> "none"]]
      /\ user' = [b \in Accounts |-> IF user[b].key = t THEN [user[b] EXCEPT !.key = Null] ELSE user[b]]
      /\ request' = [r \in Requests |-> IF request[r].key = t THEN [NoRequest EXCEPT !.status = "gone"]
                                        ELSE request[r]]
      /\ born' = [born EXCEPT ![t] = {}] /\ Ends(c)
  BY DEF DeleteKey
<1>3. user \in [Accounts -> UserRows] /\ request \in [Requests -> RequestRows]
  BY DEF AccessInv, AccessTypeOK
<1>4. \A a \in Accounts : /\ user'[a] \in UserRows /\ user'[a].role = user[a].role
                          /\ user'[a].password = user[a].password /\ user'[a].sub = user[a].sub
  BY <1>2, <1>3 DEF UserRows
<1>5. \A a \in Accounts : user[a].role = "none" => user'[a] = user[a]
  BY <1>1, <1>2, EmptyRows DEF AccessInv, RowsInv
<1>6. user' \in [Accounts -> UserRows]
  BY <1>2, <1>4
<1>7. /\ request' \in [Requests -> RequestRows]
      /\ \A r \in Requests : request'[r] = request[r] \/ request'[r].status = "gone"
  BY <1>2, <1>3 DEF RequestRows, NoRequest
<1>8. /\ tenant' \in [Tenants -> KeyRows] /\ born' \in [Tenants -> SUBSET Units]
      /\ unit' \in [Tenants -> [Units -> {"none", "lite", "liteoff", "linked", "linkedoff"}]]
  BY <1>2 DEF AccessInv, AccessTypeOK, KeyRows
<1>9. RowsAreKept(c)
  <2>1. RowsInv' /\ CanSignIn'
    BY <1>4, <1>5, <1>7 DEF AccessInv, RowsInv, CanSignIn, Exists
  <2>2. \A d \in Inserting \ {c} : user'[call[d].acc] = user[call[d].acc]
    BY <1>5 DEF AccessInv, ReservedInv, CallsInv, Carries, Inserting
  <2>3. \A r \in Requests : request[r].status # "none" => request'[r].status # "none"
    BY <1>7
  <2> QED BY <1>4, <2>1, <2>2, <2>3 DEF RowsAreKept
<1> QED BY <1>1, <1>2, <1>6, <1>7, <1>8, <1>9, EndsHolds

LEMMA ConnectPlanFactHolds ==
  ASSUME AccessAssumption, AccessInv, NEW c \in Calls, ConnectPlanFact(c)
  PROVE  AccessInv'
<1> DEFINE t == call[c].key
<1>1. c \in Active
  BY DEF ConnectPlanFact, At, Active
<1>2. CASE Fails(c)
  BY <1>2, FailsHolds
<1>3. CASE /\ unit' = [unit EXCEPT ![t] = [u \in Units |->
                 IF unit[t][u] \in {"lite", "liteoff"} THEN "none" ELSE unit[t][u]]]
           /\ Ends(c) /\ UNCHANGED <<user, tenant, request, born>>
  <2>1. unit' \in [Tenants -> [Units -> {"none", "lite", "liteoff", "linked", "linkedoff"}]]
    BY <1>3 DEF AccessInv, AccessTypeOK
  <2>2. \A r \in Requests : RequestIsKept(r)
    BY <1>3 DEF AccessInv, RowsInv, RequestIsKept
  <2>3. /\ tenant' \in [Tenants -> KeyRows] /\ request' \in [Requests -> RequestRows]
        /\ born' \in [Tenants -> SUBSET Units]
    BY <1>3 DEF AccessInv, AccessTypeOK
  <2> QED BY <1>1, <1>3, <2>1, <2>2, <2>3, OtherWritesHold
<1> QED BY <1>2, <1>3 DEF ConnectPlanFact

-----------------------------------------------------------------------------
(* Access: every step, and the theorems *)

LEMMA StepHolds ==
  ASSUME AccessAssumption, AccessInv, NEW c \in Calls, Step(c) \/ Fails(c)
  PROVE  AccessInv'
<1>1. CASE Fails(c)
  BY <1>1, FailsHolds
<1>2. CASE Resolve(c) \/ InsertOwner(c) \/ CommitOwner(c)
  BY <1>2, ResolveHolds, InsertOwnerHolds, CommitOwnerHolds
<1>3. CASE FindNetwork(c) \/ InsertRequest(c) \/ Approve(c) \/ Deny(c)
  BY <1>3, FindNetworkHolds, InsertRequestHolds, ApproveHolds, DenyHolds
<1>4. CASE Link(c) \/ Unlink(c) \/ InsertUser(c) \/ UpdateUser(c)
  BY <1>4, LinkHolds, UnlinkHolds, InsertUserHolds, UpdateUserHolds
<1>5. CASE DeleteKey(c) \/ ConnectPlanFact(c)
  BY <1>5, DeleteKeyHolds, ConnectPlanFactHolds
<1> QED BY <1>1, <1>2, <1>3, <1>4, <1>5 DEF Step

LEMMA AccessStutterHolds == ASSUME AccessInv, UNCHANGED accessVars PROVE AccessInv'
<1>1. UNCHANGED <<user, tenant, unit, request, call, left, alone, born>>
  BY DEF accessVars
<1>2. AccessTypeOK' /\ RowsInv' /\ CanSignIn'
  BY <1>1 DEF AccessInv, AccessTypeOK, RowsInv, CanSignIn, Exists
<1>3. CallsInv' /\ ReservedInv'
  BY <1>1 DEF AccessInv, CallsInv, Carries, Lasting, ReservedInv, Inserting
<1>4. AloneInv'
  BY <1>1 DEF AccessInv, AloneInv, Active, Knows, Held, IsSuper
<1> QED BY <1>2, <1>3, <1>4 DEF AccessInv

LEMMA AccessNextHolds ==
  ASSUME AccessAssumption, AccessInv, [AccessNext]_accessVars
  PROVE  AccessInv'
<1>1. CASE UNCHANGED accessVars
  BY <1>1, AccessStutterHolds
<1>2. ASSUME NEW c \in Calls, Start(c) PROVE AccessInv'
  BY <1>2, StartHolds
<1>3. ASSUME NEW c \in Calls, Step(c) \/ Fails(c) PROVE AccessInv'
  BY <1>3, StepHolds
<1> QED BY <1>1, <1>2, <1>3 DEF AccessNext, Done

LEMMA AccessInvariant == ASSUME AccessAssumption PROVE AccessSpec => []AccessInv
<1>1. AccessInit => AccessInv
  BY AccessInitHolds
<1>2. AccessInv /\ [AccessNext]_accessVars => AccessInv'
  BY AccessNextHolds
<1> QED BY <1>1, <1>2, PTL DEF AccessSpec

\* Every variable of the accounts keeps its type, for any accounts, tenants,
\* requests, entitlements and number of handlers.
THEOREM AccessTypes == ASSUME AccessAssumption PROVE AccessSpec => []AccessTypeOK
<1>1. AccessInv => AccessTypeOK
  BY DEF AccessInv
<1> QED BY <1>1, AccessInvariant, PTL

\* However the handlers of an account overlap, it has a password or a link
\* (auth_unlink looks at the password and clears the link in a later step).
THEOREM EveryAccountCanSignIn == ASSUME AccessAssumption PROVE AccessSpec => []CanSignIn
<1>1. AccessInv => CanSignIn
  BY DEF AccessInv
<1> QED BY <1>1, AccessInvariant, PTL

-----------------------------------------------------------------------------
(* Access: what a step may do *)

LEMMA StartsChangeNoUser ==
  ASSUME NEW c \in Calls, Start(c)
  PROVE  UNCHANGED <<user, request, born>>
<1>1. ASSUME NEW s \in Subs, SignIn(c, s) \/ AskAccess(c, s)
      PROVE  UNCHANGED <<user, request, born>>
  BY <1>1 DEF SignIn, AskAccess, Begins, rows
<1>2. ASSUME NEW a \in Accounts,
             \/ StartUnlink(c, a) \/ CreateKey(c, a) \/ TryPlanFact(c, a)
             \/ \E r \in Requests, op \in {"approve", "deny"} : Decide(c, a, r, op)
             \/ \E s \in Subs, op \in {"link", "ssolink"} : StartLink(c, a, s, op)
             \/ \E role \in Roles, t \in Tenants \cup {Null} : CreateUser(c, a, role, t)
      PROVE  UNCHANGED <<user, request, born>>
  BY <1>2 DEF StartUnlink, CreateKey, TryPlanFact, Decide, StartLink, CreateUser, Begins, rows
<1>3. ASSUME NEW a \in Accounts, NEW b \in Accounts,
             \/ ResetPassword(c, a, b) \/ DeleteUser(c, a, b)
             \/ \E role \in Roles : SetRole(c, a, b, role)
             \/ \E t \in Tenants \cup {Null} : SetKey(c, a, b, t)
      PROVE  UNCHANGED <<user, request, born>>
  BY <1>3 DEF ResetPassword, DeleteUser, SetRole, SetKey, Begins, rows
<1>4. ASSUME NEW a \in Accounts, NEW t \in Tenants,
             RenameKey(c, a, t) \/ CountUsers(c, a, t) \/ \E u \in Units : EditUnit(c, a, t, u)
      PROVE  UNCHANGED <<user, request, born>>
  BY <1>4 DEF RenameKey, CountUsers, EditUnit, Begins, rows
<1> QED BY <1>1, <1>2, <1>3, <1>4 DEF Start

\* The handlers that end with a change of users, requests or born.
LEMMA WhoChanges ==
  ASSUME [AccessNext]_accessVars,
         user' # user \/ request' # request \/ born' # born
  PROVE  \E c \in Calls : /\ Ends(c)
                          /\ \/ CommitOwner(c) \/ InsertRequest(c) \/ Approve(c) \/ Deny(c)
                             \/ Link(c) \/ Unlink(c) \/ InsertUser(c) \/ UpdateUser(c)
                             \/ DeleteKey(c)
<1>1. ~UNCHANGED accessVars
  BY DEF accessVars
<1>2. PICK c \in Calls : Start(c) \/ Step(c) \/ Fails(c)
  BY <1>1 DEF AccessNext, Done
<1>3. ~Start(c)
  BY StartsChangeNoUser
<1>4. ~Fails(c)
  BY DEF Fails, rows
<1>5. ~(Resolve(c) \/ InsertOwner(c) \/ FindNetwork(c) \/ ConnectPlanFact(c))
  BY <1>4 DEF Resolve, InsertOwner, FindNetwork, ConnectPlanFact, Moves, rows
<1>6. \/ CommitOwner(c) \/ InsertRequest(c) \/ Approve(c) \/ Deny(c)
      \/ Link(c) \/ Unlink(c) \/ InsertUser(c) \/ UpdateUser(c) \/ DeleteKey(c)
  BY <1>2, <1>3, <1>4, <1>5 DEF Step
<1>7. Ends(c)
  BY <1>4, <1>6 DEF CommitOwner, InsertRequest, Approve, Deny, Link, Unlink, InsertUser,
         UpdateUser, DeleteKey
<1> QED BY <1>6, <1>7

LEMMA EndingFinishes ==
  ASSUME AccessInv, NEW c \in Calls, Ends(c)
  PROVE  /\ call[c].at # "idle" => Finishes(c)
         /\ \A d \in Calls : Finishes(d) => d = c
  BY EmptyRows DEF AccessInv, AccessTypeOK, Ends, Finishes

\* A decision is final: an approval or a denial changes it only when another
\* handler ran beside it (approve_access_request and deny_access_request look at
\* the status when they read the request).
THEOREM DecisionsAreFinal == ASSUME AccessAssumption PROVE AccessSpec => DecidedOnce
<1> DEFINE Final ==
      \A r \in Requests :
        /\ request[r].status \in {"approved", "denied"}
        /\ request'[r].status # request[r].status
        => \/ request'[r].status = "gone"
           \/ \E c \in Calls : Finishes(c) /\ call[c].req = r /\ ~alone[c]
<1>1. ASSUME AccessInv, [AccessNext]_accessVars PROVE Final
  <2> SUFFICES ASSUME NEW r \in Requests, request[r].status \in {"approved", "denied"},
                      request'[r].status # request[r].status, request'[r].status # "gone"
               PROVE  \E c \in Calls : Finishes(c) /\ call[c].req = r /\ ~alone[c]
    OBVIOUS
  <2>1. request' # request
    OBVIOUS
  <2>2. PICK c \in Calls : /\ Ends(c)
                           /\ \/ CommitOwner(c) \/ InsertRequest(c) \/ Approve(c) \/ Deny(c)
                              \/ Link(c) \/ Unlink(c) \/ InsertUser(c) \/ UpdateUser(c)
                              \/ DeleteKey(c)
    BY <1>1, <2>1, WhoChanges
  <2>3. ~InsertRequest(c)
    <3>1. \A q \in NewRequest : request' = [request EXCEPT ![q] =
              [status |-> "pending", key |-> call[c].key, sub |-> call[c].sub]] => q # r
      BY NewRows
    <3> QED BY <1>1, <2>1, <3>1, NewRows DEF InsertRequest, Fails, rows, AccessInv, AccessTypeOK
  <2>4. ~DeleteKey(c)
    BY DEF DeleteKey, NoRequest
  <2>5. (Approve(c) \/ Deny(c)) /\ \E status \in {"approved", "denied"} : MarkDecided(c, status)
    <3>1. Approve(c) \/ Deny(c)
      BY <2>1, <2>2, <2>3, <2>4 DEF CommitOwner, Link, Unlink, InsertUser, UpdateUser, Fails, rows
    <3> QED BY <2>1, <3>1 DEF Approve, Deny, Fails, rows
  <2>6. /\ call[c].at = "write" /\ call[c].op \in {"approve", "deny"} /\ c \in Active
        /\ call[c].req = r
    BY <1>1, <2>5 DEF Approve, Deny, At, Active, MarkDecided, AccessInv, AccessTypeOK
  <2>7. ~alone[c]
    BY <1>1, <2>6 DEF AccessInv, AloneInv, Knows
  <2> QED BY <1>1, <2>2, <2>6, <2>7, EndingFinishes
<1>2. AccessInv /\ [AccessNext]_accessVars => [Final]_accessVars
  BY <1>1
<1> QED BY <1>2, AccessInvariant, PTL DEF AccessSpec, DecidedOnce

\* A link to Dodo IS is replaced only by its own account, and by sso_link only
\* when another handler ran beside it.
THEOREM LinksAreKept == ASSUME AccessAssumption PROVE AccessSpec => LinksStick
<1> DEFINE Stick ==
      \A a \in Accounts :
        /\ user[a].sub # Null /\ user'[a].sub # user[a].sub
        /\ user'[a].role # "gone"
        => \E c \in Calls : /\ Finishes(c) /\ call[c].actor = a
                            /\ call[c].op = "ssolink" => ~alone[c]
<1>1. ASSUME AccessInv, [AccessNext]_accessVars PROVE Stick
  <2> SUFFICES ASSUME NEW a \in Accounts, user[a].sub # Null, user'[a].sub # user[a].sub,
                      user'[a].role # "gone"
               PROVE  \E c \in Calls : /\ Finishes(c) /\ call[c].actor = a
                                       /\ call[c].op = "ssolink" => ~alone[c]
    OBVIOUS
  <2>1. user' # user /\ user \in [Accounts -> UserRows] /\ user[a].role # "none"
    BY <1>1, EmptyRows DEF AccessInv, AccessTypeOK, RowsInv
  <2>2. PICK c \in Calls : /\ Ends(c)
                           /\ \/ CommitOwner(c) \/ InsertRequest(c) \/ Approve(c) \/ Deny(c)
                              \/ Link(c) \/ Unlink(c) \/ InsertUser(c) \/ UpdateUser(c)
                              \/ DeleteKey(c)
    BY <1>1, <2>1, WhoChanges
  <2>3. ~CommitOwner(c)
    <3> SUFFICES ASSUME CommitOwner(c) PROVE FALSE
      OBVIOUS
    <3>1. c \in Inserting /\ call[c].acc \in Accounts
      BY <1>1 DEF CommitOwner, At, Inserting, AccessInv, CallsInv, Carries
    <3>2. call[c].acc # a
      BY <1>1, <2>1, <3>1 DEF AccessInv, ReservedInv
    <3>3. user'[a] = user[a]
      BY <2>1, <3>2 DEF CommitOwner
    <3> QED BY <3>3
  <2>4. ~Approve(c) /\ ~InsertUser(c)
    <3>1. \A b \in NewUser : \A row : user' = [user EXCEPT ![b] = row] => user'[a] = user[a]
      BY <2>1, NewRows
    <3>2. ~ \E b \in NewUser, row \in UserRows : user' = [user EXCEPT ![b] = row]
      BY <3>1
    <3>3. ~InsertUser(c)
      BY <2>1, <3>1 DEF InsertUser, Fails, rows
    <3>4. ~Approve(c)
      BY <2>1, <3>1 DEF Approve, Fails, rows
    <3> QED BY <3>3, <3>4
  <2>5. ~UpdateUser(c)
    <3> SUFFICES ASSUME UpdateUser(c) PROVE FALSE
      OBVIOUS
    <3>1. /\ call[c].at = "write" /\ call[c].op \in {"role", "key", "reset", "delete"}
          /\ Exists(call[c].acc)
          /\ user' = [user EXCEPT ![call[c].acc] = Updated(c, user[call[c].acc])]
      BY <2>1 DEF UpdateUser, Fails, rows
    <3>2. \/ Updated(c, user[call[c].acc]).role = "gone"
          \/ Updated(c, user[call[c].acc]).sub = user[call[c].acc].sub
      BY <1>1, <3>1, UpdatedRow
    <3> QED BY <2>1, <3>1, <3>2
  <2>6. ~DeleteKey(c)
    BY <2>1 DEF DeleteKey, UserRows
  <2>7. Link(c) \/ Unlink(c)
    BY <2>1, <2>2, <2>3, <2>4, <2>5, <2>6 DEF InsertRequest, Deny, Fails, rows
  <2>8. c \in Active /\ call[c].at = "write" /\ call[c].op \in {"link", "ssolink", "unlink"}
    BY <2>7 DEF Link, Unlink, At, Active
  <2>9. call[c].actor = a
    BY <2>1, <2>7 DEF Link, Unlink, Fails, rows
  <2>10. call[c].op = "ssolink" => ~alone[c]
    BY <1>1, <2>8, <2>9 DEF AccessInv, AloneInv, Knows
  <2> QED BY <1>1, <2>2, <2>8, <2>9, <2>10, EndingFinishes
<1>2. AccessInv /\ [AccessNext]_accessVars => [Stick]_accessVars
  BY <1>1
<1> QED BY <1>2, AccessInvariant, PTL DEF AccessSpec, LinksStick

\* No handler that runs alone takes away the last super admin: who demotes,
\* moves or deletes one is another one, or stays what it is
\* (admin_update_user, admin_delete_user).
THEOREM ASuperAdminRemains == ASSUME AccessAssumption PROVE AccessSpec => LastSuperAdmin
<1> DEFINE Remains ==
      (\E a \in Accounts : IsSuper(a)) /\ ~(\E a \in Accounts : IsSuper(a))'
        => \E c \in Calls : Finishes(c) /\ ~alone[c]
<1>1. ASSUME AccessInv, [AccessNext]_accessVars PROVE Remains
  <2> SUFFICES ASSUME NEW a \in Accounts, IsSuper(a), \A b \in Accounts : user'[b].role # "super_admin"
               PROVE  \E c \in Calls : Finishes(c) /\ ~alone[c]
    BY DEF IsSuper
  <2>1. user' # user /\ user \in [Accounts -> UserRows] /\ user[a].role = "super_admin"
    BY <1>1 DEF IsSuper, AccessInv, AccessTypeOK
  <2>2. PICK c \in Calls : /\ Ends(c)
                           /\ \/ CommitOwner(c) \/ InsertRequest(c) \/ Approve(c) \/ Deny(c)
                              \/ Link(c) \/ Unlink(c) \/ InsertUser(c) \/ UpdateUser(c)
                              \/ DeleteKey(c)
    BY <1>1, <2>1, WhoChanges
  <2>3. ~CommitOwner(c)
    <3> SUFFICES ASSUME CommitOwner(c) PROVE FALSE
      OBVIOUS
    <3>1. c \in Inserting /\ call[c].acc \in Accounts
      BY <1>1 DEF CommitOwner, At, Inserting, AccessInv, CallsInv, Carries
    <3>2. call[c].acc # a
      BY <1>1, <2>1, <3>1 DEF AccessInv, ReservedInv
    <3>3. user'[a] = user[a]
      BY <2>1, <3>2 DEF CommitOwner
    <3> QED BY <2>1, <3>3
  <2>4. ~Approve(c) /\ ~InsertUser(c)
    <3>1. \A b \in NewUser : \A row : user' = [user EXCEPT ![b] = row] => user'[a] = user[a]
      BY <2>1, NewRows
    <3>2. ~InsertUser(c)
      BY <2>1, <3>1 DEF InsertUser, Fails, rows
    <3>3. ~Approve(c)
      BY <2>1, <3>1 DEF Approve, Fails, rows
    <3> QED BY <3>2, <3>3
  <2>5. ~Link(c) /\ ~Unlink(c) /\ ~DeleteKey(c) /\ ~InsertRequest(c) /\ ~Deny(c)
    <3>1. ~Link(c)
      BY <2>1 DEF Link, UserRows, Fails, rows
    <3>2. ~Unlink(c)
      BY <2>1 DEF Unlink, UserRows, Fails, rows
    <3>3. ~DeleteKey(c)
      BY <2>1 DEF DeleteKey, UserRows
    <3> QED BY <2>1, <3>1, <3>2, <3>3 DEF InsertRequest, Deny, Fails, rows
  <2>6. UpdateUser(c)
    BY <2>2, <2>3, <2>4, <2>5
  <2> DEFINE b == call[c].acc
  <2>7. /\ call[c].at = "write" /\ call[c].op \in {"role", "key", "reset", "delete"}
        /\ c \in Active /\ Exists(b) /\ Exists(call[c].actor)
        /\ user' = [user EXCEPT ![b] = Updated(c, user[b])]
    BY <2>1, <2>6 DEF UpdateUser, Fails, rows, Active
  <2>8. b = a
    BY <2>1, <2>7
  <2>9. call[c].op \in {"role", "delete"}
    BY <2>1, <2>7, <2>8 DEF Updated, UserRows
  <2>10. call[c].actor \in Accounts
    BY <1>1, <2>7 DEF AccessInv, CallsInv, Carries
  <2>11. ASSUME alone[c] PROVE FALSE
    <3>1. /\ IsSuper(call[c].actor)
          /\ call[c].actor = a => call[c].op = "role" /\ call[c].arg = "super_admin"
      BY <1>1, <2>7, <2>8, <2>9, <2>11 DEF AccessInv, AloneInv, Knows
    <3>2. CASE call[c].actor = a
      BY <2>1, <2>7, <2>8, <3>1, <3>2 DEF Updated, UserRows
    <3>3. CASE call[c].actor # a
      BY <2>1, <2>7, <2>8, <2>10, <3>1, <3>3 DEF IsSuper
    <3> QED BY <3>2, <3>3
  <2> QED BY <1>1, <2>2, <2>7, <2>11, EndingFinishes DEF Active
<1>2. AccessInv /\ [AccessNext]_accessVars => [Remains]_accessVars
  BY <1>1
<1> QED BY <1>2, AccessInvariant, PTL DEF AccessSpec, LastSuperAdmin

\* A first sign-in that no other handler overlaps provisions no pizzeria that some
\* tenant holds already: the lookup by units finds one whenever there is one.
THEOREM NoSecondTenant == ASSUME AccessAssumption PROVE AccessSpec => NetworksAreNotDoubled
<1> DEFINE Single ==
      \A c \in Calls : Finishes(c) /\ call[c].at = "names" /\ alone[c] /\ born' # born
        => \A o \in Tenants : Held(o, born'[call[c].key]) = {}
<1>1. ASSUME AccessInv, [AccessNext]_accessVars PROVE Single
  <2> SUFFICES ASSUME NEW c \in Calls, Finishes(c), call[c].at = "names", alone[c], born' # born,
                      NEW o \in Tenants
               PROVE  Held(o, born'[call[c].key]) = {}
    OBVIOUS
  <2>1. PICK d \in Calls : /\ Ends(d)
                           /\ \/ CommitOwner(d) \/ InsertRequest(d) \/ Approve(d) \/ Deny(d)
                              \/ Link(d) \/ Unlink(d) \/ InsertUser(d) \/ UpdateUser(d)
                              \/ DeleteKey(d)
    BY <1>1, WhoChanges
  <2>2. d = c
    BY <1>1, <2>1, EndingFinishes
  <2>3. CommitOwner(c)
    BY <2>1, <2>2 DEF InsertRequest, Approve, Deny, Link, Unlink, InsertUser, UpdateUser, DeleteKey,
       At
  <2>4. /\ call[c].sub \in Subs /\ call[c].key \in Tenants /\ c \in Active
        /\ born' = [born EXCEPT ![call[c].key] = Licensed[call[c].sub]]
        /\ born \in [Tenants -> SUBSET Units]
    BY <1>1, <2>3 DEF CommitOwner, AccessInv, AccessTypeOK, CallsInv, Carries, Active
  <2>5. Held(o, UnitsOf[call[c].sub]) = {}
    BY <1>1, <2>4 DEF AccessInv, AloneInv, Knows
  <2>6. born'[call[c].key] \subseteq UnitsOf[call[c].sub]
    BY <2>4 DEF AccessAssumption
  <2> QED BY <2>5, <2>6 DEF Held
<1>2. AccessInv /\ [AccessNext]_accessVars => [Single]_accessVars
  BY <1>1
<1> QED BY <1>2, AccessInvariant, PTL DEF AccessSpec, NetworksAreNotDoubled

-----------------------------------------------------------------------------
(* The four together *)

PartsInv ==
  /\ AccessInv /\ SessionsInv /\ LicenceInv /\ LimiterInv

LEMMA PartsNextHolds ==
  ASSUME PartsInv, [PartsNext]_parts PROVE PartsInv'
<1> USE PartsAssumption
<1>1. /\ [AccessNext]_accessVars /\ [Next]_vars
      /\ [LicenceNext]_licenceVars /\ [LimiterNext]_limiterVars
  BY DEF PartsNext, parts
<1>2. AccessInv'
  BY <1>1, AccessNextHolds, AccessStutterHolds DEF PartsInv
<1>3. SessionsInv'
  BY <1>1, SessionsNextHolds DEF PartsInv
<1>4. LicenceInv' /\ LimiterInv'
  BY <1>1, LicenceNextHolds, LimiterNextHolds DEF PartsInv
<1> QED BY <1>2, <1>3, <1>4 DEF PartsInv

\* Every variable of accounts, sessions, licences and the limiter keeps its type, for
\* any of their constants.
THEOREM PartsTypes == PartsSpec => []TypesOK
<1>1. PartsInit => PartsInv
  BY PartsAssumption, AccessInitHolds, SessionsInitHolds, LicenceInitHolds, LimiterInitHolds
     DEF PartsInit, PartsInv
<1>2. PartsInv /\ [PartsNext]_parts => PartsInv'
  BY PartsNextHolds
<1>3. PartsInv => TypesOK
  BY DEF PartsInv, TypesOK, AccessInv, SessionsInv, LicenceInv, LimiterInv
<1> QED BY <1>1, <1>2, <1>3, PTL DEF PartsSpec
=============================================================================
