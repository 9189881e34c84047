------------------------------- MODULE Access -------------------------------
(***************************************************************************)
(* Accounts, tenants and access requests: sign-in through Dodo IS with the *)
(* provisioning of a network, requests for access and their decision,      *)
(* linking of accounts, administration (auth/router.py, auth/sso.py,       *)
(* auth/access_requests.py, auth/admin_router.py, auth/users.py).          *)
(*                                                                         *)
(* A handler reads rows, awaits Dodo IS or the database, and writes what   *)
(* it decided from what it read. Its transaction is READ COMMITTED: other  *)
(* handlers commit in between, unique indexes and foreign keys are checked *)
(* at the write. Each handler is a step that reads and a step that writes; *)
(* only provisioning keeps uncommitted rows over an await.                 *)
(***************************************************************************)
EXTENDS Naturals, FiniteSets

CONSTANTS
  Accounts, Tenants, Requests,  \* primary keys, numbers given in order
  Subs,                         \* accounts of Dodo IS
  Units,                        \* pizzerias
  UnitsOf, Licensed,            \* what /entitlements says of a sub
  Calls,                        \* handlers that can run at once
  Null,
  FounderSub,                   \* whose network is there from the start
  Budget                        \* bound: handlers started in a behaviour

Root == 1      \* the super admin the command line made
Founder == 2
Home == 1

\* What the constants have to be.
AccessAssumption ==
  /\ Accounts \subseteq Nat /\ Tenants \subseteq Nat /\ Requests \subseteq Nat
  /\ {Root, Founder} \subseteq Accounts /\ Home \in Tenants
  /\ UnitsOf \in [Subs -> SUBSET Units]
  /\ Licensed \in [Subs -> SUBSET Units]
  /\ \A s \in Subs : Licensed[s] \subseteq UnitsOf[s]
  /\ IsFiniteSet(Units)
  /\ FounderSub \in Subs
  /\ Null \notin Accounts \cup Tenants \cup Requests \cup Subs
  /\ Budget \in Nat

VARIABLES
  user,     \* users
  tenant,   \* planfact_keys
  unit,     \* projects_config: how a tenant holds a unit
  request,  \* access_requests
  call,     \* the handlers under way
  left,     \* handlers that may still start (bound)
  alone,    \* history: no other handler ran beside this one
  born      \* history: the units a tenant was provisioned for

accessVars == <<user, tenant, unit, request, call, left, alone, born>>
rows == <<user, tenant, unit, request, born>>

Roles == {"user", "network_admin", "super_admin"}

\* A row that was never inserted; a deleted one is Gone.
NoUser == [role |-> "none", key |-> Null, sub |-> Null, password |-> FALSE, name |-> Null]
NoTenant == [is |-> "none", name |-> Null]
NoRequest == [status |-> "none", key |-> Null, sub |-> Null]
Idle == [at |-> "idle", op |-> "", actor |-> Null, acc |-> Null, key |-> Null,
         sub |-> Null, req |-> Null, arg |-> ""]

RootRow == [NoUser EXCEPT !.role = "super_admin", !.password = TRUE]

Installed ==
  /\ user = [a \in Accounts |-> IF a = Root THEN RootRow ELSE NoUser]
  /\ tenant = [t \in Tenants |-> NoTenant]
  /\ born = [t \in Tenants |-> {}]

\* What the provisioning of FounderSub leaves in Installed.
Running ==
  /\ user = [a \in Accounts |->
        CASE a = Root -> RootRow
          [] a = Founder -> [role |-> "network_admin", key |-> Home, sub |-> FounderSub,
                             password |-> FALSE, name |-> FounderSub]
          [] OTHER -> NoUser]
  /\ tenant = [t \in Tenants |-> IF t = Home THEN [is |-> "live", name |-> FounderSub] ELSE NoTenant]
  /\ born = [t \in Tenants |-> IF t = Home THEN Licensed[FounderSub] ELSE {}]

AccessInit ==
  /\ Installed \/ Running
  /\ unit = [t \in Tenants |-> [u \in Units |-> IF u \in born[t] THEN "lite" ELSE "none"]]
  /\ request = [r \in Requests |-> NoRequest]
  /\ call = [c \in Calls |-> Idle]
  /\ left = Budget
  /\ alone = [c \in Calls |-> TRUE]

---------------------------------------------------------------------------
(* Reading *)

Exists(a) == user[a].role \in Roles
IsSuper(a) == user[a].role = "super_admin"
IsNetwork(a) == user[a].role = "network_admin"
IsAdmin(a) == IsSuper(a) \/ IsNetwork(a)
HasTenant(t) == tenant[t].is = "live"
AccountsOf(s) == {a \in Accounts : user[a].sub = s}
Named(s) == {a \in Accounts : user[a].name = s}

\* find_tenant_by_units: most of the active units; ties have no order.
Held(t, us) == {u \in us : unit[t][u] \in {"lite", "linked"}}
\* Mutant of TenantsByUnits: only rows made by provisioning are looked at
TenantsByLiteUnits(us) == {t \in Tenants : \E u \in us : unit[t][u] = "lite"}
TenantsByUnits(us) ==
  {t \in Tenants : /\ Held(t, us) # {}
                   /\ \A o \in Tenants : Cardinality(Held(o, us)) <= Cardinality(Held(t, us))}

Pending(t, s) == {r \in Requests : request[r] = [status |-> "pending", key |-> t, sub |-> s]}

\* require_admin_for_user, and the target exists.
MayManage(admin, a) ==
  /\ Exists(a)
  /\ \/ IsSuper(admin)
     \/ IsNetwork(admin) /\ user[a].key = user[admin].key /\ ~IsSuper(a)

MayEdit(admin, t) == IsSuper(admin) \/ (IsNetwork(admin) /\ user[admin].key = t)

Least(S) == {n \in S : \A m \in S : n <= m}

\* get_dodois_token: the sub of the network's first linked admin, else the viewer's own.
\* (Credentials by name, from before the sign-in through Dodo IS, are left out.)
TokenSub(a) ==
  LET owners == {b \in Accounts : IsAdmin(b) /\ user[b].key = user[a].key /\ user[b].sub # Null} IN
  IF user[a].key # Null /\ owners # {}
  THEN {user[b].sub : b \in Least(owners)}
  ELSE {user[a].sub} \ {Null}

\* A row inserted and not committed: a unique index makes the others wait for it.
Inserting == {c \in Calls : call[c].at = "names"}
\* Mutant of Uncommitted: a handler waits for its own row
UncommittedOwn(c, s) == \E d \in Calls : call[d].at # "idle" /\ call[d].sub = s
Uncommitted(c, s) == \E d \in Inserting \ {c} : call[d].sub = s

\* The next value of a sequence
NewUser == Least({a \in Accounts : user[a].role = "none"} \ {call[d].acc : d \in Inserting})
NewTenant == Least({t \in Tenants : tenant[t].is = "none"} \ {call[d].key : d \in Inserting})
NewRequest == Least({r \in Requests : request[r].status = "none"})

---------------------------------------------------------------------------
(* How handlers start and end *)

Active == {c \in Calls : call[c].at # "idle"}

\* Those under way are no longer alone; the new one is when there are none.
Arrives(c) ==
  /\ call[c].at = "idle" /\ left > 0
  /\ left' = left - 1
  /\ alone' = [d \in Calls |-> IF d = c THEN Active = {} ELSE alone[d] /\ call[d].at = "idle"]

Begins(c, rec) ==
  /\ Arrives(c)
  /\ call' = [call EXCEPT ![c] = rec]
  /\ UNCHANGED rows

Moves(c, rec) ==
  /\ call' = [call EXCEPT ![c] = rec]
  /\ UNCHANGED <<left, alone>> /\ UNCHANGED rows

Ends(c) == call' = [call EXCEPT ![c] = Idle] /\ UNCHANGED <<left, alone>>

\* An error at an await or at the write: the transaction is rolled back.
Fails(c) == call[c].at # "idle" /\ Ends(c) /\ UNCHANGED rows

At(c, place, op) == call[c].at = place /\ call[c].op = op

---------------------------------------------------------------------------
(* Sign-in through Dodo IS (get_or_provision_user) *)

\* An account with this sub signs in and nothing below changes.
SignIn(c, s) ==
  /\ AccountsOf(s) = {}
  /\ Begins(c, [Idle EXCEPT !.at = "units", !.op = "sso", !.sub = s])

\* "request" when the network has a tenant, "nosub" without a licence.
Resolve(c) ==
  /\ At(c, "units", "sso")
  /\ LET s == call[c].sub IN
     IF TenantsByUnits(UnitsOf[s]) # {} \/ Licensed[s] = {}
     THEN Fails(c)
     ELSE Moves(c, [call[c] EXCEPT !.at = "insert"])

\* Tenant and owner are flushed, then Dodo IS is asked for the names of the units.
InsertOwner(c) ==
  /\ At(c, "insert", "sso")
  /\ LET s == call[c].sub IN
     /\ ~Uncommitted(c, s)
     /\ IF AccountsOf(s) # {} \/ Named(s) # {} \/ \E t \in Tenants : tenant[t].name = s
        THEN Fails(c)
        ELSE \E a \in NewUser, t \in NewTenant :
               Moves(c, [call[c] EXCEPT !.at = "names", !.acc = a, !.key = t])

CommitOwner(c) ==
  /\ At(c, "names", "sso")
  /\ LET s == call[c].sub
         t == call[c].key IN
     /\ user' = [user EXCEPT ![call[c].acc] =
          [role |-> "network_admin", key |-> t, sub |-> s, password |-> FALSE, name |-> s]]
     /\ tenant' = [tenant EXCEPT ![t] = [is |-> "live", name |-> s]]
     /\ unit' = [unit EXCEPT ![t] = [u \in Units |-> IF u \in Licensed[s] THEN "lite" ELSE "none"]]
     /\ born' = [born EXCEPT ![t] = Licensed[s]]
  /\ Ends(c) /\ UNCHANGED request

---------------------------------------------------------------------------
(* Requests for access *)

AskAccess(c, s) ==
  /\ AccountsOf(s) = {}
  /\ Begins(c, [Idle EXCEPT !.at = "units", !.op = "ask", !.sub = s])

\* No network: 404. A pending request of this sub there: it is returned.
FindNetwork(c) ==
  /\ At(c, "units", "ask")
  /\ LET s == call[c].sub
         found == TenantsByUnits(UnitsOf[s]) IN
     IF found = {}
     THEN Fails(c)
     ELSE \E t \in found :
            IF Pending(t, s) # {} THEN Fails(c)
            ELSE Moves(c, [call[c] EXCEPT !.at = "write", !.key = t])

InsertRequest(c) ==
  /\ At(c, "write", "ask")
  /\ LET s == call[c].sub
         t == call[c].key IN
     IF ~HasTenant(t) \/ Pending(t, s) # {}
     THEN Fails(c)
     ELSE /\ \E r \in NewRequest :
               request' = [request EXCEPT ![r] = [status |-> "pending", key |-> t, sub |-> s]]
          /\ Ends(c) /\ UNCHANGED <<user, tenant, unit, born>>

\* Mutant of Decide: a decided request is decided again
DecideAny(c, a, r, op) ==
  /\ IsAdmin(a) /\ request[r].status # "none" /\ request[r].key = user[a].key
  /\ Begins(c, [Idle EXCEPT !.at = "write", !.op = op, !.actor = a, !.req = r,
                            !.sub = request[r].sub, !.key = request[r].key])

\* acc is the account that has the sub already.
Decide(c, a, r, op) ==
  /\ IsAdmin(a) /\ request[r].status = "pending" /\ request[r].key = user[a].key
  /\ \E taken \in IF op = "approve" /\ AccountsOf(request[r].sub) # {}
                  THEN AccountsOf(request[r].sub) ELSE {Null} :
       Begins(c, [Idle EXCEPT !.at = "write", !.op = op, !.actor = a, !.req = r,
                              !.sub = request[r].sub, !.acc = taken, !.key = request[r].key])

\* decided_by refers to the administrator; an update of a vanished row is an error.
Decidable(c) == Exists(call[c].actor) /\ request[call[c].req].status # "gone"

\* Mutant of MarkDecided: the operation is stored instead of the status
MarkOperation(c, status) == request' = [request EXCEPT ![call[c].req].status = call[c].op]

MarkDecided(c, status) == request' = [request EXCEPT ![call[c].req].status = status]

Approve(c) ==
  /\ At(c, "write", "approve")
  /\ LET s == call[c].sub IN
     IF call[c].acc # Null
     THEN IF ~Decidable(c) THEN Fails(c)
          ELSE MarkDecided(c, "approved") /\ Ends(c) /\ UNCHANGED <<user, tenant, unit, born>>
     ELSE /\ ~Uncommitted(c, s)
          /\ IF ~Decidable(c) \/ AccountsOf(s) # {} \/ Named(s) # {}
             THEN Fails(c)
             ELSE /\ \E a \in NewUser : user' = [user EXCEPT ![a] =
                       [role |-> "user", key |-> call[c].key, sub |-> s, password |-> FALSE, name |-> s]]
                  /\ MarkDecided(c, "approved")
                  /\ Ends(c) /\ UNCHANGED <<tenant, unit, born>>

Deny(c) ==
  /\ At(c, "write", "deny")
  /\ IF ~Decidable(c) THEN Fails(c)
     ELSE MarkDecided(c, "denied") /\ Ends(c) /\ UNCHANGED <<user, tenant, unit, born>>

---------------------------------------------------------------------------
(* Linking of a Dodo IS account.  A value equal to the loaded one is not   *)
(* written, so those calls are left out.                                   *)

\* Mutant of StartLink: sso_link does not look at the account's own link
StartLinkOver(c, a, s, op) ==
  /\ Exists(a) /\ user[a].sub # s
  /\ op = "ssolink" => user[a].password
  /\ AccountsOf(s) \subseteq {a}
  /\ Begins(c, [Idle EXCEPT !.at = "write", !.op = op, !.actor = a, !.sub = s])

\* auth_link replaces any link of its own; sso_link wants a password and no other link.
StartLink(c, a, s, op) ==
  /\ Exists(a) /\ user[a].sub # s
  /\ op = "ssolink" => user[a].password /\ user[a].sub = Null
  /\ AccountsOf(s) \subseteq {a}
  /\ Begins(c, [Idle EXCEPT !.at = "write", !.op = op, !.actor = a, !.sub = s])

Link(c) ==
  /\ call[c].at = "write" /\ call[c].op \in {"link", "ssolink"}
  /\ LET s == call[c].sub
         a == call[c].actor IN
     /\ ~Uncommitted(c, s)
     /\ IF ~Exists(a) \/ ~(AccountsOf(s) \subseteq {a})
        THEN Fails(c)
        ELSE user' = [user EXCEPT ![a].sub = s] /\ Ends(c) /\ UNCHANGED <<tenant, unit, request, born>>

\* Mutant of StartUnlink: the password is not looked at
StartAnyUnlink(c, a) ==
  /\ Exists(a) /\ user[a].sub # Null
  /\ Begins(c, [Idle EXCEPT !.at = "write", !.op = "unlink", !.actor = a])

StartUnlink(c, a) ==
  /\ Exists(a) /\ user[a].password /\ user[a].sub # Null
  /\ Begins(c, [Idle EXCEPT !.at = "write", !.op = "unlink", !.actor = a])

Unlink(c) ==
  /\ At(c, "write", "unlink")
  /\ IF ~Exists(call[c].actor)
     THEN Fails(c)
     ELSE /\ user' = [user EXCEPT ![call[c].actor].sub = Null]
          /\ Ends(c) /\ UNCHANGED <<tenant, unit, request, born>>

---------------------------------------------------------------------------
(* Administration of accounts.  Each writes an audit row that refers to    *)
(* the administrator.                                                      *)

CreateUser(c, a, role, t) ==
  /\ IsAdmin(a)
  /\ role = "super_admin" => IsSuper(a)
  /\ IsNetwork(a) => t = user[a].key
  /\ t # Null => HasTenant(t)
  /\ Begins(c, [Idle EXCEPT !.at = "write", !.op = "create", !.actor = a, !.key = t, !.arg = role])

InsertUser(c) ==
  /\ At(c, "write", "create")
  /\ LET t == call[c].key IN
     IF ~Exists(call[c].actor) \/ (t # Null /\ ~HasTenant(t))
     THEN Fails(c)
     ELSE /\ \E a \in NewUser : user' = [user EXCEPT ![a] =
               [role |-> call[c].arg, key |-> t, sub |-> Null, password |-> TRUE, name |-> Null]]
          /\ Ends(c) /\ UNCHANGED <<tenant, unit, request, born>>

\* Mutant of SetRole: the administrator may be the target
SetAnyRole(c, a, b, role) ==
  /\ MayManage(a, b) /\ role # user[b].role
  /\ role = "super_admin" => IsSuper(a)
  /\ Begins(c, [Idle EXCEPT !.at = "write", !.op = "role", !.actor = a, !.acc = b, !.arg = role])

\* A form changes the role or the tenant (Null clears it).
SetRole(c, a, b, role) ==
  /\ MayManage(a, b) /\ role # user[b].role
  /\ a = b => role = "super_admin"
  /\ role = "super_admin" => IsSuper(a)
  /\ Begins(c, [Idle EXCEPT !.at = "write", !.op = "role", !.actor = a, !.acc = b, !.arg = role])

SetKey(c, a, b, t) ==
  /\ MayManage(a, b)
  /\ IsNetwork(a) => t = user[a].key /\ t # Null
  /\ t # Null => HasTenant(t)
  /\ Begins(c, [Idle EXCEPT !.at = "write", !.op = "key", !.actor = a, !.acc = b, !.key = t])

ResetPassword(c, a, b) ==
  /\ MayManage(a, b) /\ ~user[b].password
  /\ Begins(c, [Idle EXCEPT !.at = "write", !.op = "reset", !.actor = a, !.acc = b])

DeleteUser(c, a, b) ==
  /\ MayManage(a, b) /\ a # b
  /\ Begins(c, [Idle EXCEPT !.at = "write", !.op = "delete", !.actor = a, !.acc = b])

\* What the update does to the row of a user that is still there
Updated(c, row) ==
  CASE call[c].op = "role"   -> [row EXCEPT !.role = call[c].arg]
    [] call[c].op = "key"    -> [row EXCEPT !.key = call[c].key]
    [] call[c].op = "reset"  -> [row EXCEPT !.password = TRUE]
    [] call[c].op = "delete" -> [NoUser EXCEPT !.role = "gone"]

UpdateUser(c) ==
  /\ call[c].at = "write" /\ call[c].op \in {"role", "key", "reset", "delete"}
  /\ LET b == call[c].acc
         t == call[c].key IN
     IF ~Exists(call[c].actor) \/ ~Exists(b) \/ (t # Null /\ ~HasTenant(t))
     THEN Fails(c)
     ELSE user' = [user EXCEPT ![b] = Updated(c, user[b])] /\ Ends(c) /\ UNCHANGED <<tenant, unit, request, born>>

---------------------------------------------------------------------------
(* Administration of tenants and of the units they hold *)

AtOnce(c) == Arrives(c) /\ UNCHANGED call

CreateKey(c, a) ==
  /\ IsSuper(a)
  /\ AtOnce(c)
  /\ \E t \in NewTenant : tenant' = [tenant EXCEPT ![t] = [is |-> "live", name |-> Null]]
  /\ UNCHANGED <<user, unit, request, born>>

RenameKey(c, a, t) ==
  /\ IsSuper(a) /\ HasTenant(t) /\ tenant[t].name # Null
  /\ AtOnce(c)
  /\ tenant' = [tenant EXCEPT ![t].name = Null]
  /\ UNCHANGED <<user, unit, request, born>>

\* The count of its users is read first, and must be zero.
CountUsers(c, a, t) ==
  /\ IsSuper(a) /\ HasTenant(t)
  /\ {b \in Accounts : user[b].key = t} = {}
  /\ Begins(c, [Idle EXCEPT !.at = "write", !.op = "drop", !.actor = a, !.key = t])

\* Foreign keys: users are set NULL, rows of the tenant are deleted.
DeleteKey(c) ==
  /\ At(c, "write", "drop")
  /\ LET t == call[c].key IN
     /\ tenant' = [tenant EXCEPT ![t] = [is |-> "gone", name |-> Null]]
     /\ unit' = [unit EXCEPT ![t] = [u \in Units |-> "none"]]
     /\ user' = [b \in Accounts |-> IF user[b].key = t THEN [user[b] EXCEPT !.key = Null] ELSE user[b]]
     /\ request' = [r \in Requests |-> IF request[r].key = t THEN [NoRequest EXCEPT !.status = "gone"]
                                       ELSE request[r]]
     /\ born' = [born EXCEPT ![t] = {}]
  /\ Ends(c)

\* The key is tried at PlanFact before it is written.
TryPlanFact(c, a) ==
  /\ IsAdmin(a) /\ user[a].key # Null
  /\ Begins(c, [Idle EXCEPT !.at = "write", !.op = "connect", !.actor = a, !.key = user[a].key])

\* Lite to full: the rows provisioning made are deleted.
ConnectPlanFact(c) ==
  /\ At(c, "write", "connect")
  /\ LET t == call[c].key IN
     IF ~HasTenant(t)
     THEN Fails(c)
     ELSE /\ unit' = [unit EXCEPT ![t] = [u \in Units |->
               IF unit[t][u] \in {"lite", "liteoff"} THEN "none" ELSE unit[t][u]]]
          /\ Ends(c) /\ UNCHANGED <<user, tenant, request, born>>

\* A row is switched on and off; a full tenant links a project to a unit its owner sees.
Flipped(h) ==
  CASE h = "lite" -> "liteoff" [] h = "liteoff" -> "lite"
    [] h = "linked" -> "linkedoff" [] h = "linkedoff" -> "linked"

EditUnit(c, a, t, u) ==
  /\ MayEdit(a, t) /\ HasTenant(t)
  /\ AtOnce(c)
  /\ \/ /\ unit[t][u] # "none"
        /\ unit' = [unit EXCEPT ![t][u] = Flipped(unit[t][u])]
     \/ /\ unit[t][u] = "none"
        /\ IsSuper(a) \/ \E s \in TokenSub(a) : u \in UnitsOf[s]
        /\ unit' = [unit EXCEPT ![t][u] = "linked"]
     \/ /\ unit[t][u] \in {"linked", "linkedoff"}
        /\ unit' = [unit EXCEPT ![t][u] = "none"]
  /\ UNCHANGED <<user, tenant, request, born>>

---------------------------------------------------------------------------

Start(c) ==
  \/ \E s \in Subs : SignIn(c, s) \/ AskAccess(c, s)
  \/ \E a \in Accounts :
       \/ StartUnlink(c, a) \/ CreateKey(c, a) \/ TryPlanFact(c, a)
       \/ \E r \in Requests, op \in {"approve", "deny"} : Decide(c, a, r, op)
       \/ \E s \in Subs, op \in {"link", "ssolink"} : StartLink(c, a, s, op)
       \/ \E role \in Roles, t \in Tenants \cup {Null} : CreateUser(c, a, role, t)
       \/ \E b \in Accounts :
            \/ ResetPassword(c, a, b) \/ DeleteUser(c, a, b)
            \/ \E role \in Roles : SetRole(c, a, b, role)
            \/ \E t \in Tenants \cup {Null} : SetKey(c, a, b, t)
       \/ \E t \in Tenants : RenameKey(c, a, t) \/ CountUsers(c, a, t) \/ \E u \in Units : EditUnit(c, a, t, u)

Step(c) ==
  \/ Resolve(c) \/ InsertOwner(c) \/ CommitOwner(c)
  \/ FindNetwork(c) \/ InsertRequest(c) \/ Approve(c) \/ Deny(c)
  \/ Link(c) \/ Unlink(c) \/ InsertUser(c) \/ UpdateUser(c)
  \/ DeleteKey(c) \/ ConnectPlanFact(c)

\* Every handler was started that may start, and ended.
Done == left = 0 /\ Active = {} /\ UNCHANGED accessVars

\* Any await may fail: Dodo IS, PlanFact, the database, a client that hangs up.
AccessNext == (\E c \in Calls : Start(c) \/ Step(c) \/ Fails(c)) \/ Done

AccessSpec == AccessInit /\ [][AccessNext]_accessVars

\* Dodo IS and the database answer or fail in bounded time (timeouts of the clients).
FairSpec == AccessSpec /\ \A c \in Calls : WF_accessVars(Step(c))

---------------------------------------------------------------------------
(* Properties *)

UserRows == [role : Roles \cup {"none", "gone"}, key : Tenants \cup {Null}, sub : Subs \cup {Null},
          password : BOOLEAN, name : Subs \cup {Null}]
KeyRows == [is : {"none", "live", "gone"}, name : Subs \cup {Null}]
RequestRows == [status : {"none", "pending", "approved", "denied", "gone"},
                key : Tenants \cup {Null}, sub : Subs \cup {Null}]
Records == [at : {"idle", "units", "insert", "names", "write"},
            op : {"", "sso", "ask", "approve", "deny", "link", "ssolink", "unlink", "create",
                  "role", "key", "reset", "delete", "drop", "connect"},
            actor : Accounts \cup {Null}, acc : Accounts \cup {Null}, key : Tenants \cup {Null},
            sub : Subs \cup {Null}, req : Requests \cup {Null}, arg : Roles \cup {""}]

AccessTypeOK ==
  /\ user \in [Accounts -> UserRows]
  /\ tenant \in [Tenants -> KeyRows]
  /\ unit \in [Tenants -> [Units -> {"none", "lite", "liteoff", "linked", "linkedoff"}]]
  /\ request \in [Requests -> RequestRows]
  /\ call \in [Calls -> Records]
  /\ left \in 0..Budget
  /\ alone \in [Calls -> BOOLEAN]
  /\ born \in [Tenants -> SUBSET Units]

\* Every account can sign in: it has a password or is linked to Dodo IS.
\* Links, unlinks and password resets of one account overlap (auth_unlink).
CanSignIn == \A a \in Accounts : Exists(a) => user[a].password \/ user[a].sub # Null

Finishes(c) == call[c].at # "idle" /\ call'[c].at = "idle"

\* A decision about a request is final ("or already processed" of the two handlers),
\* except where two administrators decide side by side.
DecidedOnce ==
  [][\A r \in Requests :
       /\ request[r].status \in {"approved", "denied"}
       /\ request'[r].status # request[r].status
       => \/ request'[r].status = "gone"
          \/ \E c \in Calls : Finishes(c) /\ call[c].req = r /\ ~alone[c]]_accessVars

\* A link to Dodo IS is replaced only by its own account's wish: its link or unlink.
\* sso_link, which refuses a linked account, does it only when another call ran beside it.
LinksStick ==
  [][\A a \in Accounts :
       /\ user[a].sub # Null /\ user'[a].sub # user[a].sub
       /\ user'[a].role # "gone"
       => \E c \in Calls : /\ Finishes(c) /\ call[c].actor = a
                           /\ call[c].op = "ssolink" => ~alone[c]]_accessVars

\* The service never loses its last super admin to one call alone: no handler lets
\* a super admin demote or delete itself, and each trusts the caller to remain one.
LastSuperAdmin ==
  [][(\E a \in Accounts : IsSuper(a)) /\ ~(\E a \in Accounts : IsSuper(a))'
     => \E c \in Calls : Finishes(c) /\ ~alone[c]]_accessVars

\* A sign-in that no other call overlaps makes no second tenant for pizzerias that
\* some tenant holds (the lookup by units in get_or_provision_user).
NetworksAreNotDoubled ==
  [][\A c \in Calls : Finishes(c) /\ call[c].at = "names" /\ alone[c] /\ born' # born
       => \A o \in Tenants : Held(o, born'[call[c].key]) = {}]_accessVars

\* Every handler ends, those that wait for another's uncommitted row too.
CallsEnd == \A c \in Calls : (call[c].at # "idle") ~> (call[c].at = "idle")

=============================================================================
