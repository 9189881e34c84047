---------------------------- MODULE SessionLife ----------------------------
(***************************************************************************)
(* What sessions promise (auth/sessions.py): one starts at a login, is     *)
(* renewed while it lives and never past its ceiling, requests enter with  *)
(* it only before it expires, and once removed it never comes back.        *)
(***************************************************************************)
EXTENDS Naturals

CONSTANTS Tokens, Ttl, Ceiling

VARIABLES
  life,    \* of every token: state, born, exp
  inside,  \* of every token: the requests that entered with it
  now

vars == <<life, inside, now>>

Init ==
  /\ life = [t \in Tokens |-> [state |-> "none", born |-> 0, exp |-> 0]]
  /\ inside = [t \in Tokens |-> {}]
  /\ now = 0

Start(t) ==
  /\ life[t].state = "none"
  /\ life'[t] = [state |-> "live", born |-> now, exp |-> now + Ttl]

Renew(t) ==
  /\ life[t].state = "live"
  /\ life'[t] = [life[t] EXCEPT !.exp = life'[t].exp]
  /\ life'[t].exp <= now + Ttl /\ life'[t].exp <= life[t].born + Ceiling

Remove(t) ==
  /\ life[t].state = "live"
  /\ life'[t].state = "gone"

\* Requests leave at any time; they enter with a session that lives and has not expired.
Enter(t) == life[t].state = "live" /\ now < life[t].exp

Next ==
  /\ now' \in {now, now + 1}
  /\ \A t \in Tokens :
       /\ life'[t] = life[t] \/ Start(t) \/ Renew(t) \/ Remove(t)
       /\ inside'[t] \subseteq inside[t] \/ Enter(t)

Spec == Init /\ [][Next]_vars
=============================================================================
