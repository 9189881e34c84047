------------------------------- MODULE MCAuth -------------------------------
(***************************************************************************)
(* For TLC, the modules of a request's way in: accounts, sessions,         *)
(* licences, the limiter of logins.  They share no state.  A behaviour     *)
(* runs one of them (part); the others stay where they start, so that each *)
(* is checked alone.                                                       *)
(***************************************************************************)
EXTENDS Access, Sessions, Licence, LoginLimiter

ASSUME PartsAssumption ==
  AccessAssumption /\ SessionsAssumption /\ LicenceAssumption /\ LimiterAssumption

\* Two colleagues of one network, both with its licences.
SameNetwork == [s \in Subs |-> Units]

VARIABLE part

parts == <<part, accessVars, vars, licenceVars, limiterVars>>

PartsInit ==
  /\ part \in {"access", "sessions", "licence", "limiter"}
  /\ AccessInit /\ (part # "access" => Installed)
  /\ Init /\ LicenceInit /\ LimiterInit

PartsNext ==
  /\ UNCHANGED part
  /\ \/ part = "access"   /\ AccessNext  /\ UNCHANGED <<vars, licenceVars, limiterVars>>
     \/ part = "sessions" /\ Next        /\ UNCHANGED <<accessVars, licenceVars, limiterVars>>
     \/ part = "licence"  /\ LicenceNext /\ UNCHANGED <<accessVars, vars, limiterVars>>
     \/ part = "limiter"  /\ LimiterNext /\ UNCHANGED <<accessVars, vars, licenceVars>>

PartsSpec == PartsInit /\ [][PartsNext]_parts /\ \A c \in Calls : WF_accessVars(Step(c))

\* The types of all parts: accounts, sessions, licences, the limiter.
TypesOK == AccessTypeOK /\ TypeOK /\ LicenceTypeOK /\ LimiterTypeOK
=============================================================================
