------------------------------- MODULE MCLive -------------------------------
(***************************************************************************)
(* What must end: the request for a month, the pull of the operational     *)
(* metrics and the fetch of a ledger.  They share no state here: a         *)
(* behaviour runs one of them (part), the others stay where they start.    *)
(*                                                                         *)
(* The fetch has three days, so that a half is cut again, and two          *)
(* projects.  An operation is not entered or deleted, lies on one day of   *)
(* one project, or belongs to both projects and lies on both sides of a    *)
(* cut; the third may be cut off, and two on different days fill a page    *)
(* that its halves complete.  Once ended the fetch begins anew, with what  *)
(* the cache has kept.                                                     *)
(***************************************************************************)
EXTENDS OperationsFetch

CONSTANTS NoRow, NoKey, NoUser

VARIABLES
  part,
  current, window, months, snapshot, structSaved, lru, req, refreshing, clicked,
  keyOf, inflight, sync, row, faults

At(p, d) == [project |-> p, day |-> d]

Across == {{}, {At(1, 1)}, {At(2, 2)}, {At(1, 2), At(2, 3)}}

All  == [asked |-> {}, from |-> 1, to |-> LastDay]
Both == [asked |-> Projects, from |-> 2, to |-> 2]
TwoWays == {All, Both}

\* One request for one month, on the v2 path.
P == INSTANCE PnlSnapshot
       WITH Users <- {"u1"}, Requests <- {"r1"}, Methods <- {"accrual"}, Source <- "v2",
            LastMonth <- 1, MaxCurrent <- 2, MaxWindow <- 1, MaxEdits <- 1,
            ledger <- months

\* One pull of one call and the calls whose answers are rates, with everything
\* that may go wrong.
S == INSTANCE OpsSync
       WITH Users <- {"u1"}, PfKeys <- {"k1", "k2"}, Syncs <- {"s1"},
            First <- {"productivity"},
            Later <- <<"finance-monthly", "stock-consumptions">>,
            FaultSets <- {{"restart", "reassign", "warmup", "database"}}

\* One operation is there, one is not, the third is not or lies across.
Beginning ==
  /\ ledger[1] = {At(1, 1)} /\ ledger[2] = {}
  /\ ledger[3] \in {{}, {At(1, 2), At(2, 3)}}

requestState == <<current, window, months, snapshot, structSaved, lru, req,
                  refreshing, clicked>>
pullState  == <<keyOf, inflight, sync, row, faults>>
fetchState == <<ledger, edits, fetch, node, now, cache, edited>>

LiveInit ==
  /\ part \in {"request", "pull", "fetch"}
  /\ P!Init /\ S!Init /\ Init /\ Beginning
  /\ part # "fetch" => ledger[3] = {}
  /\ part # "pull"  => keyOf["u1"] = "k1"

LiveNext ==
  /\ UNCHANGED part
  /\ \/ part = "request" /\ P!Next /\ UNCHANGED <<pullState, fetchState>>
     \/ part = "pull"    /\ S!Next /\ UNCHANGED <<requestState, fetchState>>
     \/ part = "fetch"   /\ Next   /\ UNCHANGED <<requestState, pullState>>

LiveSpec ==
  /\ LiveInit /\ [][LiveNext]_<<part, requestState, pullState, fetchState>>
  /\ WF_requestState(part = "request" /\ P!RequestStep("r1"))
  /\ WF_pullState(part = "pull" /\ S!SyncStep("s1"))
  /\ \A f \in Fetches : WF_fetchState(part = "fetch" /\ FetchStep(f))

\* The properties of the request and the pull.
EveryCallIsAnswered == P!EveryCallIsAnswered
SyncEnds            == S!SyncEnds
=============================================================================
