------------------------------ MODULE Targets ------------------------------
(***************************************************************************)
(* Targets of one PlanFact key (app/store.py, app/main.py): of lines of    *)
(* the P&L and of operational metrics, for the network or for a project,   *)
(* in general or for one month.  The four tables are one, keyed by         *)
(* [kind, project, code, month]; Network and Always stand for the rows of  *)
(* no project and of period __default__.                                   *)
(***************************************************************************)
EXTENDS Integers, FiniteSetsExt, Tables

CONSTANTS
  Units,      \* the projects of the key
  Codes,      \* the metrics with targets
  Months,     \* the months targets are set for
  Network, Always,
  Values,     \* values of a target
  MaxEdits    \* bound: changes made

ASSUME TargetsAssumption ==
  /\ Network \notin Units /\ Always \notin Months
  /\ MaxEdits \in Nat

\* The P&L and the operational metrics.
Kinds == {"pnl", "ops"}

Key == [kind : Kinds, project : Units \union {Network}, code : Codes,
        month : Months \union {Always}]

VARIABLES targets, edits

targetVars == <<targets, edits>>

TargetsInit == targets = <<>> /\ edits = 0

Edited == edits < MaxEdits /\ edits' = edits + 1

TargetRow(kind, project, code, month) ==
  [kind |-> kind, project |-> project, code |-> code, month |-> month]

Upsert(k, v) ==
  /\ Edited
  /\ targets' = Put(targets, k, v)

Delete(k) ==
  /\ k \in DOMAIN targets
  /\ Edited
  /\ targets' = [q \in DOMAIN targets \ {k} |-> targets[q]]

\* The endpoints, for lines of the P&L and for operational metrics, of a
\* project and of the network.
UpsertTarget(p, c, month, v)           == Upsert(TargetRow("pnl", p, c, month), v)
DeleteTarget(p, c, month)              == Delete(TargetRow("pnl", p, c, month))
UpsertDefaultTarget(c, month, v)       == Upsert(TargetRow("pnl", Network, c, month), v)
DeleteDefaultTarget(c, month)          == Delete(TargetRow("pnl", Network, c, month))
UpsertOpsTarget(c, month, v)           == Upsert(TargetRow("ops", Network, c, month), v)
DeleteOpsTarget(c, month)              == Delete(TargetRow("ops", Network, c, month))
UpsertOpsProjectTarget(p, c, month, v) == Upsert(TargetRow("ops", p, c, month), v)
DeleteOpsProjectTarget(p, c, month)    == Delete(TargetRow("ops", p, c, month))

RowsOf(month) == {k \in DOMAIN targets : k.month = month}

\* Mutant of Copied: the loops over projects are left out.
CopiedOfNetwork(from) == {k \in RowsOf(from) : k.project = Network}

\* What is copied of a month: network and projects, of both kinds.
Copied(from) == RowsOf(from)

\* POST /api/targets/copy: the rows of a month are written over another's,
\* whose other rows stay.
CopyTargets(from, to) ==
  /\ from # to
  /\ Edited
  /\ targets' = [q \in {[k EXCEPT !.month = to] : k \in Copied(from)} |->
                    targets[[q EXCEPT !.month = from]]] ++ targets

-----------------------------------------------------------------------------
\* The rows a target is looked up in: the project's before the network's, of
\* each the month's before the general one.
RowsFor(kind, project, code, month) ==
  <<TargetRow(kind, project, code, month), TargetRow(kind, project, code, Always),
    TargetRow(kind, Network, code, month), TargetRow(kind, Network, code, Always)>>

\* The target in force, as a set: effective_targets_for_period and
\* effective_ops_targets_for_period, read by build_pnl.
TargetOf(kind, project, code, month) ==
  LET rows  == RowsFor(kind, project, code, month)
      found == {i \in DOMAIN rows : rows[i] \in DOMAIN targets}
  IN IF found = {} THEN {} ELSE {targets[rows[Min(found)]]}

-----------------------------------------------------------------------------
TargetsNext ==
  \/ \E c \in Codes, month \in Months \union {Always} :
        \/ DeleteDefaultTarget(c, month)
        \/ DeleteOpsTarget(c, month)
        \/ \E p \in Units : \/ DeleteTarget(p, c, month)
                            \/ DeleteOpsProjectTarget(p, c, month)
        \/ \E v \in Values : \/ UpsertDefaultTarget(c, month, v)
                             \/ UpsertOpsTarget(c, month, v)
                             \/ \E p \in Units : \/ UpsertTarget(p, c, month, v)
                                                 \/ UpsertOpsProjectTarget(p, c, month, v)
  \/ \E from, to \in Months \union {Always} : CopyTargets(from, to)

TargetsSpec == TargetsInit /\ [][TargetsNext]_targetVars

-----------------------------------------------------------------------------
TargetsTypeOK ==
  /\ DOMAIN targets \subseteq Key
  /\ \A k \in DOMAIN targets : targets[k] \in Values
  /\ edits \in 0..MaxEdits

\* After a copy over a month that has no row the copied one lacks, every
\* pizzeria has there the targets of the copied month, those it falls back on
\* included.
CopiedMonthFollows ==
  [][\A from, to \in Months \union {Always} :
       ( /\ CopyTargets(from, to)
         /\ \A k \in RowsOf(to) : [k EXCEPT !.month = from] \in DOMAIN targets )
       => \A kind \in Kinds, p \in Units, c \in Codes :
            TargetOf(kind, p, c, to)' = TargetOf(kind, p, c, from)]_targetVars
=============================================================================
