---------------------------- MODULE FiguresParts ----------------------------
(***************************************************************************)
(* The figures side by side: the board's windows, the template under saves *)
(* that overlap, the figures of a month over its template, and the         *)
(* targets.  A behaviour runs one of them (part), the others stay where    *)
(* they start.  The template alone and the month over it share its         *)
(* variables, but each has trees, saves and changes of its own, so that    *)
(* each is run where its own cases happen.                                 *)
(***************************************************************************)
EXTENDS BoardWindows, PnlFigures, Targets

CONSTANTS
  FirstMoment,     \* the moment of the parts that do not look at the clock
  TemplateInputs,  \* of each part: the trees, how many saves at once, and how
  MonthInputs      \* many changes (bound)

ASSUME FiguresPartsAssumption == FirstMoment \in Moments

VARIABLE part

windowsState == <<now, kept, history, payload, builds>>
targetsState == <<targets, edits>>

\* A step that uses the inputs of its part only.
Within(inputs) ==
  /\ \A a \in Admins : saving'[a].tree \in inputs.trees \union {<<>>}
  /\ Cardinality({a \in Admins : saving'[a] # Idle}) <= inputs.atOnce
  /\ saves' <= inputs.saves

FiguresPartsInit ==
  /\ part \in {"windows", "template", "month", "targets"}
  /\ Init /\ (part # "windows" => now = FirstMoment)
  /\ FiguresInit /\ TargetsInit

FiguresPartsNext ==
  /\ UNCHANGED part
  /\ \/ /\ part = "windows" /\ Next
        /\ UNCHANGED <<figuresVars, targetsState>>
     \/ /\ part = "template" /\ TemplateNext /\ Within(TemplateInputs)
        /\ UNCHANGED <<metrics, parts, snapshot, windowsState, targetsState>>
     \/ /\ part = "month" /\ FiguresNext /\ Within(MonthInputs)
        /\ UNCHANGED <<windowsState, targetsState>>
     \/ /\ part = "targets" /\ TargetsNext
        /\ UNCHANGED <<windowsState, figuresVars>>

FiguresPartsSpec ==
  FiguresPartsInit
    /\ [][FiguresPartsNext]_<<part, windowsState, figuresVars, targetsState>>

\* The types of all parts.
TypesOK == TypeOK /\ FiguresTypeOK /\ TargetsTypeOK
=============================================================================
