----------------------------- MODULE MCOpsSync -----------------------------
(***************************************************************************)
(* One pull with all its calls, for TLC.                                   *)
(***************************************************************************)
EXTENDS OpsSync

AllLater == <<"incentives", "finance-monthly", "stock-consumptions",
              "rating-history", "customer-ratings">>
=============================================================================
