----------------------------- MODULE MCTaskAlerts -----------------------------
(* TaskAlerts on a small instance: one error code that comes as a rejection   *)
(* of the warning tier, as a permanent failure and as a passing one, and a    *)
(* task that only says it has no result.                                      *)
EXTENDS TaskAlerts

MCErrors ==
    {[kind |-> "permanent", code |-> "c", tier |-> "warning"],
     [kind |-> "permanent", code |-> "c", tier |-> "critical"],
     [kind |-> "transient", code |-> "c", tier |-> "critical"],
     [kind |-> "noresult", code |-> "n", tier |-> "below"]}

MCCancelled == [kind |-> "cancelled", code |-> "cancelled", tier |-> "critical"]
=============================================================================
