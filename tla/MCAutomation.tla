---------------------------- MODULE MCAutomation ----------------------------
(* An update rule that goes before a cron rule, for TLC. *)
EXTENDS Automation

CONSTANTS onUpdate, onCron

MCTriggerType == [r \in Rules |-> IF r = onCron THEN "scheduled" ELSE "object.update"]
MCPriority == [r \in Rules |-> IF r = onCron THEN 0 ELSE 1]

=============================================================================
