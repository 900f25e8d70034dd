--------------------------- MODULE MCJobsPackage ---------------------------
(* Instances of JobQueue and JobScheduler for TLC.  Of the queue the         *)
(* scheduler sees only that it takes a job or does not, so a behaviour       *)
(* belongs to one of the two, chosen at first.                               *)
EXTENDS MCJobQueue, JobScheduler

VARIABLE part

allVars == <<vars, schedVars, part>>

JobsInit == Init /\ SchedInit /\ part \in {"queue", "scheduler"}

JobsNext ==
    \/ part = "queue" /\ Next /\ UNCHANGED <<schedVars, part>>
    \/ part = "scheduler" /\ SchedNext /\ UNCHANGED <<vars, part>>

\* The fairness of a part asks for nothing where the part does not run: there
\* its variables keep their initial values, in which no fair action is enabled.
JobsSpec == JobsInit /\ [][JobsNext]_allVars /\ Fairness /\ SchedFairness

CONSTANT j1

=============================================================================
