---------------------------- MODULE JobLifecycle ----------------------------
(***************************************************************************)
(* What the job queue promises about one job, whatever loops, storage and  *)
(* callers do: a submitted job waits, is claimed by the queue, is run, and *)
(* either waits for another try or is settled.  A settled job stays        *)
(* settled, and no job is tried more than MaxRetries + 1 times.            *)
(***************************************************************************)
EXTENDS Integers

CONSTANTS Jobs, MaxRetries

VARIABLES
    phase, \* where each job is in its life
    tries  \* how many times each job has been run

lifeVars == <<phase, tries>>

Move(j, from, to) ==
    /\ phase[j] = from
    /\ phase' = [phase EXCEPT ![j] = to]

\* A submitted job may be claimed at once: the submission starts the queue.
Submit(j) == Move(j, "new", "waiting") /\ UNCHANGED tries

Claim(j) == Move(j, "waiting", "claimed") /\ UNCHANGED tries

Run(j) ==
    /\ Move(j, "claimed", "running")
    /\ tries[j] <= MaxRetries[j]
    /\ tries' = [tries EXCEPT ![j] = @ + 1]

\* There is no handler for the job.
Drop(j) == Move(j, "claimed", "settled") /\ UNCHANGED tries

\* The queue goes on to the next job in the step that takes up the last one.
RunAndClaim(i, j) ==
    /\ i # j
    /\ phase[i] = "claimed"
    /\ phase[j] = "waiting"
    /\ \/ /\ phase' = [phase EXCEPT ![i] = "running", ![j] = "claimed"]
          /\ tries[i] <= MaxRetries[i]
          /\ tries' = [tries EXCEPT ![i] = @ + 1]
       \/ /\ phase' = [phase EXCEPT ![i] = "settled", ![j] = "claimed"]
          /\ UNCHANGED tries

Retry(j) ==
    /\ tries[j] <= MaxRetries[j]
    /\ Move(j, "running", "waiting")
    /\ UNCHANGED tries

Settle(j) == Move(j, "running", "settled") /\ UNCHANGED tries

\* Only a job that waits can be withdrawn for sure.
Withdraw(j) == Move(j, "waiting", "settled") /\ UNCHANGED tries

LifeInit ==
    /\ phase = [j \in Jobs |-> "new"]
    /\ tries = [j \in Jobs |-> 0]

LifeNext ==
    \/ \E j \in Jobs : \/ Submit(j) \/ Claim(j) \/ Run(j) \/ Drop(j)
                       \/ Retry(j) \/ Settle(j) \/ Withdraw(j)
    \/ \E i, j \in Jobs : RunAndClaim(i, j)

Spec == LifeInit /\ [][LifeNext]_lifeVars

=============================================================================
