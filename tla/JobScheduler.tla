---------------------------- MODULE JobScheduler ----------------------------
(***************************************************************************)
(* The cron scheduler of packages/jobs (scheduler.ts) over an asynchronous *)
(* job storage.  Each second an interval checks the storage for scheduled  *)
(* jobs that are due, hands one execution of each to the queue and moves   *)
(* its next run on.  A check that takes longer than a second overlaps with *)
(* the next one; the calls of the API read, await and write in between.    *)
(*                                                                         *)
(* A cron expression is its period, which is how the code uses cron-parser *)
(* (external): the next run is the first multiple after the present time.  *)
(***************************************************************************)
EXTENDS Integers, FiniteSets

CONSTANTS
    SchedJobs, \* ids of the jobs that may be scheduled
    Crons,     \* the periods that cron expressions stand for
    Checks,    \* bound: checks that may be in flight at the same time
    MaxTime    \* bound: the clock stops there

ASSUME SchedAssumption ==
    /\ Crons \subseteq Nat \ {0} /\ Crons # {}
    /\ IsFiniteSet(Checks)
    /\ MaxTime \in Nat

VARIABLES
    clock,
    schedule,  \* the storage: status, cron expression and next run of each job
    ticking,   \* running, with the interval that goes with it
    check,     \* check -> the due jobs it has read and has not executed, and
               \* the next run it is about to save for one of them
    edit,      \* job -> the call of the API under way for it
    fired,     \* history: <<job, next run>> pairs handed to the queue
    firedTwice,
    disturbed, \* history: jobs read by two checks at once, or edited
    unsaved    \* history: jobs whose next run could not be saved

schedVars == <<clock, schedule, ticking, check, edit, fired, firedTwice, disturbed, unsaved>>

NoCheck == [due |-> {}, saving |-> {}]
NoEdit == [kind |-> "none"]

\* Mutant: the present moment counts as the next run.
NextRunNow(c, t) == ((t + c - 1) \div c) * c

\* getNextRunTime: strictly after the present time.
NextRun(c, t) == (t \div c + 1) * c

\* getScheduledDue: copies of the scheduled jobs whose next run has come.
Due == {[job |-> j, cron |-> schedule[j].cron, at |-> schedule[j].nextRun] :
           j \in {i \in SchedJobs : /\ schedule[i].status = "scheduled"
                                    /\ schedule[i].nextRun <= clock}}

\* The jobs a check has still to execute or to save.
Holds(k) == {d.job : d \in check[k].due \union check[k].saving}

-----------------------------------------------------------------------------
(* The interval and its checks *)

SchedTick ==
    /\ clock < MaxTime
    /\ clock' = clock + 1
    /\ UNCHANGED <<schedule, ticking, check, edit, fired, firedTwice, disturbed, unsaved>>

\* The interval fires and the check reads the due jobs. One that finds none,
\* or fails to read, changes nothing.
IntervalFires(k) ==
    /\ ticking
    /\ check[k] = NoCheck /\ Due # {}
    /\ check' = [check EXCEPT ![k].due = Due]
    /\ disturbed' = disturbed \union {d.job : d \in {e \in Due :
                        \E l \in Checks : e.job \in Holds(l)}}
    /\ UNCHANGED <<clock, schedule, ticking, edit, fired, firedTwice, unsaved>>

\* executeScheduledJob: the execution is enqueued; the next run follows from
\* the copy's cron expression.
ExecuteDue(k, d) ==
    /\ check[k].saving = {}
    /\ d \in check[k].due
    /\ check' = [check EXCEPT ![k].due = @ \ {d},
                              ![k].saving = {[job |-> d.job, at |-> NextRun(d.cron, clock)]}]
    /\ firedTwice' = firedTwice \union ({<<d.job, d.at>>} \intersect fired)
    /\ fired' = fired \union {<<d.job, d.at>>}
    /\ UNCHANGED <<clock, schedule, ticking, edit, disturbed, unsaved>>

\* Mutant: the next run is saved although the execution was refused.
EnqueueFailsMovesOn(k, d) ==
    /\ check[k].saving = {}
    /\ d \in check[k].due
    /\ check' = [check EXCEPT ![k].due = @ \ {d},
                              ![k].saving = {[job |-> d.job, at |-> NextRun(d.cron, clock)]}]
    /\ UNCHANGED <<clock, schedule, ticking, edit, fired, firedTwice, disturbed, unsaved>>

\* The queue has no handler for the job, or could not save it: logged, and
\* the check goes on to the next job.
EnqueueFails(k, d) ==
    /\ check[k].saving = {}
    /\ d \in check[k].due
    /\ check' = [check EXCEPT ![k].due = @ \ {d}]
    /\ UNCHANGED <<clock, schedule, ticking, edit, fired, firedTwice, disturbed, unsaved>>

\* The next run is written, whatever became of the job since it was read.
SaveNextRun(k) ==
    \E s \in check[k].saving :
        /\ schedule' = [schedule EXCEPT ![s.job].nextRun = s.at]
        /\ check' = [check EXCEPT ![k].saving = {}]
        /\ UNCHANGED <<clock, ticking, edit, fired, firedTwice, disturbed, unsaved>>

\* The write fails, which is logged.
SaveFails(k) ==
    \E s \in check[k].saving :
        /\ unsaved' = unsaved \union {s.job}
        /\ check' = [check EXCEPT ![k].saving = {}]
        /\ UNCHANGED <<clock, schedule, ticking, edit, fired, firedTwice, disturbed>>

-----------------------------------------------------------------------------
(* The API *)

\* scheduleJob up to its save, with the next run of now.
ScheduleJob(j, c) ==
    /\ edit[j] = NoEdit
    /\ edit' = [edit EXCEPT ![j] = [kind |-> "schedule", cron |-> c, at |-> NextRun(c, clock)]]
    /\ UNCHANGED <<clock, schedule, ticking, check, fired, firedTwice, disturbed, unsaved>>

\* The save is done, over whatever the id held; the scheduler is started if it
\* does not run.
ScheduleSaved(j) ==
    /\ edit[j].kind = "schedule"
    /\ schedule' = [schedule EXCEPT ![j] = [status |-> "scheduled", cron |-> edit[j].cron,
                                            nextRun |-> edit[j].at]]
    /\ ticking' = TRUE
    /\ edit' = [edit EXCEPT ![j] = NoEdit]
    /\ disturbed' = disturbed \union {i \in {j} : schedule[i].status # "none"}
    /\ UNCHANGED <<clock, check, fired, firedTwice, unsaved>>

\* unscheduleJob and updateSchedule read the job and test its status ...
Unschedule(j) ==
    /\ edit[j] = NoEdit /\ schedule[j].status = "scheduled"
    /\ edit' = [edit EXCEPT ![j] = [kind |-> "unschedule"]]
    /\ UNCHANGED <<clock, schedule, ticking, check, fired, firedTwice, disturbed, unsaved>>

UpdateSchedule(j, c) ==
    /\ edit[j] = NoEdit /\ schedule[j].status = "scheduled"
    /\ edit' = [edit EXCEPT ![j] = [kind |-> "update", cron |-> c, at |-> NextRun(c, clock)]]
    /\ disturbed' = disturbed \union {j}
    /\ UNCHANGED <<clock, schedule, ticking, check, fired, firedTwice, unsaved>>

\* ... and write their fields later.
EditSaved(j) ==
    /\ edit[j].kind \in {"unschedule", "update"}
    /\ schedule' = [schedule EXCEPT ![j] =
          IF edit[j].kind = "unschedule" THEN [@ EXCEPT !.status = "cancelled"]
          ELSE [@ EXCEPT !.cron = edit[j].cron, !.nextRun = edit[j].at]]
    /\ edit' = [edit EXCEPT ![j] = NoEdit]
    /\ UNCHANGED <<clock, ticking, check, fired, firedTwice, disturbed, unsaved>>

SchedStart ==
    /\ ~ticking /\ ticking' = TRUE
    /\ UNCHANGED <<clock, schedule, check, edit, fired, firedTwice, disturbed, unsaved>>

\* The interval is cleared; a check in flight goes on.
SchedStop ==
    /\ ticking /\ ticking' = FALSE
    /\ UNCHANGED <<clock, schedule, check, edit, fired, firedTwice, disturbed, unsaved>>

-----------------------------------------------------------------------------
SchedInit ==
    /\ clock = 0 /\ ticking = FALSE
    /\ schedule = [j \in SchedJobs |-> [status |-> "none", cron |-> 1, nextRun |-> 0]]
    /\ check = [k \in Checks |-> NoCheck]
    /\ edit = [j \in SchedJobs |-> NoEdit]
    /\ fired = {} /\ firedTwice = {} /\ disturbed = {} /\ unsaved = {}

CheckNext(k) ==
    \/ IntervalFires(k) \/ SaveNextRun(k) \/ SaveFails(k)
    \/ \E d \in check[k].due : ExecuteDue(k, d) \/ EnqueueFails(k, d)

ApiNext(j) ==
    \/ \E c \in Crons : ScheduleJob(j, c) \/ UpdateSchedule(j, c)
    \/ ScheduleSaved(j) \/ Unschedule(j) \/ EditSaved(j)

SchedNext ==
    \/ SchedTick \/ SchedStart \/ SchedStop
    \/ \E k \in Checks : CheckNext(k)
    \/ \E j \in SchedJobs : ApiNext(j)

\* The interval fires and storage calls end. An enqueue that is tried again
\* and again succeeds at last.
SchedFairness ==
    \A k \in Checks :
        /\ WF_schedVars(CheckNext(k))
        /\ \A j \in SchedJobs : SF_schedVars(\E d \in check[k].due : d.job = j /\ ExecuteDue(k, d))

SchedSpec == SchedInit /\ [][SchedNext]_schedVars /\ SchedFairness

-----------------------------------------------------------------------------
(* Properties *)

\* A next run of a job is handed to the queue once, however its checks, its
\* calls and the clock interleave, unless two checks held the job at once, its
\* schedule was edited, or its new next run could not be saved
\* (scheduler.ts:150-171).
OncePerOccurrence == \A f \in firedTwice : f[1] \in disturbed \union unsaved

\* A job that comes due while the scheduler runs is handed to the queue for
\* that very run, also after refusals, unless the scheduler or the job is
\* stopped or disturbed (scheduler.ts:135-175).
Waiting(j, t) ==
    /\ ticking /\ j \notin disturbed
    /\ schedule[j].status = "scheduled" /\ schedule[j].nextRun = t /\ t <= clock

EveryOccurrenceRuns ==
    \A j \in SchedJobs : \A t \in 1..MaxTime :
        Waiting(j, t) ~> \/ <<j, t>> \in fired \/ ~ticking \/ j \in disturbed
                         \/ schedule[j].status = "cancelled"

=============================================================================
