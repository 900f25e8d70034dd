----------------------------- MODULE Automation -----------------------------
(***************************************************************************)
(* The automation plugin of packages/automation: the rules it stores, the  *)
(* data events and cron timers that queue their execution (plugin.ts,      *)
(* triggers.ts, storage.ts) and the in-memory queue whose worker executes  *)
(* them (queue.ts).                                                        *)
(*                                                                         *)
(* The code awaits the storage between reading the rules and queueing or   *)
(* arming them, and every action of a rule: these are the points at which  *)
(* the steps below interleave.  A job carries the copy of its rule that was    *)
(* read when it was queued; of that copy the model keeps the execution     *)
(* count ("seen").  What conditions on record fields decide is the set of  *)
(* the rules that fire.                                                    *)
(***************************************************************************)
EXTENDS Integers, Sequences, SequencesExt, FiniteSets

CONSTANTS
    Rules,       \* rule ids
    TriggerType, \* rule -> "object.create", "object.update" or "scheduled"
    Priority,    \* rule -> its priority
    NumActions,  \* the number of actions of a rule
    MaxAttempts, \* maxAttempts of the jobs executeRule adds
    MaxJobs,     \* bound: jobs added
    MaxCalls,    \* bound: data events and calls of the plugin other than start and stop
    MaxWaiting,  \* bound: calls that await the storage at once
    MaxStarts    \* bound: starts of the plugin, one worker loop each

ASSUME AutomationAssumption ==
    /\ IsFiniteSet(Rules)
    /\ TriggerType \in [Rules -> {"object.create", "object.update", "scheduled"}]
    /\ Priority \in [Rules -> Nat]
    /\ NumActions \in Nat \ {0}
    /\ MaxAttempts \in Nat \ {0}
    /\ MaxJobs \in Nat /\ MaxCalls \in Nat /\ MaxWaiting \in Nat /\ MaxStarts \in Nat

VARIABLES
    rules,      \* storage.rules: rule -> "absent", "active" or "inactive"
    count,      \* storage.rules: rule -> its executionCount
    jobs,       \* jobQueue.jobs, in the order of the Map
    processing, \* jobQueue.processing
    timer,      \* jobQueue.timer: the loop whose timeout it holds, 0 if none
    loops,      \* one record per call of start(): where its tick loop is
    events,     \* the calls that await the storage: handleDataEvent ("queue"),
                \* execute ("execute"), registerRule and start ("arm")
    cron,       \* rule -> its live timeouts, the latest armed last; of each the
                \* count in the copy of the rule that its callback holds
    scheduled,  \* triggerEngine.scheduledJobs: the rules of which it keeps a
                \* handle, which is that of the last timeout
    done,       \* history: rule -> executions whose actions all succeeded
    used        \* bound counter: the calls MaxCalls bounds

vars == <<rules, count, jobs, processing, timer, loops, events, cron, scheduled,
          done, used>>

queueVars == <<jobs, processing, timer, loops>>
ruleVars == <<rules, count, done>>
triggerVars == <<events, cron, scheduled>>

NewJob(r, n) == [rule |-> r, seen |-> n, status |-> "pending", attempts |-> 0,
                 due |-> TRUE]

\* The ways listRules may order a set of rules: by falling priority.
ByPriority(S) ==
    {s \in [1..Cardinality(S) -> S] :
        /\ \A i, j \in DOMAIN s : i # j => s[i] # s[j]
        /\ \A i, j \in DOMAIN s : i < j => Priority[s[i]] >= Priority[s[j]]}

Active(type) == {r \in Rules : rules[r] = "active" /\ TriggerType[r] = type}

Idle == [at |-> "timer", job |-> 0, action |-> 0]

-----------------------------------------------------------------------------
(* Rules and triggers. *)

\* A further call awaits the storage, with the rules rs and their counts. One
\* without rules has nothing to do when the storage answers.
Await(kind, rs, counts, action) ==
    IF rs = <<>> THEN events' = events
    ELSE /\ Len(events) < MaxWaiting
         /\ events' = Append(events, [kind |-> kind, rules |-> rs, action |-> action,
                                      seen |-> counts])

\* registerRule, also behind registerFlow: the rule is saved, and a scheduled
\* one that is active is armed when the storage answers.
RegisterRule(r, status) ==
    /\ used < MaxCalls /\ used' = used + 1
    /\ rules' = [rules EXCEPT ![r] = status]
    /\ count' = [count EXCEPT ![r] = 0]
    /\ IF status = "active" /\ TriggerType[r] = "scheduled"
       THEN Await("arm", <<r>>, <<0>>, 0) ELSE events' = events
    /\ UNCHANGED <<queueVars, done, cron, scheduled>>

\* registerScheduledTrigger for the rules of a start or of registerRule, which
\* the storage has answered: whatever became of the rules and of the plugin
\* meanwhile. The handle kept before is overwritten, its timeout lives on.
ArmTriggers(i) ==
    LET e == events[i]
        At(r) == {k \in DOMAIN e.rules : e.rules[k] = r}
    IN  /\ e.kind = "arm"
        /\ cron' = [r \in Rules |-> IF At(r) = {} THEN cron[r]
                                    ELSE Append(cron[r], e.seen[CHOOSE k \in At(r) : TRUE])]
        /\ scheduled' = scheduled \union ToSet(e.rules)
        /\ events' = RemoveAt(events, i)
        /\ UNCHANGED <<queueVars, ruleVars, used>>

\* unregisterFlow: the rule goes, its timeout stays.
UnregisterFlow(r) ==
    /\ used < MaxCalls /\ used' = used + 1
    /\ rules[r] # "absent"
    /\ rules' = [rules EXCEPT ![r] = "absent"]
    /\ count' = [count EXCEPT ![r] = 0]
    /\ UNCHANGED <<queueVars, triggerVars, done>>

\* unregisterScheduledTrigger, on the engine that getTriggerEngine hands out.
UnregisterTrigger(r) ==
    /\ used < MaxCalls /\ used' = used + 1
    /\ r \in scheduled
    /\ cron' = [cron EXCEPT ![r] = Front(@)]
    /\ scheduled' = scheduled \ {r}
    /\ UNCHANGED <<queueVars, ruleVars, events>>

\* A timeout of a scheduled trigger fires: its rule is queued and the timeout
\* armed again, its handle written over the one kept for the rule.
CronFires(r, i) ==
    /\ Len(jobs) < MaxJobs
    /\ jobs' = Append(jobs, NewJob(r, cron[r][i]))
    /\ cron' = [cron EXCEPT ![r] = Append(RemoveAt(@, i), @[i])]
    /\ scheduled' = scheduled \union {r}
    /\ UNCHANGED <<ruleVars, processing, timer, loops, events, used>>

\* A data hook: the rules of its type are listed, copies of them. Those in S
\* will fire (evaluateObjectTrigger): every rule on a create, and on an update
\* the rules whose fields changed and whose conditions hold.
DataEvent(type, S) ==
    /\ used < MaxCalls /\ used' = used + 1
    /\ S \subseteq Active(type)
    /\ type # "object.update" => S = Active(type)
    /\ \E rs \in ByPriority(S) :
          Await("queue", rs, [i \in DOMAIN rs |-> count[rs[i]]], 0)
    /\ UNCHANGED <<queueVars, ruleVars, cron, scheduled>>

\* handleDataEvent goes on with the rules it listed.
QueueFiring(i) ==
    LET e == events[i]
    IN  /\ e.kind = "queue"
        /\ Len(jobs) + Len(e.rules) <= MaxJobs
        /\ jobs' = jobs \o [k \in DOMAIN e.rules |-> NewJob(e.rules[k], e.seen[k])]
        /\ events' = RemoveAt(events, i)
        /\ UNCHANGED <<ruleVars, processing, timer, loops, cron, scheduled, used>>

-----------------------------------------------------------------------------
(* The execution of a rule (executeRuleInternal): its actions, then the stats. *)

\* updateRule with the count of the copy: it throws when the rule is gone.
Stats(r, n) ==
    /\ done' = [done EXCEPT ![r] = @ + 1]
    /\ count' = IF rules[r] = "absent" THEN count ELSE [count EXCEPT ![r] = n + 1]
    /\ UNCHANGED rules

\* IAutomationService.execute: the rule is executed here, without the queue.
Execute(r) ==
    /\ used < MaxCalls /\ used' = used + 1
    /\ rules[r] # "absent"
    /\ Await("execute", <<r>>, <<count[r]>>, 1)
    /\ UNCHANGED <<queueVars, ruleVars, cron, scheduled>>

DirectAction(i) ==
    /\ events[i].kind = "execute" /\ events[i].action <= NumActions
    /\ events' = [events EXCEPT ![i].action = @ + 1]
    /\ UNCHANGED <<queueVars, ruleVars, cron, scheduled, used>>

\* An action threw: the error goes to the caller.
DirectFails(i) ==
    /\ events[i].kind = "execute" /\ events[i].action <= NumActions
    /\ events' = RemoveAt(events, i)
    /\ UNCHANGED <<queueVars, ruleVars, cron, scheduled, used>>

DirectEnds(i) ==
    /\ events[i].kind = "execute" /\ events[i].action > NumActions
    /\ Stats(events[i].rules[1], events[i].seen[1])
    /\ events' = RemoveAt(events, i)
    /\ UNCHANGED <<queueVars, cron, scheduled, used>>

-----------------------------------------------------------------------------
(* The worker. *)

\* start of the plugin: the worker's tick loop starts, and the scheduled rules
\* that are active are listed, copies of them.
Start ==
    /\ Len(loops) < MaxStarts
    /\ processing' = TRUE
    /\ loops' = Append(loops, Idle)
    /\ timer' = Len(loops) + 1
    /\ \E rs \in ByPriority(Active("scheduled")) :
          Await("arm", rs, [i \in DOMAIN rs |-> count[rs[i]]], 0)
    /\ UNCHANGED <<ruleVars, jobs, cron, scheduled, used>>

\* triggerEngine.shutdown: clears the timeouts whose handles are kept.
Shutdown ==
    /\ cron' = [r \in Rules |-> IF r \in scheduled THEN Front(cron[r]) ELSE cron[r]]
    /\ scheduled' = {}

\* stop of the plugin. The one timeout this.timer holds is cleared.
Stop ==
    /\ processing
    /\ Shutdown
    /\ processing' = FALSE
    /\ timer' = 0
    /\ loops' = [l \in DOMAIN loops |->
                   IF l = timer /\ loops[l].at = "timer"
                   THEN [loops[l] EXCEPT !.at = "off"] ELSE loops[l]]
    /\ UNCHANGED <<ruleVars, jobs, events, used>>

\* destroy: the triggers are shut down, the worker is not.
Destroy ==
    /\ used < MaxCalls /\ used' = used + 1
    /\ Shutdown
    /\ UNCHANGED <<queueVars, ruleVars, events>>

Due == {j \in DOMAIN jobs : jobs[j].status \in {"pending", "delayed"} /\ jobs[j].due}

\* pendingJobs[0]: the first of the highest priority.
Best(j) == /\ j \in Due
           /\ \A k \in Due : LET p == Priority[jobs[j].rule]
                                 q == Priority[jobs[k].rule]
                             IN  p > q \/ (p = q /\ j <= k)

\* Mutant: no further tick is armed.
RestForever(l) ==
    loops' = [loops EXCEPT ![l] = [Idle EXCEPT !.at = "off"]] /\ timer' = timer

\* The end of a batch: the loop ticks again unless the worker was stopped.
Rest(l) ==
    IF processing
    THEN loops' = [loops EXCEPT ![l] = Idle] /\ timer' = l
    ELSE loops' = [loops EXCEPT ![l] = [Idle EXCEPT !.at = "off"]] /\ timer' = timer

\* A tick that finds no job.
TickIdle(l) ==
    /\ loops[l].at = "timer" /\ Due = {}
    /\ Rest(l)
    /\ UNCHANGED <<ruleVars, triggerVars, jobs, processing, used>>

\* Mutant: the job is marked once its handler has ended.
TickUnmarked(l, j) ==
    /\ loops[l].at = "timer" /\ Best(j)
    /\ jobs' = [jobs EXCEPT ![j].attempts = @ + 1]
    /\ loops' = [loops EXCEPT ![l] = [at |-> "batch", job |-> j, action |-> 1]]
    /\ UNCHANGED <<ruleVars, triggerVars, processing, timer, used>>

\* A tick that takes a job.
Tick(l, j) ==
    /\ loops[l].at = "timer" /\ Best(j)
    /\ jobs' = [jobs EXCEPT ![j].status = "processing", ![j].attempts = @ + 1]
    /\ loops' = [loops EXCEPT ![l] = [at |-> "batch", job |-> j, action |-> 1]]
    /\ UNCHANGED <<ruleVars, triggerVars, processing, timer, used>>

ActionDone(l) ==
    /\ loops[l].at = "batch" /\ loops[l].action <= NumActions
    /\ loops' = [loops EXCEPT ![l].action = @ + 1]
    /\ UNCHANGED <<ruleVars, triggerVars, jobs, processing, timer, used>>

\* The handler threw: the job waits for its backoff, or has failed for good.
Failed(j) ==
    jobs' = [jobs EXCEPT ![j].status = IF jobs[j].attempts < MaxAttempts
                                       THEN "delayed" ELSE "failed",
                         ![j].due = FALSE]

\* Mutant: the stats are written for a failed execution too.
ActionFailsCounted(l) ==
    LET j == loops[l].job
    IN  /\ loops[l].at = "batch" /\ loops[l].action <= NumActions
        /\ Failed(j)
        /\ Rest(l)
        /\ count' = IF rules[jobs[j].rule] = "absent" THEN count
                    ELSE [count EXCEPT ![jobs[j].rule] = jobs[j].seen + 1]
        /\ UNCHANGED <<rules, done, triggerVars, processing, used>>

ActionFails(l) ==
    /\ loops[l].at = "batch" /\ loops[l].action <= NumActions
    /\ Failed(loops[l].job)
    /\ Rest(l)
    /\ UNCHANGED <<ruleVars, triggerVars, processing, used>>

\* All actions succeeded. The job fails all the same if the rule was deleted.
BatchEnds(l) ==
    LET j == loops[l].job
    IN  /\ loops[l].at = "batch" /\ loops[l].action > NumActions
        /\ Stats(jobs[j].rule, jobs[j].seen)
        /\ IF rules[jobs[j].rule] = "absent"
           THEN Failed(j)
           ELSE jobs' = [jobs EXCEPT ![j].status = "completed"]
        /\ Rest(l)
        /\ UNCHANGED <<triggerVars, processing, used>>

BackoffEnds(j) ==
    /\ jobs[j].status = "delayed" /\ ~jobs[j].due
    /\ jobs' = [jobs EXCEPT ![j].due = TRUE]
    /\ UNCHANGED <<ruleVars, triggerVars, processing, timer, loops, used>>

-----------------------------------------------------------------------------
\* An earlier run of the program stored the rules.
Init ==
    /\ rules = [r \in Rules |-> "active"]
    /\ count = [r \in Rules |-> 0]
    /\ done = [r \in Rules |-> 0]
    /\ jobs = <<>> /\ processing = FALSE /\ timer = 0 /\ loops = <<>>
    /\ events = <<>> /\ cron = [r \in Rules |-> <<>>] /\ scheduled = {}
    /\ used = 0

RuleStep ==
    \/ \E r \in Rules, s \in {"active", "inactive"} : RegisterRule(r, s)
    \/ \E r \in Rules : UnregisterFlow(r) \/ UnregisterTrigger(r) \/ Execute(r)
    \/ \E r \in Rules : \E i \in DOMAIN cron[r] : CronFires(r, i)
    \/ \E r \in Rules, S \in SUBSET Rules :
          TriggerType[r] # "scheduled" /\ DataEvent(TriggerType[r], S)
    \/ \E i \in DOMAIN events : \/ ArmTriggers(i) \/ QueueFiring(i)
                               \/ DirectAction(i) \/ DirectFails(i) \/ DirectEnds(i)

\* The steps of one loop: its timeout fires, or an action it awaits ends.
LoopStep(l) ==
    \/ TickIdle(l) \/ (\E j \in DOMAIN jobs : Tick(l, j))
    \/ ActionDone(l) \/ ActionFails(l) \/ BatchEnds(l)

Next ==
    \/ RuleStep
    \/ Start \/ Stop \/ Destroy
    \/ \E l \in DOMAIN loops : LoopStep(l)
    \/ \E j \in DOMAIN jobs : BackoffEnds(j)

Spec == Init /\ [][Next]_vars

\* Timeouts fire and awaited actions end. Nothing obliges anyone to call.
FairSpec ==
    /\ Spec
    /\ \A l \in 1..MaxStarts : WF_vars(l \in DOMAIN loops /\ LoopStep(l))
    /\ \A j \in 1..MaxJobs : WF_vars(j \in DOMAIN jobs /\ BackoffEnds(j))

-----------------------------------------------------------------------------
Job == [rule : Rules, seen : Nat, due : BOOLEAN, attempts : Nat,
        status : {"pending", "processing", "completed", "failed", "delayed"}]

Event == [kind : {"queue", "execute", "arm"}, rules : Seq(Rules), seen : Seq(Nat), action : Nat]

Loop == [at : {"off", "timer", "batch"}, job : Nat, action : Nat]

TypeOK ==
    /\ rules \in [Rules -> {"absent", "active", "inactive"}]
    /\ count \in [Rules -> Nat] /\ done \in [Rules -> Nat]
    /\ jobs \in Seq(Job) /\ events \in Seq(Event) /\ loops \in Seq(Loop)
    /\ processing \in BOOLEAN /\ timer \in Nat
    /\ \A l \in DOMAIN loops : loops[l].at = "batch" => loops[l].job \in DOMAIN jobs
    /\ cron \in [Rules -> Seq(Nat)]
    /\ scheduled \in SUBSET {r \in Rules : cron[r] # <<>>}

\* Restarting the plugin leaves two tick loops on one queue (start while the
\* batch of the stopped loop is still running). They never execute one job at
\* the same time, and a job is marked "processing" exactly while a loop has it.
OneLoopPerJob ==
    /\ \A l, m \in DOMAIN loops :
          l # m /\ loops[l].at = "batch" /\ loops[m].at = "batch" => loops[l].job # loops[m].job
    /\ \A j \in DOMAIN jobs :
          jobs[j].status = "processing" <=>
            \E l \in DOMAIN loops : loops[l].at = "batch" /\ loops[l].job = j

\* executionCount is written from the copy of the rule that a job was queued
\* with: it may fall behind, but it never counts an execution that has not
\* succeeded.
CountNeverAhead == \A r \in Rules : count[r] <= done[r]

\* A running worker finishes every job: completed, or failed after its retries.
EveryJobEnds ==
    \A j \in 1..MaxJobs :
        (j \in DOMAIN jobs) ~>
            (~processing \/ (j \in DOMAIN jobs /\ jobs[j].status \in {"completed", "failed"}))

\* "Clear all scheduled jobs" (triggers.ts:210): after stop no trigger's timeout
\* is live until the plugin is started again or a rule is registered.
ShutdownClearsAll ==
    [][Stop => \A r \in Rules : cron'[r] = <<>>]_vars

=============================================================================
