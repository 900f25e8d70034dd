------------------------------ MODULE JobQueue ------------------------------
(***************************************************************************)
(* The job queue of packages/jobs (queue.ts) over the JobStorage contract  *)
(* that the in-memory storage (storage.ts) implements.                     *)
(*                                                                         *)
(* The program is single-threaded and cooperative: what runs between two   *)
(* awaits is one action, and a call that waits at an await is a piece of   *)
(* state with a phase of its own.  A storage call takes effect when it is  *)
(* made and its answer is delivered at any later time, so the caller goes  *)
(* on with a value that may be stale.                                      *)
(***************************************************************************)
EXTENDS Integers, FiniteSets

CONSTANTS
    Jobs,           \* the job ids that may be enqueued, each at most once
    Names,          \* job definition names
    NameOf,         \* the definition a job asks for
    Rank,           \* the rank of a job's priority: 4 critical ... 1 low, 0 other
    MaxRetries,     \* config.maxRetries of each job
    MaxConcurrency, \* worker concurrency of the queue
    MaxStarts,      \* bound: number of times a processing loop is started
    NoJob           \* "no job", not an element of Jobs

ASSUME JobsAssumption ==
    /\ IsFiniteSet(Jobs)
    /\ NoJob \notin Jobs
    /\ NameOf \in [Jobs -> Names]
    /\ Rank \in [Jobs -> 0..4]
    /\ MaxRetries \in [Jobs -> Nat]

ASSUME SizeAssumption ==
    /\ MaxConcurrency \in Nat \ {0}
    /\ MaxStarts \in Nat \ {0}

VARIABLES
    jobs,        \* the storage: the record of every job id
    handlers,    \* names with a registered handler
    processing,  \* this.processing
    activeJobs,  \* this.activeJobs
    loops,       \* every startProcessing() call, in the order they started
    starts,      \* how many of them have started
    runs,        \* every processJob() call in flight
    enqueuing,   \* jobs whose enqueue() waits for storage.save
    cancelling,  \* jobs whose cancel() waits for storage.get, not running there
    stopper      \* the stopProcessing() call

vars == <<jobs, handlers, processing, activeJobs, loops, starts, runs,
          enqueuing, cancelling, stopper>>

Loops == 1..MaxStarts

(***************************************************************************)
(* A loop holds one slot between its poll and its dispatch, and polls only *)
(* when fewer than MaxConcurrency runs are active, so this many invocations*)
(* of processJob are enough: see SlotForEveryPoll.                         *)
(***************************************************************************)
Slots == 1..(MaxConcurrency + MaxStarts - 1)

Status == {"absent", "pending", "running", "completed", "failed", "cancelled"}

Terminal == {"completed", "failed", "cancelled"}

NoRun == [pc |-> "free", job |-> NoJob, attempt |-> 0]

Idle(pc) == [pc |-> pc, got |-> NoJob, seen |-> 0]

-----------------------------------------------------------------------------
(* The storage *)

Stored(jb) == {j \in Jobs : jb[j].status # "absent"}

Pending(jb) == {j \in Jobs : jb[j].status = "pending"}

\* Higher priority first, then the older one.  Jobs created in the same
\* millisecond keep the order of the Map, which is that of their creation.
Precedes(jb, i, j) ==
    \/ Rank[i] > Rank[j]
    \/ Rank[i] = Rank[j] /\ jb[i].created <= jb[j].created

\* The job that getNextPending returns.
NextPending(jb) ==
    {j \in Pending(jb) : \A k \in Pending(jb) : Precedes(jb, j, k)}

Save(j) ==
    jobs' = [jobs EXCEPT ![j] = [status   |-> "pending",
                                 attempts |-> 0,
                                 created  |-> Cardinality(Stored(jobs)) + 1]]

WithStatus(jb, j, st) == [jb EXCEPT ![j].status = st]

-----------------------------------------------------------------------------
(* The processing loop *)

Goto(l, state) == loops' = [loops EXCEPT ![l] = state]

\* The answer to a poll is a copy of the job, of which the loop uses the
\* attempts (seen).
Poll(l, jb) ==
    \E j \in NextPending(jb) :
        Goto(l, [pc |-> "polled", got |-> j, seen |-> jb[j].attempts])

\* Mutant: the limit is tested with > instead of >=.
LoopTopOffByOne(l, on, active, jb) ==
    \/ ~on /\ Goto(l, Idle("done"))
    \/ on /\ (active > MaxConcurrency \/ Pending(jb) = {}) /\ Goto(l, Idle("sleep"))
    \/ on /\ active <= MaxConcurrency /\ Poll(l, jb)

\* What loop l does from the test of its while to its next await, when the
\* queue is processing (on), active jobs run and the storage holds jb.
LoopTop(l, on, active, jb) ==
    \/ ~on /\ Goto(l, Idle("done"))
    \/ on /\ (active >= MaxConcurrency \/ Pending(jb) = {}) /\ Goto(l, Idle("sleep"))
    \/ on /\ active < MaxConcurrency /\ Poll(l, jb)

StartProcessing ==
    /\ starts < MaxStarts
    /\ processing' = TRUE
    /\ starts' = starts + 1
    /\ LoopTop(starts + 1, TRUE, activeJobs, jobs)
    /\ stopper' = IF stopper = "stopped" THEN "idle" ELSE stopper

LoopWake(l) ==
    /\ loops[l].pc = "sleep"
    /\ LoopTop(l, processing, activeJobs, jobs)
    /\ UNCHANGED <<jobs, handlers, processing, activeJobs, starts, runs,
                   enqueuing, cancelling, stopper>>

Busy == {s \in Slots : runs[s].pc # "free"}

FreeSlots == Slots \ Busy

FreeSlot == CHOOSE s \in FreeSlots : TRUE

\* Mutants: the 'running' update forgets the status, or the attempts.
ClaimedWithoutStatus(j, seen) ==
    IF NameOf[j] \in handlers
    THEN [jobs EXCEPT ![j].attempts = seen + 1]
    ELSE WithStatus(jobs, j, "failed")

ClaimedWithoutAttempts(j, seen) ==
    IF NameOf[j] \in handlers
    THEN WithStatus(jobs, j, "running")
    ELSE WithStatus(jobs, j, "failed")

\* What processJob stores before its first await.
Claimed(j, seen) ==
    IF NameOf[j] \in handlers
    THEN [jobs EXCEPT ![j] = [status   |-> "running",
                              attempts |-> seen + 1,
                              created  |-> jobs[j].created]]
    ELSE WithStatus(jobs, j, "failed")

\* The poll's answer arrives: processJob runs up to its first await with the
\* polled copy of the job, and the loop goes on to its next await.
Dispatch(l) ==
    LET j    == loops[l].got
        seen == loops[l].seen
    IN  /\ loops[l].pc = "polled"
        /\ FreeSlots # {}
        /\ jobs' = Claimed(j, seen)
        /\ runs' = [runs EXCEPT ![FreeSlot] =
                     IF NameOf[j] \in handlers
                     THEN [pc |-> "starting", job |-> j, attempt |-> seen + 1]
                     ELSE [pc |-> "finishing", job |-> j, attempt |-> seen]]
        /\ activeJobs' = activeJobs + 1
        /\ LoopTop(l, processing, activeJobs + 1, Claimed(j, seen))
        /\ UNCHANGED <<handlers, processing, starts, enqueuing, cancelling,
                       stopper>>

-----------------------------------------------------------------------------
(* One invocation of processJob *)

\* The 'running' update is answered and the handler is called.
CallHandler(s) ==
    /\ runs[s].pc = "starting"
    /\ runs' = [runs EXCEPT ![s].pc = "executing"]
    /\ UNCHANGED <<jobs, handlers, processing, activeJobs, loops, starts,
                   enqueuing, cancelling, stopper>>

Complete(s) ==
    /\ runs[s].pc = "executing"
    /\ jobs' = WithStatus(jobs, runs[s].job, "completed")
    /\ runs' = [runs EXCEPT ![s].pc = "finishing"]
    /\ UNCHANGED <<handlers, processing, activeJobs, loops, starts, enqueuing,
                   cancelling, stopper>>

CanRetry(s) == runs[s].attempt <= MaxRetries[runs[s].job]

\* Mutant: the final failure is not stored.
HandleFailureSilently(s) ==
    /\ jobs' = jobs
    /\ runs' = [runs EXCEPT ![s].pc = IF CanRetry(s) THEN "backoff"
                                      ELSE "finishing"]

\* The catch block: sleep for the backoff, or fail the job for good.
HandleFailure(s) ==
    /\ jobs' = IF CanRetry(s) THEN jobs
               ELSE WithStatus(jobs, runs[s].job, "failed")
    /\ runs' = [runs EXCEPT ![s].pc = IF CanRetry(s) THEN "backoff"
                                      ELSE "finishing"]

\* The handler rejects, or the timer wins the race.  Nothing stops the handler
\* then, and nothing it does afterwards reaches the queue.
HandlerFails(s) ==
    /\ runs[s].pc = "executing"
    /\ HandleFailure(s)
    /\ UNCHANGED <<handlers, processing, activeJobs, loops, starts, enqueuing,
                   cancelling, stopper>>

\* Mutant: the retry sleeps but does not make the job pending.
RetryJobForgets(s) ==
    /\ runs[s].pc = "backoff"
    /\ runs' = [runs EXCEPT ![s].pc = "finishing"]
    /\ UNCHANGED <<jobs, handlers, processing, activeJobs, loops, starts,
                   enqueuing, cancelling, stopper>>

RetryJob(s) ==
    /\ runs[s].pc = "backoff"
    /\ jobs' = WithStatus(jobs, runs[s].job, "pending")
    /\ runs' = [runs EXCEPT ![s].pc = "finishing"]
    /\ UNCHANGED <<handlers, processing, activeJobs, loops, starts, enqueuing,
                   cancelling, stopper>>

\* Mutants: the finally callback is lost, or runs twice.
FinishLeaks(s) ==
    /\ runs[s].pc = "finishing"
    /\ runs' = [runs EXCEPT ![s] = NoRun]
    /\ UNCHANGED <<jobs, handlers, processing, activeJobs, loops, starts,
                   enqueuing, cancelling, stopper>>

FinishTwice(s) ==
    /\ runs[s].pc = "finishing"
    /\ runs' = [runs EXCEPT ![s] = NoRun]
    /\ activeJobs' = activeJobs - 2
    /\ UNCHANGED <<jobs, handlers, processing, loops, starts, enqueuing,
                   cancelling, stopper>>

\* processJob settles and its finally callback runs.
Finish(s) ==
    /\ runs[s].pc = "finishing"
    /\ runs' = [runs EXCEPT ![s] = NoRun]
    /\ activeJobs' = activeJobs - 1
    /\ UNCHANGED <<jobs, handlers, processing, loops, starts, enqueuing,
                   cancelling, stopper>>

-----------------------------------------------------------------------------
(* The queue's public operations *)

RegisterHandler(n) ==
    /\ n \notin handlers
    /\ handlers' = handlers \union {n}
    /\ UNCHANGED <<jobs, processing, activeJobs, loops, starts, runs,
                   enqueuing, cancelling, stopper>>

UnregisterHandler(n) ==
    /\ n \in handlers
    /\ handlers' = handlers \ {n}
    /\ UNCHANGED <<jobs, processing, activeJobs, loops, starts, runs,
                   enqueuing, cancelling, stopper>>

\* A job id is unique (types.ts:27): a caller does not reuse one.
Enqueue(j) ==
    /\ NameOf[j] \in handlers
    /\ jobs[j].status = "absent"
    /\ Save(j)
    /\ enqueuing' = enqueuing \union {j}
    /\ UNCHANGED <<handlers, processing, activeJobs, loops, starts, runs,
                   cancelling, stopper>>

EnqueueSaved(j) ==
    /\ j \in enqueuing
    /\ enqueuing' = enqueuing \ {j}
    /\ \/ ~processing /\ StartProcessing
       \/ processing /\ UNCHANGED <<processing, loops, starts, stopper>>
    /\ UNCHANGED <<jobs, handlers, activeJobs, runs, cancelling>>

\* cancel() reads the job; a running one is refused and leaves no trace.
Cancel(j) ==
    /\ jobs[j].status \notin {"absent", "running"}
    /\ j \notin cancelling
    /\ cancelling' = cancelling \union {j}
    /\ UNCHANGED <<jobs, handlers, processing, activeJobs, loops, starts, runs,
                   enqueuing, stopper>>

CancelWrite(j) ==
    /\ j \in cancelling
    /\ jobs' = WithStatus(jobs, j, "cancelled")
    /\ cancelling' = cancelling \ {j}
    /\ UNCHANGED <<handlers, processing, activeJobs, loops, starts, runs,
                   enqueuing, stopper>>

StopTest == IF activeJobs > 0 THEN "waiting" ELSE "stopped"

StopProcessing ==
    /\ processing' = FALSE
    /\ stopper' = StopTest
    /\ UNCHANGED <<jobs, handlers, activeJobs, loops, starts, runs, enqueuing,
                   cancelling>>

\* The 100 ms timer of stopProcessing's wait.
StopTick ==
    /\ stopper = "waiting"
    /\ stopper' = StopTest
    /\ UNCHANGED <<jobs, handlers, processing, activeJobs, loops, starts, runs,
                   enqueuing, cancelling>>

-----------------------------------------------------------------------------
Init ==
    /\ jobs = [j \in Jobs |-> [status |-> "absent", attempts |-> 0, created |-> 0]]
    /\ handlers = {}
    /\ processing = FALSE
    /\ activeJobs = 0
    /\ loops = [l \in Loops |-> Idle("off")]
    /\ starts = 0
    /\ runs = [s \in Slots |-> NoRun]
    /\ enqueuing = {}
    /\ cancelling = {}
    /\ stopper = "idle"

LoopNext == \E l \in Loops : LoopWake(l) \/ Dispatch(l)

RunNext ==
    \E s \in Slots : \/ CallHandler(s)
                     \/ Complete(s)
                     \/ HandlerFails(s)
                     \/ RetryJob(s)
                     \/ Finish(s)

JobNext ==
    \E j \in Jobs : \/ Enqueue(j)
                    \/ EnqueueSaved(j)
                    \/ Cancel(j)
                    \/ CancelWrite(j)

Next ==
    \/ LoopNext
    \/ RunNext
    \/ \E n \in Names : RegisterHandler(n) \/ UnregisterHandler(n)
    \/ JobNext
    \/ StopProcessing
    \/ StopTick

Spec == Init /\ [][Next]_vars

(***************************************************************************)
(* Fairness.  Timers and microtasks run, so a loop, a pending storage      *)
(* answer, a backoff and the finally callback are never postponed forever. *)
(* An executing handler need not end: it is the job timeout that ends the  *)
(* invocation.  Nothing is assumed of callers.                             *)
(***************************************************************************)
RunStep(s) ==
    \/ CallHandler(s) \/ Complete(s) \/ HandlerFails(s)
    \/ RetryJob(s) \/ Finish(s)

Fairness ==
    /\ \A l \in Loops : WF_vars(LoopWake(l)) /\ WF_vars(Dispatch(l))
    /\ \A s \in Slots : WF_vars(RunStep(s))
    /\ \A j \in Jobs : WF_vars(EnqueueSaved(j)) /\ WF_vars(CancelWrite(j))
    /\ WF_vars(StopTick)

FairSpec == Spec /\ Fairness

-----------------------------------------------------------------------------
(* Properties *)

JobTable == [Jobs -> [status : Status, attempts : Nat, created : Nat]]

LoopRecord ==
    [pc : {"off", "sleep", "polled", "done"}, got : Jobs \union {NoJob}, seen : Nat]

RunRecord ==
    [pc : {"free", "starting", "executing", "backoff", "finishing"},
     job : Jobs \union {NoJob}, attempt : Nat]

\* Type invariant of the queue's state (queue.ts:23-31, types.ts Job).
TypeOK ==
    /\ jobs \in JobTable
    /\ handlers \subseteq Names
    /\ processing \in BOOLEAN
    /\ activeJobs \in Nat
    /\ loops \in [Loops -> LoopRecord]
    /\ \A l \in Loops : loops[l].pc = "polled" => loops[l].got \in Jobs
    /\ starts \in 0..MaxStarts
    /\ runs \in [Slots -> RunRecord]
    /\ \A s \in Slots : runs[s].pc # "free" => runs[s].job \in Jobs
    /\ enqueuing \subseteq Jobs
    /\ cancelling \subseteq Jobs
    /\ stopper \in {"idle", "waiting", "stopped"}

\* A run is live from its claim to its last write to the storage.
Live(s) == runs[s].pc \in {"starting", "executing", "backoff"}

LiveFor(j) == {s \in Slots : Live(s) /\ runs[s].job = j}

Polled == {l \in Loops : loops[l].pc = "polled"}

PolledFor(j) == {l \in Polled : loops[l].got = j}

\* Every started loop may overshoot the concurrency limit by the one job it
\* polled while below the limit, and by no more (queue.ts:116-132).
Overshoot == activeJobs + Cardinality(Polled) <= MaxConcurrency - 1 + starts

\* this.activeJobs counts exactly the processJob calls in flight, on the
\* retry, failure and missing-handler paths too (queue.ts:129-132, 156-207).
ActiveJobsExact == activeJobs = Cardinality(Busy)

\* The bound on Slots never disables a dispatch that the code would make.
SlotForEveryPoll == Polled # {} => FreeSlots # {}

\* While the queue has been started once, a job has at most one live run, and
\* none while the loop is about to dispatch it (queue.ts:113-132, 212-224).
OneRunPerJob ==
    starts <= 1 =>
      \A j \in Jobs : /\ \A s, t \in LiveFor(j) : s = t
                      /\ LiveFor(j) = {} \/ PolledFor(j) = {}

\* A job is never left 'running' in the storage without a run that will write
\* its outcome, whatever cancels and restarts happen (queue.ts:156-242).
NoStuckRunning ==
    \A j \in Jobs : jobs[j].status = "running" => LiveFor(j) # {}

\* An enqueued job is settled, unless the queue is stopped (queue.ts:107-138).
EveryJobServed ==
    \A j \in Jobs :
        jobs[j].status = "pending" ~> jobs[j].status \in Terminal \/ ~processing

\* A stopProcessing call returns unless the queue is started again
\* (queue.ts:143-151).
StopReturns == stopper = "waiting" ~> stopper # "waiting" \/ processing

-----------------------------------------------------------------------------
(* Refinement: the life of a job that a queue started once implements *)

Phase ==
    [j \in Jobs |->
        IF LiveFor(j) # {} THEN "running"
        ELSE IF PolledFor(j) # {} THEN "claimed"
        ELSE CASE jobs[j].status = "absent"   -> "new"
               [] jobs[j].status = "pending"  -> "waiting"
               [] OTHER                       -> "settled"]

Lifecycle ==
    INSTANCE JobLifecycle
        WITH phase <- Phase, tries <- [j \in Jobs |-> jobs[j].attempts]

\* The detailed queue implements JobLifecycle: every step of the code is a
\* step of a job's life or changes nothing of it.
ImplementsLifecycle == Lifecycle!Spec

=============================================================================
