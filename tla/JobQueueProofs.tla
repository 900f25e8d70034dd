--------------------------- MODULE JobQueueProofs ---------------------------
(***************************************************************************)
(* Safety of the jobs package.  Of the queue, for every number of jobs,    *)
(* loops and workers: its bookkeeping, the overshoot of the concurrency    *)
(* limit, and that no job is stuck; for a queue started once, that no job  *)
(* runs twice at once and that it implements JobLifecycle.  Of the         *)
(* scheduler, for every number of jobs and checks: one execution of every  *)
(* occurrence.                                                             *)
(***************************************************************************)
EXTENDS JobQueue, JobScheduler, FiniteSetTheorems, TLAPS

-----------------------------------------------------------------------------
(* Facts about the data *)

\* The slots can be counted.
LEMMA SlotsFinite == IsFiniteSet(Slots) /\ Cardinality(Slots) = MaxConcurrency + MaxStarts - 1
<1>1. MaxConcurrency + MaxStarts - 1 \in Nat
  BY SizeAssumption
<1> QED
  BY <1>1, FS_Interval, SizeAssumption DEF Slots

\* Busy is a finite set, so counting it makes sense.
LEMMA BusyFinite == IsFiniteSet(Busy) /\ Cardinality(Busy) \in Nat
  BY SlotsFinite, FS_Subset, FS_CardinalityType DEF Busy

\* A job gets another status.
LEMMA StatusUpdateType ==
  ASSUME NEW jb \in JobTable, NEW j \in Jobs, NEW st \in Status
  PROVE  WithStatus(jb, j, st) \in JobTable
  BY DEF WithStatus, JobTable

\* processJob takes a job, or fails it for want of a handler.
LEMMA ClaimedType ==
  ASSUME TypeOK, NEW j \in Jobs, NEW seen \in Nat
  PROVE  Claimed(j, seen) \in JobTable
<1>1. CASE NameOf[j] \in handlers
  BY <1>1 DEF TypeOK, Claimed, JobTable, Status
<1>2. CASE NameOf[j] \notin handlers
  BY <1>2, StatusUpdateType DEF TypeOK, Claimed, Status
<1> QED
  BY <1>1, <1>2

\* The loop's next state is well typed, whatever it finds.
LEMMA LoopTopType ==
  ASSUME TypeOK, NEW l \in Loops, NEW on, NEW active, NEW jb \in JobTable,
         LoopTop(l, on, active, jb)
  PROVE  /\ loops' \in [Loops -> LoopRecord]
         /\ \A k \in Loops : loops'[k].pc = "polled" => loops'[k].got \in Jobs
<1>1. ASSUME NEW st \in LoopRecord, st.pc = "polled" => st.got \in Jobs, Goto(l, st)
      PROVE  /\ loops' \in [Loops -> LoopRecord]
             /\ \A k \in Loops : loops'[k].pc = "polled" => loops'[k].got \in Jobs
  BY <1>1 DEF TypeOK, Goto
<1>2. \A pc \in {"sleep", "done"} : Idle(pc) \in LoopRecord /\ Idle(pc).pc # "polled"
  BY DEF Idle, LoopRecord
<1>3. CASE Goto(l, Idle("done"))
  BY <1>1, <1>2, <1>3
<1>4. CASE Goto(l, Idle("sleep"))
  BY <1>1, <1>2, <1>4
<1>5. CASE Poll(l, jb)
  <2>1. PICK j \in NextPending(jb) :
            Goto(l, [pc |-> "polled", got |-> j, seen |-> jb[j].attempts])
    BY <1>5 DEF Poll
  <2>2. j \in Jobs /\ jb[j].attempts \in Nat
    BY <2>1 DEF NextPending, Pending, JobTable
  <2>3. [pc |-> "polled", got |-> j, seen |-> jb[j].attempts] \in LoopRecord
    BY <2>2 DEF LoopRecord
  <2> QED
    BY <1>1, <2>1, <2>2, <2>3
<1> QED
  BY <1>3, <1>4, <1>5 DEF LoopTop

-----------------------------------------------------------------------------
(* Type correctness, together with the exactness of activeJobs *)

Bookkeeping == TypeOK /\ ActiveJobsExact

\* At first nothing runs.
LEMMA BookkeepingInit == Init => Bookkeeping
<1> SUFFICES ASSUME Init PROVE Bookkeeping
  OBVIOUS
<1>1. TypeOK
  <2>1. jobs \in JobTable
    BY DEF Init, JobTable, Status
  <2>2. /\ loops \in [Loops -> LoopRecord]
        /\ \A l \in Loops : loops[l].pc # "polled"
    BY DEF Init, Idle, LoopRecord
  <2>3. /\ runs \in [Slots -> RunRecord]
        /\ \A s \in Slots : runs[s].pc = "free"
    BY DEF Init, NoRun, RunRecord
  <2>4. starts \in 0..MaxStarts
    BY SizeAssumption DEF Init
  <2> QED
    BY <2>1, <2>2, <2>3, <2>4 DEF Init, TypeOK
<1>2. Busy = {}
  BY DEF Init, Busy, NoRun
<1> QED
  BY <1>1, <1>2, FS_EmptySet DEF Init, Bookkeeping, ActiveJobsExact

\* A step that changes no run's being busy, and not the counter, keeps it exact.
LEMMA SameBusy ==
  ASSUME ActiveJobsExact, activeJobs' = activeJobs,
         \A s \in Slots : runs'[s].pc = "free" <=> runs[s].pc = "free"
  PROVE  ActiveJobsExact'
<1>1. Busy' = Busy
  BY DEF Busy
<1> QED
  BY <1>1 DEF ActiveJobsExact

\* Two facts about a step of a run that is not free before or after.
RunsWellFormed ==
    /\ runs \in [Slots -> RunRecord]
    /\ \A s \in Slots : runs[s].pc # "free" => runs[s].job \in Jobs

SameSlots == \A s \in Slots : runs'[s].pc = "free" <=> runs[s].pc = "free"

\* A run goes on in its slot.
LEMMA RunMoves ==
  ASSUME TypeOK, NEW s \in Slots, runs[s].pc # "free",
         NEW pc \in {"executing", "backoff", "finishing"},
         runs' = [runs EXCEPT ![s].pc = pc]
  PROVE  RunsWellFormed' /\ SameSlots
  BY DEF TypeOK, RunsWellFormed, SameSlots, RunRecord

\* The processing loop takes a slot for the job it dispatches.
LEMMA DispatchCounts ==
  ASSUME Bookkeeping, NEW l \in Loops, Dispatch(l)
  PROVE  /\ FreeSlot \in FreeSlots
         /\ ActiveJobsExact'
<1>1. FreeSlot \in FreeSlots
  BY DEF Dispatch, FreeSlot
<1>2. Busy' = Busy \union {FreeSlot}
  BY <1>1 DEF Bookkeeping, TypeOK, Dispatch, Busy, FreeSlots
<1> QED
  BY <1>1, <1>2, BusyFinite, FS_AddElement
  DEF Bookkeeping, ActiveJobsExact, Dispatch, FreeSlots

\* activeJobs counts a run until it ends.
LEMMA FinishCounts ==
  ASSUME Bookkeeping, NEW s \in Slots, Finish(s)
  PROVE  /\ activeJobs' \in Nat
         /\ ActiveJobsExact'
<1>1. s \in Busy
  BY DEF Finish, Busy
<1>2. Busy' = Busy \ {s}
  BY DEF Bookkeeping, TypeOK, Finish, Busy, NoRun
<1>3. Cardinality(Busy) # 0
  BY <1>1, BusyFinite, FS_EmptySet
<1>4. Cardinality(Busy') = Cardinality(Busy) - 1
  BY <1>1, <1>2, BusyFinite, FS_RemoveElement
<1>5. activeJobs = Cardinality(Busy) /\ activeJobs' = activeJobs - 1
  BY DEF Bookkeeping, ActiveJobsExact, Finish
<1> QED
  BY <1>3, <1>4, <1>5, BusyFinite DEF ActiveJobsExact

\* Every step keeps the types and the count.
LEMMA BookkeepingStep == Bookkeeping /\ [Next]_vars => Bookkeeping'
<1> SUFFICES ASSUME Bookkeeping, [Next]_vars PROVE Bookkeeping'
  OBVIOUS
<1>a. TypeOK /\ ActiveJobsExact
  BY DEF Bookkeeping
<1>b. Status = {"absent", "pending", "running", "completed", "failed", "cancelled"}
  BY DEF Status
<1>1. ASSUME NEW l \in Loops, LoopWake(l) PROVE Bookkeeping'
  <2>1. /\ loops' \in [Loops -> LoopRecord]
        /\ \A k \in Loops : loops'[k].pc = "polled" => loops'[k].got \in Jobs
    BY <1>1, <1>a, LoopTopType DEF LoopWake, TypeOK
  <2> QED
    BY <1>1, <1>a, <2>1, SameBusy DEF LoopWake, TypeOK, Bookkeeping
<1>2. ASSUME NEW l \in Loops, Dispatch(l) PROVE Bookkeeping'
  <2> DEFINE j == loops[l].got
             seen == loops[l].seen
  <2>1. j \in Jobs /\ seen \in Nat
    BY <1>2, <1>a DEF Dispatch, TypeOK, LoopRecord
  <2>2. Claimed(j, seen) \in JobTable
    BY <1>a, <2>1, ClaimedType
  <2>3. /\ loops' \in [Loops -> LoopRecord]
        /\ \A k \in Loops : loops'[k].pc = "polled" => loops'[k].got \in Jobs
    BY <1>2, <1>a, <2>2, LoopTopType DEF Dispatch
  <2>4. /\ [pc |-> "starting", job |-> j, attempt |-> seen + 1] \in RunRecord
        /\ [pc |-> "finishing", job |-> j, attempt |-> seen] \in RunRecord
    BY <2>1 DEF RunRecord
  <2>5. /\ runs' \in [Slots -> RunRecord]
        /\ \A s \in Slots : runs'[s].pc # "free" => runs'[s].job \in Jobs
    BY <1>2, <1>a, <2>1, <2>4 DEF Dispatch, TypeOK
  <2>6. ActiveJobsExact'
    BY <1>2, DispatchCounts
  <2>7. jobs' \in JobTable /\ activeJobs' \in Nat
    BY <1>2, <1>a, <2>2 DEF Dispatch, TypeOK
  <2> QED
    BY <1>2, <1>a, <2>3, <2>5, <2>6, <2>7 DEF Dispatch, TypeOK, Bookkeeping
<1>3. ASSUME NEW s \in Slots, CallHandler(s) PROVE Bookkeeping'
  <2>1. RunsWellFormed' /\ SameSlots
    BY <1>3, <1>a, RunMoves DEF CallHandler
  <2> QED
    BY <1>3, <1>a, <2>1, SameBusy
    DEF CallHandler, TypeOK, Bookkeeping, RunsWellFormed, SameSlots
<1>4. ASSUME NEW s \in Slots, Complete(s) \/ RetryJob(s) PROVE Bookkeeping'
  <2>1. RunsWellFormed' /\ SameSlots
    BY <1>4, <1>a, RunMoves DEF Complete, RetryJob
  <2>2. jobs' \in JobTable
    BY <1>4, <1>a, <1>b, StatusUpdateType DEF Complete, RetryJob, TypeOK
  <2> QED
    BY <1>4, <1>a, <2>1, <2>2, SameBusy
    DEF Complete, RetryJob, TypeOK, Bookkeeping, RunsWellFormed, SameSlots
<1>5. ASSUME NEW s \in Slots, HandlerFails(s) PROVE Bookkeeping'
  <2>1. RunsWellFormed' /\ SameSlots
    <3>1. CASE CanRetry(s)
      BY <1>5, <1>a, <3>1, RunMoves DEF HandlerFails, HandleFailure
    <3>2. CASE ~CanRetry(s)
      BY <1>5, <1>a, <3>2, RunMoves DEF HandlerFails, HandleFailure
    <3> QED
      BY <3>1, <3>2
  <2>2. jobs' \in JobTable
    BY <1>5, <1>a, <1>b, StatusUpdateType
    DEF HandlerFails, HandleFailure, TypeOK
  <2> QED
    BY <1>5, <1>a, <2>1, <2>2, SameBusy
    DEF HandlerFails, TypeOK, Bookkeeping, RunsWellFormed, SameSlots
<1>6. ASSUME NEW s \in Slots, Finish(s) PROVE Bookkeeping'
  <2>1. /\ runs' \in [Slots -> RunRecord]
        /\ \A t \in Slots : runs'[t].pc # "free" => runs'[t].job \in Jobs
    BY <1>6, <1>a DEF Finish, TypeOK, RunRecord, NoRun
  <2>2. activeJobs' \in Nat /\ ActiveJobsExact'
    BY <1>6, FinishCounts
  <2> QED
    BY <1>6, <1>a, <2>1, <2>2 DEF Finish, TypeOK, Bookkeeping
<1>7. ASSUME NEW n \in Names, RegisterHandler(n) \/ UnregisterHandler(n) PROVE Bookkeeping'
  BY <1>7, <1>a, SameBusy DEF RegisterHandler, UnregisterHandler, TypeOK, Bookkeeping
<1>8. ASSUME NEW j \in Jobs, Enqueue(j) PROVE Bookkeeping'
  <2>1. Cardinality(Stored(jobs)) + 1 \in Nat
    BY JobsAssumption, FS_Subset, FS_CardinalityType DEF Stored
  <2>2. jobs' \in JobTable
    BY <1>8, <1>a, <2>1 DEF Enqueue, Save, TypeOK, JobTable, Status
  <2> QED
    BY <1>8, <1>a, <2>2, SameBusy DEF Enqueue, TypeOK, Bookkeeping
<1>9. ASSUME NEW j \in Jobs, EnqueueSaved(j) PROVE Bookkeeping'
  <2>1. CASE ~processing /\ StartProcessing
    <3>1. starts + 1 \in Loops /\ starts' \in 0..MaxStarts
      BY <2>1, <1>a, SizeAssumption DEF StartProcessing, TypeOK, Loops
    <3>2. /\ loops' \in [Loops -> LoopRecord]
          /\ \A k \in Loops : loops'[k].pc = "polled" => loops'[k].got \in Jobs
      BY <2>1, <1>a, <3>1, LoopTopType DEF StartProcessing, TypeOK
    <3> QED
      BY <1>9, <2>1, <1>a, <3>1, <3>2, SameBusy
      DEF EnqueueSaved, StartProcessing, TypeOK, Bookkeeping
  <2>2. CASE UNCHANGED <<processing, loops, starts, stopper>>
    BY <1>9, <1>a, <2>2, SameBusy DEF EnqueueSaved, TypeOK, Bookkeeping
  <2> QED
    BY <1>9, <2>1, <2>2 DEF EnqueueSaved
<1>10. ASSUME NEW j \in Jobs, Cancel(j) PROVE Bookkeeping'
  BY <1>10, <1>a, SameBusy DEF Cancel, TypeOK, Bookkeeping
<1>11. ASSUME NEW j \in Jobs, CancelWrite(j) PROVE Bookkeeping'
  <2>1. jobs' \in JobTable
    BY <1>11, <1>a, <1>b, StatusUpdateType DEF CancelWrite, TypeOK
  <2> QED
    BY <1>11, <1>a, <2>1, SameBusy DEF CancelWrite, TypeOK, Bookkeeping
<1>12. ASSUME StopProcessing \/ StopTick PROVE Bookkeeping'
  BY <1>12, <1>a, SameBusy DEF StopProcessing, StopTick, StopTest, TypeOK, Bookkeeping
<1>13. CASE UNCHANGED vars
  BY <1>13, <1>a, SameBusy DEF vars, TypeOK, Bookkeeping
<1> QED
  BY <1>1, <1>2, <1>3, <1>4, <1>5, <1>6, <1>7, <1>8, <1>9, <1>10, <1>11,
     <1>12, <1>13
  DEF Next, LoopNext, RunNext, JobNext

\* The state of the queue is well typed, and its counter of active jobs is the
\* number of processJob calls in flight (queue.ts:129-132).
THEOREM BookkeepingCorrect == Spec => [](TypeOK /\ ActiveJobsExact)
<1> QED
  BY BookkeepingInit, BookkeepingStep, PTL DEF Spec, Bookkeeping

-----------------------------------------------------------------------------
(* How far the loops can overshoot the concurrency limit *)

\* Loops are started in order, so at most starts of them hold a polled job.
LoopsInOrder == \A l \in Loops : l > starts => loops[l].pc = "off"

PolledBounded ==
    /\ IsFiniteSet(Polled)
    /\ Cardinality(Polled) \in Nat
    /\ Cardinality(Polled) <= starts

\* No loop fetches more jobs than there is room for.
LEMMA PolledCount == TypeOK /\ LoopsInOrder => PolledBounded
<1> SUFFICES ASSUME TypeOK, LoopsInOrder PROVE PolledBounded
  OBVIOUS
<1>1. starts \in Nat
  BY SizeAssumption DEF TypeOK
<1>2. Polled \subseteq 1..starts
  BY <1>1, SizeAssumption DEF Polled, LoopsInOrder, Loops
<1>3. IsFiniteSet(1..starts) /\ Cardinality(1..starts) = starts
  BY <1>1, FS_Interval
<1> QED
  BY <1>2, <1>3, FS_Subset, FS_CardinalityType DEF PolledBounded

\* A step that leaves the loops alone and frees slots at most.
LEMMA SamePolled ==
  ASSUME TypeOK, TypeOK', LoopsInOrder, Overshoot,
         loops' = loops, starts' = starts, activeJobs' <= activeJobs
  PROVE  LoopsInOrder' /\ Overshoot'
<1>1. LoopsInOrder'
  BY DEF LoopsInOrder
<1>2. Polled' = Polled
  BY DEF Polled
<1> QED
  BY <1>1, <1>2, PolledCount, SizeAssumption DEF Overshoot, TypeOK, PolledBounded

\* A loop polls only below the limit.
LEMMA LoopTopOvershoot ==
  ASSUME TypeOK, TypeOK', LoopsInOrder, NEW l \in Loops, l <= starts',
         starts' \in {starts, starts + 1},
         NEW on, NEW jb, LoopTop(l, on, activeJobs', jb),
         activeJobs' + Cardinality(Polled \ {l}) <= MaxConcurrency - 1 + starts'
  PROVE  LoopsInOrder' /\ Overshoot'
<1>a. starts \in Nat /\ starts' \in Nat /\ activeJobs' \in Nat /\ MaxConcurrency \in Nat
  BY SizeAssumption DEF TypeOK
<1>1. PICK st : loops' = [loops EXCEPT ![l] = st]
  BY DEF LoopTop, Goto, Poll
<1>2. loops'[l] = st /\ \A k \in Loops \ {l} : loops'[k] = loops[k]
  BY <1>1 DEF TypeOK
<1>3. LoopsInOrder'
  BY <1>a, <1>2, SizeAssumption DEF LoopsInOrder, Loops
<1>4. CASE loops'[l].pc = "polled"
  <2>1. activeJobs' < MaxConcurrency
    BY <1>2, <1>4 DEF LoopTop, Goto, Poll, Idle, TypeOK
  <2>2. PolledBounded'
    BY <1>3, PolledCount, PTL
  <2> QED
    BY <1>3, <1>a, <2>1, <2>2 DEF Overshoot, PolledBounded
<1>5. CASE loops'[l].pc # "polled"
  <2>1. Polled' = Polled \ {l}
    BY <1>2, <1>5 DEF Polled
  <2> QED
    BY <1>3, <2>1 DEF Overshoot
<1> QED
  BY <1>4, <1>5

\* LoopsInOrder and Overshoot are inductive together, given the types.
LEMMA OvershootStep ==
  ASSUME TypeOK, TypeOK', LoopsInOrder, Overshoot, [Next]_vars
  PROVE  LoopsInOrder' /\ Overshoot'
<1>a. /\ starts \in Nat /\ activeJobs \in Nat /\ MaxConcurrency \in Nat
      /\ PolledBounded
  BY PolledCount, SizeAssumption DEF TypeOK
<1>b. \A l \in Loops : loops[l].pc # "off" => l <= starts
  BY SizeAssumption DEF LoopsInOrder, TypeOK, Loops
<1>1. ASSUME NEW l \in Loops, LoopWake(l) PROVE LoopsInOrder' /\ Overshoot'
  <2>1. Polled \ {l} = Polled
    BY <1>1 DEF LoopWake, Polled
  <2>2. activeJobs' = activeJobs /\ starts' = starts /\ l <= starts'
    BY <1>1, <1>b DEF LoopWake
  <2>3. LoopTop(l, processing, activeJobs', jobs)
    BY <1>1 DEF LoopWake
  <2> QED
    BY <1>a, <2>1, <2>2, <2>3, LoopTopOvershoot DEF Overshoot
<1>2. ASSUME NEW l \in Loops, Dispatch(l) PROVE LoopsInOrder' /\ Overshoot'
  <2>1. l \in Polled
    BY <1>2 DEF Dispatch, Polled
  <2>2. Cardinality(Polled \ {l}) = Cardinality(Polled) - 1
    BY <1>a, <2>1, FS_RemoveElement DEF PolledBounded
  <2>3. activeJobs' = activeJobs + 1 /\ starts' = starts /\ l <= starts'
    BY <1>2, <1>b DEF Dispatch
  <2>4. PICK jb : LoopTop(l, processing, activeJobs', jb)
    BY <1>2 DEF Dispatch
  <2>5. activeJobs' + Cardinality(Polled \ {l}) <= MaxConcurrency - 1 + starts'
    BY <1>a, <2>2, <2>3 DEF Overshoot, PolledBounded
  <2> QED
    BY <2>3, <2>4, <2>5, LoopTopOvershoot
<1>3. ASSUME NEW s \in Slots, RunStep(s) PROVE LoopsInOrder' /\ Overshoot'
  <2>1. loops' = loops /\ starts' = starts /\ activeJobs' <= activeJobs
    BY <1>3, <1>a
    DEF RunStep, CallHandler, Complete, HandlerFails, RetryJob, Finish
  <2> QED
    BY <2>1, SamePolled
<1>4. ASSUME NEW j \in Jobs, EnqueueSaved(j), ~processing /\ StartProcessing
      PROVE  LoopsInOrder' /\ Overshoot'
  <2> DEFINE l == starts + 1
  <2>1. l \in Loops /\ starts' = l /\ activeJobs' = activeJobs
    BY <1>4, <1>a, SizeAssumption DEF EnqueueSaved, StartProcessing, Loops, TypeOK
  <2>2. Polled \ {l} = Polled
    BY <1>a, <1>b DEF Polled
  <2>3. LoopTop(l, TRUE, activeJobs', jobs)
    BY <1>4, <2>1 DEF StartProcessing
  <2>4. activeJobs' + Cardinality(Polled \ {l}) <= MaxConcurrency - 1 + starts'
    BY <1>a, <2>1, <2>2 DEF Overshoot, PolledBounded
  <2>5. l <= starts' /\ starts' \in {starts, starts + 1}
    BY <1>a, <2>1
  <2> QED
    BY <2>1, <2>3, <2>4, <2>5, LoopTopOvershoot
<1>5. ASSUME UNCHANGED <<loops, starts, activeJobs>>
      PROVE  LoopsInOrder' /\ Overshoot'
  BY <1>5, <1>a, SamePolled
<1>6. CASE UNCHANGED <<loops, starts, activeJobs>>
  BY <1>5, <1>6
<1> QED
  <2>1. ASSUME NEW n \in Names, RegisterHandler(n) \/ UnregisterHandler(n)
        PROVE  UNCHANGED <<loops, starts, activeJobs>>
    BY <2>1 DEF RegisterHandler, UnregisterHandler
  <2>2. ASSUME NEW j \in Jobs,
               \/ Enqueue(j) \/ Cancel(j) \/ CancelWrite(j)
               \/ EnqueueSaved(j) /\ ~(~processing /\ StartProcessing)
        PROVE  UNCHANGED <<loops, starts, activeJobs>>
    BY <2>2 DEF Enqueue, Cancel, CancelWrite, EnqueueSaved
  <2>3. ASSUME StopProcessing \/ StopTick PROVE UNCHANGED <<loops, starts, activeJobs>>
    BY <2>3 DEF StopProcessing, StopTick
  <2>4. CASE UNCHANGED vars
    BY <1>5, <2>4 DEF vars
  <2> QED
    BY <1>1, <1>2, <1>3, <1>4, <1>6, <2>1, <2>2, <2>3, <2>4
    DEF Next, LoopNext, RunNext, JobNext, RunStep

\* The bounds of the loops hold together.
LEMMA LoopsBounded == Spec => [](TypeOK /\ LoopsInOrder /\ Overshoot)
<1>1. Init => LoopsInOrder /\ Overshoot
  <2> SUFFICES ASSUME Init PROVE LoopsInOrder /\ Overshoot
    OBVIOUS
  <2>1. Polled = {}
    BY DEF Init, Polled, Idle
  <2> QED
    BY <2>1, FS_EmptySet, SizeAssumption DEF Init, LoopsInOrder, Overshoot, Idle
<1>2. TypeOK /\ TypeOK' /\ LoopsInOrder /\ Overshoot /\ [Next]_vars
        => LoopsInOrder' /\ Overshoot'
  BY OvershootStep
<1> QED
  BY <1>1, <1>2, BookkeepingCorrect, PTL DEF Spec

\* The jobs in flight and the jobs about to be dispatched exceed the limit by
\* at most one for every loop started after the first (queue.ts:116-132).
THEOREM OvershootBounded == Spec => []Overshoot
<1> QED
  BY LoopsBounded, PTL

\* The bound on Slots is no restriction: a slot is free for every polled job.
THEOREM SlotAlwaysFree == Spec => []SlotForEveryPoll
<1>1. TypeOK /\ ActiveJobsExact /\ Overshoot => SlotForEveryPoll
  <2> SUFFICES ASSUME TypeOK, ActiveJobsExact, Overshoot, Polled # {}
               PROVE  FreeSlots # {}
    BY DEF SlotForEveryPoll
  <2>1. IsFiniteSet(Polled) /\ Cardinality(Polled) \in Nat /\ Cardinality(Polled) # 0
    <3>1. IsFiniteSet(Loops)
      BY FS_Interval, SizeAssumption DEF Loops
    <3> QED
      BY <3>1, FS_Subset, FS_EmptySet, FS_CardinalityType DEF Polled
  <2>2. Cardinality(Busy) < Cardinality(Slots)
    BY <2>1, SlotsFinite, SizeAssumption DEF TypeOK, ActiveJobsExact, Overshoot
  <2>3. Busy # Slots
    BY <2>2, SlotsFinite, BusyFinite
  <2>4. Busy \subseteq Slots
    BY DEF Busy
  <2> QED
    BY <2>3, <2>4 DEF FreeSlots
<1> QED
  BY <1>1, BookkeepingCorrect, OvershootBounded, PTL

-----------------------------------------------------------------------------
(* What EveryJobServed rests on: somebody polls for the pending jobs *)

\* Loop l polls, or will when its sleep is over.
GoesOn(l) == loops[l].pc \in {"sleep", "polled"}

\* Whoever turns processing on starts a loop, and a loop ends only when it finds
\* it turned off.
LoopGoesOn == processing => \E l \in Loops : GoesOn(l)

\* A queue that is off and was never stopped was never on either: it has no run,
\* and what is pending still waits for its save.
NeverOn ==
    /\ starts = 0 => \A s \in Slots : runs[s].pc = "free"
    /\ ~processing /\ stopper = "idle" => starts = 0 /\ Pending(jobs) \subseteq enqueuing

\* A pending job has its save still to come, after which enqueue starts a loop,
\* or a loop goes on that polls for it, or the queue was stopped: whatever comes
\* between the awaits of the calls and of the loops (queue.ts:93-151).
PendingIsPolledFor ==
    \A j \in Jobs : jobs[j].status = "pending" =>
        \/ j \in enqueuing
        \/ processing /\ \E l \in Loops : GoesOn(l)
        \/ ~processing /\ stopper # "idle"

\* From the top of its while a loop goes on while the queue is processing.
LEMMA LoopTopGoesOn ==
  ASSUME TypeOK, NEW l \in Loops, NEW active, NEW jb,
         LoopTop(l, TRUE, active, jb)
  PROVE  GoesOn(l)'
<1>1. CASE Goto(l, Idle("sleep"))
  BY <1>1 DEF Goto, Idle, GoesOn, TypeOK
<1>2. CASE Poll(l, jb)
  BY <1>2 DEF Poll, Goto, GoesOn, TypeOK
<1> QED
  BY <1>1, <1>2 DEF LoopTop

\* A step of a loop leaves it on its way.
LEMMA LoopStepGoesOn ==
  ASSUME TypeOK, NEW l \in Loops, LoopWake(l) \/ Dispatch(l)
  PROVE  LoopGoesOn'
<1>1. processing' = processing /\ \E active, jb : LoopTop(l, processing, active, jb)
  BY DEF LoopWake, Dispatch
<1> SUFFICES ASSUME processing PROVE GoesOn(l)'
  BY <1>1 DEF LoopGoesOn
<1>2. PICK active, jb : LoopTop(l, TRUE, active, jb)
  BY <1>1 DEF LoopTop
<1> QED
  BY <1>2, LoopTopGoesOn

\* No step turns the queue on without a loop, nor leaves it without one.
LEMMA LoopGoesOnStep == ASSUME TypeOK, LoopGoesOn, [Next]_vars PROVE LoopGoesOn'
<1>1. ASSUME UNCHANGED <<processing, loops>> PROVE LoopGoesOn'
  BY <1>1 DEF LoopGoesOn, GoesOn
<1>2. ASSUME NEW s \in Slots, RunStep(s) PROVE LoopGoesOn'
  BY <1>1, <1>2 DEF RunStep, CallHandler, Complete, HandlerFails, RetryJob, Finish
<1>3. ASSUME NEW j \in Jobs, Enqueue(j) \/ Cancel(j) \/ CancelWrite(j) PROVE LoopGoesOn'
  BY <1>1, <1>3 DEF Enqueue, Cancel, CancelWrite
<1>4. ASSUME NEW j \in Jobs, EnqueueSaved(j) PROVE LoopGoesOn'
  <2>1. CASE StartProcessing
    <3>1. PICK l \in Loops : l = starts + 1
      BY <2>1, SizeAssumption DEF StartProcessing, TypeOK, Loops
    <3>2. PICK active, jb : LoopTop(l, TRUE, active, jb)
      BY <2>1, <3>1 DEF StartProcessing
    <3>3. GoesOn(l)'
      BY <3>2, LoopTopGoesOn
    <3> QED
      BY <3>3 DEF LoopGoesOn
  <2>2. CASE UNCHANGED <<processing, loops, starts, stopper>>
    BY <1>1, <2>2
  <2> QED
    BY <1>4, <2>1, <2>2 DEF EnqueueSaved
<1>5. ASSUME NEW n \in Names, RegisterHandler(n) \/ UnregisterHandler(n) PROVE LoopGoesOn'
  BY <1>1, <1>5 DEF RegisterHandler, UnregisterHandler
<1>6. CASE StopProcessing
  BY <1>6 DEF StopProcessing, LoopGoesOn
<1>7. CASE StopTick \/ UNCHANGED vars
  BY <1>1, <1>7 DEF StopTick, vars
<1> QED
  BY <1>2, <1>3, <1>4, <1>5, <1>6, <1>7, LoopStepGoesOn DEF Next, LoopNext, RunNext, JobNext, RunStep

\* What is done before the queue was ever on, and in a queue that is off.
LEMMA NeverOnStep ==
  ASSUME TypeOK, LoopsInOrder, NeverOn, [Next]_vars
  PROVE  NeverOn'
<1>a. starts \in Nat
  BY SizeAssumption DEF TypeOK
<1>b. \A l \in Loops : loops[l].pc # "off" => starts # 0
  BY <1>a, SizeAssumption DEF LoopsInOrder, Loops
<1>1. ASSUME UNCHANGED <<processing, stopper, starts, jobs, runs, enqueuing>> PROVE NeverOn'
  BY <1>1 DEF NeverOn, Pending
<1>2. ASSUME NEW l \in Loops, LoopWake(l) \/ Dispatch(l) PROVE NeverOn'
  <2>1. starts # 0
    BY <1>2, <1>b DEF LoopWake, Dispatch
  <2>2. UNCHANGED <<starts, processing, stopper>>
    BY <1>2 DEF LoopWake, Dispatch
  <2> QED
    BY <2>1, <2>2 DEF NeverOn
<1>3. ASSUME NEW s \in Slots, RunStep(s) PROVE NeverOn'
  <2>1. starts # 0 /\ UNCHANGED <<starts, processing, stopper>>
    BY <1>3 DEF NeverOn, RunStep, CallHandler, Complete, HandlerFails, RetryJob, Finish
  <2> QED
    BY <2>1 DEF NeverOn
<1>4. ASSUME NEW j \in Jobs, Enqueue(j) PROVE NeverOn'
  <2>1. /\ UNCHANGED <<starts, processing, stopper, runs>>
        /\ enqueuing' = enqueuing \union {j} /\ \A k \in Jobs \ {j} : jobs'[k] = jobs[k]
    BY <1>4 DEF Enqueue, Save, TypeOK, JobTable
  <2>2. Pending(jobs') \subseteq Pending(jobs) \union {j}
    BY <2>1 DEF Pending
  <2> QED
    BY <2>1, <2>2 DEF NeverOn
<1>5. ASSUME NEW j \in Jobs, CancelWrite(j) PROVE NeverOn'
  <2>1. UNCHANGED <<starts, processing, stopper, runs, enqueuing>>
    BY <1>5 DEF CancelWrite
  <2>2. jobs' = WithStatus(jobs, j, "cancelled")
    BY <1>5 DEF CancelWrite
  <2>3. jobs'[j].status = "cancelled" /\ \A k \in Jobs \ {j} : jobs'[k] = jobs[k]
    BY <2>2 DEF WithStatus, TypeOK, JobTable
  <2>4. Pending(jobs') \subseteq Pending(jobs)
    BY <2>3 DEF Pending
  <2> QED
    BY <2>1, <2>4 DEF NeverOn
<1>6. ASSUME NEW j \in Jobs, EnqueueSaved(j) PROVE NeverOn'
  <2>1. CASE ~processing /\ StartProcessing
    <3>1. processing' /\ starts' # 0
      BY <1>a, <2>1 DEF StartProcessing
    <3> QED
      BY <3>1 DEF NeverOn
  <2>2. CASE processing /\ UNCHANGED <<processing, loops, starts, stopper>>
    BY <1>6, <2>2 DEF EnqueueSaved, NeverOn
  <2> QED
    BY <1>6, <2>1, <2>2 DEF EnqueueSaved
<1>7. ASSUME NEW j \in Jobs, Cancel(j) PROVE NeverOn'
  BY <1>1, <1>7 DEF Cancel
<1>8. ASSUME NEW n \in Names, RegisterHandler(n) \/ UnregisterHandler(n) PROVE NeverOn'
  BY <1>1, <1>8 DEF RegisterHandler, UnregisterHandler
<1>9. CASE StopProcessing \/ StopTick
  <2>1. stopper' # "idle" /\ UNCHANGED <<starts, runs>>
    BY <1>9 DEF StopProcessing, StopTick, StopTest
  <2> QED
    BY <2>1 DEF NeverOn
<1>10. CASE UNCHANGED vars
  BY <1>1, <1>10 DEF vars
<1> QED
  BY <1>2, <1>3, <1>4, <1>5, <1>6, <1>7, <1>8, <1>9, <1>10
  DEF Next, LoopNext, RunNext, JobNext, RunStep

\* However the loops, the cancels and the stops come between the awaits of a call:
\* no job is left pending in a queue that is on and has no loop, or in one that
\* nobody has stopped and nobody is about to start.
THEOREM PendingJobsArePolledFor == Spec => []PendingIsPolledFor
<1>1. Init => LoopGoesOn /\ NeverOn
  BY DEF Init, LoopGoesOn, NeverOn, NoRun, Pending
<1>2. TypeOK /\ LoopsInOrder /\ LoopGoesOn /\ NeverOn /\ [Next]_vars => LoopGoesOn' /\ NeverOn'
  BY LoopGoesOnStep, NeverOnStep
<1>3. LoopGoesOn /\ NeverOn => PendingIsPolledFor
  BY DEF LoopGoesOn, NeverOn, PendingIsPolledFor, Pending
<1> QED
  BY <1>1, <1>2, <1>3, LoopsBounded, PTL DEF Spec

-----------------------------------------------------------------------------
(* A job stored as 'running' has a run that will write its outcome *)

\* The jobs other than j, and their runs, are what they were.
LEMMA OthersKeepRunning ==
  ASSUME TypeOK, NoStuckRunning, NEW j \in Jobs,
         \A k \in Jobs \ {j} : jobs'[k].status = "running" => jobs[k].status = "running",
         \A s \in Slots : Live(s) /\ runs[s].job # j
                              => Live(s)' /\ runs'[s].job = runs[s].job,
         jobs'[j].status = "running" => LiveFor(j)' # {}
  PROVE  NoStuckRunning'
<1> SUFFICES ASSUME NEW k \in Jobs, jobs'[k].status = "running", k # j
             PROVE  LiveFor(k)' # {}
  BY DEF NoStuckRunning
<1>1. PICK s \in Slots : Live(s) /\ runs[s].job = k
  BY DEF NoStuckRunning, LiveFor
<1> QED
  BY <1>1 DEF LiveFor

\* A step that leaves live runs alone and makes no job 'running'.
LEMMA RunsUntouched ==
  ASSUME TypeOK, NoStuckRunning,
         \A k \in Jobs : jobs'[k].status = "running" => jobs[k].status = "running",
         \A s \in Slots : Live(s) => Live(s)' /\ runs'[s].job = runs[s].job
  PROVE  NoStuckRunning'
<1> SUFFICES ASSUME NEW k \in Jobs, jobs'[k].status = "running"
             PROVE  LiveFor(k)' # {}
  BY DEF NoStuckRunning
<1>1. PICK s \in Slots : Live(s) /\ runs[s].job = k
  BY DEF NoStuckRunning, LiveFor
<1> QED
  BY <1>1 DEF LiveFor

\* A job is marked running only by a run that has it.
LEMMA NoStuckRunningStep ==
  ASSUME TypeOK, NoStuckRunning, [Next]_vars
  PROVE  NoStuckRunning'
<1>1. ASSUME NEW l \in Loops, Dispatch(l) PROVE NoStuckRunning'
  <2> DEFINE j == loops[l].got
  <2>1. j \in Jobs /\ FreeSlot \in FreeSlots
    BY <1>1 DEF Dispatch, TypeOK, FreeSlot
  <2>2. \A k \in Jobs \ {j} : jobs'[k] = jobs[k]
    BY <1>1 DEF Dispatch, Claimed, WithStatus, TypeOK, JobTable
  <2>3. PICK f \in Slots : f = FreeSlot /\ runs[f].pc = "free"
    BY <2>1 DEF FreeSlots, Busy
  <2>4. \A s \in Slots \ {f} : runs'[s] = runs[s]
    BY <1>1, <2>3 DEF Dispatch, TypeOK
  <2>5. \A s \in Slots : Live(s) => Live(s)' /\ runs'[s].job = runs[s].job
    BY <2>3, <2>4 DEF Live
  <2>6. CASE NameOf[j] \in handlers
    <3>1. runs'[f].pc = "starting" /\ runs'[f].job = j
      BY <1>1, <2>3, <2>6 DEF Dispatch, TypeOK
    <3>2. \E s \in Slots : Live(s)' /\ runs'[s].job = j
      BY <3>1 DEF Live
    <3>3. \A k \in Jobs : jobs'[k].status = "running" =>
                              \E s \in Slots : Live(s)' /\ runs'[s].job = k
      BY <2>1, <2>2, <2>5, <3>2 DEF NoStuckRunning, LiveFor
    <3> QED
      BY <3>3 DEF NoStuckRunning, LiveFor
  <2>7. CASE NameOf[j] \notin handlers
    <3>1. jobs'[j].status = "failed"
      BY <1>1, <2>1, <2>7 DEF Dispatch, Claimed, WithStatus, TypeOK, JobTable
    <3> QED
      BY <2>2, <2>5, <3>1, RunsUntouched
  <2> QED
    BY <2>6, <2>7
<1>2. ASSUME NEW s \in Slots, CallHandler(s) PROVE NoStuckRunning'
  <2>1. \A t \in Slots : Live(t) => Live(t)' /\ runs'[t].job = runs[t].job
    BY <1>2 DEF CallHandler, Live, TypeOK, RunRecord
  <2> QED
    BY <1>2, <2>1, RunsUntouched DEF CallHandler
<1>3. ASSUME NEW s \in Slots, runs[s].pc # "free", NEW st \in Status \ {"running"},
             jobs' = WithStatus(jobs, runs[s].job, st),
             runs' = [runs EXCEPT ![s].pc = "finishing"]
      PROVE  NoStuckRunning'
  <2> DEFINE j == runs[s].job
  <2>1. j \in Jobs
    BY <1>3 DEF TypeOK
  <2>2. jobs'[j].status = st /\ \A k \in Jobs \ {j} : jobs'[k] = jobs[k]
    BY <1>3, <2>1 DEF WithStatus, TypeOK, JobTable
  <2>3. \A t \in Slots : Live(t) /\ runs[t].job # j
                            => Live(t)' /\ runs'[t].job = runs[t].job
    BY <1>3 DEF Live, TypeOK, RunRecord
  <2> QED
    BY <2>1, <2>2, <2>3, OthersKeepRunning
<1>4. ASSUME NEW s \in Slots, Complete(s) \/ RetryJob(s) PROVE NoStuckRunning'
  BY <1>3, <1>4 DEF Complete, RetryJob, Status
<1>5. ASSUME NEW s \in Slots, HandlerFails(s) PROVE NoStuckRunning'
  <2>1. runs[s].pc = "executing" /\ HandleFailure(s)
    BY <1>5 DEF HandlerFails
  <2>2. CASE CanRetry(s)
    <3>1. \A t \in Slots : Live(t) => Live(t)' /\ runs'[t].job = runs[t].job
      BY <2>1, <2>2 DEF HandleFailure, Live, TypeOK, RunRecord
    <3> QED
      BY <2>1, <2>2, <3>1, RunsUntouched DEF HandleFailure
  <2>3. CASE ~CanRetry(s)
    BY <1>3, <2>1, <2>3 DEF HandleFailure, Status
  <2> QED
    BY <2>2, <2>3
<1>6. ASSUME NEW s \in Slots, Finish(s) PROVE NoStuckRunning'
  <2>1. \A t \in Slots : Live(t) => Live(t)' /\ runs'[t].job = runs[t].job
    BY <1>6 DEF Finish, Live, TypeOK
  <2> QED
    BY <1>6, <2>1, RunsUntouched DEF Finish
<1>7. ASSUME NEW j \in Jobs, Enqueue(j) \/ CancelWrite(j) PROVE NoStuckRunning'
  <2>1. \A k \in Jobs : jobs'[k].status = "running" => jobs[k].status = "running"
    BY <1>7 DEF Enqueue, Save, CancelWrite, WithStatus, TypeOK, JobTable
  <2>2. runs' = runs
    BY <1>7 DEF Enqueue, CancelWrite
  <2> QED
    BY <2>1, <2>2, RunsUntouched DEF Live
<1>8. CASE UNCHANGED <<jobs, runs>>
  BY <1>8, RunsUntouched DEF Live
<1> QED
  <2>1. ASSUME NEW l \in Loops, LoopWake(l) PROVE UNCHANGED <<jobs, runs>>
    BY <2>1 DEF LoopWake
  <2>2. ASSUME NEW n \in Names, RegisterHandler(n) \/ UnregisterHandler(n)
        PROVE  UNCHANGED <<jobs, runs>>
    BY <2>2 DEF RegisterHandler, UnregisterHandler
  <2>3. ASSUME NEW j \in Jobs, EnqueueSaved(j) \/ Cancel(j) PROVE UNCHANGED <<jobs, runs>>
    BY <2>3 DEF EnqueueSaved, Cancel
  <2>4. ASSUME StopProcessing \/ StopTick \/ UNCHANGED vars PROVE UNCHANGED <<jobs, runs>>
    BY <2>4 DEF StopProcessing, StopTick, vars
  <2> QED
    BY <1>1, <1>2, <1>4, <1>5, <1>6, <1>7, <1>8, <2>1, <2>2, <2>3, <2>4
    DEF Next, LoopNext, RunNext, JobNext

\* Whatever is cancelled, stopped or restarted, a job stored as 'running' has a
\* processJob call that has yet to store its outcome (queue.ts:156-242).
THEOREM RunningJobsFinish == Spec => []NoStuckRunning
<1>1. Init => NoStuckRunning
  BY DEF Init, NoStuckRunning
<1>2. TypeOK /\ NoStuckRunning /\ [Next]_vars => NoStuckRunning'
  BY NoStuckRunningStep
<1> QED
  BY <1>1, <1>2, BookkeepingCorrect, PTL DEF Spec


-----------------------------------------------------------------------------
(* One run at a time of a job, in a queue started once *)

\* A run that has still to write an outcome holds the attempt that is stored,
\* and no write but a cancel comes between its claim and its outcome.
RunsMatch ==
    \A s \in Slots : Live(s) =>
        /\ jobs[runs[s].job].status \in {"running", "cancelled"}
        /\ runs[s].attempt = jobs[runs[s].job].attempts
        /\ runs[s].pc = "backoff" => runs[s].attempt <= MaxRetries[runs[s].job]

OneLive ==
    \A s, t \in Slots : Live(s) /\ Live(t) /\ runs[s].job = runs[t].job => s = t

\* The copy of a polled job is not stale, except that the job may have been
\* cancelled since.
PollsMatch ==
    \A l \in Loops : loops[l].pc = "polled" =>
        /\ jobs[loops[l].got].status \in {"pending", "cancelled"}
        /\ loops[l].seen = jobs[loops[l].got].attempts
        /\ loops[l].seen <= MaxRetries[loops[l].got]
        /\ \A s \in Slots : Live(s) => runs[s].job # loops[l].got

\* A job waits only while a try is left; an unknown one has had none.
WaitersMatch ==
    \A j \in Jobs : /\ jobs[j].status = "pending" => jobs[j].attempts <= MaxRetries[j]
                    /\ jobs[j].status = "absent" => jobs[j].attempts = 0 /\ j \notin cancelling

Matched == RunsMatch /\ OneLive /\ PollsMatch /\ WaitersMatch

SingleLoop == starts <= 1 => Matched

\* What a loop holds after it went on: what it held before, or a pending job.
LEMMA LoopTopPolls ==
  ASSUME TypeOK, NEW l \in Loops, NEW on, NEW active, NEW jb, LoopTop(l, on, active, jb)
  PROVE  /\ \A k \in Loops \ {l} : loops'[k] = loops[k]
         /\ \/ loops'[l].pc # "polled"
            \/ /\ loops'[l].got \in Jobs
               /\ jb[loops'[l].got].status = "pending"
               /\ loops'[l].seen = jb[loops'[l].got].attempts
<1>1. CASE Goto(l, Idle("done")) \/ Goto(l, Idle("sleep"))
  BY <1>1 DEF Goto, Idle, TypeOK
<1>2. CASE Poll(l, jb)
  <2>1. PICK j \in NextPending(jb) :
            Goto(l, [pc |-> "polled", got |-> j, seen |-> jb[j].attempts])
    BY <1>2 DEF Poll
  <2>2. loops'[l] = [pc |-> "polled", got |-> j, seen |-> jb[j].attempts]
    BY <2>1 DEF Goto, TypeOK
  <2>3. j \in Jobs /\ jb[j].status = "pending"
    BY <2>1 DEF NextPending, Pending
  <2> QED
    BY <2>1, <2>2, <2>3 DEF Goto, TypeOK
<1> QED
  BY <1>1, <1>2 DEF LoopTop

\* The only loop polls a job of which there is no live run.
LEMMA PollsAfterLoopTop ==
  ASSUME TypeOK, TypeOK', LoopsInOrder', starts' <= 1, RunsMatch', WaitersMatch',
         NEW l \in Loops, l <= starts', NEW on, NEW active, LoopTop(l, on, active, jobs')
  PROVE  PollsMatch'
<1> SUFFICES ASSUME NEW k \in Loops, loops'[k].pc = "polled"
             PROVE  /\ jobs'[loops'[k].got].status \in {"pending", "cancelled"}
                    /\ loops'[k].seen = jobs'[loops'[k].got].attempts
                    /\ loops'[k].seen <= MaxRetries[loops'[k].got]
                    /\ \A s \in Slots : Live(s)' => runs'[s].job # loops'[k].got
  BY DEF PollsMatch
<1>1. k = l
  BY SizeAssumption DEF LoopsInOrder, Loops, TypeOK
<1>2. /\ loops'[l].got \in Jobs
      /\ jobs'[loops'[l].got].status = "pending"
      /\ loops'[l].seen = jobs'[loops'[l].got].attempts
  BY <1>1, LoopTopPolls
<1> QED
  BY <1>1, <1>2 DEF RunsMatch, WaitersMatch

\* A step of the run in slot s that writes st to its job and ends its life.
LEMMA RunSettles ==
  ASSUME TypeOK, Matched, loops' = loops, cancelling' = cancelling,
         NEW s \in Slots, Live(s), NEW st \in {"completed", "failed", "pending"},
         st = "pending" => runs[s].attempt <= MaxRetries[runs[s].job],
         jobs' = WithStatus(jobs, runs[s].job, st),
         runs' = [runs EXCEPT ![s].pc = "finishing"]
  PROVE  Matched'
<1>a. RunsMatch /\ OneLive /\ PollsMatch /\ WaitersMatch
  BY DEF Matched
<1>1. PICK j \in Jobs : j = runs[s].job
  BY DEF Live, TypeOK
<1>2. /\ \A k \in Jobs \ {j} : jobs'[k] = jobs[k]
      /\ jobs'[j].status = st /\ jobs'[j].attempts = jobs[j].attempts
  BY <1>1 DEF WithStatus, TypeOK, JobTable
<1>3. /\ ~Live(s)'
      /\ \A t \in Slots \ {s} : runs'[t] = runs[t] /\ (Live(t)' <=> Live(t))
  BY DEF Live, TypeOK, RunRecord
<1>4. \A t \in Slots : Live(t)' => /\ Live(t) /\ runs'[t] = runs[t]
                                   /\ runs[t].job \in Jobs /\ runs[t].job # j
  BY <1>a, <1>1, <1>3 DEF OneLive, Live, TypeOK
<1>5. RunsMatch'
  BY <1>a, <1>2, <1>4 DEF RunsMatch
<1>6. OneLive'
  BY <1>a, <1>4 DEF OneLive
<1>7. PollsMatch'
  BY <1>a, <1>1, <1>2, <1>4 DEF PollsMatch, TypeOK
<1>8. WaitersMatch'
  BY <1>a, <1>1, <1>2 DEF WaitersMatch, RunsMatch
<1> QED
  BY <1>5, <1>6, <1>7, <1>8 DEF Matched

\* A step that leaves the storage and the loops alone, and of the runs at most
\* lets live ones go on or ended ones leave.
LEMMA RunsGoOn ==
  ASSUME TypeOK, Matched, jobs' = jobs, loops' = loops, 
         \A j \in cancelling' \ cancelling : jobs[j].status # "absent",
         cancelling' \subseteq Jobs,
         \A t \in Slots : Live(t)' => /\ Live(t) /\ runs'[t].job = runs[t].job
                                      /\ runs'[t].attempt = runs[t].attempt
                                      /\ runs'[t].pc = "backoff" =>
                                            runs[t].attempt <= MaxRetries[runs[t].job]
  PROVE  Matched'
<1>a. RunsMatch /\ OneLive /\ PollsMatch /\ WaitersMatch
  BY DEF Matched
<1>1. RunsMatch'
  BY <1>a DEF RunsMatch
<1>2. OneLive'
  BY <1>a DEF OneLive
<1>3. PollsMatch'
  BY <1>a DEF PollsMatch
<1>4. WaitersMatch'
  BY <1>a DEF WaitersMatch
<1> QED
  BY <1>1, <1>2, <1>3, <1>4 DEF Matched

\* Every step of a queue with one loop keeps the storage, the runs and the polled
\* job in agreement.
LEMMA MatchedStep ==
  ASSUME TypeOK, TypeOK', LoopsInOrder, LoopsInOrder', Matched, starts' <= 1, [Next]_vars
  PROVE  Matched'
<1>a. RunsMatch /\ OneLive /\ PollsMatch /\ WaitersMatch
  BY DEF Matched
<1>b. /\ starts \in Nat
      /\ \A l \in Loops : loops[l].pc # "off" => l <= starts
  BY SizeAssumption DEF LoopsInOrder, TypeOK, Loops
<1>1. ASSUME NEW l \in Loops, LoopWake(l) PROVE Matched'
  <2>1. RunsMatch' /\ OneLive' /\ WaitersMatch'
    BY <1>1, <1>a DEF LoopWake, RunsMatch, OneLive, WaitersMatch, Live
  <2>2. l <= starts' /\ LoopTop(l, processing, activeJobs, jobs')
    BY <1>1, <1>b DEF LoopWake
  <2> QED
    BY <2>1, <2>2, PollsAfterLoopTop DEF Matched
<1>2. ASSUME NEW l \in Loops, Dispatch(l) PROVE Matched'
  <2>1. PICK j \in Jobs, n \in Nat : j = loops[l].got /\ n = loops[l].seen
    BY <1>2 DEF Dispatch, TypeOK, LoopRecord
  <2>2. PICK f \in Slots : f = FreeSlot /\ runs[f].pc = "free"
    BY <1>2 DEF Dispatch, FreeSlot, FreeSlots, Busy
  <2>3. /\ jobs' = Claimed(j, n)
        /\ runs' = [runs EXCEPT ![f] =
                     IF NameOf[j] \in handlers
                     THEN [pc |-> "starting", job |-> j, attempt |-> n + 1]
                     ELSE [pc |-> "finishing", job |-> j, attempt |-> n]]
        /\ cancelling' = cancelling
    BY <1>2, <2>1, <2>2 DEF Dispatch
  <2>4. /\ \A k \in Jobs \ {j} : jobs'[k] = jobs[k]
        /\ jobs'[j].status \in {"running", "failed"}
        /\ NameOf[j] \in handlers => jobs'[j].status = "running" /\ jobs'[j].attempts = n + 1
    BY <2>3 DEF Claimed, WithStatus, TypeOK, JobTable
  <2>5. /\ \A t \in Slots \ {f} : runs'[t] = runs[t] /\ (Live(t)' <=> Live(t))
        /\ Live(f)' => NameOf[j] \in handlers /\ runs'[f] = [pc |-> "starting", job |-> j, attempt |-> n + 1]
    BY <2>3 DEF Live, TypeOK
  <2>6. \A t \in Slots : Live(t) => runs[t].job # j /\ runs[t].job \in Jobs
    BY <1>2, <1>a, <2>1 DEF PollsMatch, Dispatch, Live, TypeOK
  <2>7. RunsMatch'
    BY <1>a, <2>4, <2>5, <2>6 DEF RunsMatch
  <2>8. OneLive'
    BY <1>a, <2>5, <2>6 DEF OneLive
  <2>9. WaitersMatch'
    BY <1>a, <2>3, <2>4 DEF WaitersMatch
  <2>10. l <= starts' /\ LoopTop(l, processing, activeJobs + 1, jobs')
    BY <1>2, <1>b, <2>1, <2>3 DEF Dispatch
  <2> QED
    BY <2>7, <2>8, <2>9, <2>10, PollsAfterLoopTop DEF Matched
<1>3. ASSUME NEW s \in Slots, RunStep(s) PROVE Matched'
  <2>1. CASE CallHandler(s) \/ Finish(s)
    <3>1. \A t \in Slots : Live(t)' => /\ Live(t) /\ runs'[t].job = runs[t].job
                                       /\ runs'[t].attempt = runs[t].attempt
                                       /\ runs'[t].pc = "backoff" => runs[t].pc = "backoff"
      BY <2>1 DEF CallHandler, Finish, Live, NoRun, TypeOK, RunRecord
    <3> QED
      BY <2>1, <1>a, <3>1, RunsGoOn DEF CallHandler, Finish, RunsMatch, TypeOK
  <2>2. CASE Complete(s)
    BY <2>2, RunSettles DEF Complete, Live
  <2>3. CASE RetryJob(s)
    BY <2>3, <1>a, RunSettles DEF RetryJob, Live, RunsMatch
  <2>4. CASE HandlerFails(s) /\ CanRetry(s)
    <3>1. \A t \in Slots : Live(t)' => /\ Live(t) /\ runs'[t].job = runs[t].job
                                       /\ runs'[t].attempt = runs[t].attempt
                                       /\ runs'[t].pc = "backoff" => t = s \/ runs[t].pc = "backoff"
      BY <2>4 DEF HandlerFails, HandleFailure, Live, TypeOK, RunRecord
    <3> QED
      BY <2>4, <1>a, <3>1, RunsGoOn DEF HandlerFails, HandleFailure, CanRetry, RunsMatch, TypeOK
  <2>5. CASE HandlerFails(s) /\ ~CanRetry(s)
    BY <2>5, RunSettles DEF HandlerFails, HandleFailure, Live
  <2> QED
    BY <1>3, <2>1, <2>2, <2>3, <2>4, <2>5 DEF RunStep
<1>4. ASSUME NEW j \in Jobs, Enqueue(j) \/ CancelWrite(j) PROVE Matched'
  <2>1. /\ \A k \in Jobs \ {j} : jobs'[k] = jobs[k]
        /\ \/ jobs'[j].status = "cancelled" /\ jobs'[j].attempts = jobs[j].attempts
           \/ /\ jobs[j].status = "absent"
              /\ jobs'[j].status = "pending" /\ jobs'[j].attempts = 0
        /\ runs' = runs /\ loops' = loops /\ cancelling' \subseteq cancelling
    BY <1>4 DEF Enqueue, Save, CancelWrite, WithStatus, TypeOK, JobTable
  <2>2. RunsMatch' /\ OneLive'
    BY <1>a, <2>1 DEF RunsMatch, OneLive, Live, TypeOK
  <2>3. PollsMatch'
    BY <1>a, <2>1 DEF PollsMatch, Live, TypeOK
  <2>4. WaitersMatch'
    BY <1>a, <2>1, JobsAssumption DEF WaitersMatch
  <2> QED
    BY <2>2, <2>3, <2>4 DEF Matched
<1>5. ASSUME NEW j \in Jobs, EnqueueSaved(j), ~processing /\ StartProcessing PROVE Matched'
  <2>1. RunsMatch' /\ OneLive' /\ WaitersMatch'
    BY <1>5, <1>a DEF EnqueueSaved, RunsMatch, OneLive, WaitersMatch, Live
  <2>2. starts + 1 \in Loops /\ starts + 1 <= starts'
    BY <1>5, <1>b, SizeAssumption DEF StartProcessing, Loops
  <2>3. jobs' = jobs /\ LoopTop(starts + 1, TRUE, activeJobs, jobs)
    BY <1>5 DEF EnqueueSaved, StartProcessing
  <2> QED
    BY <2>1, <2>2, <2>3, PollsAfterLoopTop DEF Matched
<1>6. ASSUME NEW j \in Jobs, Cancel(j) PROVE Matched'
  BY <1>6, RunsGoOn, <1>a DEF Cancel, RunsMatch, Live, TypeOK
<1>7. ASSUME UNCHANGED <<jobs, runs, loops, cancelling>> PROVE Matched'
  BY <1>7, RunsGoOn, <1>a DEF RunsMatch, Live, TypeOK
<1> QED
  <2>1. ASSUME NEW n \in Names, RegisterHandler(n) \/ UnregisterHandler(n)
        PROVE  UNCHANGED <<jobs, runs, loops, cancelling>>
    BY <2>1 DEF RegisterHandler, UnregisterHandler
  <2>2. ASSUME NEW j \in Jobs, EnqueueSaved(j), ~(~processing /\ StartProcessing)
        PROVE  UNCHANGED <<jobs, runs, loops, cancelling>>
    BY <2>2 DEF EnqueueSaved
  <2>3. ASSUME StopProcessing \/ StopTick \/ UNCHANGED vars
        PROVE  UNCHANGED <<jobs, runs, loops, cancelling>>
    BY <2>3 DEF StopProcessing, StopTick, vars
  <2> QED
    BY <1>1, <1>2, <1>3, <1>4, <1>5, <1>6, <1>7, <2>1, <2>2, <2>3
    DEF Next, LoopNext, RunNext, JobNext, RunStep

\* The number of started loops never decreases.
LEMMA StartsGrow == TypeOK /\ [Next]_vars => starts' \in {starts, starts + 1}
  BY DEF Next, LoopNext, RunNext, JobNext, vars, LoopWake, Dispatch, CallHandler,
         Complete, HandlerFails, RetryJob, Finish, RegisterHandler, UnregisterHandler,
         Enqueue, EnqueueSaved, StartProcessing, Cancel, CancelWrite, StopProcessing, StopTick

\* At first no loop runs.
LEMMA SingleLoopInit == Init => SingleLoop
  BY JobsAssumption DEF Init, SingleLoop, Matched, RunsMatch, OneLive, PollsMatch, WaitersMatch,
     Live, NoRun, Idle

\* With one start there is one loop, and its runs are those of the storage.
LEMMA SingleLoopAlways == Spec => []SingleLoop
<1>1. TypeOK /\ TypeOK' /\ LoopsInOrder /\ LoopsInOrder' /\ SingleLoop /\ [Next]_vars
        => SingleLoop'
  <2>1. TypeOK /\ [Next]_vars /\ starts' <= 1 => starts <= 1
    BY StartsGrow, SizeAssumption DEF TypeOK
  <2> QED
    BY <2>1, MatchedStep DEF SingleLoop
<1> QED
  BY <1>1, SingleLoopInit, LoopsBounded, PTL DEF Spec

\* While a queue has been started once, no job has two live runs, nor one while
\* the loop is about to dispatch it, whatever is retried, cancelled, enqueued
\* and stopped in between (queue.ts:113-132, 196-224, 257-272).
THEOREM OneRunAtATime == Spec => []OneRunPerJob
<1>1. SingleLoop => OneRunPerJob
  BY DEF SingleLoop, Matched, OneRunPerJob, OneLive, PollsMatch, LiveFor, PolledFor, Polled
<1> QED
  BY <1>1, SingleLoopAlways, PTL

-----------------------------------------------------------------------------
(* A queue started once implements the life of a job *)

HasRun(j) == \E s \in Slots : Live(s) /\ runs[s].job = j

HasPoll(j) == loops[1].pc = "polled" /\ loops[1].got = j

PhaseAt(j) ==
    IF HasRun(j) THEN "running"
    ELSE IF HasPoll(j) THEN "claimed"
    ELSE IF jobs[j].status = "absent" THEN "new"
    ELSE IF jobs[j].status = "pending" THEN "waiting"
    ELSE "settled"

Tries == [j \in Jobs |-> jobs[j].attempts]

LifeStep == [Lifecycle!LifeNext]_(Lifecycle!lifeVars)

\* With one loop, the phase of a job in terms of that loop.
LEMMA PhaseIs ==
  ASSUME MaxStarts = 1
  PROVE  /\ 1 \in Loops /\ \A l \in Loops : l = 1
         /\ Phase = [j \in Jobs |-> PhaseAt(j)]
         /\ Phase' = [j \in Jobs |-> PhaseAt(j)']
<1>1. 1 \in Loops /\ \A l \in Loops : l = 1
  BY DEF Loops
<1>2. \A j \in Jobs : LiveFor(j) # {} <=> HasRun(j)
  BY DEF LiveFor, HasRun
<1>3. \A j \in Jobs : LiveFor(j)' # {} <=> HasRun(j)'
  BY DEF LiveFor, HasRun
<1>4. \A j \in Jobs : PolledFor(j) # {} <=> HasPoll(j)
  BY <1>1 DEF PolledFor, Polled, HasPoll
<1>5. \A j \in Jobs : PolledFor(j)' # {} <=> HasPoll(j)'
  BY <1>1 DEF PolledFor, Polled, HasPoll
<1>6. Phase = [j \in Jobs |-> PhaseAt(j)]
  BY <1>2, <1>4 DEF Phase, PhaseAt
<1>7. Phase' = [j \in Jobs |-> PhaseAt(j)']
  BY <1>3, <1>5 DEF Phase, PhaseAt
<1> QED
  BY <1>1, <1>6, <1>7

\* A step that moves one job at most.
LEMMA OneMoves ==
  ASSUME MaxStarts = 1, NEW j \in Jobs,
         \A k \in Jobs \ {j} : PhaseAt(k)' = PhaseAt(k) /\ jobs'[k].attempts = jobs[k].attempts
  PROVE  /\ Phase[j] = PhaseAt(j)
         /\ Phase' = [Phase EXCEPT ![j] = PhaseAt(j)']
         /\ Tries' = [Tries EXCEPT ![j] = jobs'[j].attempts]
         /\ jobs'[j].attempts = jobs[j].attempts => Tries' = Tries
         /\ Tries[j] = jobs[j].attempts
<1>1. /\ Phase = [k \in Jobs |-> PhaseAt(k)]
      /\ Phase' = [k \in Jobs |-> PhaseAt(k)']
  BY PhaseIs
<1>2. Phase' = [Phase EXCEPT ![j] = PhaseAt(j)']
  BY <1>1
<1>3. /\ Tries' = [Tries EXCEPT ![j] = jobs'[j].attempts]
      /\ jobs'[j].attempts = jobs[j].attempts => Tries' = Tries
      /\ Tries[j] = jobs[j].attempts
  BY DEF Tries
<1> QED
  BY <1>1, <1>2, <1>3

\* A step that moves no job.
LEMMA NothingMoves ==
  ASSUME MaxStarts = 1,
         \A k \in Jobs : PhaseAt(k)' = PhaseAt(k) /\ jobs'[k].attempts = jobs[k].attempts
  PROVE  LifeStep
<1>1. Phase' = Phase
  BY PhaseIs
<1>2. Tries' = Tries
  BY DEF Tries
<1> QED
  BY <1>1, <1>2 DEF LifeStep, Lifecycle!lifeVars, Tries

\* The loop was not holding a job and goes on: it claims one at most.
LEMMA LoopClaims ==
  ASSUME MaxStarts = 1, TypeOK, Matched, Matched', loops[1].pc # "polled",
         jobs' = jobs, runs' = runs, NEW on, NEW active, LoopTop(1, on, active, jobs)
  PROVE  LifeStep
<1>a. 1 \in Loops
  BY PhaseIs
<1>1. \A j \in Jobs : (HasRun(j)' <=> HasRun(j)) /\ ~HasPoll(j)
  BY DEF HasRun, HasPoll, Live
<1>2. CASE loops'[1].pc # "polled"
  <2>1. \A j \in Jobs : PhaseAt(j)' = PhaseAt(j)
    BY <1>1, <1>2 DEF PhaseAt, HasPoll
  <2> QED
    BY <2>1, NothingMoves
<1>3. CASE loops'[1].pc = "polled"
  <2>1. PICK k \in Jobs : k = loops'[1].got /\ jobs[k].status = "pending"
    BY <1>a, <1>3, LoopTopPolls
  <2>2. ~HasRun(k)
    BY <2>1 DEF Matched, RunsMatch, HasRun
  <2>3. \A j \in Jobs : HasPoll(j)' <=> j = k
    BY <1>3, <2>1 DEF HasPoll
  <2>4. \A j \in Jobs \ {k} : PhaseAt(j)' = PhaseAt(j)
    BY <1>1, <2>3 DEF PhaseAt
  <2>5. PhaseAt(k) = "waiting" /\ PhaseAt(k)' = "claimed"
    BY <1>1, <2>1, <2>2, <2>3 DEF PhaseAt
  <2>6. Lifecycle!Claim(k)
    BY <2>4, <2>5, OneMoves DEF Lifecycle!Claim, Lifecycle!Move, Tries
  <2> QED
    BY <2>6 DEF LifeStep, Lifecycle!LifeNext
<1> QED
  BY <1>2, <1>3

\* The loop dispatches a job and may claim the next one.
LEMMA DispatchLives ==
  ASSUME MaxStarts = 1, TypeOK, Matched, Matched', Dispatch(1)
  PROVE  LifeStep
<1>a. 1 \in Loops
  BY PhaseIs
<1>1. PICK i \in Jobs, n \in Nat : i = loops[1].got /\ n = loops[1].seen
  BY <1>a DEF Dispatch, TypeOK, LoopRecord
<1>b. /\ loops[1].pc = "polled"
      /\ jobs[i].status \in {"pending", "cancelled"}
      /\ n = jobs[i].attempts /\ n <= MaxRetries[i]
      /\ ~HasRun(i)
  BY <1>a, <1>1 DEF Dispatch, Matched, PollsMatch, HasRun
<1>2. PICK f \in Slots : f = FreeSlot /\ runs[f].pc = "free"
  BY DEF Dispatch, FreeSlot, FreeSlots, Busy
<1>3. /\ jobs' = Claimed(i, n)
      /\ runs' = [runs EXCEPT ![f] =
                   IF NameOf[i] \in handlers
                   THEN [pc |-> "starting", job |-> i, attempt |-> n + 1]
                   ELSE [pc |-> "finishing", job |-> i, attempt |-> n]]
      /\ LoopTop(1, processing, activeJobs + 1, jobs')
  BY <1>1, <1>2 DEF Dispatch
<1>4. /\ \A k \in Jobs \ {i} : jobs'[k] = jobs[k]
      /\ NameOf[i] \in handlers => jobs'[i].status = "running" /\ jobs'[i].attempts = n + 1
      /\ NameOf[i] \notin handlers => jobs'[i].status = "failed" /\ jobs'[i].attempts = n
  BY <1>b, <1>3 DEF Claimed, WithStatus, TypeOK, JobTable
<1>5. /\ \A t \in Slots \ {f} : runs'[t] = runs[t] /\ (Live(t)' <=> Live(t))
      /\ ~Live(f)
      /\ Live(f)' => runs'[f].job = i
      /\ Live(f)' <=> NameOf[i] \in handlers
  BY <1>2, <1>3 DEF Live, TypeOK
<1>6. /\ \A k \in Jobs \ {i} : HasRun(k)' <=> HasRun(k)
      /\ HasRun(i)' <=> NameOf[i] \in handlers
  BY <1>b, <1>5 DEF HasRun
<1>7. \A k \in Jobs : HasPoll(k) <=> k = i
  BY <1>1, <1>b DEF HasPoll
<1>8. PhaseAt(i) = "claimed"
  BY <1>b, <1>7 DEF PhaseAt
<1>9. CASE loops'[1].pc # "polled"
  <2>1. \A k \in Jobs : ~HasPoll(k)'
    BY <1>9 DEF HasPoll
  <2>2. \A k \in Jobs \ {i} : PhaseAt(k)' = PhaseAt(k)
    BY <1>4, <1>6, <1>7, <2>1 DEF PhaseAt
  <2>3. CASE NameOf[i] \in handlers
    <3>1. PhaseAt(i)' = "running"
      BY <1>6, <2>3 DEF PhaseAt
    <3>2. Lifecycle!Run(i)
      BY <1>b, <1>4, <1>8, <2>2, <2>3, <3>1, OneMoves DEF Lifecycle!Run, Lifecycle!Move, Tries
    <3> QED
      BY <3>2 DEF LifeStep, Lifecycle!LifeNext
  <2>4. CASE NameOf[i] \notin handlers
    <3>1. PhaseAt(i)' = "settled"
      BY <1>4, <1>6, <2>1, <2>4 DEF PhaseAt
    <3>2. Lifecycle!Drop(i)
      BY <1>b, <1>4, <1>8, <2>2, <2>4, <3>1, OneMoves DEF Lifecycle!Drop, Lifecycle!Move, Tries
    <3> QED
      BY <3>2 DEF LifeStep, Lifecycle!LifeNext
  <2> QED
    BY <2>3, <2>4
<1>10. CASE loops'[1].pc = "polled"
  <2>1. PICK j \in Jobs : j = loops'[1].got /\ jobs'[j].status = "pending"
    BY <1>a, <1>3, <1>10, LoopTopPolls
  <2>2. i # j /\ jobs[j].status = "pending"
    BY <1>4, <2>1
  <2>3. \A k \in Jobs : HasPoll(k)' <=> k = j
    BY <1>10, <2>1 DEF HasPoll
  <2>4. ~HasRun(j)
    BY <2>2 DEF Matched, RunsMatch, HasRun
  <2>5. \A k \in Jobs \ {i, j} : PhaseAt(k)' = PhaseAt(k)
    BY <1>4, <1>6, <1>7, <2>3 DEF PhaseAt
  <2>6. PhaseAt(j) = "waiting" /\ PhaseAt(j)' = "claimed"
    BY <1>6, <1>7, <2>2, <2>3, <2>4 DEF PhaseAt
  <2>7. /\ Phase[i] = "claimed" /\ Phase[j] = "waiting"
        /\ Phase' = [Phase EXCEPT ![i] = PhaseAt(i)', ![j] = "claimed"]
    BY <1>8, <2>2, <2>5, <2>6, PhaseIs
  <2>8. CASE NameOf[i] \in handlers
    <3>1. PhaseAt(i)' = "running"
      BY <1>6, <2>8 DEF PhaseAt
    <3>2. Tries[i] <= MaxRetries[i] /\ Tries' = [Tries EXCEPT ![i] = @ + 1]
      BY <1>b, <1>4, <2>8 DEF Tries
    <3>3. Lifecycle!RunAndClaim(i, j)
      BY <2>2, <2>7, <3>1, <3>2 DEF Lifecycle!RunAndClaim, Tries
    <3> QED
      BY <3>3 DEF LifeStep, Lifecycle!LifeNext
  <2>9. CASE NameOf[i] \notin handlers
    <3>1. PhaseAt(i)' = "settled"
      BY <1>4, <1>6, <2>2, <2>3, <2>9 DEF PhaseAt
    <3>2. Tries' = Tries
      BY <1>b, <1>4, <2>9 DEF Tries
    <3>3. Lifecycle!RunAndClaim(i, j)
      BY <2>2, <2>7, <3>1, <3>2 DEF Lifecycle!RunAndClaim, Tries
    <3> QED
      BY <3>3 DEF LifeStep, Lifecycle!LifeNext
  <2> QED
    BY <2>8, <2>9
<1> QED
  BY <1>9, <1>10

\* A run writes st to its job and ends its life: the job waits again or is settled.
LEMMA RunEnds ==
  ASSUME MaxStarts = 1, TypeOK, Matched, loops' = loops,
         NEW s \in Slots, Live(s), NEW st \in {"completed", "failed", "pending"},
         st = "pending" => runs[s].attempt <= MaxRetries[runs[s].job],
         jobs' = WithStatus(jobs, runs[s].job, st),
         runs' = [runs EXCEPT ![s].pc = "finishing"]
  PROVE  LifeStep
<1>1. PICK j \in Jobs : j = runs[s].job
  BY DEF Live, TypeOK
<1>2. /\ \A k \in Jobs \ {j} : jobs'[k] = jobs[k]
      /\ jobs'[j].status = st /\ jobs'[j].attempts = jobs[j].attempts
  BY <1>1 DEF WithStatus, TypeOK, JobTable
<1>3. /\ ~Live(s)'
      /\ \A t \in Slots \ {s} : runs'[t] = runs[t] /\ (Live(t)' <=> Live(t))
  BY DEF Live, TypeOK, RunRecord
<1>4. /\ \A k \in Jobs \ {j} : HasRun(k)' <=> HasRun(k)
      /\ HasRun(j) /\ ~HasRun(j)'
  BY <1>1, <1>3 DEF HasRun, Matched, OneLive
<1>5. \A k \in Jobs : HasPoll(k)' <=> HasPoll(k)
  BY DEF HasPoll
<1>6. ~HasPoll(j)
  BY <1>1, PhaseIs DEF HasPoll, Matched, PollsMatch
<1>7. \A k \in Jobs \ {j} : PhaseAt(k)' = PhaseAt(k)
  BY <1>2, <1>4, <1>5 DEF PhaseAt
<1>8. PhaseAt(j) = "running"
  BY <1>4 DEF PhaseAt
<1>9. CASE st = "pending"
  <2>1. PhaseAt(j)' = "waiting"
    BY <1>2, <1>4, <1>5, <1>6, <1>9 DEF PhaseAt
  <2>2. jobs[j].attempts <= MaxRetries[j]
    BY <1>1, <1>9 DEF Matched, RunsMatch
  <2>3. Lifecycle!Retry(j)
    BY <1>2, <1>7, <1>8, <2>1, <2>2, OneMoves DEF Lifecycle!Retry, Lifecycle!Move, Tries
  <2> QED
    BY <2>3 DEF LifeStep, Lifecycle!LifeNext
<1>10. CASE st # "pending"
  <2>1. PhaseAt(j)' = "settled"
    BY <1>2, <1>4, <1>5, <1>6, <1>10 DEF PhaseAt
  <2>2. Lifecycle!Settle(j)
    BY <1>2, <1>7, <1>8, <2>1, OneMoves DEF Lifecycle!Settle, Lifecycle!Move, Tries
  <2> QED
    BY <2>2 DEF LifeStep, Lifecycle!LifeNext
<1> QED
  BY <1>9, <1>10

\* The storage and the loops stay, and the jobs with a live run.
LEMMA LivesGoOn ==
  ASSUME MaxStarts = 1, jobs' = jobs, loops' = loops,
         \A s \in Slots : (Live(s)' <=> Live(s)) /\ (Live(s) => runs'[s].job = runs[s].job)
  PROVE  LifeStep
<1>1. \A k \in Jobs : (HasRun(k)' <=> HasRun(k)) /\ (HasPoll(k)' <=> HasPoll(k))
  BY DEF HasRun, HasPoll
<1> QED
  BY <1>1, NothingMoves DEF PhaseAt

\* Every step of the queue is a step of a job's life, or moves no job.
LEMMA LifecycleStep ==
  ASSUME MaxStarts = 1, TypeOK, LoopsInOrder, Matched, Matched', [Next]_vars
  PROVE  LifeStep
<1>a. RunsMatch /\ OneLive /\ PollsMatch /\ WaitersMatch
  BY DEF Matched
<1>b. \A l \in Loops : l = 1
  BY PhaseIs
<1>1. ASSUME NEW l \in Loops, LoopWake(l) PROVE LifeStep
  <2>1. l = 1
    BY <1>b
  <2>2. /\ loops[1].pc # "polled" /\ jobs' = jobs /\ runs' = runs
        /\ LoopTop(1, processing, activeJobs, jobs)
    BY <1>1, <2>1 DEF LoopWake
  <2> QED
    BY <2>2, LoopClaims
<1>2. ASSUME NEW l \in Loops, Dispatch(l) PROVE LifeStep
  <2>1. l = 1
    BY <1>b
  <2> QED
    BY <1>2, <2>1, DispatchLives
<1>3. ASSUME NEW s \in Slots, RunStep(s) PROVE LifeStep
  <2>1. CASE CallHandler(s) \/ Finish(s)
    BY <2>1, LivesGoOn DEF CallHandler, Finish, Live, NoRun, TypeOK, RunRecord
  <2>2. CASE Complete(s)
    BY <2>2, RunEnds DEF Complete, Live
  <2>3. CASE RetryJob(s)
    BY <2>3, <1>a, RunEnds DEF RetryJob, Live, RunsMatch
  <2>4. CASE HandlerFails(s) /\ CanRetry(s)
    BY <2>4, LivesGoOn DEF HandlerFails, HandleFailure, Live, TypeOK, RunRecord
  <2>5. CASE HandlerFails(s) /\ ~CanRetry(s)
    BY <2>5, RunEnds DEF HandlerFails, HandleFailure, Live
  <2> QED
    BY <1>3, <2>1, <2>2, <2>3, <2>4, <2>5 DEF RunStep
<1>4. ASSUME NEW j \in Jobs, Enqueue(j) PROVE LifeStep
  <2>1. /\ \A k \in Jobs \ {j} : jobs'[k] = jobs[k]
        /\ jobs[j].status = "absent" /\ jobs[j].attempts = 0
        /\ jobs'[j].status = "pending" /\ jobs'[j].attempts = 0
        /\ runs' = runs /\ loops' = loops
    BY <1>4, <1>a DEF Enqueue, Save, TypeOK, JobTable, WaitersMatch
  <2>2. \A k \in Jobs : (HasRun(k)' <=> HasRun(k)) /\ (HasPoll(k)' <=> HasPoll(k))
    BY <2>1 DEF HasRun, HasPoll, Live
  <2>3. ~HasRun(j) /\ ~HasPoll(j)
    BY <1>a, <2>1, PhaseIs DEF HasRun, HasPoll, RunsMatch, PollsMatch
  <2>4. \A k \in Jobs \ {j} : PhaseAt(k)' = PhaseAt(k)
    BY <2>1, <2>2 DEF PhaseAt
  <2>5. PhaseAt(j) = "new" /\ PhaseAt(j)' = "waiting"
    BY <2>1, <2>2, <2>3 DEF PhaseAt
  <2>6. Lifecycle!Submit(j)
    BY <2>1, <2>4, <2>5, OneMoves DEF Lifecycle!Submit, Lifecycle!Move, Tries
  <2> QED
    BY <2>6 DEF LifeStep, Lifecycle!LifeNext
<1>5. ASSUME NEW j \in Jobs, CancelWrite(j) PROVE LifeStep
  <2>1. /\ \A k \in Jobs \ {j} : jobs'[k] = jobs[k]
        /\ jobs[j].status # "absent" /\ jobs'[j].attempts = jobs[j].attempts
        /\ jobs'[j].status = "cancelled"
        /\ runs' = runs /\ loops' = loops
    BY <1>5, <1>a DEF CancelWrite, WithStatus, TypeOK, JobTable, WaitersMatch
  <2>2. \A k \in Jobs : (HasRun(k)' <=> HasRun(k)) /\ (HasPoll(k)' <=> HasPoll(k))
    BY <2>1 DEF HasRun, HasPoll, Live
  <2>3. \A k \in Jobs \ {j} : PhaseAt(k)' = PhaseAt(k)
    BY <2>1, <2>2 DEF PhaseAt
  <2>4. CASE PhaseAt(j) = "waiting"
    <3>1. PhaseAt(j)' = "settled"
      BY <2>1, <2>2, <2>4 DEF PhaseAt
    <3>2. Lifecycle!Withdraw(j)
      BY <2>1, <2>3, <2>4, <3>1, OneMoves DEF Lifecycle!Withdraw, Lifecycle!Move, Tries
    <3> QED
      BY <3>2 DEF LifeStep, Lifecycle!LifeNext
  <2>5. CASE PhaseAt(j) # "waiting"
    <3>1. PhaseAt(j)' = PhaseAt(j)
      BY <2>1, <2>2, <2>5 DEF PhaseAt
    <3> QED
      BY <2>1, <2>3, <3>1, NothingMoves
  <2> QED
    BY <2>4, <2>5
<1>6. ASSUME NEW j \in Jobs, EnqueueSaved(j), ~processing /\ StartProcessing PROVE LifeStep
  <2>1. starts = 0
    BY <1>6 DEF StartProcessing, TypeOK
  <2>2. loops[1].pc = "off"
    BY <2>1, PhaseIs DEF LoopsInOrder
  <2>3. starts + 1 = 1
    BY <2>1
  <2>4. /\ jobs' = jobs /\ runs' = runs
        /\ LoopTop(1, TRUE, activeJobs, jobs)
    BY <1>6, <2>3 DEF EnqueueSaved, StartProcessing
  <2> QED
    BY <2>2, <2>4, LoopClaims
<1>7. ASSUME UNCHANGED <<jobs, runs, loops>> PROVE LifeStep
  BY <1>7, LivesGoOn DEF Live
<1> QED
  <2>1. ASSUME NEW n \in Names, RegisterHandler(n) \/ UnregisterHandler(n)
        PROVE  UNCHANGED <<jobs, runs, loops>>
    BY <2>1 DEF RegisterHandler, UnregisterHandler
  <2>2. ASSUME NEW j \in Jobs, Cancel(j) PROVE UNCHANGED <<jobs, runs, loops>>
    BY <2>2 DEF Cancel
  <2>3. ASSUME NEW j \in Jobs, EnqueueSaved(j), ~(~processing /\ StartProcessing)
        PROVE  UNCHANGED <<jobs, runs, loops>>
    BY <2>3 DEF EnqueueSaved
  <2>4. ASSUME StopProcessing \/ StopTick \/ UNCHANGED vars
        PROVE  UNCHANGED <<jobs, runs, loops>>
    BY <2>4 DEF StopProcessing, StopTick, vars
  <2> QED
    BY <1>1, <1>2, <1>3, <1>4, <1>5, <1>6, <1>7, <2>1, <2>2, <2>3, <2>4
    DEF Next, LoopNext, RunNext, JobNext, RunStep

\* At the start every job is new.
LEMMA LifecycleInit == ASSUME Init PROVE Lifecycle!LifeInit
<1>1. \A j \in Jobs : LiveFor(j) = {} /\ PolledFor(j) = {}
  BY DEF Init, LiveFor, Live, NoRun, PolledFor, Polled, Idle
<1>2. \A j \in Jobs : jobs[j].status = "absent" /\ jobs[j].attempts = 0
  BY DEF Init
<1>3. Phase = [j \in Jobs |-> "new"]
  BY <1>1, <1>2 DEF Phase
<1> QED
  BY <1>2, <1>3 DEF Lifecycle!LifeInit

\* A queue whose loop is started once takes every job through the life that
\* JobLifecycle describes: claimed only while it waits, run once per claim and
\* at most MaxRetries + 1 times, and settled for good (queue.ts:73-272).
THEOREM OneStartIsLifecycle == ASSUME MaxStarts = 1 PROVE Spec => ImplementsLifecycle
<1>1. TypeOK => starts <= 1
  BY DEF TypeOK
<1>2. TypeOK /\ LoopsInOrder /\ Matched /\ Matched' /\ [Next]_vars => LifeStep
  BY LifecycleStep
<1>3. TypeOK /\ SingleLoop => Matched
  BY <1>1 DEF SingleLoop
<1> QED
  BY <1>2, <1>3, LifecycleInit, SingleLoopAlways, LoopsBounded, PTL
  DEF Spec, ImplementsLifecycle, LifeStep, Lifecycle!Spec

-----------------------------------------------------------------------------
(* The scheduler: one execution of every occurrence *)

DueRecord == [job : SchedJobs, cron : Nat \ {0}, at : Nat]

SaveRecord == [job : SchedJobs, at : Nat]

EditRecord ==
    {NoEdit} \union [kind : {"unschedule"}]
        \union [kind : {"schedule", "update"}, cron : Nat \ {0}, at : Nat]

SchedTypeOK ==
    /\ clock \in Nat
    /\ schedule \in [SchedJobs -> [status : {"none", "scheduled", "cancelled"},
                                   cron : Nat \ {0}, nextRun : Nat]]
    /\ check \in [Checks -> [due : SUBSET DueRecord, saving : SUBSET SaveRecord]]
    /\ edit \in [SchedJobs -> EditRecord]

\* A check saves for one job at a time.
OneSaving == \A k \in Checks : \A r, s \in check[k].saving : r = s

EditDisturbs == \A j \in SchedJobs : edit[j].kind = "update" => j \in disturbed

\* A job no two checks held, nobody edited and no write failed for: at most one
\* check has it, either to execute or to save ...
HeldOnce(j) ==
    \A k, l \in Checks :
        /\ \A d \in check[k].due, e \in check[l].due :
               d.job = j /\ e.job = j => k = l /\ d = e
        /\ \A d \in check[k].due, s \in check[l].saving : ~(d.job = j /\ s.job = j)
        /\ \A r \in check[k].saving, s \in check[l].saving :
               r.job = j /\ s.job = j => k = l

\* ... for the run the storage holds, which is past, or with a later one ...
HeldRight(j) ==
    \A k \in Checks :
        /\ \A d \in check[k].due :
               d.job = j => d.at = schedule[j].nextRun /\ d.at <= clock
        /\ \A s \in check[k].saving : s.job = j => s.at > schedule[j].nextRun

\* ... and only runs before the stored one have been executed, except that the
\* stored one has been if its successor is about to be saved.
FiredBefore(j) ==
    \A t \in Nat : <<j, t>> \in fired =>
        \/ t < schedule[j].nextRun
        \/ /\ t = schedule[j].nextRun
           /\ \E k \in Checks : \E s \in check[k].saving : s.job = j

\* Nothing is known of a job that was never scheduled.
Unknown(j) ==
    schedule[j].status = "none" =>
        /\ \A k \in Checks : /\ \A d \in check[k].due : d.job # j
                             /\ \A s \in check[k].saving : s.job # j
        /\ \A t \in Nat : <<j, t>> \notin fired

Calm(j) == HeldOnce(j) /\ HeldRight(j) /\ FiredBefore(j) /\ Unknown(j)

SchedInv ==
    /\ SchedTypeOK /\ OneSaving /\ EditDisturbs /\ OncePerOccurrence
    /\ \A j \in SchedJobs \ (disturbed \union unsaved) : Calm(j)

\* The next run is strictly after the present time.
LEMMA NextRunLater ==
  ASSUME NEW c \in Nat \ {0}, NEW t \in Nat
  PROVE  NextRun(c, t) \in Nat /\ NextRun(c, t) > t
<1>1. /\ t \div c \in Nat /\ t % c \in 0..(c - 1)
      /\ t = c * (t \div c) + (t % c)
  OBVIOUS
<1> DEFINE q == t \div c
<1>2. (q + 1) * c = c * q + c
  BY <1>1
<1>3. c * q \in Nat
  BY <1>1
<1> HIDE DEF q
<1> QED
  BY <1>1, <1>2, <1>3 DEF NextRun, q

\* What a check reads: the runs of scheduled jobs that have come, one per job.
LEMMA DueRecords ==
  ASSUME SchedTypeOK
  PROVE  /\ Due \subseteq DueRecord
         /\ \A d \in Due : /\ schedule[d.job].status = "scheduled"
                           /\ d.at = schedule[d.job].nextRun /\ d.at <= clock
         /\ \A d, e \in Due : d.job = e.job => d = e
  BY DEF Due, SchedTypeOK, DueRecord

\* Nothing is scheduled at the start.
LEMMA SchedInvInit == SchedInit => SchedInv
  BY SchedAssumption DEF SchedInit, SchedInv, SchedTypeOK, OneSaving, EditDisturbs, OncePerOccurrence, Calm,
     HeldOnce, HeldRight, FiredBefore, Unknown, NoCheck, NoEdit, EditRecord

\* A step that leaves the checks, the executions and the job's run alone.
LEMMA CalmStays ==
  ASSUME SchedTypeOK, NEW j \in SchedJobs, Calm(j), check' = check, fired' = fired,
         schedule'[j].nextRun = schedule[j].nextRun, clock' \in Nat, clock' >= clock,
         schedule'[j].status = "none" => schedule[j].status = "none"
  PROVE  Calm(j)'
<1>1. HeldOnce(j)'
  BY DEF Calm, HeldOnce
<1>2. HeldRight(j)'
  BY DEF Calm, HeldRight, SchedTypeOK, DueRecord
<1>3. FiredBefore(j)'
  BY DEF Calm, FiredBefore
<1>4. Unknown(j)'
  BY DEF Calm, Unknown
<1> QED
  BY <1>1, <1>2, <1>3, <1>4 DEF Calm

\* A check drops what it holds of some jobs, for which nothing is saved now.
LEMMA CalmReleased ==
  ASSUME SchedTypeOK, NEW j \in SchedJobs, Calm(j), fired' = fired,
         schedule'[j] = schedule[j], clock' = clock,
         \A k \in Checks : /\ check'[k].due \subseteq check[k].due
                           /\ check'[k].saving \subseteq check[k].saving
                           /\ \A s \in check[k].saving : s.job = j => s \in check'[k].saving
  PROVE  Calm(j)'
<1>1. HeldOnce(j)'
  BY DEF Calm, HeldOnce
<1>2. HeldRight(j)'
  BY DEF Calm, HeldRight
<1>3. FiredBefore(j)'
  BY DEF Calm, FiredBefore
<1>4. Unknown(j)'
  BY DEF Calm, Unknown
<1> QED
  BY <1>1, <1>2, <1>3, <1>4 DEF Calm

\* A check reads the due jobs; one that another check holds is disturbed.
LEMMA IntervalKeeps ==
  ASSUME SchedInv, NEW k \in Checks, IntervalFires(k)
  PROVE  SchedInv'
<1>a. SchedTypeOK /\ OneSaving /\ EditDisturbs /\ OncePerOccurrence
  BY DEF SchedInv
<1>1. /\ check[k].due = {} /\ check[k].saving = {}
      /\ check'[k].due = Due /\ check'[k].saving = {}
      /\ \A l \in Checks \ {k} : check'[l] = check[l]
      /\ disturbed \subseteq disturbed'
      /\ \A d \in Due, l \in Checks : d.job \in Holds(l) => d.job \in disturbed'
  BY <1>a DEF IntervalFires, NoCheck, SchedTypeOK
<1>2. SchedTypeOK'
  BY <1>a, <1>1, DueRecords DEF IntervalFires, SchedTypeOK
<1>3. OneSaving' /\ EditDisturbs' /\ OncePerOccurrence'
  BY <1>a, <1>1 DEF IntervalFires, OneSaving, EditDisturbs, OncePerOccurrence
<1>4. ASSUME NEW j \in SchedJobs, j \notin disturbed' \union unsaved'
      PROVE  Calm(j)'
  <2>1. Calm(j)
    BY <1>1, <1>4 DEF SchedInv, IntervalFires
  <2>2. \A d \in Due : d.job = j =>
            \A l \in Checks : /\ \A e \in check[l].due : e.job # j
                              /\ \A s \in check[l].saving : s.job # j
    BY <1>1, <1>4 DEF Holds
  <2>3. HeldOnce(j)'
    BY <1>1, <2>1, <2>2, <1>a, DueRecords DEF Calm, HeldOnce
  <2>4. HeldRight(j)'
    BY <1>1, <2>1, <1>a, DueRecords DEF Calm, HeldRight, IntervalFires
  <2>5. FiredBefore(j)'
    BY <1>1, <2>1 DEF Calm, FiredBefore, IntervalFires
  <2>6. Unknown(j)'
    BY <1>1, <2>1, <1>a, DueRecords DEF Calm, Unknown, IntervalFires
  <2> QED
    BY <2>3, <2>4, <2>5, <2>6 DEF Calm
<1> QED
  BY <1>2, <1>3, <1>4 DEF SchedInv

\* The execution of a calm job is the first of its run.
LEMMA ExecuteKeeps ==
  ASSUME SchedInv, NEW k \in Checks, NEW d \in check[k].due, ExecuteDue(k, d)
  PROVE  SchedInv'
<1>a. SchedTypeOK /\ OneSaving /\ EditDisturbs /\ OncePerOccurrence
  BY DEF SchedInv
<1>b. d \in DueRecord /\ clock \in Nat
  BY <1>a DEF SchedTypeOK
<1>0. PICK s : s = [job |-> d.job, at |-> NextRun(d.cron, clock)]
  OBVIOUS
<1>1. s \in SaveRecord /\ s.job = d.job /\ s.at > clock
  BY <1>b, <1>0, NextRunLater DEF DueRecord, SaveRecord
<1>2. /\ check[k].saving = {}
      /\ check'[k].due = check[k].due \ {d} /\ check'[k].saving = {s}
      /\ \A l \in Checks \ {k} : check'[l] = check[l]
  BY <1>a, <1>0 DEF ExecuteDue, SchedTypeOK
<1>3. SchedTypeOK'
  <2>1. check' \in [Checks -> [due : SUBSET DueRecord, saving : SUBSET SaveRecord]]
    BY <1>a, <1>0, <1>1 DEF ExecuteDue, SchedTypeOK
  <2> QED
    BY <1>a, <2>1 DEF ExecuteDue, SchedTypeOK
<1>4. OneSaving' /\ EditDisturbs'
  <2>1. \A l \in Checks : check'[l].saving = check[l].saving \/ check'[l].saving = {s}
    BY <1>2
  <2> QED
    BY <1>a, <2>1 DEF ExecuteDue, OneSaving, EditDisturbs
<1>5. OncePerOccurrence'
  <2>1. d.job \in disturbed \union unsaved \/ <<d.job, d.at>> \notin fired
    <3>1. CASE d.job \notin disturbed \union unsaved
      <4>1. Calm(d.job)
        BY <1>b, <3>1 DEF SchedInv, DueRecord
      <4>2. d.at = schedule[d.job].nextRun /\ d.at \in Nat
        BY <1>b, <4>1 DEF Calm, HeldRight, DueRecord
      <4>3. \A l \in Checks : \A r \in check[l].saving : r.job # d.job
        BY <4>1 DEF Calm, HeldOnce
      <4> QED
        BY <4>1, <4>2, <4>3 DEF Calm, FiredBefore
    <3> QED
      BY <3>1
  <2> QED
    BY <1>a, <2>1 DEF ExecuteDue, OncePerOccurrence
<1>6. ASSUME NEW j \in SchedJobs, j \notin disturbed' \union unsaved'
      PROVE  Calm(j)'
  <2>1. Calm(j) /\ schedule' = schedule /\ clock' = clock /\ fired' = fired \union {<<d.job, d.at>>}
    BY <1>6 DEF SchedInv, ExecuteDue
  <2>2. HeldOnce(j)'
    BY <1>1, <1>2, <2>1 DEF Calm, HeldOnce
  <2>3. HeldRight(j)'
    BY <1>1, <1>2, <1>a, <1>b, <2>1 DEF Calm, HeldRight, SchedTypeOK, DueRecord, SaveRecord
  <2>4. FiredBefore(j)'
    <3> SUFFICES ASSUME NEW t \in Nat, <<j, t>> \in fired'
                 PROVE  \/ t < schedule[j].nextRun
                        \/ /\ t = schedule[j].nextRun
                           /\ \E l \in Checks : \E r \in check'[l].saving : r.job = j
      BY <2>1 DEF FiredBefore
    <3>1. CASE <<j, t>> = <<d.job, d.at>>
      BY <1>1, <1>2, <2>1, <3>1 DEF Calm, HeldRight
    <3>2. CASE <<j, t>> \in fired
      BY <1>2, <2>1, <3>2 DEF Calm, FiredBefore
    <3> QED
      BY <2>1, <3>1, <3>2
  <2>5. Unknown(j)'
    BY <1>1, <1>2, <2>1 DEF Calm, Unknown
  <2> QED
    BY <2>2, <2>3, <2>4, <2>5 DEF Calm
<1> QED
  BY <1>3, <1>4, <1>5, <1>6 DEF SchedInv

\* The saved run is later than every executed one.
LEMMA SaveKeeps ==
  ASSUME SchedInv, NEW k \in Checks, SaveNextRun(k)
  PROVE  SchedInv'
<1>a. SchedTypeOK /\ OneSaving /\ EditDisturbs /\ OncePerOccurrence
  BY DEF SchedInv
<1>1. PICK s \in check[k].saving :
          /\ schedule' = [schedule EXCEPT ![s.job].nextRun = s.at]
          /\ check' = [check EXCEPT ![k].saving = {}]
          /\ UNCHANGED <<clock, ticking, edit, fired, firedTwice, disturbed, unsaved>>
  BY DEF SaveNextRun
<1>2. s \in SaveRecord
  BY <1>a DEF SchedTypeOK
<1>3. /\ check[k].saving = {s} /\ check'[k].saving = {} /\ check'[k].due = check[k].due
      /\ \A l \in Checks \ {k} : check'[l] = check[l]
  BY <1>a, <1>1 DEF SchedTypeOK, OneSaving
<1>4. SchedTypeOK'
  BY <1>a, <1>1, <1>2 DEF SchedTypeOK, SaveRecord
<1>5. OneSaving' /\ EditDisturbs' /\ OncePerOccurrence'
  BY <1>a, <1>1, <1>3 DEF OneSaving, EditDisturbs, OncePerOccurrence
<1>6. ASSUME NEW j \in SchedJobs, j \notin disturbed' \union unsaved'
      PROVE  Calm(j)'
  <2>1. Calm(j) /\ clock' = clock /\ fired' = fired
    BY <1>1, <1>6 DEF SchedInv
  <2>2. CASE s.job # j
    <3>1. schedule'[j] = schedule[j]
      BY <1>a, <1>1, <2>2 DEF SchedTypeOK
    <3> QED
      BY <1>a, <1>3, <2>1, <2>2, <3>1, CalmReleased
  <2>3. CASE s.job = j
    <3>1. /\ schedule'[j].nextRun = s.at /\ schedule'[j].status = schedule[j].status
          /\ s.at > schedule[j].nextRun /\ s.at \in Nat /\ schedule[j].nextRun \in Nat
      BY <1>a, <1>1, <1>2, <2>1, <2>3 DEF SchedTypeOK, Calm, HeldRight, SaveRecord
    <3>2. \A l \in Checks : /\ \A d \in check'[l].due : d.job # j
                            /\ \A r \in check'[l].saving : r.job # j
      BY <1>3, <2>1, <2>3 DEF Calm, HeldOnce
    <3>3. HeldOnce(j)' /\ HeldRight(j)'
      BY <3>2 DEF HeldOnce, HeldRight
    <3>4. FiredBefore(j)'
      BY <2>1, <3>1 DEF Calm, FiredBefore
    <3>5. Unknown(j)'
      BY <2>1, <2>3, <3>1 DEF Calm, Unknown
    <3> QED
      BY <3>3, <3>4, <3>5 DEF Calm
  <2> QED
    BY <2>2, <2>3
<1> QED
  BY <1>4, <1>5, <1>6 DEF SchedInv

\* A refused execution and a failed save only release what the check holds.
LEMMA FailureKeeps ==
  ASSUME SchedInv, NEW k \in Checks, SaveFails(k) \/ \E d \in check[k].due : EnqueueFails(k, d)
  PROVE  SchedInv'
<1>a. SchedTypeOK /\ OneSaving /\ EditDisturbs /\ OncePerOccurrence
  BY DEF SchedInv
<1>1. /\ UNCHANGED <<clock, schedule, ticking, edit, fired, firedTwice, disturbed>>
      /\ unsaved \subseteq unsaved'
      /\ \A l \in Checks : /\ check'[l].due \subseteq check[l].due
                           /\ check'[l].saving \subseteq check[l].saving
                           /\ \A s \in check[l].saving : s \in check'[l].saving \/ s.job \in unsaved'
      /\ check' \in [Checks -> [due : SUBSET DueRecord, saving : SUBSET SaveRecord]]
  <2>1. ASSUME NEW d \in check[k].due, EnqueueFails(k, d)
        PROVE  <1>1
    BY <1>a, <2>1 DEF EnqueueFails, SchedTypeOK
  <2>2. ASSUME SaveFails(k)
        PROVE  <1>1
    BY <1>a, <2>2 DEF SaveFails, SchedTypeOK, OneSaving
  <2> QED
    BY <2>1, <2>2
<1>2. SchedTypeOK' /\ OneSaving' /\ EditDisturbs' /\ OncePerOccurrence'
  BY <1>a, <1>1 DEF SchedTypeOK, OneSaving, EditDisturbs, OncePerOccurrence
<1>3. ASSUME NEW j \in SchedJobs, j \notin disturbed' \union unsaved'
      PROVE  Calm(j)'
  <2>1. Calm(j)
    BY <1>1, <1>3 DEF SchedInv
  <2> QED
    BY <1>a, <1>1, <1>3, <2>1, CalmReleased
<1> QED
  BY <1>2, <1>3 DEF SchedInv

\* A call of the API leaves the run of a job alone unless it disturbs the job, or
\* the job is unknown.
LEMMA ApiKeeps ==
  ASSUME SchedInv, NEW j \in SchedJobs, ApiNext(j)
  PROVE  SchedInv'
<1>a. SchedTypeOK /\ OneSaving /\ EditDisturbs /\ OncePerOccurrence
  BY DEF SchedInv
<1>b. /\ UNCHANGED <<clock, check, fired, firedTwice, unsaved>>
      /\ disturbed \subseteq disturbed'
      /\ \A i \in SchedJobs \ {j} : schedule'[i] = schedule[i] /\ edit'[i] = edit[i]
  BY <1>a DEF ApiNext, ScheduleJob, UpdateSchedule, ScheduleSaved, Unschedule, EditSaved, SchedTypeOK
<1>c. clock \in Nat /\ \A c \in Crons : c \in Nat \ {0} /\ NextRun(c, clock) \in Nat
  BY <1>a, SchedAssumption, NextRunLater DEF SchedTypeOK
<1>d. edit[j] \in EditRecord
  BY <1>a DEF SchedTypeOK
<1>1. SchedTypeOK' /\ (edit'[j].kind = "update" => j \in disturbed')
  <2>1. ASSUME NEW c \in Crons, ScheduleJob(j, c) PROVE <1>1
    BY <1>a, <1>c, <2>1 DEF ScheduleJob, SchedTypeOK, EditRecord
  <2>2. ASSUME NEW c \in Crons, UpdateSchedule(j, c) PROVE <1>1
    BY <1>a, <1>c, <2>2 DEF UpdateSchedule, SchedTypeOK, EditRecord
  <2>3. CASE ScheduleSaved(j)
    <3>1. edit[j].cron \in Nat \ {0} /\ edit[j].at \in Nat
      BY <1>d, <2>3 DEF ScheduleSaved, EditRecord, NoEdit
    <3> QED
      BY <1>a, <2>3, <3>1 DEF ScheduleSaved, SchedTypeOK, EditRecord, NoEdit
  <2>4. CASE Unschedule(j)
    BY <1>a, <2>4 DEF Unschedule, SchedTypeOK, EditRecord
  <2>5. CASE EditSaved(j)
    <3>1. edit[j].kind = "update" => edit[j].cron \in Nat \ {0} /\ edit[j].at \in Nat
      BY <1>d DEF EditRecord, NoEdit
    <3>2. schedule' \in [SchedJobs -> [status : {"none", "scheduled", "cancelled"},
                                       cron : Nat \ {0}, nextRun : Nat]]
      BY <1>a, <2>5, <3>1 DEF EditSaved, SchedTypeOK
    <3>3. edit' \in [SchedJobs -> EditRecord] /\ edit'[j].kind = "none"
      BY <1>a, <2>5 DEF EditSaved, SchedTypeOK, EditRecord, NoEdit
    <3> QED
      BY <1>a, <1>b, <3>2, <3>3 DEF SchedTypeOK
  <2> QED
    BY <2>1, <2>2, <2>3, <2>4, <2>5 DEF ApiNext
<1>2. OneSaving' /\ EditDisturbs' /\ OncePerOccurrence'
  BY <1>a, <1>b, <1>1 DEF OneSaving, EditDisturbs, OncePerOccurrence
<1>3. ASSUME NEW i \in SchedJobs, i \notin disturbed' \union unsaved'
      PROVE  Calm(i)'
  <2>1. Calm(i)
    BY <1>b, <1>3 DEF SchedInv
  <2>2. \/ /\ schedule'[i].nextRun = schedule[i].nextRun
           /\ schedule'[i].status = "none" => schedule[i].status = "none"
        \/ schedule[i].status = "none"
    <3>1. CASE i # j
      BY <1>b, <3>1
    <3>2. CASE i = j /\ ScheduleSaved(j)
      BY <1>3, <3>2 DEF ScheduleSaved
    <3>3. CASE i = j /\ EditSaved(j)
      BY <1>a, <1>b, <1>3, <3>3 DEF EditSaved, EditDisturbs, SchedTypeOK
    <3>4. CASE i = j /\ schedule' = schedule
      BY <3>4
    <3> QED
      BY <3>1, <3>2, <3>3, <3>4 DEF ApiNext, ScheduleJob, UpdateSchedule, Unschedule
  <2>3. CASE /\ schedule'[i].nextRun = schedule[i].nextRun
             /\ schedule'[i].status = "none" => schedule[i].status = "none"
    BY <1>a, <1>b, <2>1, <2>3, CalmStays DEF SchedTypeOK
  <2>4. CASE schedule[i].status = "none"
    <3>1. /\ \A k \in Checks : /\ \A d \in check'[k].due : d.job # i
                               /\ \A s \in check'[k].saving : s.job # i
          /\ \A t \in Nat : <<i, t>> \notin fired'
      BY <1>b, <2>1, <2>4 DEF Calm, Unknown
    <3> QED
      BY <3>1 DEF Calm, HeldOnce, HeldRight, FiredBefore, Unknown
  <2> QED
    BY <2>2, <2>3, <2>4
<1> QED
  BY <1>1, <1>2, <1>3 DEF SchedInv

\* Every step of the scheduler keeps the invariant.
LEMMA SchedStep ==
  ASSUME SchedInv, [SchedNext]_schedVars
  PROVE  SchedInv'
<1>1. ASSUME SchedTick \/ SchedStart \/ SchedStop \/ UNCHANGED schedVars PROVE SchedInv'
  <2>a. SchedTypeOK /\ OneSaving /\ EditDisturbs /\ OncePerOccurrence
    BY DEF SchedInv
  <2>1. /\ UNCHANGED <<schedule, check, edit, fired, firedTwice, disturbed, unsaved>>
        /\ clock' \in Nat /\ clock' >= clock
    BY <1>1, <2>a DEF SchedTick, SchedStart, SchedStop, schedVars, SchedTypeOK
  <2>2. SchedTypeOK' /\ OneSaving' /\ EditDisturbs' /\ OncePerOccurrence'
    BY <2>a, <2>1 DEF SchedTypeOK, OneSaving, EditDisturbs, OncePerOccurrence
  <2>3. ASSUME NEW j \in SchedJobs, j \notin disturbed' \union unsaved' PROVE Calm(j)'
    <3>1. Calm(j)
      BY <2>1, <2>3 DEF SchedInv
    <3> QED
      BY <2>a, <2>1, <3>1, CalmStays
  <2> QED
    BY <2>2, <2>3 DEF SchedInv
<1> QED
  BY <1>1, IntervalKeeps, ExecuteKeeps, SaveKeeps, FailureKeeps, ApiKeeps
  DEF SchedNext, CheckNext

\* A next run of a job is handed to the queue once, for any number of jobs and
\* of overlapping checks, unless two checks held the job at once, its schedule
\* was edited, or its new next run could not be saved (scheduler.ts:128-175).
THEOREM OccurrencesRunOnce == SchedSpec => []OncePerOccurrence
<1>1. SchedInv => OncePerOccurrence
  BY DEF SchedInv
<1>2. SchedInv /\ [SchedNext]_schedVars => SchedInv'
  BY SchedStep
<1> QED
  BY <1>1, <1>2, SchedInvInit, PTL DEF SchedSpec


-----------------------------------------------------------------------------
(* The scheduler: no occurrence is passed over *)

\* The next run a check is about to save for j follows one that was executed.
SavesFired(j) ==
    \A k \in Checks : \A s \in check[k].saving :
        s.job = j => <<j, schedule[j].nextRun>> \in fired

\* No check has a job that was never scheduled.
HeldIsKnown(j) ==
    schedule[j].status = "none" =>
        \A k \in Checks : /\ \A d \in check[k].due : d.job # j
                          /\ \A s \in check[k].saving : s.job # j

\* What the checks hold of a job that was not disturbed, also when its next run
\* could not be saved.
Hold(j) == HeldOnce(j) /\ HeldRight(j) /\ SavesFired(j) /\ HeldIsKnown(j)

HoldInv == \A j \in SchedJobs \ disturbed : Hold(j)

\* The next run of a job moves from one that was executed to a later one.
MovesOn(j) ==
    schedule[j].status # "none" /\ schedule'[j].nextRun # schedule[j].nextRun =>
        /\ <<j, schedule[j].nextRun>> \in fired
        /\ schedule'[j].nextRun > schedule[j].nextRun

\* The storage gets a later next run of a job only when the run it holds has
\* been handed to the queue, unless two checks held the job at once or its
\* schedule was edited: refused executions and failed writes pass over nothing.
NoOccurrenceSkipped == [][\A j \in SchedJobs \ disturbed' : MovesOn(j)]_schedVars

\* A step after which the checks hold no more of the job than before.
LEMMA HoldLess ==
  ASSUME SchedTypeOK, NEW j \in SchedJobs, Hold(j), fired \subseteq fired',
         schedule'[j].nextRun = schedule[j].nextRun, clock' \in Nat, clock' >= clock,
         schedule'[j].status = "none" => schedule[j].status = "none",
         \A k \in Checks : /\ check'[k].due \subseteq check[k].due
                           /\ check'[k].saving \subseteq check[k].saving
  PROVE  Hold(j)' /\ MovesOn(j)
<1>1. HeldOnce(j)'
  BY DEF Hold, HeldOnce
<1>2. HeldRight(j)'
  BY DEF Hold, HeldRight, SchedTypeOK, DueRecord
<1>3. SavesFired(j)'
  BY DEF Hold, SavesFired
<1>4. HeldIsKnown(j)'
  BY DEF Hold, HeldIsKnown
<1> QED
  BY <1>1, <1>2, <1>3, <1>4 DEF Hold, MovesOn

\* What no check holds is held rightly.
LEMMA HoldNothing ==
  ASSUME NEW j \in SchedJobs,
         \A k \in Checks : /\ \A d \in check'[k].due : d.job # j
                           /\ \A s \in check'[k].saving : s.job # j
  PROVE  Hold(j)'
  BY DEF Hold, HeldOnce, HeldRight, SavesFired, HeldIsKnown

\* A check reads the stored runs that have come.
LEMMA IntervalHolds ==
  ASSUME SchedInv, HoldInv, NEW k \in Checks, IntervalFires(k), NEW j \in SchedJobs \ disturbed'
  PROVE  Hold(j)' /\ MovesOn(j)
<1>a. SchedTypeOK
  BY DEF SchedInv
<1>1. /\ check[k].due = {} /\ check[k].saving = {}
      /\ check'[k].due = Due /\ check'[k].saving = {}
      /\ \A l \in Checks \ {k} : check'[l] = check[l]
      /\ \A d \in Due, l \in Checks : d.job \in Holds(l) => d.job \in disturbed'
      /\ UNCHANGED <<schedule, clock, fired>>
  BY <1>a DEF IntervalFires, NoCheck, SchedTypeOK
<1>2. Hold(j)
  BY DEF HoldInv, IntervalFires
<1>3. \A d \in Due : d.job = j =>
          \A l \in Checks : /\ \A e \in check[l].due : e.job # j
                            /\ \A s \in check[l].saving : s.job # j
  BY <1>1 DEF Holds
<1>4. HeldOnce(j)'
  BY <1>1, <1>2, <1>3, <1>a, DueRecords DEF Hold, HeldOnce
<1>5. HeldRight(j)'
  BY <1>1, <1>2, <1>a, DueRecords DEF Hold, HeldRight
<1>6. SavesFired(j)'
  BY <1>1, <1>2 DEF Hold, SavesFired
<1>7. HeldIsKnown(j)'
  BY <1>1, <1>2, <1>a, DueRecords DEF Hold, HeldIsKnown
<1> QED
  BY <1>1, <1>4, <1>5, <1>6, <1>7 DEF Hold, MovesOn

\* What is executed is the stored run, and the run to be saved is later.
LEMMA ExecuteHolds ==
  ASSUME SchedInv, HoldInv, NEW k \in Checks, NEW d \in check[k].due, ExecuteDue(k, d),
         NEW j \in SchedJobs \ disturbed'
  PROVE  Hold(j)' /\ MovesOn(j)
<1>a. SchedTypeOK
  BY DEF SchedInv
<1>b. d \in DueRecord /\ clock \in Nat /\ schedule[j].nextRun \in Nat
  BY <1>a DEF SchedTypeOK
<1>0. PICK s : s = [job |-> d.job, at |-> NextRun(d.cron, clock)]
  OBVIOUS
<1>1. s \in SaveRecord /\ s.job = d.job /\ s.at > clock
  BY <1>b, <1>0, NextRunLater DEF DueRecord, SaveRecord
<1>2. /\ check[k].saving = {}
      /\ check'[k].due = check[k].due \ {d} /\ check'[k].saving = {s}
      /\ \A l \in Checks \ {k} : check'[l] = check[l]
      /\ UNCHANGED <<schedule, clock>> /\ fired' = fired \union {<<d.job, d.at>>}
  BY <1>a, <1>0 DEF ExecuteDue, SchedTypeOK
<1>3. Hold(j)
  BY DEF HoldInv, ExecuteDue
<1>4. HeldOnce(j)'
  BY <1>1, <1>2, <1>3 DEF Hold, HeldOnce
<1>5. d.job = j => d.at = schedule[j].nextRun /\ d.at <= clock
  BY <1>3 DEF Hold, HeldRight
<1>6. HeldRight(j)'
  <2>1. s.job = j => s.at > schedule[j].nextRun
    BY <1>1, <1>5, <1>b DEF SaveRecord, DueRecord
  <2> QED
    BY <1>2, <1>3, <2>1 DEF Hold, HeldRight
<1>7. SavesFired(j)'
  BY <1>1, <1>2, <1>3, <1>5 DEF Hold, SavesFired
<1>8. HeldIsKnown(j)'
  BY <1>1, <1>2, <1>3 DEF Hold, HeldIsKnown
<1> QED
  BY <1>2, <1>4, <1>6, <1>7, <1>8 DEF Hold, MovesOn

\* The stored run moves on from one that was executed; nobody has the job then.
LEMMA SaveHolds ==
  ASSUME SchedInv, HoldInv, NEW k \in Checks, SaveNextRun(k), NEW j \in SchedJobs \ disturbed'
  PROVE  Hold(j)' /\ MovesOn(j)
<1>a. SchedTypeOK /\ OneSaving
  BY DEF SchedInv
<1>1. PICK s \in check[k].saving :
          /\ schedule' = [schedule EXCEPT ![s.job].nextRun = s.at]
          /\ check' = [check EXCEPT ![k].saving = {}]
          /\ UNCHANGED <<clock, ticking, edit, fired, firedTwice, disturbed, unsaved>>
  BY DEF SaveNextRun
<1>2. s \in SaveRecord /\ clock \in Nat
  BY <1>a DEF SchedTypeOK
<1>3. /\ check[k].saving = {s} /\ check'[k].saving = {} /\ check'[k].due = check[k].due
      /\ \A l \in Checks \ {k} : check'[l] = check[l]
  BY <1>a, <1>1 DEF SchedTypeOK, OneSaving
<1>4. Hold(j)
  BY <1>1 DEF HoldInv
<1>5. CASE s.job # j
  <2>1. schedule'[j] = schedule[j]
    BY <1>a, <1>1, <1>5 DEF SchedTypeOK
  <2>2. \A l \in Checks : /\ check'[l].due \subseteq check[l].due
                          /\ check'[l].saving \subseteq check[l].saving
    BY <1>3
  <2>3. fired' = fired /\ clock' \in Nat /\ clock' >= clock
    BY <1>1, <1>2
  <2> QED
    BY <1>a, <1>4, <2>1, <2>2, <2>3, HoldLess
<1>6. CASE s.job = j
  <2>1. schedule'[j].nextRun = s.at /\ s.at > schedule[j].nextRun
    BY <1>a, <1>1, <1>2, <1>4, <1>6 DEF SchedTypeOK, Hold, HeldRight
  <2>2. <<j, schedule[j].nextRun>> \in fired
    BY <1>4, <1>6 DEF Hold, SavesFired
  <2>3. \A l \in Checks : /\ \A d \in check'[l].due : d.job # j
                          /\ \A r \in check'[l].saving : r.job # j
    BY <1>3, <1>4, <1>6 DEF Hold, HeldOnce
  <2>4. Hold(j)'
    BY <2>3, HoldNothing
  <2> QED
    BY <2>1, <2>2, <2>4 DEF MovesOn
<1> QED
  BY <1>5, <1>6

\* A call of the API writes another next run only over a job that was never
\* scheduled, or it disturbs the job.
LEMMA ApiHolds ==
  ASSUME SchedInv, HoldInv, NEW j \in SchedJobs, ApiNext(j), NEW i \in SchedJobs \ disturbed'
  PROVE  Hold(i)' /\ MovesOn(i)
<1>a. SchedTypeOK /\ EditDisturbs
  BY DEF SchedInv
<1>b. /\ UNCHANGED <<clock, check, fired>> /\ disturbed \subseteq disturbed' /\ clock \in Nat
      /\ \A m \in SchedJobs \ {j} : schedule'[m] = schedule[m]
  BY <1>a DEF ApiNext, ScheduleJob, UpdateSchedule, ScheduleSaved, Unschedule, EditSaved, SchedTypeOK
<1>1. Hold(i)
  BY <1>b DEF HoldInv
<1>2. \/ /\ schedule'[i].nextRun = schedule[i].nextRun
         /\ schedule'[i].status = "none" => schedule[i].status = "none"
      \/ schedule[i].status = "none"
  <2>1. CASE i # j
    BY <1>b, <2>1
  <2>2. CASE i = j /\ ScheduleSaved(j)
    BY <2>2 DEF ScheduleSaved
  <2>3. CASE i = j /\ EditSaved(j)
    BY <1>a, <1>b, <2>3 DEF EditSaved, EditDisturbs, SchedTypeOK
  <2>4. CASE i = j /\ schedule' = schedule
    BY <2>4
  <2> QED
    BY <2>1, <2>2, <2>3, <2>4 DEF ApiNext, ScheduleJob, UpdateSchedule, Unschedule
<1>3. CASE /\ schedule'[i].nextRun = schedule[i].nextRun
           /\ schedule'[i].status = "none" => schedule[i].status = "none"
  BY <1>a, <1>b, <1>1, <1>3, HoldLess
<1>4. CASE schedule[i].status = "none"
  <2>1. Hold(i)'
    BY <1>b, <1>1, <1>4, HoldNothing DEF Hold, HeldIsKnown
  <2> QED
    BY <1>4, <2>1 DEF MovesOn
<1> QED
  BY <1>2, <1>3, <1>4

\* Every step of the scheduler.
LEMMA StepHolds ==
  ASSUME SchedInv, HoldInv, [SchedNext]_schedVars, NEW j \in SchedJobs \ disturbed'
  PROVE  Hold(j)' /\ MovesOn(j)
<1>a. SchedTypeOK
  BY DEF SchedInv
<1>1. ASSUME SchedTick \/ SchedStart \/ SchedStop \/ UNCHANGED schedVars
      PROVE  Hold(j)' /\ MovesOn(j)
  <2>1. /\ UNCHANGED <<schedule, check, fired, disturbed>> /\ clock' \in Nat /\ clock' >= clock
    BY <1>1, <1>a DEF SchedTick, SchedStart, SchedStop, schedVars, SchedTypeOK
  <2>2. Hold(j)
    BY <2>1 DEF HoldInv
  <2> QED
    BY <1>a, <2>1, <2>2, HoldLess
<1>2. ASSUME NEW k \in Checks, SaveFails(k) \/ \E d \in check[k].due : EnqueueFails(k, d)
      PROVE  Hold(j)' /\ MovesOn(j)
  <2>1. /\ UNCHANGED <<clock, schedule, fired, disturbed>> /\ clock \in Nat
        /\ \A l \in Checks : /\ check'[l].due \subseteq check[l].due
                             /\ check'[l].saving \subseteq check[l].saving
    <3>1. ASSUME SaveFails(k) PROVE <2>1
      BY <1>a, <3>1 DEF SaveFails, SchedTypeOK
    <3>2. ASSUME NEW d \in check[k].due, EnqueueFails(k, d) PROVE <2>1
      BY <1>a, <3>2 DEF EnqueueFails, SchedTypeOK
    <3> QED
      BY <1>2, <3>1, <3>2
  <2>2. Hold(j)
    BY <2>1 DEF HoldInv
  <2> QED
    BY <1>a, <2>1, <2>2, HoldLess
<1> QED
  BY <1>1, <1>2, IntervalHolds, ExecuteHolds, SaveHolds, ApiHolds DEF SchedNext, CheckNext

\* The stored next run of a job moves on only from a run that was handed to the
\* queue, and to a later one, however checks overlap, executions are refused
\* and writes fail, unless two checks held the job at once or its schedule was
\* edited (scheduler.ts:128-175).
THEOREM OccurrencesNotSkipped == SchedSpec => NoOccurrenceSkipped
<1>1. SchedInit => HoldInv
  BY DEF SchedInit, HoldInv, Hold, HeldOnce, HeldRight, SavesFired, HeldIsKnown, NoCheck
<1>2. SchedInv /\ HoldInv /\ [SchedNext]_schedVars =>
        HoldInv' /\ [\A j \in SchedJobs \ disturbed' : MovesOn(j)]_schedVars
  BY StepHolds DEF HoldInv
<1>3. SchedInv /\ [SchedNext]_schedVars => SchedInv'
  BY SchedStep
<1> QED
  BY <1>1, <1>2, <1>3, SchedInvInit, PTL DEF SchedSpec, NoOccurrenceSkipped

=============================================================================
