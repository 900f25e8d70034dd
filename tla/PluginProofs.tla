---------------------------- MODULE PluginProofs ----------------------------
(***************************************************************************)
(* Proofs about PluginHost and PluginWatchdog, for any number of calls,    *)
(* restarts and children and for both kinds of isolation.  A host has one  *)
(* child at a time, alone and under a watchdog: the next child is made     *)
(* only after the host was told of the end of the last one, and no event   *)
(* of a child outlives it in the host's queue.  No call is forgotten, and  *)
(* none is settled twice.  The restarts of an entry of the watchdog do not *)
(* overlap, and every one of them is counted.                              *)
(***************************************************************************)
EXTENDS PluginWatchdog, FiniteSetTheorems, TLAPS

-----------------------------------------------------------------------------
(* The host *)

Shape ==
    /\ forks \in 0..MaxForks
    /\ child \in Nat
    /\ child # 0 => child \in 1..forks
    /\ proc \in [Children -> {"none", "booting", "ready", "gone"}]

\* A restart waits like any stop, for a child that the host has, and a worker's
\* stop never for an exit that it has missed.
StopsWait ==
    /\ restarters # {} => stopping
    /\ stopping => child # 0 /\ ~Terminated

\* All events are of the current child, and its exit is the last of them.
EventsInOrder ==
    /\ \A e \in events : e.child = child /\ child # 0
    /\ \A e \in events : e.type = "exit" => proc[child] = "gone"
    /\ child # 0 /\ Terminated => events = {}

IInv == Shape /\ StopsWait /\ OneChild /\ EventsInOrder

\* A step that leaves these variables alone keeps the invariant.
Kept == <<isolation, forks, child, proc, events, stopVars>>

LEMMA KeptIInv == ASSUME IInv, UNCHANGED Kept PROVE IInv'
  BY DEF IInv, Shape, StopsWait, OneChild, EventsInOrder, Terminated, ExitSeen, ChildRuns, ExitOf,
         Kept, stopVars

LEMMA InitIInv == HostInit => IInv
  BY HostAssumption DEF HostInit, IInv, Shape, StopsWait, OneChild, EventsInOrder, ChildRuns, Children

\* The next child is a child, and boots.
LEMMA ForkMakes ==
    ASSUME Shape, NEW w, Fork(w)
    PROVE  /\ forks + 1 \in Children /\ forks' = forks + 1 /\ child' = forks + 1
           /\ proc' = [proc EXCEPT ![forks + 1] = "booting"]
           /\ ~ExitSeen(child)'
           /\ Shape'
<1>1. /\ forks + 1 \in Children /\ forks' = forks + 1 /\ child' = forks + 1
      /\ proc' = [proc EXCEPT ![forks + 1] = "booting"]
  BY HostAssumption DEF Fork, Shape, Children
<1> QED
  BY <1>1, HostAssumption DEF Shape, Children, ExitSeen

\* A host without a running child may get a new one.
LEMMA ForkIInv ==
    ASSUME IInv, NEW w, Fork(w), ~stopping', restarters' = {},
           \A k \in Children : ~ChildRuns(k), events' = {}
    PROVE  IInv'
<1>1. /\ forks + 1 \in Children /\ child' = forks + 1 /\ Shape'
      /\ proc' = [proc EXCEPT ![forks + 1] = "booting"] /\ ~ExitSeen(child)'
  BY ForkMakes DEF IInv
<1>2. OneChild'
  BY <1>1 DEF IInv, Shape, OneChild, ChildRuns
<1> QED
  BY <1>1, <1>2 DEF IInv, StopsWait, EventsInOrder, Terminated

\* Nothing is left of a child whose exit was the last event.
LEMMA GoneIInv ==
    ASSUME IInv, ~stopping', restarters' = {}, child' = 0, UNCHANGED <<forks, proc>>,
           \A k \in Children : ~ChildRuns(k), events' = {}
    PROVE  IInv'
  BY DEF IInv, Shape, StopsWait, OneChild, EventsInOrder, ChildRuns

\* The stops come back and their child is gone.
LEMMA ReturnIInv ==
    ASSUME IInv, StopsReturn, child # 0, proc[child] = "gone", events' = {}
    PROVE  IInv'
<1>1. \A k \in Children : ~ChildRuns(k)
  BY DEF IInv, OneChild, ChildRuns
<1>2. ~stopping' /\ restarters' = {}
  BY DEF StopsReturn
<1> QED BY <1>1, <1>2, ForkIInv, GoneIInv DEF StopsReturn

LEMMA AwaitIInv == ASSUME IInv, AwaitEnd PROVE IInv'
<1>1. /\ child # 0 /\ ~Terminated /\ stopping' = TRUE
      /\ UNCHANGED <<isolation, child, forks, proc, events>>
  BY DEF AwaitEnd, BeginStop
<1> QED
  BY <1>1 DEF IInv, Shape, StopsWait, OneChild, EventsInOrder, ChildRuns, Terminated, ExitSeen, ExitOf

LEMMA StartIInv == ASSUME IInv, NEW w, Start(w) PROVE IInv'
<1>1. child = 0 /\ Fork(w) /\ UNCHANGED <<events, stopVars>>
  BY DEF Start
<1>2. events' = {} /\ ~stopping' /\ restarters' = {}
  BY <1>1 DEF IInv, EventsInOrder, StopsWait, stopVars
<1>3. \A k \in Children : ~ChildRuns(k)
  BY <1>1, HostAssumption DEF IInv, OneChild, Children
<1> QED BY <1>1, <1>2, <1>3, ForkIInv

\* A worker that has ended is let go of at once.
LEMMA TerminatedFacts ==
    ASSUME IInv, BeginStop, Terminated, UNCHANGED stopVars
    PROVE  /\ events' = {} /\ ~stopping' /\ restarters' = {}
           /\ \A k \in Children : ~ChildRuns(k)
<1>1. child # 0 /\ UNCHANGED events /\ proc[child] = "gone"
  BY DEF BeginStop, Terminated, ExitSeen
<1> QED
  BY <1>1 DEF IInv, EventsInOrder, StopsWait, OneChild, ChildRuns, stopVars

LEMMA StopIInv == ASSUME IInv, Stop PROVE IInv'
<1>1. CASE AwaitEnd
  BY <1>1, AwaitIInv
<1>2. CASE /\ BeginStop /\ Terminated /\ child' = 0
           /\ UNCHANGED <<forks, proc, stopVars>>
  BY <1>2, TerminatedFacts, GoneIInv
<1> QED BY <1>1, <1>2 DEF Stop

LEMMA RestartIInv == ASSUME IInv, NEW w, Restart(w) PROVE IInv'
<1>1. CASE BeginStop /\ Terminated /\ Fork(w) /\ UNCHANGED stopVars
  BY <1>1, TerminatedFacts, ForkIInv
<1> QED BY <1>1, StartIInv, AwaitIInv DEF Restart

\* What a child does is done by the current child, and leaves an event.
LEMMA ChildIInv ==
    ASSUME IInv, NEW k \in Children,
           ChildReady(k) \/ ChildInitFails(k) \/ ChildCrashes(k) \/ ChildKilled(k)
    PROVE  IInv'
<1>1. ChildRuns(k)
  BY DEF ChildReady, ChildInitFails, ChildCrashes, ChildKilled, ChildRuns
<1>2. k = child /\ child # 0 /\ proc[k] # "gone"
  BY <1>1, HostAssumption DEF IInv, OneChild, ChildRuns, Children
<1>3. UNCHANGED <<isolation, forks, child, stopping, restarters>>
  BY DEF ChildReady, ChildInitFails, ChildCrashes, ChildKilled, Gone, stopVars
<1>4. CASE ChildReady(k)
  <2>1. proc' = [proc EXCEPT ![k] = "ready"]
    BY <1>4 DEF ChildReady
  <2>2. \A e \in events' : e \in events \/ (e.child = k /\ e.type # "exit")
    BY <1>4 DEF ChildReady, Emit
  <2>3. ~Terminated'
    BY <1>2, <1>3, <2>1 DEF IInv, Shape, Terminated, ExitSeen
  <2> QED
    BY <1>2, <1>3, <2>1, <2>2, <2>3 DEF IInv, Shape, StopsWait, OneChild, EventsInOrder, ChildRuns
<1>5. CASE ChildInitFails(k) \/ ChildCrashes(k) \/ ChildKilled(k)
  <2>1. proc' = [proc EXCEPT ![k] = "gone"]
    BY <1>5 DEF ChildInitFails, ChildCrashes, ChildKilled, Gone
  <2>2. \A e \in events' : e \in events \/ e.child = k
    BY <1>5 DEF ChildInitFails, ChildCrashes, ChildKilled, Gone, Emit
  <2>3. \E e \in events' : e.child = k /\ e.type = "exit"
    <3>1. CASE ChildInitFails(k)
      <4>1. [child |-> k, type |-> "exit", code |-> 1] \in events'
        BY <3>1 DEF ChildInitFails, Emit
      <4> QED BY <4>1
    <3>2. CASE ChildCrashes(k) \/ ChildKilled(k)
      <4>1. PICK code, others : Gone(k, code, others)
        BY <3>2 DEF ChildCrashes, ChildKilled
      <4>2. [child |-> k, type |-> "exit", code |-> code] \in events'
        BY <4>1 DEF Gone
      <4> QED BY <4>2
    <3> QED BY <1>5, <3>1, <3>2
  <2>4. ~Terminated'
    BY <1>2, <1>3, <2>3 DEF ExitOf, Terminated, ExitSeen
  <2> QED
    BY <1>2, <1>3, <2>1, <2>2, <2>4 DEF IInv, Shape, StopsWait, OneChild, EventsInOrder, ChildRuns
<1> QED BY <1>4, <1>5

\* The host takes an event that is not an exit from the queue.
LEMMA MessageIInv ==
    ASSUME IInv, NEW k \in Children, OnReady(k) \/ OnInitError(k) \/ OnError(k)
    PROVE  IInv'
<1>1. PICK e : e \in events /\ e.type # "exit" /\ events' = events \ {e}
  BY DEF OnReady, OnInitError, OnError
<1>2. UNCHANGED <<isolation, forks, child, proc, stopping, restarters>>
  BY DEF OnReady, OnInitError, OnError, stopVars
<1>3. ExitOf(child)' = ExitOf(child)
  BY <1>1, <1>2 DEF ExitOf
<1>4. Terminated' = Terminated
  BY <1>2, <1>3 DEF Terminated, ExitSeen
<1> QED
  BY <1>1, <1>2, <1>4 DEF IInv, Shape, StopsWait, OneChild, EventsInOrder, ChildRuns

\* The exit of the child is the last of its events.
LEMMA ExitIInv ==
    ASSUME IInv, NEW e \in events, OnExit(e)
    PROVE  IInv'
<1>1. e.child = child /\ child # 0 /\ proc[child] = "gone"
  BY DEF OnExit, IInv, EventsInOrder
<1>2. events' = {}
  BY <1>1 DEF OnExit, IInv, EventsInOrder
<1>3. CASE stopping
  BY <1>1, <1>2, <1>3, ReturnIInv DEF OnExit
<1>4. CASE ~stopping
  <2>1. UNCHANGED <<isolation, forks, child, proc, stopping, restarters>>
    BY <1>4 DEF OnExit, stopVars
  <2> QED
    BY <1>2, <1>4, <2>1 DEF IInv, Shape, StopsWait, OneChild, EventsInOrder, ChildRuns
<1> QED BY <1>3, <1>4

\* A call may find the child gone.
LEMMA CallIInv ==
    ASSUME IInv, NEW c \in Calls, CallPlugin(c)
    PROVE  IInv'
<1>1. UNCHANGED <<isolation, forks, child, proc, stopVars>> /\ child # 0
  BY DEF CallPlugin
<1>2. CASE UNCHANGED events
  BY <1>1, <1>2, KeptIInv DEF Kept
<1>3. CASE proc[child] = "gone" /\ isolation = "process" /\ Emit(child, {"error"})
  <2>1. \A e \in events' : e \in events \/ (e.child = child /\ e.type = "error")
    BY <1>3 DEF Emit
  <2>2. ~Terminated'
    BY <1>1, <1>3 DEF Terminated
  <2> QED
    BY <1>1, <1>3, <2>1, <2>2 DEF IInv, Shape, StopsWait, OneChild, EventsInOrder, ChildRuns, stopVars
<1> QED BY <1>2, <1>3 DEF CallPlugin

LEMMA StepIInv == IInv /\ [HostNext]_hostVars => IInv'
<1> SUFFICES ASSUME IInv, [HostNext]_hostVars PROVE IInv'
  OBVIOUS
<1>1. ASSUME NEW k \in Children, ChildNext(k) PROVE IInv'
  BY <1>1, ChildIInv, MessageIInv DEF ChildNext
<1>2. ASSUME NEW c \in Calls, CallNext(c) PROVE IInv'
  BY <1>2, KeptIInv DEF CallNext, CallTimesOut, OnAnswer, ChildAnswers, Kept
<1>3. ASSUME UNCHANGED hostVars PROVE IInv'
  BY <1>3, KeptIInv DEF hostVars, Kept
<1> QED
  BY StartIInv, StopIInv, RestartIInv, ExitIInv, CallIInv, <1>1, <1>2, <1>3 DEF HostNext, HostStep

\* At most one child of a host runs, whatever starts, stops, restarts and crashes
\* come together and overlap (process-plugin-host.ts:61-64, 119-132, 166-169).
THEOREM AtMostOneChild == HostSpec => []OneChild
<1>1. IInv => OneChild
  BY DEF IInv
<1> QED BY InitIInv, StepIInv, <1>1, PTL DEF HostSpec

-----------------------------------------------------------------------------
(* Calls of the host *)

\* A host that has seen its child's exit is not alive, and its queue is empty.
ExitIsLast ==
    child # 0 /\ ExitSeen(child) => ~alive /\ events = {}

\* Children end with an error code, and a pending call waits for the current
\* child, whose exit is still to be seen.
PendingHaveChild ==
    ~CleanExits =>
        /\ \A e \in events : e.type = "exit" => e.code # 0
        /\ \A c \in Pending : child # 0 /\ to[c] = child /\ ~ExitSeen(child)

CInv == IInv /\ DOMAIN call = Calls /\ DOMAIN to = Calls /\ ExitIsLast /\ PendingHaveChild

\* A step that leaves these variables alone keeps the invariant.
CallKept == <<isolation, forks, child, alive, proc, events, stopVars, call, to>>

LEMMA KeptCInv == ASSUME CInv, UNCHANGED CallKept PROVE CInv'
<1>1. IInv'
  BY KeptIInv DEF CInv, Kept, CallKept
<1> QED
  BY <1>1 DEF CInv, CallKept, ExitIsLast, PendingHaveChild, Pending, ExitSeen, ExitOf

LEMMA InitCInv == HostInit => CInv
<1> SUFFICES ASSUME HostInit PROVE CInv
  OBVIOUS
<1>1. IInv
  BY InitIInv
<1> QED
  BY <1>1 DEF HostInit, CInv, ExitIsLast, PendingHaveChild, Pending

\* Rejecting leaves no call pending.
LEMMA RejectedAll ==
    ASSUME DOMAIN call = Calls, call' = RejectAllPending
    PROVE  DOMAIN call' = Calls /\ Pending' = {}
  BY DEF RejectAllPending, Pending

\* A new child has not ended.
LEMMA ForkCInv ==
    ASSUME CInv, IInv', NEW w, Fork(w), events' = {}, ~CleanExits => Pending' = {},
           DOMAIN call' = Calls, to' = to
    PROVE  CInv'
<1>1. ~ExitSeen(child)'
  BY ForkMakes DEF CInv, IInv
<1> QED
  BY <1>1 DEF CInv, ExitIsLast, PendingHaveChild

\* None waits for a child that was stopped.
LEMMA ReturnCInv ==
    ASSUME CInv, IInv', StopsReturn, events' = {}, ~CleanExits => Pending' = {},
           DOMAIN call' = Calls, to' = to
    PROVE  CInv'
<1>1. CASE child' = 0
  BY <1>1 DEF CInv, ExitIsLast, PendingHaveChild
<1>2. CASE Fork(first)
  BY <1>2, ForkCInv
<1> QED BY <1>1, <1>2 DEF StopsReturn

LEMMA StartCInv == ASSUME CInv, NEW w, Start(w) PROVE CInv'
<1>1. IInv'
  BY StartIInv DEF CInv
<1>2. child = 0 /\ Fork(w) /\ UNCHANGED <<events, call, to>>
  BY DEF Start
<1>3. events' = {}
  BY <1>2 DEF CInv, IInv, EventsInOrder
<1>4. ~CleanExits => Pending' = {}
  BY <1>2 DEF CInv, PendingHaveChild, Pending
<1>5. DOMAIN call' = Calls
  BY <1>2 DEF CInv
<1> QED
  BY <1>1, <1>2, <1>3, <1>4, <1>5, ForkCInv

LEMMA AwaitCInv == ASSUME CInv, AwaitEnd PROVE CInv'
<1>1. IInv'
  BY AwaitIInv DEF CInv
<1>2. DOMAIN call' = Calls /\ Pending' = {}
  BY RejectedAll DEF CInv, AwaitEnd, BeginStop
<1>3. UNCHANGED <<child, alive, proc, events, to>>
  BY DEF AwaitEnd, BeginStop
<1> QED
  BY <1>1, <1>2, <1>3 DEF CInv, ExitIsLast, PendingHaveChild, ExitSeen, ExitOf

LEMMA StopCInv == ASSUME CInv, Stop PROVE CInv'
<1>1. IInv'
  BY StopIInv DEF CInv
<1>2. CASE BeginStop /\ Terminated /\ child' = 0 /\ UNCHANGED stopVars
  <2>1. DOMAIN call' = Calls /\ Pending' = {}
    BY <1>2, RejectedAll DEF CInv, BeginStop
  <2>2. events' = {} /\ to' = to
    BY <1>2, TerminatedFacts DEF CInv, BeginStop
  <2> QED
    BY <1>1, <1>2, <2>1, <2>2 DEF CInv, ExitIsLast, PendingHaveChild
<1> QED BY <1>2, AwaitCInv DEF Stop

LEMMA RestartCInv == ASSUME CInv, NEW w, Restart(w) PROVE CInv'
<1>1. IInv'
  BY RestartIInv DEF CInv
<1>2. CASE BeginStop /\ Terminated /\ Fork(w) /\ UNCHANGED stopVars
  <2>1. DOMAIN call' = Calls /\ Pending' = {}
    BY <1>2, RejectedAll DEF CInv, BeginStop
  <2>2. events' = {} /\ to' = to
    BY <1>2, TerminatedFacts DEF CInv, BeginStop
  <2> QED
    BY <1>1, <1>2, <2>1, <2>2, ForkCInv
<1> QED BY <1>2, StartCInv, AwaitCInv DEF Restart

\* What the child does reaches the host later.
LEMMA ChildCInv ==
    ASSUME CInv, NEW k \in Children,
           ChildReady(k) \/ ChildInitFails(k) \/ ChildCrashes(k) \/ ChildKilled(k)
    PROVE  CInv'
<1>1. IInv'
  BY ChildIInv DEF CInv
<1>2. ChildRuns(k) /\ UNCHANGED <<isolation, child, alive, call, to>>
  BY DEF ChildReady, ChildInitFails, ChildCrashes, ChildKilled, ChildRuns, Gone
<1>3. k = child /\ child # 0 /\ proc[k] # "gone"
  BY <1>2, HostAssumption DEF CInv, IInv, OneChild, ChildRuns, Children
<1>4. ~ExitSeen(child)' /\ \A e \in events' : ~CleanExits /\ e.type = "exit" => e.code # 0
  <2>1. CASE ChildReady(k)
    <3>1. proc'[child] # "gone"
      BY <1>2, <1>3, <2>1 DEF ChildReady, CInv, IInv, Shape
    <3> QED
      BY <1>2, <2>1, <3>1 DEF ChildReady, Emit, ExitSeen, CInv, PendingHaveChild
  <2>2. CASE ChildInitFails(k)
    <3>1. [child |-> k, type |-> "exit", code |-> 1] \in events'
      BY <2>2 DEF ChildInitFails, Emit
    <3>2. \A e \in events' : ~CleanExits /\ e.type = "exit" => e.code # 0
      BY <2>2 DEF ChildInitFails, Emit, CInv, PendingHaveChild
    <3> QED
      BY <1>2, <1>3, <3>1, <3>2 DEF ExitSeen, ExitOf
  <2>3. CASE ChildCrashes(k) \/ ChildKilled(k)
    <3>1. PICK code, others : Gone(k, code, others) /\ (~CleanExits => code = 1)
      BY <2>3 DEF ChildCrashes, ChildKilled
    <3>2. [child |-> k, type |-> "exit", code |-> code] \in events'
      BY <3>1 DEF Gone
    <3>3. \A e \in events' : ~CleanExits /\ e.type = "exit" => e.code # 0
      BY <3>1 DEF Gone, CInv, PendingHaveChild
    <3> QED
      BY <1>2, <1>3, <3>2, <3>3 DEF ExitSeen, ExitOf
  <2> QED BY <2>1, <2>2, <2>3
<1> QED
  BY <1>1, <1>2, <1>4 DEF CInv, ExitIsLast, PendingHaveChild, Pending

\* A message of the child is handled.
LEMMA MessageCInv ==
    ASSUME CInv, NEW k \in Children, OnReady(k) \/ OnInitError(k) \/ OnError(k)
    PROVE  CInv'
<1>1. IInv'
  BY MessageIInv DEF CInv
<1>2. PICK e : e \in events /\ e.type # "exit" /\ events' = events \ {e}
  BY DEF OnReady, OnInitError, OnError
<1>3. UNCHANGED <<isolation, child, proc, to>>
  BY DEF OnReady, OnInitError, OnError
<1>4. child # 0 /\ ExitOf(child)' = ExitOf(child)
  BY <1>2, <1>3 DEF ExitOf, CInv, IInv, EventsInOrder
<1>5. ~ExitSeen(child) /\ ~ExitSeen(child)'
  BY <1>2, <1>3, <1>4 DEF CInv, ExitIsLast, ExitSeen
<1>6. DOMAIN call' = Calls /\ (Pending' = {} \/ call' = call)
  BY RejectedAll DEF CInv, OnReady, OnInitError, OnError
<1> QED
  BY <1>1, <1>2, <1>3, <1>4, <1>5, <1>6 DEF CInv, ExitIsLast, PendingHaveChild, Pending

\* The exit settles the calls that wait.
LEMMA ExitCInv ==
    ASSUME CInv, NEW e \in events, OnExit(e)
    PROVE  CInv'
<1>1. IInv'
  BY ExitIInv DEF CInv
<1>2. events' = {} /\ alive' = FALSE /\ to' = to
  BY DEF OnExit, CInv, IInv, EventsInOrder
<1>3. DOMAIN call' = Calls /\ (~CleanExits => Pending' = {})
  BY RejectedAll DEF CInv, PendingHaveChild, OnExit
<1>4. CASE stopping
  BY <1>1, <1>2, <1>3, <1>4, ReturnCInv DEF OnExit
<1>5. CASE ~stopping
  BY <1>1, <1>2, <1>3 DEF CInv, ExitIsLast, PendingHaveChild
<1> QED BY <1>4, <1>5

\* A call is sent, or fails at once.
LEMMA CallCInv ==
    ASSUME CInv, NEW c \in Calls, CallPlugin(c)
    PROVE  CInv'
<1>1. IInv'
  BY CallIInv DEF CInv
<1>2. /\ child # 0 /\ ~ExitSeen(child)
      /\ call' = [call EXCEPT ![c] = "pending"] /\ to' = [to EXCEPT ![c] = child]
      /\ UNCHANGED <<child, alive, proc>>
  BY DEF CallPlugin, CInv, ExitIsLast
<1>3. ExitOf(child)' = ExitOf(child) /\ \A e \in events' : e \in events \/ e.type = "error"
  BY <1>2 DEF CallPlugin, Emit, ExitOf
<1>4. ~ExitSeen(child)'
  BY <1>2, <1>3 DEF ExitSeen
<1> QED
  BY <1>1, <1>2, <1>3, <1>4 DEF CInv, ExitIsLast, PendingHaveChild, Pending

\* What becomes of a call: fewer are pending.
LEMMA SettleCInv ==
    ASSUME CInv, NEW c \in Calls, NEW outcome, outcome # "pending",
           call' = [call EXCEPT ![c] = outcome],
           DOMAIN to' = Calls, \A d \in Calls : d # c => to'[d] = to[d],
           UNCHANGED <<isolation, forks, child, alive, proc, events, stopVars>>
    PROVE  CInv'
<1>1. IInv'
  BY KeptIInv DEF CInv, Kept
<1>2. Pending' = Pending \ {c}
  BY DEF CInv, Pending
<1> QED
  BY <1>1, <1>2 DEF CInv, ExitIsLast, PendingHaveChild, ExitSeen, ExitOf, Pending

\* A call is answered or times out.
LEMMA CallNextCInv ==
    ASSUME CInv, NEW c \in Calls, CallNext(c)
    PROVE  CInv'
<1>1. CASE UNCHANGED CallKept
  BY <1>1, KeptCInv
<1>2. CASE call' = [call EXCEPT ![c] = "timedout"] \/ call' = [call EXCEPT ![c] = "ok"]
  BY <1>2, SettleCInv DEF CallNext, CallTimesOut, OnAnswer, ChildAnswers, CInv
<1> QED
  BY <1>1, <1>2 DEF CallNext, CallTimesOut, OnAnswer, ChildAnswers, CallKept

LEMMA HostStepCInv == ASSUME CInv, HostStep PROVE CInv'
  BY ChildCInv, MessageCInv, ExitCInv, CallNextCInv DEF HostStep, ChildNext

LEMMA StepCInv == CInv /\ [HostNext]_hostVars => CInv'
<1> SUFFICES ASSUME CInv, [HostNext]_hostVars PROVE CInv'
  OBVIOUS
<1>1. ASSUME UNCHANGED hostVars PROVE CInv'
  BY <1>1, KeptCInv DEF hostVars, CallKept
<1> QED
  BY <1>1, StartCInv, StopCInv, RestartCInv, CallCInv, HostStepCInv DEF HostNext

\* The invariant holds of a host by itself ...
LEMMA AlwaysCInv == HostSpec => []CInv
  BY InitCInv, StepCInv, PTL DEF HostSpec

\* When children end with an error code, a pending call is one of the current
\* child, and the host is still to see that child's exit, which rejects the
\* call (process-plugin-host.ts:100-117).
THEOREM EveryCallHasChild == HostSpec => []NoForgottenCall
<1>1. CInv => NoForgottenCall
  BY DEF CInv, PendingHaveChild, NoForgottenCall
<1> QED BY <1>1, AlwaysCInv, PTL

\* A call is settled once: nobody but its own caller makes it anew
\* (process-plugin-host.ts:146-149, 211-234).
THEOREM CallsSettleOnce == HostSpec => SettledOnce
<1> DEFINE Kept1 == \A c \in Calls : call[c] \in {"ok", "error", "timedout"}
                                        => call'[c] \in {call[c], "idle"}
<1>1. ASSUME CInv, [HostNext]_hostVars PROVE Kept1
  <2>1. DOMAIN call = Calls
    BY <1>1 DEF CInv
  <2>2. ASSUME call' = RejectAllPending PROVE Kept1
    BY <2>2 DEF RejectAllPending, Pending
  <2>3. ASSUME NEW c \in Calls, CallPlugin(c) \/ CallNext(c) PROVE Kept1
    BY <2>1, <2>3 DEF CallPlugin, CallNext, CallTimesOut, OnAnswer, ChildAnswers, Pending
  <2>4. ASSUME NEW k \in Children, ChildNext(k) PROVE call' = call \/ call' = RejectAllPending
    BY <2>4 DEF ChildNext, ChildReady, ChildInitFails, ChildCrashes, ChildKilled, Gone,
                OnReady, OnInitError, OnError
  <2>5. ASSUME NEW e \in events, OnExit(e) PROVE call' = call \/ call' = RejectAllPending
    BY <2>5 DEF OnExit
  <2>6. ASSUME Start(0) \/ Stop \/ Restart(0) \/ UNCHANGED hostVars
        PROVE  call' = call \/ call' = RejectAllPending
    BY <2>6 DEF Start, Stop, Restart, AwaitEnd, BeginStop, hostVars
  <2> QED
    BY <1>1, <2>2, <2>3, <2>4, <2>5, <2>6 DEF HostNext, HostStep
<1> QED
  BY <1>1, AlwaysCInv, PTL DEF HostSpec, SettledOnce

-----------------------------------------------------------------------------
(* The host under its watchdog *)

\* A step of the watchdog is a step of the host or leaves its children alone.
LEMMA WatchdogKeepsCInv == CInv /\ [Next]_vars => CInv'
<1> SUFFICES ASSUME CInv, [Next]_vars PROVE CInv'
  OBVIOUS
<1> USE DEF CallKept
<1>1. ASSUME UNCHANGED hostVars PROVE CInv'
  BY <1>1, KeptCInv DEF hostVars
<1>2. ASSUME OwnerNext PROVE CInv'
  <2>1. CASE UNCHANGED hostVars
    BY <2>1, <1>1
  <2>2. CASE OwnerCall
    BY <2>2, StartCInv, StopCInv, RestartCInv, CallCInv DEF OwnerCall
  <2> QED BY <1>2, <2>1, <2>2 DEF OwnerNext, Watch, Unwatch, Destroy
<1>3. ASSUME HostStep PROVE CInv'
  BY <1>3, HostStepCInv
<1>4. ASSUME NEW e \in Entries, EntryNext(e) PROVE CInv'
  <2>1. CASE UNCHANGED hostVars
    BY <2>1, <1>1
  <2>2. CASE Restart(e)
    BY <2>2, RestartCInv
  <2>3. CASE \E c \in Calls : CallPlugin(c)
    BY <2>3, CallCInv
  <2> QED
    BY <1>4, <2>1, <2>2, <2>3 DEF EntryNext, TickDead, BackoffEnds, RestartDone, TickHeartbeat
<1>5. ASSUME NEW c \in Calls, BeatNext(c) PROVE CInv'
  <2>1. Forget(c)
    BY <1>5 DEF BeatNext, HeartbeatOk, HeartbeatFailed
  <2> QED BY <2>1, SettleCInv DEF Forget, CInv
<1>6. ASSUME UNCHANGED vars PROVE CInv'
  BY <1>6, <1>1 DEF vars
<1> QED
  BY <1>2, <1>3, <1>4, <1>5, <1>6 DEF Next

\* ... and of one the watchdog restarts.
LEMMA WatchedCInv == Spec => []CInv
<1>1. Init => CInv
  BY InitCInv DEF Init
<1> QED BY <1>1, WatchdogKeepsCInv, PTL DEF Spec

\* A watched plugin, too, has at most one child that its host has not let go of,
\* whatever heartbeats, backoffs and restarts of its entries, old ones included,
\* overlap with the starts, stops, restarts and calls of its owner
\* (plugin-watchdog.ts:168-197, process-plugin-host.ts:61-132).
THEOREM WatchedHasOneChild == Spec => []OneChild
<1>1. CInv => OneChild
  BY DEF CInv, IInv
<1> QED BY <1>1, WatchedCInv, PTL

\* Nor does a watched plugin forget a call, heartbeats included
\* (process-plugin-host.ts:100-117, plugin-watchdog.ts:132-160).
THEOREM WatchedCallsHaveChild == Spec => []NoForgottenCall
<1>1. CInv => NoForgottenCall
  BY DEF CInv, PendingHaveChild, NoForgottenCall
<1> QED BY <1>1, WatchedCInv, PTL

-----------------------------------------------------------------------------
(* The books of the watchdog *)

Callers == 0..MaxEntries

\* 1 while entry e has counted a restart whose child is yet to be made.
Owed(e) == IF phase[e] = "backoff" \/ e \in restarters THEN 1 ELSE 0

\* The types that the arguments need.
EntryShape ==
    /\ forks \in 0..MaxForks
    /\ child = 0 => ~stopping
    /\ restarters # {} => stopping /\ first \in restarters
    /\ restarters \subseteq Callers
    /\ maker \in [Children -> Callers]
    /\ starts \in [Children -> {"none", "waiting", "resolved", "rejected"}]
    /\ watched \in Callers
    /\ entries \in Callers
    /\ phase \in [Entries -> {"none", "ok", "backoff", "restarting"}]
    /\ \A e \in Entries : e > entries => phase[e] = "none"
    /\ restarts \in [Entries -> Nat]
    /\ beat \in [Calls -> Callers]

\* A restart that the host has to make is one the entry knows of, and is paid for.
Budget ==
    \A e \in Entries : Cardinality(Made(e)) + Owed(e) <= restarts[e] /\ restarts[e] <= MaxRestarts

BookInv == EntryShape /\ OneRestart /\ Budget

LEMMA MadeIsFinite ==
    ASSUME forks \in Nat, NEW w
    PROVE  IsFiniteSet(Made(w)) /\ Cardinality(Made(w)) \in Nat
<1>1. IsFiniteSet(1..forks)
  BY FS_Interval
<1>2. Made(w) \subseteq 1..forks
  BY DEF Made
<1> QED
  BY <1>1, <1>2, FS_Subset, FS_CardinalityType

\* A caller gets one child more, the others none.
LEMMA MadeByFork ==
    ASSUME EntryShape, NEW w \in Callers, Fork(w), NEW e \in Entries
    PROVE  /\ forks + 1 \in Children /\ forks + 1 \notin Made(e)
           /\ Made(e)' = IF e = w THEN Made(e) \union {forks + 1} ELSE Made(e)
           /\ \A k \in Made(e) : starts'[k] = starts[k]
           /\ Cardinality(Made(e))' = IF e = w THEN Cardinality(Made(e)) + 1 ELSE Cardinality(Made(e))
<1>1. /\ forks + 1 \in Children /\ forks' = forks + 1
      /\ maker' = [maker EXCEPT ![forks + 1] = w]
      /\ starts' = [starts EXCEPT ![forks + 1] = "waiting"]
  BY HostAssumption DEF Fork, EntryShape, Children
<1>2. forks + 1 \notin Made(e) /\ \A k \in Made(e) : k \in Children /\ k # forks + 1
  BY HostAssumption DEF Made, EntryShape, Children
<1>3. Made(e)' = IF e = w THEN Made(e) \union {forks + 1} ELSE Made(e)
  <2>1. \A k \in 1..forks : k \in Children /\ k # forks + 1 /\ maker'[k] = maker[k]
    BY <1>1, HostAssumption DEF EntryShape, Children
  <2>2. maker'[forks + 1] = w
    BY <1>1 DEF EntryShape
  <2>3. 1..(forks + 1) = (1..forks) \union {forks + 1}
    BY DEF EntryShape
  <2> QED
    BY <1>1, <2>1, <2>2, <2>3 DEF Made
<1>4. \A k \in Made(e) : starts'[k] = starts[k]
  BY <1>1, <1>2 DEF EntryShape
<1>5. Cardinality(Made(e))' = Cardinality(Made(e)')
  OBVIOUS
<1>6. IsFiniteSet(Made(e))
  BY MadeIsFinite DEF EntryShape
<1>7. Cardinality(Made(e) \union {forks + 1}) = Cardinality(Made(e)) + 1
  BY <1>2, <1>6, FS_AddElement
<1> QED
  BY <1>1, <1>2, <1>3, <1>4, <1>5, <1>7

\* Entry w (or the owner) makes the child that it has counted.
LEMMA ForkBook ==
    ASSUME BookInv, NEW w \in Callers, Fork(w),
           w \in Entries => \/ w \in restarters /\ phase' = phase
                            \/ phase[w] = "backoff" /\ phase' = [phase EXCEPT ![w] = "restarting"],
           w \notin Entries => phase' = phase,
           restarters' = {}, ~stopping',
           UNCHANGED <<watched, entries, restarts, beat>>
    PROVE  BookInv'
<1>1. /\ forks + 1 \in Children /\ forks' = forks + 1 /\ child' = forks + 1
      /\ maker' = [maker EXCEPT ![forks + 1] = w]
      /\ starts' = [starts EXCEPT ![forks + 1] = "waiting"]
  BY HostAssumption DEF Fork, BookInv, EntryShape, Children
<1>2. EntryShape'
  <2>1. maker' \in [Children -> Callers] /\ starts' \in [Children -> {"none", "waiting", "resolved", "rejected"}]
    BY <1>1 DEF BookInv, EntryShape
  <2>2. forks' \in 0..MaxForks
    BY <1>1, HostAssumption DEF BookInv, EntryShape, Children
  <2>3. phase' \in [Entries -> {"none", "ok", "backoff", "restarting"}]
    BY DEF BookInv, EntryShape
  <2> QED
    BY <2>1, <2>2, <2>3 DEF BookInv, EntryShape
<1>3. ASSUME NEW e \in Entries
      PROVE  /\ phase'[e] # "restarting" => Settled(e)'
             /\ \A k, l \in Made(e)' : starts'[k] = "waiting" /\ starts'[l] = "waiting" => k = l
             /\ Cardinality(Made(e))' + Owed(e)' <= restarts'[e] /\ restarts'[e] <= MaxRestarts
  <2>1. CASE e = w
    <3>1. phase'[e] = "restarting" /\ Owed(e) = 1 /\ Owed(e)' = 0
      BY <2>1 DEF BookInv, EntryShape, OneRestart, Settled, Owed
    <3>2. \A k \in Made(e) : starts[k] # "waiting"
      BY <2>1 DEF BookInv, OneRestart, Settled
    <3>3. \A k \in Made(e)' : starts'[k] = "waiting" => k = forks + 1
      BY <2>1, <3>2, MadeByFork DEF BookInv
    <3>4. Cardinality(Made(e))' = Cardinality(Made(e)) + 1
      BY <2>1, MadeByFork DEF BookInv
    <3>5. Cardinality(Made(e)) \in Nat /\ restarts[e] \in Nat
      BY MadeIsFinite DEF BookInv, EntryShape
    <3> QED
      BY <3>1, <3>3, <3>4, <3>5 DEF BookInv, Budget
  <2>2. CASE e # w
    <3>1. Made(e)' = Made(e) /\ \A k \in Made(e) : starts'[k] = starts[k]
      BY <2>2, MadeByFork DEF BookInv
    <3>2. phase'[e] = phase[e]
      BY <2>2 DEF BookInv, EntryShape
    <3>3. Settled(e) => Settled(e)'
      BY <3>1 DEF Settled
    <3>4. Cardinality(Made(e))' = Cardinality(Made(e)) /\ Owed(e)' <= Owed(e) /\ Owed(e) \in Nat /\ Owed(e)' \in Nat
      BY <3>1, <3>2, <2>2, MadeByFork DEF Owed, BookInv
    <3>5. Cardinality(Made(e)) \in Nat /\ restarts[e] \in Nat
      BY MadeIsFinite DEF BookInv, EntryShape
    <3>6. Cardinality(Made(e))' + Owed(e)' <= restarts'[e] /\ restarts'[e] <= MaxRestarts
      BY <3>4, <3>5 DEF BookInv, Budget
    <3> QED
      BY <3>1, <3>2, <3>3, <3>6 DEF BookInv, OneRestart
  <2> QED BY <2>1, <2>2
<1> QED
  BY <1>2, <1>3 DEF BookInv, OneRestart, Budget

\* A step that makes no child and begins no restart: starts may settle.
LEMMA QuietBook ==
    ASSUME BookInv, UNCHANGED <<forks, maker, entryVars>>,
           starts' \in [Children -> {"none", "waiting", "resolved", "rejected"}],
           \A k \in Children : starts'[k] = "waiting" => starts[k] = "waiting",
           (restarters' = restarters /\ first' = first) \/ restarters' = {},
           restarters' # {} => stopping', child' = 0 => ~stopping'
    PROVE  BookInv'
<1>1. EntryShape'
  BY DEF BookInv, EntryShape, entryVars
<1>2. \A e \in Entries : Made(e)' = Made(e) /\ Cardinality(Made(e))' = Cardinality(Made(e))
  BY DEF Made
<1>3. \A e \in Entries : Made(e) \subseteq Children /\ (Settled(e) => Settled(e)')
  BY <1>2, HostAssumption DEF Made, Settled, BookInv, EntryShape, Children
<1>4. OneRestart'
  BY <1>2, <1>3 DEF BookInv, OneRestart, entryVars
<1>5. ASSUME NEW e \in Entries
      PROVE  Cardinality(Made(e))' + Owed(e)' <= restarts'[e] /\ restarts'[e] <= MaxRestarts
  <2>1. Owed(e)' \in Nat /\ Owed(e) \in Nat /\ Owed(e)' <= Owed(e)
    BY DEF Owed, entryVars
  <2>2. Cardinality(Made(e)) \in Nat /\ restarts[e] \in Nat /\ restarts' = restarts
    BY MadeIsFinite DEF BookInv, EntryShape, entryVars
  <2> QED
    BY <1>2, <2>1, <2>2 DEF BookInv, Budget
<1> QED BY <1>1, <1>4, <1>5 DEF BookInv, Budget

\* What no call of the host's methods does.
LEMMA HostStepBook ==
    ASSUME BookInv, HostStep, UNCHANGED entryVars
    PROVE  BookInv'
<1>1. ASSUME NEW k \in Children, ChildNext(k) PROVE BookInv'
  <2>1. UNCHANGED <<forks, child, maker, stopVars>>
    BY <1>1 DEF ChildNext, ChildReady, ChildInitFails, ChildCrashes, ChildKilled,
                Gone, OnReady, OnInitError, OnError
  <2>2. \/ UNCHANGED starts
        \/ \E st \in {"resolved", "rejected"} : starts' = [starts EXCEPT ![k] = st]
    BY <1>1 DEF ChildNext, ChildReady, ChildInitFails, ChildCrashes, ChildKilled,
                Gone, OnReady, OnInitError, OnError
  <2> QED
    BY <2>1, <2>2, QuietBook DEF BookInv, EntryShape, stopVars
<1>2. ASSUME NEW e \in events, OnExit(e) PROVE BookInv'
  <2>1. CASE ~stopping
    <3>1. UNCHANGED <<forks, child, maker, starts, stopVars>>
      BY <1>2, <2>1 DEF OnExit
    <3> QED BY <3>1, QuietBook DEF BookInv, EntryShape, stopVars
  <2>2. CASE StopsReturn /\ restarters = {} /\ UNCHANGED <<forks, starts, maker>>
    BY <2>2, QuietBook DEF StopsReturn, BookInv, EntryShape
  <2>3. CASE StopsReturn /\ restarters # {} /\ Fork(first)
    <3>1. first \in Callers /\ first \in restarters
      BY <2>3 DEF BookInv, EntryShape
    <3> QED
      BY <2>3, <3>1, ForkBook DEF StopsReturn, entryVars
  <2> QED BY <1>2, <2>1, <2>2, <2>3 DEF OnExit, StopsReturn
<1>3. ASSUME NEW c \in Calls, CallNext(c) PROVE BookInv'
  <2>1. UNCHANGED <<forks, child, maker, starts, stopVars>>
    BY <1>3 DEF CallNext, CallTimesOut, OnAnswer, ChildAnswers
  <2> QED BY <2>1, QuietBook DEF BookInv, EntryShape, stopVars
<1> QED
  BY <1>1, <1>2, <1>3 DEF HostStep

\* Caller w restarts the host: the owner at will, an entry after its backoff.
LEMMA RestartBook ==
    ASSUME BookInv, IInv, NEW w \in Callers, Restart(w),
           w \in Entries => phase[w] = "backoff" /\ phase' = [phase EXCEPT ![w] = "restarting"],
           w \notin Entries => phase' = phase,
           UNCHANGED <<watched, entries, restarts, beat>>
    PROVE  BookInv'
<1>1. CASE Fork(w) /\ ~stopping /\ UNCHANGED stopVars
  BY <1>1, ForkBook DEF BookInv, EntryShape, stopVars
<1>2. CASE Start(w)
  BY <1>1, <1>2 DEF Start, BookInv, EntryShape
<1>3. CASE BeginStop /\ Terminated /\ Fork(w) /\ UNCHANGED stopVars
  BY <1>1, <1>3 DEF IInv, StopsWait
<1>4. CASE /\ AwaitEnd
           /\ restarters' = restarters \union {w}
           /\ first' = IF restarters = {} THEN w ELSE first
  <2>1. stopping' = TRUE /\ child' # 0 /\ UNCHANGED <<forks, starts, maker>>
    BY <1>4 DEF AwaitEnd, BeginStop
  <2>2. EntryShape'
    BY <1>4, <2>1 DEF BookInv, EntryShape
  <2>3. \A e \in Entries : Made(e)' = Made(e) /\ Cardinality(Made(e))' = Cardinality(Made(e))
    BY <2>1 DEF Made
  <2>4. ASSUME NEW e \in Entries
        PROVE  /\ phase'[e] # "restarting" => Settled(e)'
               /\ e \in restarters' => \A k \in Made(e)' : starts'[k] # "waiting"
               /\ Owed(e)' = Owed(e)
    <3>1. CASE e = w
      BY <1>4, <2>1, <2>3, <3>1 DEF BookInv, EntryShape, OneRestart, Settled, Owed
    <3>2. CASE e # w
      BY <1>4, <2>1, <2>3, <3>2 DEF BookInv, EntryShape, OneRestart, Settled, Owed
    <3> QED BY <3>1, <3>2
  <2> QED
    BY <2>1, <2>2, <2>3, <2>4 DEF BookInv, OneRestart, Budget
<1> QED BY <1>2, <1>3, <1>4 DEF Restart

\* An attempt to restart takes from the budget.
LEMMA AttemptBook ==
    ASSUME BookInv, NEW e \in Entries, AttemptRestart(e),
           UNCHANGED <<forks, child, maker, starts, stopVars, entries>>,
           beat' \in [Calls -> Callers]
    PROVE  BookInv'
<1>1. \A d \in Entries : /\ Made(d)' = Made(d) /\ Cardinality(Made(d))' = Cardinality(Made(d))
                         /\ Settled(d)' = Settled(d)
  BY DEF Made, Settled, stopVars
<1>2. CASE UNCHANGED <<phase, restarts>> /\ watched' \in {watched, 0}
  <2>1. \A d \in Entries : Owed(d)' = Owed(d)
    BY <1>2 DEF Owed, stopVars
  <2> QED
    BY <1>1, <1>2, <2>1, WatchdogAssumption DEF BookInv, EntryShape, OneRestart, Budget, stopVars, Callers
<1>3. CASE /\ phase[e] = "ok" /\ restarts[e] < MaxRestarts /\ watched' = watched
           /\ phase' = [phase EXCEPT ![e] = "backoff"]
           /\ restarts' = [restarts EXCEPT ![e] = @ + 1]
  <2>1. EntryShape'
    BY <1>3 DEF BookInv, EntryShape, stopVars
  <2>2. \A d \in Entries : phase'[d] # "restarting" => Settled(d)'
    BY <1>1, <1>3 DEF BookInv, EntryShape, OneRestart
  <2>3. OneRestart'
    BY <1>1, <2>2 DEF BookInv, OneRestart, stopVars
  <2>4. ASSUME NEW d \in Entries
        PROVE  Cardinality(Made(d))' + Owed(d)' <= restarts'[d] /\ restarts'[d] <= MaxRestarts
    <3>1. Cardinality(Made(d)) \in Nat /\ restarts[d] \in Nat
      BY MadeIsFinite DEF BookInv, EntryShape
    <3>2. CASE d = e
      <4>1. Owed(e) = 0 /\ Owed(e)' = 1 /\ restarts'[e] = restarts[e] + 1
        BY <1>3 DEF BookInv, EntryShape, OneRestart, Settled, Owed, stopVars
      <4> QED
        BY <1>1, <1>3, <3>1, <3>2, <4>1, WatchdogAssumption DEF BookInv, Budget
    <3>3. CASE d # e
      <4>1. Owed(d)' = Owed(d) /\ restarts'[d] = restarts[d]
        BY <1>3, <3>3 DEF BookInv, EntryShape, Owed, stopVars
      <4> QED
        BY <1>1, <3>1, <4>1 DEF BookInv, Budget
    <3> QED BY <3>2, <3>3
  <2> QED BY <2>1, <2>3, <2>4 DEF BookInv, Budget
<1> QED
  BY <1>2, <1>3 DEF AttemptRestart

\* A step of an entry's own that begins no restart: it may go back to "ok" when
\* none is under way.
LEMMA PhaseBook ==
    ASSUME BookInv, NEW e \in Entries, Settled(e), phase' = [phase EXCEPT ![e] = "ok"],
           UNCHANGED <<forks, child, maker, starts, stopVars, restarts, beat>>,
           watched' \in Callers, entries' \in Callers,
           (entries' = entries /\ phase[e] # "none") \/ (entries' = entries + 1 /\ e = entries + 1)
    PROVE  BookInv'
<1>1. \A d \in Entries : /\ Made(d)' = Made(d) /\ Cardinality(Made(d))' = Cardinality(Made(d))
                         /\ Settled(d)' = Settled(d)
  BY DEF Made, Settled, stopVars
<1>2. EntryShape'
  BY WatchdogAssumption DEF BookInv, EntryShape, stopVars, Callers, Entries
<1>3. \A d \in Entries : phase'[d] # "restarting" => Settled(d)'
  BY <1>1 DEF BookInv, EntryShape, OneRestart
<1>4. ASSUME NEW d \in Entries
      PROVE  Cardinality(Made(d))' + Owed(d)' <= restarts'[d] /\ restarts'[d] <= MaxRestarts
  <2>1. Owed(d)' \in Nat /\ Owed(d) \in Nat /\ Owed(d)' <= Owed(d)
    BY DEF Owed, stopVars, BookInv, EntryShape
  <2>2. Cardinality(Made(d)) \in Nat /\ restarts[d] \in Nat
    BY MadeIsFinite DEF BookInv, EntryShape
  <2> QED
    BY <1>1, <2>1, <2>2 DEF BookInv, Budget
<1> QED
  BY <1>1, <1>2, <1>3, <1>4 DEF BookInv, OneRestart, Budget, stopVars

LEMMA InitBook == Init => BookInv
<1> SUFFICES ASSUME Init PROVE BookInv
  OBVIOUS
<1>1. EntryShape
  BY HostAssumption, WatchdogAssumption DEF Init, HostInit, EntryShape, Callers
<1>2. \A e \in Entries : Made(e) = {} /\ e \notin restarters
  BY DEF Init, HostInit, Made
<1>3. \A e \in Entries : Owed(e) = 0 /\ restarts[e] = 0 /\ Cardinality(Made(e)) = 0
  BY <1>2, FS_EmptySet DEF Init, Owed
<1> QED
  BY <1>1, <1>2, <1>3, WatchdogAssumption DEF BookInv, OneRestart, Settled, Budget

LEMMA OwnerBook == ASSUME BookInv, IInv, OwnerNext PROVE BookInv'
<1>1. CASE Watch
  <2>1. entries + 1 \in Entries /\ entries + 1 \in Callers
    BY <1>1, WatchdogAssumption DEF Watch, BookInv, EntryShape, Entries, Callers
  <2>2. entries \in Nat /\ Settled(entries + 1)
    BY <2>1, WatchdogAssumption DEF BookInv, EntryShape, OneRestart, Callers
  <2> QED
    BY <1>1, <2>1, <2>2, PhaseBook DEF Watch, hostVars
<1>2. CASE Unwatch \/ Destroy
  <2>1. UNCHANGED <<hostVars, entries, phase, restarts, beat>> /\ watched' = 0
    BY <1>2 DEF Unwatch, Destroy
  <2>2. \A e \in Entries : /\ Made(e)' = Made(e) /\ Cardinality(Made(e))' = Cardinality(Made(e))
                           /\ Settled(e)' = Settled(e) /\ Owed(e)' = Owed(e)
    BY <2>1 DEF Made, Settled, Owed, hostVars, stopVars
  <2> QED
    BY <2>1, <2>2, WatchdogAssumption DEF BookInv, EntryShape, OneRestart, Budget, hostVars, stopVars, Callers
<1>3. CASE OwnerCall
  <2>1. 0 \in Callers /\ 0 \notin Entries
    BY WatchdogAssumption DEF Callers, Entries
  <2>2. UNCHANGED <<watched, entries, phase, restarts, beat>>
    BY <1>3 DEF OwnerCall, entryVars
  <2>3. CASE Stop
    <3>1. CASE AwaitEnd /\ UNCHANGED <<restarters, first>>
      BY <1>3, <3>1, QuietBook DEF AwaitEnd, BeginStop, BookInv, EntryShape, OwnerCall
    <3>2. CASE /\ BeginStop /\ Terminated /\ child' = 0
               /\ UNCHANGED <<forks, proc, starts, maker, stopVars>>
      BY <1>3, <3>2, TerminatedFacts, QuietBook DEF BookInv, EntryShape, OwnerCall
    <3> QED BY <2>3, <3>1, <3>2 DEF Stop
  <2>4. CASE Start(0) \/ Restart(0)
    BY <2>1, <2>2, <2>4, RestartBook DEF Restart
  <2>5. ASSUME NEW c \in Calls, CallPlugin(c) PROVE BookInv'
    BY <1>3, <2>5, QuietBook DEF CallPlugin, BookInv, EntryShape, OwnerCall, stopVars
  <2> QED BY <1>3, <2>3, <2>4, <2>5 DEF OwnerCall
<1> QED BY <1>1, <1>2, <1>3 DEF OwnerNext

LEMMA EntryBook == ASSUME BookInv, IInv, NEW e \in Entries, EntryNext(e) PROVE BookInv'
<1>1. e \in Callers
  BY WatchdogAssumption DEF Entries, Callers
<1>2. CASE TickDead(e)
  BY <1>2, AttemptBook DEF TickDead, hostVars, BookInv, EntryShape
<1>3. CASE BackoffEnds(e)
  <2>1. CASE UNCHANGED hostVars /\ phase' = [phase EXCEPT ![e] = "ok"]
    <3>1. Settled(e)
      BY <1>3 DEF BackoffEnds, BookInv, OneRestart
    <3> QED
      BY <1>3, <2>1, <3>1, PhaseBook DEF BackoffEnds, hostVars, BookInv, EntryShape
  <2>2. CASE Restart(e) /\ phase' = [phase EXCEPT ![e] = "restarting"]
    BY <1>1, <1>3, <2>2, RestartBook DEF BackoffEnds
  <2> QED BY <1>3, <2>1, <2>2 DEF BackoffEnds
<1>4. CASE RestartDone(e)
  BY <1>4, PhaseBook DEF RestartDone, hostVars, BookInv, EntryShape
<1>5. ASSUME NEW c \in Calls, TickHeartbeat(e, c) PROVE BookInv'
  <2>1. UNCHANGED <<forks, child, starts, maker, stopVars, watched, entries, phase, restarts>>
    BY <1>5 DEF TickHeartbeat, CallPlugin
  <2>2. beat' \in [Calls -> Callers]
    BY <1>1, <1>5 DEF TickHeartbeat, BookInv, EntryShape
  <2>3. \A d \in Entries : /\ Made(d)' = Made(d) /\ Cardinality(Made(d))' = Cardinality(Made(d))
                           /\ Settled(d)' = Settled(d) /\ Owed(d)' = Owed(d)
    BY <2>1 DEF Made, Settled, Owed, stopVars
  <2> QED
    BY <2>1, <2>2, <2>3 DEF BookInv, EntryShape, OneRestart, Budget, stopVars
<1> QED BY <1>2, <1>3, <1>4, <1>5 DEF EntryNext

LEMMA BeatBook == ASSUME BookInv, NEW c \in Calls, BeatNext(c) PROVE BookInv'
<1>1. UNCHANGED <<forks, child, starts, maker, stopVars, entries>> /\ beat' \in [Calls -> Callers]
  BY WatchdogAssumption DEF BeatNext, HeartbeatOk, HeartbeatFailed, Forget, BookInv, EntryShape, Callers
<1>2. CASE HeartbeatOk(c)
  <2>1. \A d \in Entries : /\ Made(d)' = Made(d) /\ Cardinality(Made(d))' = Cardinality(Made(d))
                           /\ Settled(d)' = Settled(d) /\ Owed(d)' = Owed(d)
    BY <1>1, <1>2 DEF HeartbeatOk, Made, Settled, Owed, stopVars
  <2> QED
    BY <1>1, <1>2, <2>1 DEF HeartbeatOk, BookInv, EntryShape, OneRestart, Budget, stopVars
<1>3. CASE HeartbeatFailed(c)
  <2>1. beat[c] \in Entries
    BY <1>3, WatchdogAssumption DEF HeartbeatFailed, BookInv, EntryShape, Callers, Entries
  <2> QED
    BY <1>1, <1>3, <2>1, AttemptBook DEF HeartbeatFailed
<1> QED BY <1>2, <1>3 DEF BeatNext

LEMMA StepBook == BookInv /\ IInv /\ [Next]_vars => BookInv'
<1> SUFFICES ASSUME BookInv, IInv, [Next]_vars PROVE BookInv'
  OBVIOUS
<1>1. CASE UNCHANGED vars
  BY <1>1, QuietBook DEF vars, hostVars, stopVars, BookInv, EntryShape
<1> QED
  BY <1>1, OwnerBook, HostStepBook, EntryBook, BeatBook DEF Next

LEMMA AlwaysBook == Spec => []BookInv
<1>1. CInv => IInv
  BY DEF CInv
<1> QED BY InitBook, StepBook, WatchedCInv, <1>1, PTL DEF Spec

\* An entry makes no child but by a restart that it has counted, and no more than
\* maxRestarts; what the owner and other entries make is not charged to it
\* (plugin-watchdog.ts:168-178).
THEOREM EveryRestartCounted == Spec => []RestartsCounted
<1>1. ASSUME BookInv PROVE RestartsCounted
  <2> SUFFICES ASSUME NEW e \in Entries
               PROVE  Cardinality(Made(e)) <= restarts[e] /\ restarts[e] <= MaxRestarts
    BY DEF RestartsCounted
  <2>1. Owed(e) \in {0, 1} /\ Cardinality(Made(e)) \in Nat /\ restarts[e] \in Nat
    BY <1>1, MadeIsFinite DEF Owed, BookInv, EntryShape
  <2> QED BY <1>1, <2>1 DEF BookInv, Budget
<1> QED BY <1>1, AlwaysBook, PTL

\* The restarts of an entry do not overlap (plugin-watchdog.ts:133, 169, 189-196).
THEOREM RestartsDoNotOverlap == Spec => []OneRestart
<1>1. BookInv => OneRestart
  BY DEF BookInv
<1> QED BY <1>1, AlwaysBook, PTL

-----------------------------------------------------------------------------
(* What FailedIsRestarted rests on: a restart under way comes to an end *)

\* The start() of a host's child waits for something that comes, unless a child may
\* end before it reports: the child boots, or its report is on its way, or the
\* child is being stopped (process-plugin-host.ts:76-107, worker-plugin-host.ts:77-108).
StartIsAnswered ==
    ~BootCrashes /\ child # 0 /\ starts[child] = "waiting" =>
        stopping \/ proc[child] = "booting" \/ Reports(child)

\* A restart() of an entry for a worker has settled, or waits for the end of the
\* child it stops, which runs or whose exit is on its way; or for a child of its
\* own that boots or whose report is on its way.  It hangs only when that child is
\* gone without a report (plugin-watchdog.ts:177-196, worker-plugin-host.ts:113-122).
RestartHasEnd ==
    \A e \in Entries : phase[e] = "restarting" /\ isolation = "worker" =>
        \/ Settled(e)
        \/ e \in restarters /\ stopping /\ (ChildRuns(child) \/ ExitOf(child) # {})
        \/ \E k \in Made(e) : starts[k] = "waiting" /\ (proc[k] = "booting" \/ Reports(k))
        \/ LeftOpen(e)

\* A child was made by a start(); when it is ready, it has told of it.
Started ==
    /\ starts \in [Children -> {"none", "waiting", "resolved", "rejected"}]
    /\ \A k \in 1..forks : proc[k] # "none"
    /\ \A k \in Children : starts[k] = "waiting" /\ proc[k] = "ready" => Reports(k)

StartInv == Started /\ StartIsAnswered

\* A start waits for a new child.
LEMMA ForkStarts ==
    ASSUME IInv, StartInv, NEW w, Fork(w), \A k \in Children : ~ChildRuns(k)
    PROVE  StartInv'
<1>1. /\ forks + 1 \in Children /\ forks' = forks + 1 /\ child' = forks + 1
      /\ proc' = [proc EXCEPT ![forks + 1] = "booting"]
  BY ForkMakes DEF IInv
<1>2. starts' = [starts EXCEPT ![forks + 1] = "waiting"]
  BY DEF Fork
<1>3. \A k \in Children : proc'[k] # "ready" /\ (k = forks + 1 => proc'[k] = "booting")
  BY <1>1 DEF IInv, Shape, ChildRuns
<1>4. \A k \in 1..forks' : proc'[k] # "none"
  <2>1. \A k \in 1..forks' : k \in Children /\ (k \in 1..forks \/ k = forks + 1)
    BY <1>1, HostAssumption DEF IInv, Shape, Children
  <2> QED
    BY <1>1, <2>1 DEF StartInv, Started, IInv, Shape
<1> QED
  BY <1>1, <1>2, <1>3, <1>4 DEF StartInv, Started, StartIsAnswered

\* Nothing is left to wait for when the child is let go of.
LEMMA GoneStarts ==
    ASSUME StartInv, child' = 0, UNCHANGED <<forks, proc, starts>>, \A k \in Children : ~ChildRuns(k)
    PROVE  StartInv'
  BY DEF StartInv, Started, StartIsAnswered, ChildRuns

\* A step that takes away no report, and leaves the child alone.
LEMMA ReportsStay ==
    ASSUME StartInv, UNCHANGED <<forks, child, proc, starts>>, stopping => stopping',
           \A e \in events : e.type \in {"ready", "init-error"} => e \in events'
    PROVE  StartInv'
<1>1. \A k : Reports(k) => Reports(k)'
  BY DEF Reports
<1> QED
  BY <1>1 DEF StartInv, Started, StartIsAnswered

LEMMA AwaitStarts == ASSUME StartInv, AwaitEnd PROVE StartInv'
<1>1. UNCHANGED <<forks, child, proc, starts, events>> /\ stopping'
  BY DEF AwaitEnd, BeginStop
<1> QED BY <1>1, ReportsStay

LEMMA StopStarts == ASSUME IInv, StartInv, Stop PROVE StartInv'
<1>1. CASE /\ BeginStop /\ Terminated /\ child' = 0
           /\ UNCHANGED <<forks, proc, starts, stopVars>>
  BY <1>1, TerminatedFacts, GoneStarts
<1> QED BY <1>1, AwaitStarts DEF Stop

LEMMA RestartStarts == ASSUME IInv, StartInv, NEW w, Restart(w) PROVE StartInv'
<1>1. CASE Start(w)
  <2>1. Fork(w) /\ \A k \in Children : ~ChildRuns(k)
    BY <1>1, HostAssumption DEF Start, IInv, OneChild, Children
  <2> QED BY <2>1, ForkStarts
<1>2. CASE BeginStop /\ Terminated /\ Fork(w) /\ UNCHANGED stopVars
  BY <1>2, TerminatedFacts, ForkStarts
<1> QED BY <1>1, <1>2, AwaitStarts DEF Restart

LEMMA CallStarts == ASSUME StartInv, NEW c \in Calls, CallPlugin(c) PROVE StartInv'
<1>1. UNCHANGED <<forks, child, proc, starts, stopping>> /\ events \subseteq events'
  BY DEF CallPlugin, Emit, stopVars
<1> QED BY <1>1, ReportsStay

\* A child that boots goes on to report, unless it is stopped.
LEMMA ChildStarts ==
    ASSUME IInv, StartInv, NEW k \in Children,
           ChildReady(k) \/ ChildInitFails(k) \/ ChildCrashes(k) \/ ChildKilled(k)
    PROVE  StartInv'
<1>1. ChildRuns(k)
  BY DEF ChildReady, ChildInitFails, ChildCrashes, ChildKilled, ChildRuns
<1>2. k = child /\ child # 0
  BY <1>1, HostAssumption DEF IInv, OneChild, Children
<1>3. /\ UNCHANGED <<forks, child, starts, stopping>> /\ events \subseteq events'
      /\ \E st \in {"ready", "gone"} : proc' = [proc EXCEPT ![k] = st]
  BY DEF ChildReady, ChildInitFails, ChildCrashes, ChildKilled, Gone, Emit, stopVars
<1>4. proc'[k] \in {"ready", "gone"} /\ \A l \in Children : l # k => proc'[l] = proc[l]
  BY <1>3 DEF IInv, Shape
<1>5. \A l : Reports(l) => Reports(l)'
  BY <1>3 DEF Reports
<1>6. \A l \in 1..forks' : proc'[l] # "none"
  <2>1. \A l \in 1..forks' : l \in Children /\ l \in 1..forks
    BY <1>3, HostAssumption DEF IInv, Shape, Children
  <2> QED BY <1>4, <2>1 DEF StartInv, Started
<1>7. CASE ChildReady(k) \/ ChildInitFails(k)
  <2>1. PICK t \in {"ready", "init-error"} : [child |-> k, type |-> t, code |-> 1] \in events'
    BY <1>7 DEF ChildReady, ChildInitFails, Emit
  <2>2. Reports(k)'
    BY <2>1 DEF Reports
  <2> QED
    BY <1>2, <1>3, <1>4, <1>5, <1>6, <2>2 DEF StartInv, Started, StartIsAnswered
<1>8. CASE ChildCrashes(k) \/ ChildKilled(k)
  <2>1. stopping \/ BootCrashes \/ proc[k] # "booting"
    BY <1>8 DEF ChildCrashes, ChildKilled
  <2>2. proc'[k] = "gone"
    BY <1>8 DEF ChildCrashes, ChildKilled, Gone, IInv, Shape
  <2> QED
    BY <1>2, <1>3, <1>4, <1>5, <1>6, <2>1, <2>2 DEF StartInv, Started, StartIsAnswered
<1> QED
  BY <1>7, <1>8

\* What the host is told: a report settles the start, an exit comes after it.
LEMMA MessageStarts ==
    ASSUME IInv, StartInv, NEW k \in Children, OnReady(k) \/ OnInitError(k) \/ OnError(k)
    PROVE  StartInv'
<1>1. UNCHANGED <<forks, child, proc, stopping>>
  BY DEF OnReady, OnInitError, OnError, stopVars
<1>2. CASE OnReady(k) \/ OnInitError(k)
  <2>1. PICK st \in {"resolved", "rejected"} : starts' = [starts EXCEPT ![k] = st]
    BY <1>2 DEF OnReady, OnInitError
  <2>2. PICK e : e \in events /\ e.child = k /\ events' = events \ {e}
    BY <1>2 DEF OnReady, OnInitError
  <2>3. \A l : l # k /\ Reports(l) => Reports(l)'
    BY <2>2 DEF Reports
  <2>4. k = child
    BY <2>2 DEF IInv, EventsInOrder
  <2> QED
    BY <1>1, <2>1, <2>3, <2>4 DEF StartInv, Started, StartIsAnswered
<1>3. CASE OnError(k)
  <2>1. UNCHANGED starts /\ \A e \in events : e.type \in {"ready", "init-error"} => e \in events'
    BY <1>3 DEF OnError
  <2> QED BY <1>1, <2>1, ReportsStay
<1> QED BY <1>2, <1>3

LEMMA ExitStarts ==
    ASSUME IInv, StartInv, NEW e \in events, OnExit(e)
    PROVE  StartInv'
<1>1. e.child = child /\ e.type = "exit" /\ proc[child] = "gone" /\ child # 0
  BY DEF OnExit, IInv, EventsInOrder
<1>2. \A k \in Children : ~ChildRuns(k)
  BY <1>1 DEF IInv, OneChild, ChildRuns
<1>3. CASE StopsReturn
  BY <1>2, <1>3, ForkStarts, GoneStarts DEF StopsReturn
<1>4. CASE UNCHANGED <<child, forks, proc, starts, stopVars>>
  <2>1. \A f \in events : f.type \in {"ready", "init-error"} => f \in events'
    BY <1>1 DEF OnExit
  <2>2. stopping' = stopping
    BY <1>4 DEF stopVars
  <2> QED BY <1>4, <2>1, <2>2, ReportsStay
<1> QED BY <1>3, <1>4 DEF OnExit

\* What the host's own events and its children do.
LEMMA HostStepStarts == ASSUME IInv, StartInv, HostStep PROVE StartInv'
<1>1. ASSUME NEW k \in Children, ChildNext(k) PROVE StartInv'
  BY <1>1, ChildStarts, MessageStarts DEF ChildNext
<1>2. ASSUME NEW c \in Calls, CallNext(c) PROVE StartInv'
  <2>1. UNCHANGED <<forks, child, proc, events, starts, stopping>>
    BY <1>2 DEF CallNext, CallTimesOut, OnAnswer, ChildAnswers, stopVars
  <2> QED
    BY <2>1, ReportsStay
<1> QED
  BY <1>1, <1>2, ExitStarts DEF HostStep

LEMMA InitStarts == HostInit => StartInv
  BY HostAssumption DEF HostInit, StartInv, Started, StartIsAnswered

\* A host never waits for the start of a child that has nothing more to say, as
\* long as children report before they end and are not stopped meanwhile.
THEOREM StartsAreAnswered == HostSpec => []StartIsAnswered
<1>1. ASSUME IInv, StartInv, UNCHANGED hostVars PROVE StartInv'
  BY <1>1, ReportsStay DEF hostVars, stopVars
<1>2. IInv /\ StartInv /\ [HostNext]_hostVars => StartInv'
  BY <1>1, HostStepStarts, StopStarts, RestartStarts, CallStarts DEF HostNext, Restart
<1>3. StartInv => StartIsAnswered
  BY DEF StartInv
<1> QED
  BY InitIInv, StepIInv, InitStarts, <1>2, <1>3, PTL DEF HostSpec

\* Nor does its watchdog make the host wait in vain.
LEMMA WatchdogStarts ==
    ASSUME IInv, StartInv, [Next]_vars
    PROVE  StartInv'
<1>1. ASSUME UNCHANGED hostVars PROVE StartInv'
  BY <1>1, ReportsStay DEF hostVars, stopVars
<1>2. CASE OwnerNext
  BY <1>1, <1>2, StopStarts, RestartStarts, CallStarts
  DEF OwnerNext, Watch, Unwatch, Destroy, OwnerCall, Restart
<1>3. CASE HostStep
  BY <1>3, HostStepStarts
<1>4. ASSUME NEW e \in Entries, EntryNext(e) PROVE StartInv'
  BY <1>1, <1>4, RestartStarts, CallStarts
  DEF EntryNext, TickDead, BackoffEnds, RestartDone, TickHeartbeat
<1>5. ASSUME NEW c \in Calls, BeatNext(c) PROVE StartInv'
  <2>1. UNCHANGED <<forks, child, proc, events, starts, stopping>>
    BY <1>5 DEF BeatNext, HeartbeatOk, HeartbeatFailed, Forget, stopVars
  <2> QED BY <2>1, ReportsStay
<1>6. CASE UNCHANGED vars
  BY <1>1, <1>6 DEF vars
<1> QED
  BY <1>2, <1>3, <1>4, <1>5, <1>6 DEF Next

\* No restart of a worker waits for an exit that the host has missed, nor for the
\* report of a child that is ready: it settles, or its child left it open by ending
\* before it reported.  (For a process it may: stop() waits for the exit event of a
\* child that is gone already.)
THEOREM RestartsComeToAnEnd == Spec => []RestartHasEnd
<1>1. Init => StartInv
  BY InitStarts DEF Init
<1>2. CInv => IInv
  BY DEF CInv
<1>3. IInv /\ StartInv /\ [Next]_vars => StartInv'
  BY WatchdogStarts
<1>4. IInv /\ StartInv => RestartHasEnd
  <2> SUFFICES ASSUME IInv, StartInv, NEW e \in Entries, isolation = "worker", ~Settled(e)
               PROVE  \/ e \in restarters /\ stopping /\ (ChildRuns(child) \/ ExitOf(child) # {})
                      \/ \E k \in Made(e) : starts[k] = "waiting" /\ (proc[k] = "booting" \/ Reports(k))
                      \/ LeftOpen(e)
    BY DEF RestartHasEnd
  <2>1. CASE e \in restarters
    <3>1. stopping /\ child # 0 /\ ~ExitSeen(child)
      BY <2>1 DEF IInv, StopsWait, Terminated
    <3>2. child \in 1..forks /\ child \in Children
      BY <3>1, HostAssumption DEF IInv, Shape, Children
    <3>3. proc[child] \in {"booting", "ready", "gone"}
      BY <3>2 DEF IInv, Shape, StartInv, Started
    <3> QED
      BY <2>1, <3>1, <3>3 DEF ChildRuns, ExitSeen
  <2>2. CASE e \notin restarters
    <3>1. PICK k \in Made(e) : starts[k] = "waiting"
      BY <2>2 DEF Settled
    <3>2. k \in 1..forks /\ k \in Children
      BY HostAssumption DEF Made, IInv, Shape, Children
    <3>3. proc[k] \in {"booting", "ready", "gone"}
      BY <3>2 DEF IInv, Shape, StartInv, Started
    <3>4. proc[k] = "ready" => Reports(k)
      BY <3>1, <3>2 DEF StartInv, Started
    <3> QED
      BY <3>1, <3>3, <3>4 DEF LeftOpen
  <2> QED BY <2>1, <2>2
<1> QED
  BY <1>1, <1>2, <1>3, <1>4, WatchedCInv, PTL DEF Spec

=============================================================================
