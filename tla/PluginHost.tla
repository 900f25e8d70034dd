----------------------------- MODULE PluginHost -----------------------------
(***************************************************************************)
(* A plugin in a child of its own: ChildProcessPluginHost (a forked        *)
(* process) and WorkerThreadPluginHost (a worker thread), which differ in  *)
(* how stop treats a child that is gone already.  The host is one actor,   *)
(* every child another; a child's messages and its exit reach the host as  *)
(* events of their own, in the order in which they happened.  start, stop  *)
(* and restart may be called at any time and by several callers, so stops  *)
(* and restarts overlap; caller 0 is the owner of the host.  Restarts of   *)
(* one caller that overlap count as one: only the first makes a child.     *)
(***************************************************************************)
EXTENDS Integers, FiniteSets

CONSTANTS
    Calls,       \* RPC calls and heartbeats
    Isolations,  \* what config.isolation may be: "process", "worker"
    MaxForks,    \* bound: children started
    BootCrashes, \* whether a child may end before it reported that it is ready
    CleanExits   \* whether a child may end with exit code 0

ASSUME HostAssumption ==
    /\ Isolations \subseteq {"process", "worker"}
    /\ MaxForks \in Nat
    /\ BootCrashes \in BOOLEAN
    /\ CleanExits \in BOOLEAN

VARIABLES
    isolation, \* config.isolation, which never changes
    child,   \* this.child / this.worker: the number of the child, 0 for null
    alive,   \* this.alive
    forks,   \* number of children made so far
    proc,    \* what each child is doing
    events,  \* messages ready and init-error, events error and exit, on their way to the host
    starts,  \* the promise of the start() that made each child
    maker,   \* the caller of that start()
    stopping,   \* stop() calls wait for the end of the child
    restarters, \* the callers of those of them that restart() made
    first,      \* the first of these callers
    call,    \* what became of each call
    to,      \* the child that a call was sent to
    asked,   \* calls that a child has yet to answer
    answers  \* calls whose answer is on its way to the host

stopVars == <<stopping, restarters, first>>

hostVars == <<isolation, child, alive, forks, proc, events, starts, maker, stopVars,
              call, to, asked, answers>>

Children == 1..MaxForks

Pending == {c \in Calls : call[c] = "pending"}

ChildRuns(k) == proc[k] \in {"booting", "ready"}

ExitOf(k) == {e \in events : e.child = k /\ e.type = "exit"}

\* The host has been told of the end of child k.
ExitSeen(k) == proc[k] = "gone" /\ ExitOf(k) = {}

\* Mutant: the pending calls are forgotten.
RejectNothing == call

RejectAllPending == [c \in Calls |-> IF c \in Pending THEN "error" ELSE call[c]]

-----------------------------------------------------------------------------
(* start, stop and restart *)

\* The children that caller w made.
Made(w) == {k \in 1..forks : maker[k] = w}

\* A child that booted has told of it, or said that it cannot be loaded, and the
\* host will hear it.
Reports(k) == \E e \in events : e.child = k /\ e.type \in {"ready", "init-error"}

\* No restart() of caller w is under way.
Settled(w) == w \notin restarters /\ \A k \in Made(w) : starts[k] # "waiting"

\* A start() of caller w waits for the report of a child that is gone.
LeftOpen(w) == \E k \in Made(w) : starts[k] = "waiting" /\ proc[k] = "gone" /\ ~Reports(k)

\* What start() does for caller w, the child being the next one.
Fork(w) ==
    /\ forks < MaxForks
    /\ forks' = forks + 1
    /\ child' = forks + 1
    /\ proc' = [proc EXCEPT ![forks + 1] = "booting"]
    /\ starts' = [starts EXCEPT ![forks + 1] = "waiting"]
    /\ maker' = [maker EXCEPT ![forks + 1] = w]

\* Mutant: start does not refuse a second child.
StartAgain(w) ==
    /\ Fork(w)
    /\ UNCHANGED <<isolation, alive, events, stopVars, call, to, asked, answers>>

Start(w) ==
    /\ child = 0
    /\ Fork(w)
    /\ UNCHANGED <<isolation, alive, events, stopVars, call, to, asked, answers>>

\* terminate() of a worker whose exit the host has seen resolves at once.
Terminated == isolation = "worker" /\ ExitSeen(child)

\* What stop() does first; without a child there is nothing to stop.
BeginStop ==
    /\ child # 0
    /\ call' = RejectAllPending
    /\ UNCHANGED <<isolation, events, to, asked, answers>>

\* The child was signalled, its end is awaited.
AwaitEnd ==
    /\ BeginStop
    /\ ~Terminated
    /\ stopping' = TRUE
    /\ UNCHANGED <<child, alive, forks, proc, starts, maker>>

Stop ==
    \/ AwaitEnd /\ UNCHANGED <<restarters, first>>
    \/ /\ BeginStop
       /\ Terminated
       /\ child' = 0
       /\ alive' = FALSE
       /\ UNCHANGED <<forks, proc, starts, maker, stopVars>>

\* Without a child, restart() is start().
Restart(w) ==
    \/ Start(w)
    \/ /\ restarters # {} \/ forks < MaxForks
       /\ AwaitEnd
       /\ restarters' = restarters \union {w}
       /\ first' = IF restarters = {} THEN w ELSE first
    \/ /\ BeginStop
       /\ Terminated
       /\ alive' = FALSE
       /\ Fork(w)
       /\ UNCHANGED stopVars

\* The promises of all stops resolve.  The first restart() goes on to start();
\* the others find its child there, and their start() throws.
StopsReturn ==
    /\ stopping' = FALSE
    /\ restarters' = {}
    /\ first' = 0
    /\ \/ /\ restarters = {}
          /\ child' = 0
          /\ UNCHANGED <<forks, proc, starts, maker>>
       \/ /\ restarters # {}
          /\ Fork(first)

-----------------------------------------------------------------------------
(* The child *)

Emit(k, types) == events' = events \union {[child |-> k, type |-> t, code |-> 1] : t \in types}

ChildReady(k) ==
    /\ proc[k] = "booting"
    /\ proc' = [proc EXCEPT ![k] = "ready"]
    /\ Emit(k, {"ready"})
    /\ UNCHANGED <<isolation, child, alive, forks, starts, maker, stopVars, call,
                   to, asked, answers>>

\* The plugin cannot be loaded: the entry script says so and exits with 1.
ChildInitFails(k) ==
    /\ proc[k] = "booting"
    /\ proc' = [proc EXCEPT ![k] = "gone"]
    /\ Emit(k, {"init-error", "exit"})
    /\ UNCHANGED <<isolation, child, alive, forks, starts, maker, stopVars, call,
                   to, asked, answers>>

Gone(k, code, others) ==
    /\ proc' = [proc EXCEPT ![k] = "gone"]
    /\ events' = events \union {[child |-> k, type |-> "exit", code |-> code]}
                        \union {[child |-> k, type |-> t, code |-> 1] : t \in others}
    /\ asked' = {c \in asked : to[c] # k}
    /\ UNCHANGED <<isolation, child, alive, forks, starts, maker, stopVars, call,
                   to, answers>>

\* The child ends by itself; an exception nobody caught in a worker raises an
\* error event before the exit.
ChildCrashes(k) ==
    /\ proc[k] = "ready" \/ (BootCrashes /\ proc[k] = "booting")
    /\ \/ \E code \in IF CleanExits THEN {0, 1} ELSE {1} : Gone(k, code, {})
       \/ isolation = "worker" /\ Gone(k, 1, {"error"})

\* SIGTERM, SIGKILL after 5 s, or terminate(): the exit code is not 0, unless
\* the plugin handles SIGTERM.
ChildKilled(k) ==
    /\ stopping
    /\ k = child
    /\ ChildRuns(k)
    /\ \E code \in IF CleanExits /\ isolation = "process" THEN {0, 1} ELSE {1} :
           Gone(k, code, {})

ChildAnswers(c) ==
    /\ c \in asked
    /\ asked' = asked \ {c}
    /\ answers' = answers \union {c}
    /\ UNCHANGED <<isolation, child, alive, forks, proc, events, starts, maker,
                   stopVars, call, to>>

-----------------------------------------------------------------------------
(* Events of the host *)

OnReady(k) ==
    LET e == [child |-> k, type |-> "ready", code |-> 1]
    IN  /\ e \in events
        /\ events' = events \ {e}
        /\ alive' = TRUE
        /\ starts' = [starts EXCEPT ![k] = "resolved"]
        /\ UNCHANGED <<isolation, child, forks, proc, maker, stopVars, call, to,
                       asked, answers>>

OnInitError(k) ==
    LET e == [child |-> k, type |-> "init-error", code |-> 1]
    IN  /\ e \in events
        /\ events' = events \ {e}
        /\ starts' = [starts EXCEPT ![k] = "rejected"]
        /\ UNCHANGED <<isolation, child, alive, forks, proc, maker, stopVars, call,
                       to, asked, answers>>

\* The error listener: start() stays as it is.
OnError(k) ==
    LET e == [child |-> k, type |-> "error", code |-> 1]
    IN  /\ e \in events
        /\ [child |-> k, type |-> "ready", code |-> 1] \notin events
        /\ events' = events \ {e}
        /\ alive' = FALSE
        /\ call' = RejectAllPending
        /\ UNCHANGED <<isolation, child, forks, proc, starts, maker, stopVars, to,
                       asked, answers>>

\* The exit listeners: that of start(), then those of the stops that wait.
OnExit(e) ==
    /\ e.type = "exit"
    /\ \A f \in events : f.child = e.child => f = e
    /\ events' = events \ {e}
    /\ alive' = FALSE
    /\ call' = IF e.code # 0 THEN RejectAllPending ELSE call
    /\ IF stopping
       THEN StopsReturn
       ELSE UNCHANGED <<child, forks, proc, starts, maker, stopVars>>
    /\ UNCHANGED <<isolation, to, asked, answers>>

-----------------------------------------------------------------------------
(* Calls and heartbeats *)

\* The message of a call to a child that is gone is lost; a closed IPC channel
\* raises an error event.
CallPlugin(c) ==
    /\ call[c] = "idle"
    /\ child # 0
    /\ alive
    /\ call' = [call EXCEPT ![c] = "pending"]
    /\ to' = [to EXCEPT ![c] = child]
    /\ asked' = IF proc[child] = "ready" THEN asked \union {c} ELSE asked
    /\ IF proc[child] = "gone" /\ isolation = "process"
       THEN Emit(child, {"error"})
       ELSE UNCHANGED events
    /\ UNCHANGED <<isolation, child, alive, forks, proc, starts, maker, stopVars,
                   answers>>

CallTimesOut(c) ==
    /\ c \in Pending
    /\ call' = [call EXCEPT ![c] = "timedout"]
    /\ UNCHANGED <<isolation, child, alive, forks, proc, events, starts, maker,
                   stopVars, to, asked, answers>>

\* Mutant: a late answer replaces the outcome that the caller was given.
OnAnswerLate(c) ==
    /\ c \in answers
    /\ answers' = answers \ {c}
    /\ call' = [call EXCEPT ![c] = "ok"]
    /\ UNCHANGED <<isolation, child, alive, forks, proc, events, starts, maker,
                   stopVars, to, asked>>

\* handleMessage: an answer that nobody waits for any more is dropped.
OnAnswer(c) ==
    /\ c \in answers
    /\ answers' = answers \ {c}
    /\ call' = IF c \in Pending THEN [call EXCEPT ![c] = "ok"] ELSE call
    /\ UNCHANGED <<isolation, child, alive, forks, proc, events, starts, maker,
                   stopVars, to, asked>>

-----------------------------------------------------------------------------
HostInit ==
    /\ isolation \in Isolations
    /\ child = 0
    /\ alive = FALSE
    /\ forks = 0
    /\ proc = [k \in Children |-> "none"]
    /\ events = {}
    /\ starts = [k \in Children |-> "none"]
    /\ maker = [k \in Children |-> 0]
    /\ stopping = FALSE
    /\ restarters = {}
    /\ first = 0
    /\ call = [c \in Calls |-> "idle"]
    /\ to = [c \in Calls |-> 0]
    /\ asked = {}
    /\ answers = {}

ChildNext(k) ==
    \/ ChildReady(k) \/ ChildInitFails(k) \/ ChildCrashes(k) \/ ChildKilled(k)
    \/ OnReady(k) \/ OnInitError(k) \/ OnError(k)

CallNext(c) == CallTimesOut(c) \/ OnAnswer(c) \/ ChildAnswers(c)

\* What happens without a call of the host's methods.
HostStep ==
    \/ \E k \in Children : ChildNext(k)
    \/ \E e \in events : OnExit(e)
    \/ \E c \in Calls : CallNext(c)

HostNext ==
    \/ Start(0)
    \/ Stop
    \/ Restart(0)
    \/ \E c \in Calls : CallPlugin(c)
    \/ HostStep

HostSpec == HostInit /\ [][HostNext]_hostVars

-----------------------------------------------------------------------------
(* Properties *)

\* At most one child runs, and it is the one the host knows: stops, restarts
\* and crashes leak none (process-plugin-host.ts:61-64, 119-132, 166-169).
OneChild == \A k \in Children : ChildRuns(k) => k = child

\* When children end with an error code, no call is left waiting for its timer
\* after the child it was sent to has ended (process-plugin-host.ts:100-117).
NoForgottenCall ==
    ~CleanExits => \A c \in Pending : to[c] = child /\ ~ExitSeen(child)

\* A call is settled once: a late answer, a timeout and the end of the child
\* cannot change what its caller was told (process-plugin-host.ts:146-149, 211-234).
SettledOnce ==
    [][\A c \in Calls : call[c] \in {"ok", "error", "timedout"}
                            => call'[c] \in {call[c], "idle"}]_hostVars

=============================================================================
