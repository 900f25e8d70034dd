--------------------------- MODULE PluginWatchdog ---------------------------
(***************************************************************************)
(* PluginWatchdog over one PluginHost: heartbeats at an interval, and      *)
(* restarts with a backoff, up to maxRestarts.  Heartbeats may overlap     *)
(* (heartbeatTimeoutMs may exceed heartbeatIntervalMs).  Between any two   *)
(* steps the owner may call the host, start, stop and restart it, have it  *)
(* unwatched and watched again, or destroy the watchdog.  Every watch()    *)
(* makes an entry of its own; what an old entry has under way goes on.     *)
(* Entry e is the caller e of the host's start() and restart().            *)
(* The entries of different hosts share nothing but `destroyed`.           *)
(***************************************************************************)
EXTENDS PluginHost

CONSTANTS
    MaxRestarts, \* config.maxRestarts
    MaxEntries,  \* bound: calls of watch() that make an entry
    MaxOwned     \* bound: children that the owner makes

\* There are children enough for all restarts, so that MaxForks stops none.
ASSUME WatchdogAssumption ==
    /\ MaxRestarts \in Nat
    /\ MaxEntries \in Nat
    /\ MaxOwned \in Nat
    /\ MaxForks >= MaxOwned + MaxEntries * MaxRestarts

VARIABLES
    watched,  \* the entry of the host in this.watched, 0 for none
    entries,  \* number of entries made so far
    phase,    \* how far each entry's `restarting` has come; "none" before watch()
    restarts, \* the `restarts` of each entry
    beat,     \* the entry whose checkHealth sent a heartbeat, 0 for the owner's calls
    destroyed \* this.destroyed

entryVars == <<watched, entries, phase, restarts, beat, destroyed>>

vars == <<hostVars, entryVars>>

Entries == 1..MaxEntries

-----------------------------------------------------------------------------
(* The owner of the watchdog and of the host *)

Watch ==
    /\ ~destroyed
    /\ watched = 0
    /\ entries < MaxEntries
    /\ entries' = entries + 1
    /\ watched' = entries + 1
    /\ phase' = [phase EXCEPT ![entries + 1] = "ok"]
    /\ UNCHANGED <<hostVars, restarts, beat, destroyed>>

Unwatch ==
    /\ watched # 0
    /\ watched' = 0
    /\ UNCHANGED <<hostVars, entries, phase, restarts, beat, destroyed>>

Destroy ==
    /\ ~destroyed
    /\ destroyed' = TRUE
    /\ watched' = 0
    /\ UNCHANGED <<hostVars, entries, phase, restarts, beat>>

OwnerCall ==
    /\ \/ Stop
       \/ /\ Cardinality(Made(0)) < MaxOwned
          /\ Start(0) \/ Restart(0)
       \/ \E c \in Calls : CallPlugin(c)
    /\ UNCHANGED entryVars

-----------------------------------------------------------------------------
(* attemptRestart *)

\* An entry that has used its restarts gives up: the host is no longer watched,
\* whichever entry it has now.
AttemptRestart(e) ==
    \/ phase[e] # "ok" /\ UNCHANGED <<watched, phase, restarts>>
    \/ /\ phase[e] = "ok"
       /\ restarts[e] >= MaxRestarts
       /\ watched' = 0
       /\ UNCHANGED <<phase, restarts>>
    \/ /\ phase[e] = "ok"
       /\ restarts[e] < MaxRestarts
       /\ phase' = [phase EXCEPT ![e] = "backoff"]
       /\ restarts' = [restarts EXCEPT ![e] = @ + 1]
       /\ UNCHANGED watched

\* The backoff timer; it tests `destroyed`, not whether the host is watched.
BackoffEnds(e) ==
    /\ phase[e] = "backoff"
    /\ \/ /\ destroyed
          /\ phase' = [phase EXCEPT ![e] = "ok"]
          /\ UNCHANGED hostVars
       \/ /\ ~destroyed
          /\ phase' = [phase EXCEPT ![e] = "restarting"]
          /\ Restart(e)
    /\ UNCHANGED <<watched, entries, restarts, beat, destroyed>>

\* Mutant: `restarting` is reset only if the host has started.
RestartDoneResolved(e) ==
    /\ phase[e] = "restarting"
    /\ Settled(e)
    /\ \A k \in Made(e) : starts[k] = "resolved"
    /\ phase' = [phase EXCEPT ![e] = "ok"]
    /\ UNCHANGED <<hostVars, watched, entries, restarts, beat, destroyed>>

\* host.restart() is settled, with success or not.
RestartDone(e) ==
    /\ phase[e] = "restarting"
    /\ Settled(e)
    /\ phase' = [phase EXCEPT ![e] = "ok"]
    /\ UNCHANGED <<hostVars, watched, entries, restarts, beat, destroyed>>

-----------------------------------------------------------------------------
(* checkHealth *)

\* The interval of the entry that the host has now has passed.
Ticks(e) == e = watched /\ ~destroyed /\ phase[e] = "ok"

\* An interval after which the host is not alive.
TickDead(e) ==
    /\ Ticks(e)
    /\ ~alive
    /\ AttemptRestart(e)
    /\ UNCHANGED <<hostVars, entries, beat, destroyed>>

\* An interval after which a heartbeat is sent.
TickHeartbeat(e, c) ==
    /\ Ticks(e)
    /\ CallPlugin(c)
    /\ beat' = [beat EXCEPT ![c] = e]
    /\ UNCHANGED <<watched, entries, phase, restarts, destroyed>>

\* The number of a heartbeat is free again, its late answer would be dropped.
Forget(c) ==
    /\ beat' = [beat EXCEPT ![c] = 0]
    /\ call' = [call EXCEPT ![c] = "idle"]
    /\ to' = [to EXCEPT ![c] = 0]
    /\ asked' = asked \ {c}
    /\ answers' = answers \ {c}
    /\ UNCHANGED <<isolation, child, alive, forks, proc, events, starts, maker, stopVars>>

HeartbeatOk(c) ==
    /\ beat[c] # 0
    /\ call[c] = "ok"
    /\ Forget(c)
    /\ UNCHANGED <<watched, entries, phase, restarts, destroyed>>

\* Neither `destroyed` nor the entry's presence is tested again.
HeartbeatFailed(c) ==
    /\ beat[c] # 0
    /\ call[c] \in {"error", "timedout"}
    /\ Forget(c)
    /\ AttemptRestart(beat[c])
    /\ UNCHANGED <<entries, destroyed>>

-----------------------------------------------------------------------------
Init ==
    /\ HostInit
    /\ watched = 0
    /\ entries = 0
    /\ phase = [e \in Entries |-> "none"]
    /\ restarts = [e \in Entries |-> 0]
    /\ beat = [c \in Calls |-> 0]
    /\ destroyed = FALSE

OwnerNext == Watch \/ Unwatch \/ Destroy \/ OwnerCall

EntryNext(e) ==
    \/ TickDead(e) \/ BackoffEnds(e) \/ RestartDone(e)
    \/ \E c \in Calls : TickHeartbeat(e, c)

BeatNext(c) == HeartbeatOk(c) \/ HeartbeatFailed(c)

Next ==
    \/ OwnerNext
    \/ HostStep /\ UNCHANGED entryVars
    \/ \E e \in Entries : EntryNext(e)
    \/ \E c \in Calls : BeatNext(c)

Spec == Init /\ [][Next]_vars

(***************************************************************************)
(* Events happen, a booting child comes to an end of its boot, a signalled *)
(* child dies, intervals and backoffs end, and settled promises go on.  A  *)
(* child never has to crash or to answer, and an owner never has to act.   *)
(***************************************************************************)
Fairness ==
    /\ \A k \in Children :
         /\ WF_vars((ChildReady(k) \/ ChildInitFails(k)) /\ UNCHANGED entryVars)
         /\ WF_vars(ChildKilled(k) /\ UNCHANGED entryVars)
         /\ WF_vars(OnReady(k) /\ UNCHANGED entryVars)
         /\ WF_vars(OnInitError(k) /\ UNCHANGED entryVars)
         /\ WF_vars(OnError(k) /\ UNCHANGED entryVars)
         /\ WF_vars((\E e \in events : e.child = k /\ OnExit(e)) /\ UNCHANGED entryVars)
    /\ \A e \in Entries :
         /\ WF_vars(TickDead(e))
         /\ WF_vars(BackoffEnds(e))
         /\ WF_vars(RestartDone(e))

FairSpec == Spec /\ Fairness

-----------------------------------------------------------------------------
(* Properties *)

\* An entry makes no child but by a restart that it counted, and never more than
\* maxRestarts, whatever its owner, its other entries and its overlapping
\* heartbeats do meanwhile (plugin-watchdog.ts:168-178).
RestartsCounted ==
    \A e \in Entries : Cardinality(Made(e)) <= restarts[e] /\ restarts[e] <= MaxRestarts

\* The restarts of an entry do not overlap: none is under way unless the entry
\* knows, and a new one does not begin before the start() of the last one is
\* settled (plugin-watchdog.ts:133, 169, 189-196).
OneRestart ==
    \A e \in Entries :
        /\ phase[e] # "restarting" => Settled(e)
        /\ e \in restarters => \A k \in Made(e) : starts[k] # "waiting"
        /\ \A k, l \in Made(e) : starts[k] = "waiting" /\ starts[l] = "waiting" => k = l

\* "Automatically restarts failed plugins" (plugin-watchdog.ts:4-6): a watched
\* host that is not alive comes alive again, or is no longer watched, or its entry
\* waits for a start() that the child left open (it ended before it reported).
FailedIsRestarted ==
    watched # 0 /\ ~alive ~> alive \/ watched = 0 \/ LeftOpen(watched)

=============================================================================
