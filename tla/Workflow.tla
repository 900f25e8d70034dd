------------------------------ MODULE Workflow ------------------------------
(***************************************************************************)
(* WorkflowAPI and WorkflowEngine over a WorkflowStorage.  An API call     *)
(* reads a copy of the instance, lets guards and actions run, which may    *)
(* take any time and may fail, and stores the copy.  Calls on one instance *)
(* may overlap.  A copy is shallow (`{ ...instance }`): status and current *)
(* state are the copy's own, the history array is shared by all copies.    *)
(* Instance data is left out; guards and actions have arbitrary outcomes.  *)
(***************************************************************************)
EXTENDS Sequences, SequencesExt

CONSTANTS
    Calls,       \* calls of the API
    Instances,   \* workflow instances
    Versions,    \* versions of the workflow
    Definitions, \* the definitions that may be registered for it
    Version,     \* the version of each definition: several may share one
    Initial,     \* the initial state of each definition
    Final,       \* the final states of each definition
    Transitions, \* the transitions of each definition: records name, from, to
    Serial,      \* the instances whose callers wait for each other's calls
    Throwing     \* the instances whose onEnter actions may throw

ASSUME WorkflowAssumption ==
    /\ Serial \subseteq Instances
    /\ Throwing \subseteq Instances
    /\ Version \in [Definitions -> Versions]
    /\ \A d \in Definitions : \A t \in Transitions[d] :
           t = [name |-> t.name, from |-> t.from, to |-> t.to]

VARIABLES
    registered, \* the definition of each version, in the order of registration
    store,      \* stored instances: status, current state and version
    history,    \* the history array of each instance
    call        \* calls: how far, of which instance, the state of its copy, its
                \* transition, the definition it has read

vars == <<registered, store, history, call>>

NoMove == [name |-> "none", from |-> "none", to |-> "none"]

Call(pc, i, state, move, d) ==
    [pc |-> pc, inst |-> i, state |-> state, move |-> move, def |-> d]

Idle == Call("idle", "none", "none", NoMove, "none")

Ended == {"done", "failed", "not found"}

\* On a `Serial` instance a call begins when no other is under way.
MayBegin(c, i) ==
    /\ call[c].pc = "idle"
    /\ i \in Serial => \A d \in Calls : call[d].inst = i => call[d].pc \in Ended

Goto(c, pc) == call' = [call EXCEPT ![c].pc = pc]

-----------------------------------------------------------------------------
(* registered *)

\* A version that is registered again is replaced where it is, also under the
\* instances that were started with it.
RegisterWorkflow(d) ==
    /\ \/ \E k \in DOMAIN registered :
             /\ Version[registered[k]] = Version[d]
             /\ registered' = [registered EXCEPT ![k] = d]
       \/ /\ \A k \in DOMAIN registered : Version[registered[k]] # Version[d]
          /\ registered' = Append(registered, d)
    /\ UNCHANGED <<store, history, call>>

\* getDefinition of a version: what is registered for it now.
Defined(v) == {d \in ToSet(registered) : Version[d] = v}

-----------------------------------------------------------------------------
(* startWorkflow *)

\* getDefinition of the latest or of a given version, createInstance, saveInstance.
StartWorkflow(c, i) ==
    /\ MayBegin(c, i)
    /\ store[i].status = "none"
    /\ registered # << >>
    /\ \E d \in ToSet(registered) :
         /\ store' = [store EXCEPT ![i] = [status |-> "pending", state |-> Initial[d],
                                           version |-> Version[d]]]
         /\ call' = [call EXCEPT ![c] = Call("starting", i, Initial[d], NoMove, d)]
    /\ UNCHANGED <<registered, history>>

StartNotFound(c, i) ==
    /\ MayBegin(c, i)
    /\ store[i].status = "none"
    /\ registered = << >>
    /\ Goto(c, "not found")
    /\ UNCHANGED <<registered, store, history>>

\* Mutant: a final state does not complete the instance.
StatusInAlwaysRunning(d, s) == "running"

\* The instance reaches or stays in state s: a final state completes it.
StatusIn(d, s) == IF s \in Final[d] THEN "completed" ELSE "running"

\* updateInstance with the call's copy.
Store(c, status) ==
    /\ store' = [store EXCEPT ![call[c].inst].status = status,
                              ![call[c].inst].state = call[c].state]
    /\ Goto(c, "done")
    /\ UNCHANGED <<registered, history>>

StartStores(c) ==
    /\ call[c].pc = "starting"
    /\ Store(c, StatusIn(call[c].def, call[c].state))

\* onEnter throws: the stored instance stays 'pending'.
StartFails(c) ==
    /\ call[c].pc = "starting"
    /\ call[c].inst \in Throwing
    /\ Goto(c, "failed")
    /\ UNCHANGED <<registered, store, history>>

-----------------------------------------------------------------------------
(* executeTransition *)

\* Mutant: the transitions of the version that was registered last are used.
AvailableInLatest(i, d, name) ==
    {t \in Transitions[Last(registered)] : t.name = name /\ t.from = store[i].state}

Available(i, d, name) ==
    {t \in Transitions[d] : t.name = name /\ t.from = store[i].state}

\* getInstance, getDefinition of its version, and the tests before the guards.
Attempt(c, i, name) ==
    /\ \E d \in Defined(store[i].version) :
          \/ /\ store[i].status = "running"
             /\ \E t \in Available(i, d, name) :
                   call' = [call EXCEPT ![c] = Call("guards", i, store[i].state, t, d)]
          \/ /\ store[i].status # "running" \/ Available(i, d, name) = {}
             /\ Goto(c, "failed")
    /\ UNCHANGED <<registered, store, history>>

ExecuteTransition(c, i, name) ==
    /\ MayBegin(c, i)
    /\ store[i].status # "none"
    /\ Attempt(c, i, name)

\* WorkflowPlugin.transition: a target state is turned into a transition's name ...
PluginTransition(c, i, target) ==
    /\ MayBegin(c, i)
    /\ store[i].status = "running"
    /\ \E d \in Defined(store[i].version) :
          \/ \E t \in Transitions[d] :
                /\ t.from = store[i].state
                /\ t.to = target
                /\ call' = [call EXCEPT ![c] = Call("named", i, store[i].state, t, d)]
          \/ /\ \A t \in Transitions[d] : ~(t.from = store[i].state /\ t.to = target)
             /\ Goto(c, "failed")
    /\ UNCHANGED <<registered, store, history>>

\* ... and the instance is read again to execute the transition of that name.
PluginExecute(c) ==
    /\ call[c].pc = "named"
    /\ Attempt(c, call[c].inst, call[c].move.name)

\* A guard is false, or an onExit or transition action throws.
TransitionBlocked(c) ==
    /\ call[c].pc = "guards"
    /\ Goto(c, "failed")
    /\ UNCHANGED <<registered, store, history>>

\* Guards, onExit and transition actions are through: the copy moves on.
Move(c) ==
    /\ call[c].pc = "guards"
    /\ call' = [call EXCEPT ![c].pc = "entering", ![c].state = call[c].move.to]
    /\ history' = [history EXCEPT ![call[c].inst] = Append(@, call[c].move)]
    /\ UNCHANGED <<registered, store>>

\* onEnter throws: the move stays in the shared history, the copy is lost.
EnterFails(c) ==
    /\ call[c].pc = "entering"
    /\ call[c].inst \in Throwing
    /\ Goto(c, "failed")
    /\ UNCHANGED <<registered, store, history>>

TransitionStores(c) ==
    /\ call[c].pc = "entering"
    /\ Store(c, StatusIn(call[c].def, call[c].state))

-----------------------------------------------------------------------------
(* abortWorkflow *)

\* Mutant: the status is not tested.
AbortAnyStatus(c, i) ==
    /\ MayBegin(c, i)
    /\ store[i].status # "none"
    /\ call' = [call EXCEPT ![c] = Call("aborting", i, store[i].state, NoMove, "none")]
    /\ UNCHANGED <<registered, store, history>>

AbortWorkflow(c, i) ==
    /\ MayBegin(c, i)
    /\ store[i].status # "none"
    /\ \/ /\ store[i].status = "running"
          /\ call' = [call EXCEPT ![c] = Call("aborting", i, store[i].state, NoMove, "none")]
       \/ store[i].status # "running" /\ Goto(c, "failed")
    /\ UNCHANGED <<registered, store, history>>

\* An onExit action throws, or the definition has lost the instance's state.
AbortFails(c) ==
    /\ call[c].pc = "aborting"
    /\ Goto(c, "failed")
    /\ UNCHANGED <<registered, store, history>>

AbortStores(c) ==
    /\ call[c].pc = "aborting"
    /\ Store(c, "aborted")

-----------------------------------------------------------------------------
Init ==
    /\ registered = << >>
    /\ store = [i \in Instances |-> [status |-> "none", state |-> "none", version |-> "none"]]
    /\ history = [i \in Instances |-> << >>]
    /\ call = [c \in Calls |-> Idle]

Moves == UNION {Transitions[d] : d \in Definitions}

Names == {t.name : t \in Moves}

States == {Initial[d] : d \in Definitions} \union {t.to : t \in Moves}

Begin(c, i) ==
    \/ StartWorkflow(c, i)
    \/ StartNotFound(c, i)
    \/ \E name \in Names : ExecuteTransition(c, i, name)
    \/ \E s \in States : PluginTransition(c, i, s)
    \/ AbortWorkflow(c, i)

Continue(c) ==
    \/ PluginExecute(c)
    \/ StartStores(c) \/ StartFails(c)
    \/ TransitionBlocked(c) \/ Move(c) \/ EnterFails(c) \/ TransitionStores(c)
    \/ AbortFails(c) \/ AbortStores(c)

Next ==
    \/ \E d \in Definitions : RegisterWorkflow(d)
    \/ \E c \in Calls : Continue(c) \/ \E i \in Instances : Begin(c, i)

Spec == Init /\ [][Next]_vars

-----------------------------------------------------------------------------
(* Properties *)

Statuses == {"none", "pending", "running", "completed", "aborted"}

CallRecord ==
    [pc : {"idle", "starting", "named", "guards", "entering", "aborting"} \union Ended,
     inst : Instances \union {"none"}, state : States \union {"none"},
     move : Moves \union {NoMove}, def : Definitions \union {"none"}]

\* Type invariant (types.ts:29-34, 160-195).
TypeOK ==
    /\ registered \in Seq(Definitions)
    /\ \A k, n \in DOMAIN registered : Version[registered[k]] = Version[registered[n]] => k = n
    /\ store \in [Instances -> [status : Statuses, state : States \union {"none"},
                                version : Versions \union {"none"}]]
    /\ history \in [Instances -> Seq(Moves)]
    /\ call \in [Calls -> CallRecord]

\* What a version stands for, now or before it was registered again.
Editions(v) == {d \in Definitions : Version[d] = v}

\* An instance is completed exactly when its state is final, also when calls
\* overlap, actions fail and versions are registered again: final in an edition
\* of its version (engine.ts:92-95, 171-175).
StatusMatchesState ==
    \A i \in Instances :
        LET s == store[i]
        IN  /\ s.status = "completed" => \E d \in Editions(s.version) : s.state \in Final[d]
            /\ s.status \in {"running", "aborted"} =>
                   \E d \in Editions(s.version) : s.state \notin Final[d]

\* Whatever is recorded is a transition of an edition of the version that the
\* instance was started with, in its own direction (api.ts:96, engine.ts:115-121,
\* 152-160).
OnlyDefinedTransitions ==
    \A i \in Instances : \A t \in ToSet(history[i]) :
        \E d \in Editions(store[i].version) : t \in Transitions[d]

\* Instances whose calls wait for each other and whose onEnter does not throw.
Orderly == Serial \ Throwing

\* A move whose onEnter is running is in the history, and not yet stored.
Trail(i) ==
    IF \E c \in Calls : call[c].inst = i /\ call[c].pc = "entering"
    THEN Front(history[i])
    ELSE history[i]

Machine == INSTANCE WorkflowMachine WITH
    Instances <- Orderly,
    status <- [i \in Orderly |-> store[i].status],
    state <- [i \in Orderly |-> store[i].state],
    version <- [i \in Orderly |-> store[i].version],
    trail <- [i \in Orderly |-> Trail(i)]

\* Used by one caller at a time, and with onEnter actions that do not throw, an
\* instance is the state machine of its definition, its history is exactly the
\* path it took, and it stays as it is once it has ended (engine.ts:72-204).
ImplementsMachine == Machine!Spec

=============================================================================
