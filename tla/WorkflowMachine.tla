--------------------------- MODULE WorkflowMachine ---------------------------
(***************************************************************************)
(* What a workflow instance promises: a finite state machine that is       *)
(* created, begun, moved along the transitions of the version it was       *)
(* created with until it reaches a final state or is aborted, and whose    *)
(* history is exactly the path it has taken.  A version may have several   *)
(* editions: each step goes by one of them.                                *)
(***************************************************************************)
EXTENDS Sequences

CONSTANTS
    Instances,   \* workflow instances
    Definitions, \* the definitions of the workflow
    Version,     \* the version of each definition
    Initial,     \* the initial state of each definition
    Final,       \* the final states of each definition
    Transitions  \* the transitions of each definition: records name, from, to

VARIABLES
    status,  \* "none", "pending", "running", "completed" or "aborted"
    state,   \* the current state
    version, \* the version the instance was created with
    trail    \* the transitions taken

vars == <<status, state, version, trail>>

Init ==
    /\ status = [i \in Instances |-> "none"]
    /\ state \in [Instances -> {"none"}]
    /\ version \in [Instances -> {"none"}]
    /\ trail = [i \in Instances |-> << >>]

Editions(i) == {d \in Definitions : Version[d] = version[i]}

Settled(d, s) == IF s \in Final[d] THEN "completed" ELSE "running"

Create(i, d) ==
    /\ status[i] = "none"
    /\ status' = [status EXCEPT ![i] = "pending"]
    /\ state' = [state EXCEPT ![i] = Initial[d]]
    /\ version' = [version EXCEPT ![i] = Version[d]]
    /\ UNCHANGED trail

Begin(i, d) ==
    /\ status[i] = "pending"
    /\ status' = [status EXCEPT ![i] = Settled(d, state[i])]
    /\ UNCHANGED <<state, version, trail>>

Fire(i, d, t) ==
    /\ status[i] = "running"
    /\ t \in Transitions[d]
    /\ t.from = state[i]
    /\ state' = [state EXCEPT ![i] = t.to]
    /\ status' = [status EXCEPT ![i] = Settled(d, t.to)]
    /\ trail' = [trail EXCEPT ![i] = Append(@, t)]
    /\ UNCHANGED version

Abort(i) ==
    /\ status[i] = "running"
    /\ status' = [status EXCEPT ![i] = "aborted"]
    /\ UNCHANGED <<state, version, trail>>

Next ==
    \E i \in Instances :
        \/ \E d \in Definitions : Create(i, d)
        \/ \E d \in Editions(i) : Begin(i, d) \/ \E t \in Transitions[d] : Fire(i, d, t)
        \/ Abort(i)

Spec == Init /\ [][Next]_vars

=============================================================================
