---------------------------- MODULE ApprovalTasks ----------------------------
(***************************************************************************)
(* The tasks of approval workflows: WorkflowAPI and ApprovalService over a *)
(* WorkflowStorage.  Every call reads the task, tests its status and then  *)
(* updates it, with awaits in between, so calls on one task overlap.       *)
(***************************************************************************)
EXTENDS Sequences, SequencesExt

CONSTANTS
    Callers,  \* callers of the API, each makes one call at a time
    Users,    \* users
    Levels,   \* the tasks of an approval chain, in the order of its levels
    Approver, \* the approver of each task
    SerialTasks \* the tasks whose callers wait for each other's calls

ASSUME ApprovalAssumption ==
    /\ IsInjective(Levels)
    /\ SerialTasks \subseteq ToSet(Levels)

Tasks == ToSet(Levels)

VARIABLES
    task,   \* stored tasks
    request \* calls: what they are about to write, and to which task

approvalVars == <<task, request>>

NoCall == [op |-> "none", task |-> "none", user |-> "none", original |-> "none"]

Decided == {"completed", "rejected"}

Absent == [status |-> "none", assignedTo |-> "none", originalAssignee |-> "none",
           delegatedTo |-> "none", escalatedTo |-> "none"]

MayCall(c, t) ==
    /\ request[c] = NoCall
    /\ task[t].status # "none"
    /\ t \in SerialTasks => \A d \in Callers : request[d].task # t

-----------------------------------------------------------------------------
(* createApprovalChain: one task after the other *)

CreateLevel(k) ==
    /\ task[Levels[k]].status = "none"
    /\ \A n \in 1..(k - 1) : task[Levels[n]].status # "none"
    /\ task' = [task EXCEPT ![Levels[k]] =
                    [Absent EXCEPT !.status = "pending", !.assignedTo = Approver[Levels[k]]]]
    /\ UNCHANGED request

-----------------------------------------------------------------------------
(* Reading and testing; a call whose test fails throws and changes nothing. *)

Read(c, t, op, user, original) ==
    /\ request' = [request EXCEPT ![c] =
                       [op |-> op, task |-> t, user |-> user, original |-> original]]
    /\ UNCHANGED task

\* Mutant: a decided task may be rejected.
RejectAnyTask(c, t) ==
    /\ MayCall(c, t)
    /\ Read(c, t, "rejected", "none", "none")

CompleteTask(c, t) ==
    /\ MayCall(c, t)
    /\ task[t].status = "pending"
    /\ Read(c, t, "completed", "none", "none")

RejectTask(c, t) ==
    /\ MayCall(c, t)
    /\ task[t].status = "pending"
    /\ Read(c, t, "rejected", "none", "none")

Original(t) ==
    IF task[t].originalAssignee # "none" THEN task[t].originalAssignee ELSE task[t].assignedTo

DelegateTask(c, t, user) ==
    /\ MayCall(c, t)
    /\ task[t].status \in {"pending", "delegated"}
    /\ Read(c, t, "delegated", user, Original(t))

EscalateTask(c, t, user) ==
    /\ MayCall(c, t)
    /\ task[t].status \notin Decided
    /\ Read(c, t, "escalated", user, "none")

-----------------------------------------------------------------------------
(* Writing *)

UpdateTask(t, updated) == task' = [task EXCEPT ![t] = updated]

Return(c) == request' = [request EXCEPT ![c] = NoCall]

WriteDecision(c) ==
    /\ request[c].op \in Decided
    /\ UpdateTask(request[c].task, [task[request[c].task] EXCEPT !.status = request[c].op])
    /\ Return(c)

WriteDelegation(c) ==
    /\ request[c].op = "delegated"
    /\ UpdateTask(request[c].task,
           [task[request[c].task] EXCEPT !.status = "delegated",
                                      !.originalAssignee = request[c].original,
                                      !.delegatedTo = request[c].user,
                                      !.assignedTo = request[c].user])
    /\ Return(c)

WriteEscalation(c) ==
    /\ request[c].op = "escalated"
    /\ UpdateTask(request[c].task,
           [task[request[c].task] EXCEPT !.status = "escalated",
                                      !.escalatedTo = request[c].user,
                                      !.assignedTo = request[c].user])
    /\ Return(c)

-----------------------------------------------------------------------------
ApprovalInit ==
    /\ task = [t \in Tasks |-> Absent]
    /\ request = [c \in Callers |-> NoCall]

Begins(c, t) ==
    \/ CompleteTask(c, t)
    \/ RejectTask(c, t)
    \/ \E u \in Users : DelegateTask(c, t, u) \/ EscalateTask(c, t, u)

Write(c) == WriteDecision(c) \/ WriteDelegation(c) \/ WriteEscalation(c)

ApprovalNext ==
    \/ \E k \in 1..Len(Levels) : CreateLevel(k)
    \/ \E c \in Callers : Write(c) \/ \E t \in Tasks : Begins(c, t)

ApprovalSpec == ApprovalInit /\ [][ApprovalNext]_approvalVars

-----------------------------------------------------------------------------
(* Properties *)

\* A decision stands: when callers wait for each other, a task that was completed
\* or rejected is not decided, delegated or escalated again (api.ts:212, 235,
\* approval.ts:33, 65).
DecisionStands ==
    [][\A t \in SerialTasks : task[t].status \in Decided => task'[t] = task[t]]_approvalVars

=============================================================================
