------------------------- MODULE MCWorkflowPackage -------------------------
(* Instances of Workflow, ApprovalTasks and FlowEngine for TLC.  The three   *)
(* share no state, so a behaviour belongs to one of them, chosen at first.   *)
EXTENDS Workflow, ApprovalTasks, FlowEngine, TLC

VARIABLE part

allVars == <<vars, approvalVars, flowVars, part>>

PackageInit ==
    Init /\ ApprovalInit /\ FlowInit /\ part \in {"workflow", "approval", "flow"}

PackageNext ==
    \/ part = "workflow" /\ Next /\ UNCHANGED <<approvalVars, flowVars, part>>
    \/ part = "approval" /\ ApprovalNext /\ UNCHANGED <<vars, flowVars, part>>
    \/ part = "flow" /\ FlowNext /\ UNCHANGED <<vars, approvalVars, part>>

PackageSpec == PackageInit /\ [][PackageNext]_allVars

-----------------------------------------------------------------------------
(* A document that is submitted, sent back, approved or rejected; the second *)
(* edition of its first version revises what was rejected, the second version *)
(* lets the author withdraw.                                                 *)

CONSTANTS c1, c2, c3, c4, i1, i2, v1, v2, d1, d1b, d2

Move3(name, from, to) == [name |-> name, from |-> from, to |-> to]

MCVersion == (d1 :> v1) @@ (d1b :> v1) @@ (d2 :> v2)

MCInitial == [d \in {d1, d1b, d2} |-> "draft"]

MCFinal == [d \in {d1, d2} |-> {"approved", "rejected"}] @@ (d1b :> {"approved"})

MCCommon == {Move3("next", "draft", "review"), Move3("return", "review", "draft"),
             Move3("next", "review", "approved"), Move3("reject", "review", "rejected")}

MCTransitions ==
    (d1 :> MCCommon) @@ (d2 :> MCCommon \union {Move3("withdraw", "review", "rejected")})
        @@ (d1b :> {Move3("next", "draft", "review"), Move3("next", "review", "approved"),
                    Move3("next", "rejected", "review"), Move3("reject", "review", "rejected")})

\* The calls are alike, and so are the callers of approvals.
MCSymmetry == Permutations(Calls) \union Permutations(Callers)

-----------------------------------------------------------------------------
(* An approval chain of a manager and a director. *)

CONSTANTS a1, a2, t1, t2, manager, director, deputy

MCTwoLevels == <<t1, t2>>

MCApprover == (t1 :> manager) @@ (t2 :> director)

-----------------------------------------------------------------------------
(* A decision with a loop, a dead end, a default edge and a dangling edge. *)

MCNodeType ==
    ("start" :> "start") @@ ("check" :> "decision") @@ ("work" :> "script")
        @@ ("mail" :> "script") @@ ("done" :> "end")

Edge(source, target, label, conditional) ==
    [source |-> source, target |-> target, label |-> label, conditional |-> conditional]

MCEdges ==
    << Edge("start", "check", "", FALSE), Edge("check", "work", "again", TRUE),
       Edge("check", "mail", "", TRUE), Edge("check", "done", "", FALSE),
       Edge("work", "check", "", FALSE), Edge("work", "gone", "lost", FALSE) >>

=============================================================================
