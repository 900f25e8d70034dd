----------------------------- MODULE FlowEngine -----------------------------
(***************************************************************************)
(* FlowEngine.execute: one walk over a flow graph, a node at a time, with  *)
(* at most MaxNodes visits.  What a handler returns and which conditions   *)
(* hold at a decision may differ from visit to visit.                      *)
(***************************************************************************)
EXTENDS Integers, Sequences, SequencesExt

CONSTANTS
    NodeType, \* flow.nodes: the type of each node
    Edges,    \* flow.edges, in order: records source, target, label, conditional
    StartNode,\* the node that createInstance starts from
    MaxNodes  \* options.maxNodes

Nodes == DOMAIN NodeType

ASSUME FlowAssumption == MaxNodes \in Nat \ {0} /\ StartNode \in Nodes

EdgeNumbers == 1..Len(Edges)

Labels == {Edges[k].label : k \in EdgeNumbers}

VARIABLES
    status,       \* instance.status
    currentState, \* instance.currentState, also currentNodeId
    nodesVisited, \* nodes visited by this execution
    flowHistory   \* instance.history, as numbers of edges

flowVars == <<status, currentState, nodesVisited, flowHistory>>

-----------------------------------------------------------------------------
Outgoing(n) == {k \in EdgeNumbers : Edges[k].source = n}

FirstOf(S) == CHOOSE k \in S : \A m \in S : k <= m

\* The edge to follow from n, which has one: the preferred one, else at a
\* decision the first whose condition holds, else the first without condition.
ResolveNextNode(n, holds, preferred) ==
    LET labelled == {k \in Outgoing(n) : preferred # "" /\ Edges[k].label = preferred}
        met == {k \in Outgoing(n) : NodeType[n] = "decision" /\ k \in holds}
        plain == {k \in Outgoing(n) : ~Edges[k].conditional}
    IN  IF labelled # {} THEN FirstOf(labelled)
        ELSE IF met # {} THEN FirstOf(met)
        ELSE IF plain # {} THEN FirstOf(plain)
        ELSE FirstOf(Outgoing(n))

-----------------------------------------------------------------------------
\* The loop goes on.
MayVisit == status = "running" /\ nodesVisited < MaxNodes

Execute ==
    /\ status = "pending"
    /\ status' = "running"
    /\ UNCHANGED <<currentState, nodesVisited, flowHistory>>

Visit == MayVisit /\ currentState \in Nodes /\ nodesVisited' = nodesVisited + 1

Finish(result) == status' = result /\ UNCHANGED <<currentState, flowHistory>>

\* The handler reports a failure or throws.
HandlerFails == Visit /\ Finish("failed")

VisitEnd == Visit /\ NodeType[currentState] = "end" /\ Finish("completed")

VisitDeadEnd ==
    /\ Visit
    /\ NodeType[currentState] # "end"
    /\ Outgoing(currentState) = {}
    /\ Finish("completed")

\* Mutant: the record names the first outgoing edge, not the one that is taken.
VisitAndMoveMisrecorded ==
    /\ Visit
    /\ NodeType[currentState] # "end"
    /\ Outgoing(currentState) # {}
    /\ \E k \in Outgoing(currentState) : currentState' = Edges[k].target
    /\ flowHistory' = Append(flowHistory, FirstOf(Outgoing(currentState)))
    /\ UNCHANGED status

VisitAndMove ==
    /\ Visit
    /\ NodeType[currentState] # "end"
    /\ Outgoing(currentState) # {}
    /\ \E holds \in SUBSET {k \in Outgoing(currentState) : Edges[k].conditional},
          preferred \in Labels \union {""} :
         LET k == ResolveNextNode(currentState, holds, preferred)
         IN  /\ currentState' = Edges[k].target
             /\ flowHistory' = Append(flowHistory, k)
    /\ UNCHANGED status

NodeNotFound ==
    /\ MayVisit
    /\ currentState \notin Nodes
    /\ Finish("failed")
    /\ UNCHANGED nodesVisited

LimitExceeded ==
    /\ status = "running"
    /\ nodesVisited >= MaxNodes
    /\ Finish("failed")
    /\ UNCHANGED nodesVisited

FlowInit ==
    /\ status = "pending"
    /\ currentState = StartNode
    /\ nodesVisited = 0
    /\ flowHistory = << >>

FlowNext ==
    \/ Execute
    \/ HandlerFails \/ VisitEnd \/ VisitDeadEnd \/ VisitAndMove
    \/ NodeNotFound \/ LimitExceeded

FlowSpec == FlowInit /\ [][FlowNext]_flowVars

-----------------------------------------------------------------------------
(* Properties *)

\* The history is a walk of the graph from the start to the current node, so
\* an audit can replay it (flow-engine.ts:219-230).
HistoryIsWalk ==
    LET h == flowHistory
    IN  /\ \A k \in 1..Len(h) :
             Edges[h[k]].source = IF k = 1 THEN StartNode ELSE Edges[h[k - 1]].target
        /\ currentState = IF h = << >> THEN StartNode ELSE Edges[Last(h)].target

=============================================================================
