SPECIFICATION PackageSpec
CONSTANTS
    c1 = c1
    c2 = c2
    c3 = c3
    c4 = c4
    i1 = i1
    i2 = i2
    v1 = v1
    v2 = v2
    d1 = d1
    d1b = d1b
    d2 = d2
    Calls = {c1, c2, c3, c4}
    Instances = {i1, i2}
    Versions = {v1, v2}
    Definitions = {d1, d1b, d2}
    Version <- MCVersion
    Initial <- MCInitial
    Final <- MCFinal
    Transitions <- MCTransitions
    Serial = {i2}
    Throwing = {i1}
    a1 = a1
    a2 = a2
    t1 = t1
    t2 = t2
    manager = manager
    director = director
    deputy = deputy
    Callers = {a1, a2}
    Users = {deputy, director}
    Levels <- MCTwoLevels
    Approver <- MCApprover
    SerialTasks = {t2}
    NodeType <- MCNodeType
    Edges <- MCEdges
    StartNode = "start"
    MaxNodes = 8
SYMMETRY MCSymmetry
INVARIANTS
    StatusMatchesState
    OnlyDefinedTransitions
    HistoryIsWalk
PROPERTIES
    ImplementsMachine
    DecisionStands
\* When all calls have been made, tasks are decided and the flow has ended,
\* nothing is left to do.
CHECK_DEADLOCK FALSE
