SPECIFICATION FairSpec
CONSTANTS
    onUpdate = onUpdate
    onCron = onCron
    Rules = {onUpdate, onCron}
    TriggerType <- MCTriggerType
    Priority <- MCPriority
    NumActions = 2
    MaxAttempts = 2
    MaxJobs = 2
    MaxCalls = 1
    MaxWaiting = 3
    MaxStarts = 2
INVARIANTS
    OneLoopPerJob
    CountNeverAhead
PROPERTIES
    EveryJobEnds
CHECK_DEADLOCK FALSE
