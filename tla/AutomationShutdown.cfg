SPECIFICATION Spec
CONSTANTS
    onUpdate = onUpdate
    onCron = onCron
    Rules = {onUpdate, onCron}
    TriggerType <- MCTriggerType
    Priority <- MCPriority
    NumActions = 1
    MaxAttempts = 2
    MaxJobs = 2
    MaxCalls = 1
    MaxWaiting = 3
    MaxStarts = 2
PROPERTIES
    ShutdownClearsAll
CHECK_DEADLOCK FALSE
