SPECIFICATION JobsSpec
CONSTANTS
    a = a
    b = b
    n = n
    NoJob = NoJob
    Jobs <- MCJobs
    Names <- MCNames
    NameOf <- MCNameOf
    Rank <- MCRank
    MaxRetries <- MCNoRetries
    MaxConcurrency = 1
    MaxStarts = 2
    j1 = j1
    SchedJobs = {j1}
    Crons = {1, 2}
    Checks = {1, 2}
    MaxTime = 2
INVARIANTS
    Overshoot
    ActiveJobsExact
    NoStuckRunning
    OncePerOccurrence
PROPERTIES
    StopReturns
    EveryOccurrenceRuns
