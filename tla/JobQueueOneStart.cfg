SPECIFICATION FairSpec
CONSTANTS
    a = a
    b = b
    n = n
    NoJob = NoJob
    Jobs <- MCJobs
    Names <- MCNames
    NameOf <- MCNameOf
    Rank <- MCRank
    MaxRetries <- MCMaxRetries
    MaxConcurrency = 2
    MaxStarts = 1
INVARIANTS
    OneRunPerJob
PROPERTIES
    ImplementsLifecycle
    EveryJobServed
