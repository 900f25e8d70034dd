SPECIFICATION ClientDataSpec
CONSTANTS
    k1 = k1
    k2 = k2
    Keys = {k1, k2}
    MaxBatchSize = 2
    MaxCalls = 3
    MaxUpdates = 2
    c1 = c1
    c2 = c2
    Clients = {c1, c2}
    Auths = {"sessions", "validator", "plugin", "off"}
    MaxHeartbeats = 2
    MaxMutations = 3
    MaxPushes = 2
    MaxPulls = 3
    MaxChanges = 2
    Remotes = {"crm", "mail"}
    Loads = {1, 2, 3}
    RetryAttempts = 1
INVARIANTS
    AnswersAreOwnAndFresh
    EventsInOrder
    StatesFollowSockets
    PushedInOrder
    NoChangeSkipped
    StateTellsTheLoads
PROPERTIES
    EveryLoadAnswered
    ExpiredIsClosed
\* When the bounds are reached nothing is left to do.
CHECK_DEADLOCK FALSE
