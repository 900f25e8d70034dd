SPECIFICATION FairSpec
CONSTANTS
    email = email
    Channels = {email}
    MaxRetries = 2
    MaxNotifs = 3
    MaxInFlight = 2
    MaxClears = 1
INVARIANTS
    OneSendAtATime
    FirstSendsInOrder
    QueueHoldsUnfinished
PROPERTIES
    EveryNotificationEnds
