SPECIFICATION Spec
CONSTANTS
    email = email
    Channels = {email}
    MaxRetries = 2
    MaxNotifs = 3
    MaxInFlight = 2
    MaxClears = 0
INVARIANTS
    SentIsRemoved
