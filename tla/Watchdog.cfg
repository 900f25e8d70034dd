SPECIFICATION BoundedSpec
CONSTANTS
    h1 = h1
    h2 = h2
    Calls = {h1, h2}
    Isolations = {"worker"}
    MaxRestarts = 1
    MaxEntries = 2
    MaxOwned = 1
    MaxActs = 6
    MaxForks = 3
    BootCrashes = TRUE
    CleanExits = TRUE
PROPERTIES
    FailedIsRestarted
\* A watchdog that is destroyed, or that has given up, does nothing more.
CHECK_DEADLOCK FALSE
