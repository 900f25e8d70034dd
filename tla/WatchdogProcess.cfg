SPECIFICATION BoundedSpec
CONSTANTS
    h1 = h1
    h2 = h2
    Calls = {h1}
    Isolations = {"process"}
    MaxRestarts = 2
    MaxEntries = 1
    MaxOwned = 1
    MaxActs = 5
    MaxForks = 3
    BootCrashes = FALSE
    CleanExits = TRUE
PROPERTIES
    FailedIsRestarted
\* A watchdog that is destroyed, or that has given up, does nothing more.
CHECK_DEADLOCK FALSE
