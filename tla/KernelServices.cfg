SPECIFICATION ServicesSpec
CONSTANTS
    k1 = k1
    k2 = k2
    k3 = k3
    k4 = k4
    k5 = k5
    Keys = {k1, k2, k3, k4, k5}
    MaxSize = 4
    Nil = Nil
    Plugins <- MCPlugins
    Manifests <- MCManifests
    EngineVersion <- MCEngine
    Blocked = {}
    Allowed = {"crm", "mail", "sales"}
    MaxPlugins = 3
    Sandboxed = TRUE
    MaxHistory = 2
    p1 = p1
    p2 = p2
    MigProcesses = {p1, p2}
    Changes <- MCChanges
    FirstColumns <- MCFirstColumns
    MaxCommands = 3
    c1 = c1
    c2 = c2
    Calls = {c1, c2}
    Isolations = {"process", "worker"}
    MaxForks = 3
    BootCrashes = TRUE
    CleanExits = FALSE
    r1 = r1
    r2 = r2
    JobNames = {"mail"}
    FirstJobs <- MCFirstJobs
    Replayers = {r1, r2}
    MaxTime = 1
    MaxLetters = 2
    MaxBufferSize = 3
    BatchSize = 2
    MaxSpans = 5
INVARIANTS
    ListIsSound
    DependenciesMet
    RecordedWithoutGap
    SchemaMatchesRecords
    OneChild
    NoForgottenCall
    SpansAccounted
PROPERTIES
    ImplementsOrder
    SettledOnce
    LettersKept
\* A part may have nothing left to do: its commands have been run, its spans
\* exported, its host stopped or out of forks.
CHECK_DEADLOCK FALSE
