SPECIFICATION LettersSpec
CONSTANTS
    r1 = r1
    r2 = r2
    JobNames = {"mail"}
    FirstJobs <- MCFirstJobs
    Replayers = {r1, r2}
    MaxTime = 1
    MaxLetters = 2
INVARIANTS
    ReplayedHaveJobs
CHECK_DEADLOCK FALSE
