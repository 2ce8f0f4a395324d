SPECIFICATION Spec
CONSTANTS
    j1 = j1
    j2 = j2
    NoJob = NoJob
    Jobs = {j1, j2}
    TestJobs = {j2}
    Cap = 3
    MaxCredits = 2
    Size <- MCSize
INVARIANTS TypeOK PumpExclusive SendInsideJob
