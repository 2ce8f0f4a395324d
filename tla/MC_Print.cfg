SPECIFICATION FairSpec
CONSTANTS
    j1 = j1
    j2 = j2
    NoJob = NoJob
    Jobs = {j1, j2}
    TestJobs = {}
    Cap = 3
    MaxCredits = 2
    Size <- MCSize
PROPERTIES ImplementsService JobEnds
