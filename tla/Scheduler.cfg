\* One job that may be added twice, and two loops that may overlap.
SPECIFICATION FairSpec
CONSTANTS
    Job = {j1}
    Loop = {l1, l2}
    MaxStart = 3
    MaxAdd = 2
    NoJob = NoJob
INVARIANTS ExecutedOnce
PROPERTIES CancelSticks OutcomeOfItsRun NoJobStarves StopEnds
\* Stopped for good, with every job finished, the scheduler does nothing.
CHECK_DEADLOCK FALSE
