CONSTANTS
    MaxJobs = 3
    MaxWait = 2
    Priorities = {1, 3}
SPECIFICATION Spec
INVARIANTS
    JobsAccountedFor
    QueuedJobsStandStill
    NoHigherPriorityWaits
\* The scheduler may crash.
CHECK_DEADLOCK FALSE
