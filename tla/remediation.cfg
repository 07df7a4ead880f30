CONSTANTS
    Template = {restart, rotate}
    Automatic = {restart}
    Agent = {host}
    Requester = {r1}
    MaxJobs = 2
    Idle = Idle
SPECIFICATION FairSpec
INVARIANTS HistoryIsTrue
PROPERTIES StartsOnlyRunning StartsOnce KeepsJobLife RunningJobsEnd QueuedJobsMove
