SPECIFICATION FairSpec
CONSTANTS
    Jobs = {j1}
    Sources = {a}
    Schedules = {s1}
    Workers = {w1}
    NoJob = NoJob
    NoSource = NoSource
    NoSchedule = NoSchedule
    FaultKinds = {"crash", "exception", "queue_down", "ambiguous_send", "rollback", "api_crash",
                  "source_deleted"}
    MaxFaults = 1
PROPERTIES
    RestJobsEnd
    DueSchedulesServed
CHECK_DEADLOCK FALSE
