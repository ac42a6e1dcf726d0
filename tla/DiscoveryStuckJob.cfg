SPECIFICATION FairSpec
CONSTANTS
    Jobs = {j1}
    Sources = {a}
    Schedules = {s1}
    Workers = {w1}
    NoJob = NoJob
    NoSource = NoSource
    NoSchedule = NoSchedule
    FaultKinds = {}
    MaxFaults = 0
PROPERTIES
    ScheduledJobsEnd
