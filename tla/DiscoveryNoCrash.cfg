SPECIFICATION Spec
CONSTANTS
    Jobs = {j1, j2}
    Sources = {a}
    Schedules = {s1}
    Workers = {w1}
    NoJob = NoJob
    NoSource = NoSource
    NoSchedule = NoSchedule
    FaultKinds = {"exception", "queue_down", "rollback", "api_crash", "source_deleted"}
    MaxFaults = 1
SYMMETRY Symmetry
INVARIANTS
    NoOverlap
    EventsHaveProvenance
    ScheduleLink
PROPERTIES
    ImplementsLifecycle
CHECK_DEADLOCK FALSE
