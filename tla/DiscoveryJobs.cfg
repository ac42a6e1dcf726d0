SPECIFICATION Spec
CONSTANTS
    Jobs = {j1}
    Sources = {a, b}
    Schedules = {}
    Workers = {w1, w2}
    NoJob = NoJob
    NoSource = NoSource
    NoSchedule = NoSchedule
    FaultKinds = {"crash", "exception", "queue_down", "ambiguous_send", "rollback", "api_crash",
                  "source_deleted"}
    MaxFaults = 3
SYMMETRY Symmetry
INVARIANTS
    TypeOK
    SingleRunner
    OutcomeExplained
    FinalStatusIsTerminal
CHECK_DEADLOCK FALSE
