SPECIFICATION Spec
CONSTANTS
    Rules = {r1}
    Triggers = {t1}
    Events = {e1, e2}
    Callers = {h1}
    NoTrigger = NoTrigger
    NoEvent = NoEvent
SYMMETRY Symmetry
CHECK_DEADLOCK FALSE
INVARIANTS AutoDisabledIsNotRun
