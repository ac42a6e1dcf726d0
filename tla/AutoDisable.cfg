SPECIFICATION Spec
CONSTANTS
    Rules = {r1, r2}
    Triggers = {t1, t2}
    Events = {e1, e2, e3}
    Callers = {h1, h2}
    NoTrigger = NoTrigger
    NoEvent = NoEvent
SYMMETRY Symmetry
CHECK_DEADLOCK FALSE
INVARIANTS TypeOK ActiveIsMarked MarkIsCurrent
