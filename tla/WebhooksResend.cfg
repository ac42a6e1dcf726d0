SPECIFICATION Spec
CONSTANTS
    Subs = {s1}
    Deliveries = {d1}
    NoSub = NoSub
    Keys = {k1}
    MaxAttempts = 2
    MaxPosts = 3
SYMMETRY Symmetry
CHECK_DEADLOCK FALSE
INVARIANTS PostsBounded
