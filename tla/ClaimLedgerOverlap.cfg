\* Two loads in flight: the later run may land first and be stamped earlier.
CONSTANTS
    Slot = {s1}
    Value = {a, b}
    Writer = {w1}
    NoWriter = NoWriter
    MaxRun = 3
    Overlapping = TRUE
SPECIFICATION Spec
INVARIANTS
    NeverOutOfRange
CHECK_DEADLOCK FALSE
