\* Two builds contending for the feed's lock, failing at will, loads one at a time: every snapshot is recorded.
CONSTANTS
    Slot = {s1}
    Value = {a}
    Writer = {w1, w2}
    NoWriter = NoWriter
    MaxRun = 3
    Overlapping = FALSE
SPECIFICATION FairSpec
PROPERTIES
    EventuallyRecorded
CHECK_DEADLOCK FALSE
