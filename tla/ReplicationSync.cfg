\* Two writers race for one document; nothing is lost and nothing fails.
CONSTANTS
    Key = {k1}
    Value = {v1, v2}
    Absent = absent
    Writer = {w1, w2}
    Follower = {f1}
    QueueCap = 3
    MaxLog = 3
    MaxFault = 0
SPECIFICATION Spec
INVARIANT
    StateIsSynchronized
CHECK_DEADLOCK FALSE
