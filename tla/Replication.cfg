\* Followers do not interact, so one is enough; two writers race; a queue of
\* one entry fills.
CONSTANTS
    Key = {k1}
    Value = {v1, v2}
    Absent = absent
    Writer = {w1, w2}
    Follower = {f1}
    QueueCap = 1
    MaxLog = 3
    MaxFault = 2
SPECIFICATION Spec
INVARIANTS
    TypeOK
    CounterAgreesWithLog
    MasterMatchesLog
    FollowerMatchesLog
    OnlyDropsSkip
PROPERTIES
    CatchesUp
CHECK_DEADLOCK FALSE
