\* Two requests, for the same or for different projects, against the apply loop
\* and the promotion.
CONSTANTS
    Project = {p1, p2}
    Request = {r1, r2}
    Promoter = promoter
    Applier = applier
    NoProc = nobody
SPECIFICATION LockSpec
PROPERTIES
    JobsRestart
CHECK_DEADLOCK FALSE
