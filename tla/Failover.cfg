\* Two heirs that watch one master, with the timing of the default
\* configuration (lease_ttl 5 s: a ping every 2 ticks).
CONSTANTS
    Heir = {h1, h2}
    Master = m
    PingEvery = 2
    StaleAfter = 3
    MaxFailures = 3
    MaxFault = 3
SPECIFICATION Spec
INVARIANTS
    TypeOK
    HealthyMasterKeepsItsHeirs
PROPERTIES
    PromotionNeedsSilence
    LostMasterIsReplaced
CHECK_DEADLOCK FALSE
