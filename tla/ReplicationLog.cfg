\* Two payloads (an LSN that is written twice shows as a different payload), one
\* stream, three LSNs, one crash.
CONSTANTS
    Entry = {e1, e2}
    NoEntry = none
    Stream = {s1}
    MaxLSN = 3
    MaxCrash = 1
SPECIFICATION Spec
INVARIANTS
    TypeOK
    AckedEntriesSurvive
    StreamMatchesLog
    StreamHasNoGaps
PROPERTIES
    DurableLogIsAppendOnly
    StreamCatchesUp
