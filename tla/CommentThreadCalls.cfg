\* A thread of three comments, two calls at a time, one death.
SPECIFICATION FairSpec
\* Calls, comments and deaths are bounded: the model may stop.
CHECK_DEADLOCK FALSE
CONSTANTS
    root = root
    early = early
    late = late
    Comments = {root, early, late}
    RootOf <- MCRootOf
    Leaver = {early}
    Workers = {w1, w2}
    PageSize = 1
    MaxCalls = 2
    MaxDeaths = 1
INVARIANTS
    RepliesHaveRoot
    CountersSettle
    OwnHoldStands
    ThreadFollowsRoot
    LeaverLeavesNothing
PROPERTIES
    MarkedThreadVanishes
