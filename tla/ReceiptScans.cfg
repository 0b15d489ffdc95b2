\* Overlapping scans of receipts and retries, one death, a device that changes hands.
SPECIFICATION FairSpec
\* Messages, jobs and deaths are bounded: the model may stop.
CHECK_DEADLOCK FALSE
CONSTANTS
    Users = {owner, other}
    Owner = owner
    Devices = {d1}
    Scanners = {s1, s2}
    NoOne = NoOne
    MaxActive = 1
    MaxAttempts = 3
    MaxTickets = 4
    MaxDeaths = 1
INVARIANTS
    ResentOnlyInDoubt
    SendsBounded
PROPERTIES
    HandedOverDeviceStands
    EveryJobEnds
