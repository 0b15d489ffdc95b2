\* One publication, two accounts on the device, two edits or retries, two mishaps.
SPECIFICATION FairSpec
\* Edits, kills and accounts are bounded: the model may stop.
CHECK_DEADLOCK FALSE
CONSTANTS
    ann = ann
    bob = bob
    Jobs = {j1}
    Users = {ann, bob}
    NoOne = NoOne
    Owner <- MCOwner
    MaxRetries = 1
    MaxEdits = 2
    MaxMishaps = 2
INVARIANTS
    AcceptedSurvives
    PublishedAsQueued
    QueuedMediaStands
PROPERTIES
    JobsSettle
