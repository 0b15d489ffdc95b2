\* Two saves at a time, one reader, a moderator, and a deletion that may die.
SPECIFICATION FairSpec
\* Revisions and deletions are bounded: the model may stop.
CHECK_DEADLOCK FALSE
CONSTANTS
    Calls = {c1, c2}
    Readers = {d1}
    MaxRevisions = 3
    MaxDeletions = 1
INVARIANTS
    OneActiveRevision
    ReadersSeeWholeRoutes
PROPERTIES
    ImplementsRegister
    LeftoversSwept
