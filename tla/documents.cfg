\* One document and two bases: upload, import, both removals, polls, a failure and a
\* restart.
SPECIFICATION FairSpec
CONSTANTS
    Docs = {d1}  NoDoc = NoDoc
    Bases = {b1, b2}  NoBase = NoBase
    Polls = {p1, p2}
    MaxFailures = 1
    MaxRestarts = 1
CHECK_DEADLOCK FALSE
INVARIANTS
    RemovedIsGone
    CompletedIsSearchable
PROPERTIES
    UploadSettles
