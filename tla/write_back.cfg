\* A document is deleted while its import runs in the background.
SPECIFICATION Spec
CONSTANTS
    Docs = {d1}  NoDoc = NoDoc
    Bases = {b1, b2}  NoBase = NoBase
    Polls = {p1}
    MaxFailures = 0
    MaxRestarts = 0
CHECK_DEADLOCK FALSE
INVARIANTS
    NothingWrittenBack
