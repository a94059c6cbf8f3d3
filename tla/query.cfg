\* Two runs of one session, a client, a removal, and a staged search with a failure.
SPECIFICATION FairSpec
CONSTANTS
    Sessions = {e1}  Trace = e1
    Runs = {r1, r2}  NoRun = NoRun
    Clients = {c1}
    Removers = {x1}
    MaxVariants = 2
    MaxFailures = 1
CHECK_DEADLOCK FALSE
INVARIANTS
    NoSilentLoss
PROPERTIES
    RemovalSparesActive
    SessionFreed
    StreamEnds
