\* One recording, its detector jobs, submissions, callbacks and polls; failures and a
\* restart.
SPECIFICATION FairSpec
CONSTANTS
    Recordings = {r1}
    NoRecording = NoRecording
    NoJob = NoJob
    Externals = {e1, e2, e3}
    NoExternal = NoExternal
    Threads = {t1, t2}
    DetectorKinds = {"real", "mock"}
    MaxBatch = 1
    MaxFailures = 1
    MaxRestarts = 1
CHECK_DEADLOCK FALSE
INVARIANTS
    EvidenceOfBound
    OneSubmitter
PROPERTIES
    JobSettles
