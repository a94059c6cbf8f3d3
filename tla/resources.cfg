\* Every path of a request through generation, verification, retry and repair.
SPECIFICATION Spec
CONSTANTS
    Types = {"custom_note", "practice_guide", "staged_test"}
    MaxChecks = 3
CHECK_DEADLOCK FALSE
INVARIANTS
    StoredIsVerified
    CompletedMeansReviewed
