\* Three chunks, two pages, four pairs of texts that may repeat each other.
SPECIFICATION Spec
CONSTANTS
    Chunks = 3
    Pages = 2
    MaxHits = 2
    FusedTopK = 2
    MaxTopK = 3
    MinTopK = 1
    FallbackTopK = 2
    Window = 1
    MaxCitations = 2
    MaxFailures = 1
    Twins <- MCTwins
CHECK_DEADLOCK FALSE
INVARIANTS
    CitationsFaithful
    ShownOnce
    FullContextComplete
PROPERTIES
    AnchorsKept
