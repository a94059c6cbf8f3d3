\* Two requests at a time on one video: imports, analyses, edits, freezing, attempts.
SPECIFICATION FairSpec
CONSTANTS
    Handlers = {h1, h2}
    Previews = {f1}
    Nodes = {n1}
    Points = {1}
    Texts = {raw, ok}
    Complete = {ok}
    Jobs = {j1, j2}
    Recordings = {r1, r2}
    AttemptIds = {a1, a2}
    NoPoint = NoPoint  NoAbility = NoAbility
    MaxRestarts = 1
CHECK_DEADLOCK FALSE
INVARIANTS
    ImportedIsConfirmed
    ScoredOnce
PROPERTIES
    FrozenStays
    AnalysisSettles
