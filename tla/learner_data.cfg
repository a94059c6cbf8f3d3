\* Everything ECHO stores of one learner, written, corrected and merged, against
\* one deletion, with an outage and a restart.
SPECIFICATION Spec
CONSTANTS
    q = q  p1 = p1  p2 = p2  c1 = c1  f1 = f1  f2 = f2  g1 = g1  g2 = g2
    NoId = NoId
    Ids = {i1, i2, i3}
    Scopes = {s1}
    Domains = {q, p1, p2}
    Contents = {c1}
    Groups = {g1, g2}
    GroupOf <- MCGroupOf
    Refs = {a1, a2, f1, f2}
    Questions = {q}
    Items <- MCItems
    Misconception = c1
    Attempts = {a1, a2}
    Docs = {d1}
    Deletions = {x1}
    Handlers = {h1, h2}
    MaxFailures = 1
    MaxRestarts = 1
SYMMETRY Symmetry
CHECK_DEADLOCK FALSE
INVARIANTS
    MergesTraceable
    MisconceptionsGrounded
    OrphansReported
    OpenJobsAreWorkedOn
PROPERTIES
    CompletedMeansGone
    PromiseSpec
