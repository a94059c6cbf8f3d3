\* Two requests at a time, each repeated at will, with an error: lost updates and
\* stale reads.
SPECIFICATION Spec
CONSTANTS
    pre = pre  prac = prac  oper = oper  stage = stage  stage2 = stage2  post = post  pre2 = pre2
    k1 = k1  k2 = k2  m1 = m1  m2 = m2
    NoQuiz = NoQuiz  NoSession = NoSession  Unsent = Unsent
    FirstModule = m1
    Purpose <- MCPurpose
    PointOf <- MCPointOf
    ModuleOf <- MCModuleOf
    PointsIn <- MCPointsIn
    Counting <- MCCounting
    Quizzes = {prac, oper}
    Points = {k1}
    Modules = {m1}
    OpenQuizzes = {}
    Scores = {10}
    Sessions = {s1}
    Requests = {r1, r2, r3}
    Handlers = {h1, h2}
    InputKinds = {"ask", "answer", "submit", "clear"}
    Inputs <- AskInputs
    MaxSends = 2
    MaxErrors = 1
    MaxCrashes = 0
SYMMETRY Symmetry
CHECK_DEADLOCK FALSE
INVARIANTS
    NoOvercount
    EstimateGrounded
PROPERTIES
    LedgerSpec
