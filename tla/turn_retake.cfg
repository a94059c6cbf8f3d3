\* Submissions one after the other climb the whole ladder: a stage test of two
\* questions, with partial scores, failed and repeated.
SPECIFICATION Spec
CONSTANTS
    pre = pre  prac = prac  oper = oper  stage = stage  stage2 = stage2  post = post  pre2 = pre2
    k1 = k1  k2 = k2  m1 = m1  m2 = m2
    NoQuiz = NoQuiz  NoSession = NoSession  Unsent = Unsent
    FirstModule = m1
    Purpose <- MCPurpose
    PointOf <- MCPointOf
    ModuleOf <- MCModuleOf
    PointsIn <- MCPointsIn
    Counting <- MCCounting
    Quizzes = {pre, prac, stage, stage2, post}
    Points = {k1}
    Modules = {m1}
    OpenQuizzes = {}
    Scores = {4, 10}
    Sessions = {}
    Requests = {r1, r2, r3, r4, r5, r6}
    Handlers = {h1}
    InputKinds = {"submit"}
    Inputs <- MCInputs
    MaxSends = 1
    MaxErrors = 0
    MaxCrashes = 0
SYMMETRY Symmetry
CHECK_DEADLOCK FALSE
INVARIANTS
    RetakeAfterPractice
    LadderRespected
