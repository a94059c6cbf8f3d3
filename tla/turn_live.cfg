\* Every kind of turn, two at a time, each delivered once, with an exception, while
\* the handlers keep running.
SPECIFICATION FairSpec
CONSTANTS
    pre = pre  prac = prac  oper = oper  stage = stage  stage2 = stage2  post = post  pre2 = pre2
    k1 = k1  k2 = k2  m1 = m1  m2 = m2
    NoQuiz = NoQuiz  NoSession = NoSession  Unsent = Unsent
    FirstModule = m1
    Purpose <- MCPurpose
    PointOf <- MCPointOf
    ModuleOf <- MCModuleOf
    PointsIn <- MCPointsIn
    Counting <- MCCounting
    Quizzes = {pre, prac}
    Points = {k1}
    Modules = {m1}
    OpenQuizzes = {prac}
    Scores = {0, 10}
    Sessions = {s1}
    Requests = {r1, r2, r3}
    Handlers = {h1, h2}
    InputKinds = {"ask", "answer", "talk", "thanks"}
    Inputs <- AskInputs
    MaxSends = 1
    MaxErrors = 1
    MaxCrashes = 0
CHECK_DEADLOCK FALSE
INVARIANTS
    VerdictMatchesAttempt
PROPERTIES
    CompletedStands
    
    
