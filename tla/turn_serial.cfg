\* Requests one after the other in two modules and two sessions, with a restart and
\* redeliveries but no errors.
SPECIFICATION Spec
CONSTANTS
    pre = pre  prac = prac  oper = oper  stage = stage  stage2 = stage2  post = post  pre2 = pre2
    k1 = k1  k2 = k2  m1 = m1  m2 = m2
    NoQuiz = NoQuiz  NoSession = NoSession  Unsent = Unsent
    FirstModule = m1
    Purpose <- MCPurpose
    PointOf <- MCPointOf
    ModuleOf <- MCModuleOf
    PointsIn <- MCPointsIn
    Counting <- MCCounting
    Quizzes = {pre, prac, pre2}
    Points = {k1, k2}
    Modules = {m1, m2}
    OpenQuizzes = {}
    Scores = {0, 10}
    Sessions = {s1, s2}
    Requests = {r1, r2, r3}
    Handlers = {h1}
    InputKinds = {"greet", "ask", "answer", "switch", "submit", "talk"}
    Inputs <- AskInputs
    MaxSends = 2
    MaxErrors = 0
    MaxCrashes = 1
SYMMETRY Symmetry
CHECK_DEADLOCK FALSE
INVARIANTS
    TypeOK
    ExactTally
    OneCommitPerRequest
    ActiveInModule
PROPERTIES
    QuestionNotReplaced
