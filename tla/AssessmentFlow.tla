--------------------------- MODULE AssessmentFlow ---------------------------
(***************************************************************************)
(* The server-owned assessment ladder of one learner in one module:        *)
(* apps/api/Quiz/assessment_flow.py, as operators over a quiz bank, the     *)
(* knowledge points of the module and the learner's scored history.        *)
(*                                                                         *)
(* A history is a sequence of attempts in the order of                      *)
(* (StudentQuestionHistory.created_at, id): an index stands for a           *)
(* timestamp.  A score is a number of tenths, so that the pass mark 0.7 is  *)
(* seven tenths of a point per answered question.                          *)
(***************************************************************************)
EXTENDS Integers, Sequences, FiniteSets, FiniteSetsExt

CONSTANTS
    Quizzes,    \* the fixed questions
    Points,     \* the knowledge points
    Purpose,    \* Purpose[q]: what question q is for
    PointOf,    \* PointOf[q]: the knowledge point question q is tagged with
    NoQuiz      \* the null of ChatSession.active_quiz_id

Purposes == {"pretest", "practice", "stage_test", "posttest"}

ASSUME BankAssumption ==
    /\ Purpose \in [Quizzes -> Purposes]
    /\ PointOf \in [Quizzes -> Points]
    /\ NoQuiz \notin Quizzes

StagePassTenths == 7

-----------------------------------------------------------------------------
(* Per-purpose progress (_purpose_progress).                                *)

\* latest_by_question: the questions of the bank with at least one attempt.
Attempted(bank, h) == {q \in bank : \E i \in DOMAIN h : h[i].quiz = q}

LatestScore(h, q) == h[Max({i \in DOMAIN h : h[i].quiz = q})].score

Phase(bank, p) == {q \in bank : Purpose[q] = p}

Answered(bank, h, p) == Phase(bank, p) \cap Attempted(bank, h)

\* accuracy >= STAGE_PASS_SCORE, over the latest score of each question
Passing(bank, h, p) ==
    MapThenSumSet(LAMBDA q : LatestScore(h, q), Answered(bank, h, p))
        >= StagePassTenths * Cardinality(Answered(bank, h, p))

\* latest_attempt_at, zero when the purpose was never attempted
LatestAt(bank, h, p) ==
    Max({0} \cup {i \in DOMAIN h : h[i].quiz \in Phase(bank, p)})

PracticePoints(bank, h) == {PointOf[q] : q \in Answered(bank, h, "practice")}

CoverageComplete(bank, points, h) ==
    /\ points # {}
    /\ Cardinality(PracticePoints(bank, h)) >= Cardinality(points)

-----------------------------------------------------------------------------
(* Status of each phase (progress, _basic_status).                          *)

BasicStatus(bank, h, p) ==
    CASE Phase(bank, p) = {}                         -> "missing"
      [] Phase(bank, p) # {} /\ Answered(bank, h, p) = {} -> "available"
      [] Answered(bank, h, p) = Phase(bank, p) /\ Phase(bank, p) # {} -> "completed"
      [] OTHER                                       -> "in_progress"

PracticeStatus(bank) ==
    IF Phase(bank, "practice") = {} THEN "missing" ELSE "available"

StageStatus(bank, points, h) ==
    LET basic == BasicStatus(bank, h, "stage_test") IN
    CASE basic = "missing" -> "missing"
      [] basic # "missing" /\ BasicStatus(bank, h, "pretest") # "completed" -> "locked"
      [] OTHER ->
           CASE basic = "available" ->
                  IF CoverageComplete(bank, points, h) THEN "available" ELSE "locked"
             [] basic = "in_progress" -> "in_progress"
             [] basic = "completed" ->
                  IF Passing(bank, h, "stage_test") THEN "completed"
                  ELSE IF LatestAt(bank, h, "practice") > LatestAt(bank, h, "stage_test")
                  THEN "retake_ready" ELSE "review_required"

PosttestStatus(bank, points, h) ==
    CASE Phase(bank, "posttest") = {} -> "missing"
      [] Phase(bank, "posttest") # {} /\ StageStatus(bank, points, h) # "completed" -> "locked"
      [] OTHER -> BasicStatus(bank, h, "posttest")

Status(bank, points, h, p) ==
    CASE p = "pretest"    -> BasicStatus(bank, h, "pretest")
      [] p = "practice"   -> PracticeStatus(bank)
      [] p = "stage_test" -> StageStatus(bank, points, h)
      [] p = "posttest"   -> PosttestStatus(bank, points, h)

\* Mutant of AllowedStatuses: a failed stage test may be repeated at once.
AllowedStatuses_NoReview(p) ==
    CASE p = "practice"   -> {"available"}
      [] p = "stage_test" -> {"available", "in_progress", "retake_ready", "review_required"}
      [] OTHER            -> {"available", "in_progress"}

AllowedStatuses(p) ==
    CASE p = "practice"   -> {"available"}
      [] p = "stage_test" -> {"available", "in_progress", "retake_ready"}
      [] OTHER            -> {"available", "in_progress"}

\* Mutant of CanRequest: a pending question does not block.
CanRequest_Unblocked(bank, points, h, p, active) ==
    Status(bank, points, h, p) \in AllowedStatuses(p)

\* can_request: a question of the module that is still waiting for its answer
\* blocks every purpose; otherwise the phase must be open.
CanRequest(bank, points, h, p, active) ==
    /\ active \notin bank
    /\ Status(bank, points, h, p) \in AllowedStatuses(p)

-----------------------------------------------------------------------------
(* The one next step the server recommends (_next_step, then                *)
(* recommended_quiz_purpose): the purpose to issue, or "none".              *)

RecommendedPurpose(bank, points, h, active) ==
    LET pretest == BasicStatus(bank, h, "pretest")
        stageNow == StageStatus(bank, points, h)
        postNow == PosttestStatus(bank, points, h)
    IN  CASE active \in bank \/ pretest = "missing" -> "none"
          [] OTHER ->
        CASE pretest # "completed" -> "pretest"
          [] pretest = "completed" /\ stageNow \in {"in_progress", "retake_ready", "available"}
                -> "stage_test"
          [] pretest = "completed" /\ stageNow = "review_required" -> "practice"
          [] pretest = "completed" /\ stageNow = "missing"
                -> IF CoverageComplete(bank, points, h) THEN "none" ELSE "practice"
          [] pretest = "completed" /\ stageNow = "locked" -> "practice"
          [] pretest = "completed" /\ stageNow = "completed"
                -> IF postNow \in {"missing", "completed"} THEN "none" ELSE "posttest"

\* AdaptiveEngine.get_adaptive_question: the pool the closest question is taken
\* from.  Questions the learner never answered come first; when there is none
\* left the whole pool is offered again.  Which member is closest to the target
\* probability depends on the ability estimate, so any of them may be chosen.
Candidates(bank, h, p) ==
    LET fresh == Phase(bank, p) \ Attempted(bank, h)
    IN  IF fresh # {} THEN fresh ELSE Phase(bank, p)
=============================================================================
