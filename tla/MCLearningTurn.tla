---------------------------- MODULE MCLearningTurn ----------------------------
(***************************************************************************)
(* Small instances of LearningTurn for TLC.  Each .cfg picks the questions  *)
(* it needs out of a bank of one or two modules, and the kinds of request   *)
(* its clients send.                                                       *)
(***************************************************************************)
EXTENDS LearningTurn, TLC

CONSTANTS
    pre, prac, oper, stage, stage2, post,  \* questions of module m1
    pre2,                          \* a pretest question of module m2
    k1, k2,                        \* a knowledge point of each
    m1, m2,
    InputKinds                     \* the kinds of request that are sent

MCPurpose ==
    [q \in Quizzes |->
        CASE q \in {pre, pre2} -> "pretest"
          [] q \in {prac, oper} -> "practice"
          [] q \in {stage, stage2} -> "stage_test"
          [] q = post  -> "posttest"]

MCPointOf  == [q \in Quizzes |-> IF q = pre2 THEN k2 ELSE k1]
MCModuleOf == [q \in Quizzes |-> IF q = pre2 THEN m2 ELSE m1]
MCPointsIn == [m \in Modules |-> IF m = m2 THEN {k2} ELSE {k1}]

\* Operation exercises do not count (the question sets' default).
MCCounting == Quizzes \ {oper}

MCInputs == {in \in AllInputs : in.kind \in InputKinds}

\* Talk without cues, for runs in which the stages do not matter.
PlainInputs ==
    {in \in MCInputs : in.kind = "talk" => in.cue = "plain"}

\* Requests that name a purpose only for practice.
AskInputs ==
    {in \in PlainInputs : in.kind = "ask" => in.purpose \in {"none", "practice"}}

Symmetry == Permutations(Requests) \cup Permutations(Handlers) \cup Permutations(Sessions)
=============================================================================
