----------------------------- MODULE LearningTurn -----------------------------
(***************************************************************************)
(* One learner's turns and submissions against the business database:       *)
(* POST /chat (chat, execute_turn), POST /quiz/submit (submit_quiz),        *)
(* DELETE /sessions/{id}/messages (clear_messages) and                      *)
(* AdaptiveEngine.update_student_state.                                     *)
(*                                                                         *)
(* Every endpoint runs in a worker thread with a database session of its    *)
(* own.  A handler is one such request in flight; each of its actions is    *)
(* what happens between two points where another handler can be seen: a     *)
(* group of reads, or a commit.  No row is locked and no version is         *)
(* compared, so what a handler read may be stale when it commits.           *)
(*                                                                         *)
(* Left out: the words of messages, retrieval and the language model (they  *)
(* can only fail), echo_stage_counts and context_version (no guard reads    *)
(* them), the review schedule of a knowledge point, the optional knowledge  *)
(* point filter of a turn, and the deletion of a session.                   *)
(***************************************************************************)
EXTENDS AssessmentFlow

CONSTANTS
    Sessions,        \* ChatSession rows of the learner
    Modules,         \* the training modules of the programme
    ModuleOf,        \* ModuleOf[q]: Quiz.module_id
    PointsIn,        \* PointsIn[m]: the knowledge points of module m
    FirstModule,     \* the module a session starts in
    Counting,        \* the questions with counts_for_mirt
    OpenQuizzes,     \* the questions answered in free text
    Scores,          \* the scores grading can give, in tenths
    Requests,        \* ids: TurnExecution.request_id, and attempt_id
    Inputs,          \* what a client may send
    Handlers,        \* worker threads
    MaxSends,        \* bound: how often one request id is delivered
    MaxErrors,       \* bound: unforeseen exceptions
    MaxCrashes,      \* bound: restarts of the process
    NoSession,       \* a submission outside any session
    Unsent           \* a request id not used yet

EchoStates == {"E", "C", "H", "O"}
Cues == {"plain", "emotion", "confusion", "reflection"}

AllInputs ==
    [kind : {"greet", "thanks", "answer", "clear"}]
      \cup [kind : {"ask"}, purpose : Purposes \cup {"none"}]
      \cup [kind : {"talk"}, cue : Cues]
      \cup [kind : {"switch"}, module : Modules]
      \cup [kind : {"submit"}, quiz : Quizzes]

ASSUME TurnAssumption ==
    /\ ModuleOf \in [Quizzes -> Modules]
    /\ PointsIn \in [Modules -> SUBSET Points]
    /\ FirstModule \in Modules
    /\ Counting \subseteq Quizzes
    /\ OpenQuizzes \subseteq Quizzes
    /\ Scores \subseteq 0 .. 10
    /\ Scores # {}
    /\ Inputs \subseteq AllInputs
    /\ MaxSends \in Nat
    /\ MaxErrors \in Nat
    /\ MaxCrashes \in Nat
    /\ NoSession \notin Sessions
    /\ Unsent \notin [session : Sessions \cup {NoSession}, input : Inputs]

VARIABLES
    sessions,   \* the ChatSession rows
    turns,      \* the TurnExecution row of each request id
    history,    \* StudentQuestionHistory, in commit order
    ability,    \* LearnerAbility and MirtDailyModuleStats, per module
    sent,       \* what the client put into each request
    sends,      \* how often each request was delivered
    handlers,   \* the requests in flight
    errors,     \* exceptions so far
    crashes     \* restarts so far

vars == <<sessions, turns, history, ability, sent, sends, handlers, errors, crashes>>

-----------------------------------------------------------------------------
(* Rows                                                                     *)

SessionRow == [module : Modules, active : Quizzes \cup {NoQuiz}, echo : EchoStates]

TurnStatus == {"none", "planned", "completed", "failed"}

\* verdict is the question the stored result reports on; commits counts how
\* often a pair of messages and a LearningDecision were stored for the request.
TurnRow == [status : TurnStatus, verdict : Quizzes \cup {NoQuiz}, commits : Nat]

Attempt == [id : Requests, quiz : Quizzes, score : Scores]

\* known: the LearnerAbility row exists.  count: its attempt_count, and that of
\* the daily statistics, which are written together.
\* basis: the attempts the estimate of U, A, R was computed from.
AbilityRow == [known : BOOLEAN, count : Nat, basis : SUBSET Requests]

NoAbility == [known |-> FALSE, count |-> 0, basis |-> {}]

Actions == {"respond", "change", "grade", "generate", "dialogue"}

Steps == {"insert", "load", "ready", "record", "finish", "feedback",
          "submit", "enter", "check", "release", "wipe"}

\* row: the ChatSession as this handler's identity map holds it.  new: the row
\* it wants to store.  seen: the ability row it read.  updated: whether
\* update_student_state recorded the attempt.
Idle == [step |-> "idle"]

Busy == [step : Steps, req : Requests, row : SessionRow, new : SessionRow,
         action : Actions, quiz : Quizzes \cup {NoQuiz}, score : Scores,
         seen : AbilityRow, updated : BOOLEAN]

AnyScore == CHOOSE s \in Scores : TRUE

FreshSession == [module |-> FirstModule, active |-> NoQuiz, echo |-> "E"]

Begin(r, step, action, row) ==
    [step |-> step, req |-> r, row |-> row, new |-> row, action |-> action,
     quiz |-> NoQuiz, score |-> AnyScore, seen |-> NoAbility, updated |-> FALSE]

Bank(m) == {q \in Quizzes : ModuleOf[q] = m}

Recorded(r) == \E i \in DOMAIN history : history[i].id = r

\* The ladder offers q when its purpose may be requested and nothing is active.
Offered(q, h) ==
    CanRequest(Bank(ModuleOf[q]), PointsIn[ModuleOf[q]], h, Purpose[q], NoQuiz)

-----------------------------------------------------------------------------
(* Pure parts                                                               *)

\* TurnOrchestrator.plan: the single action of a turn.
Plan(in, row) ==
    IF in.kind = "greet" THEN "respond"
    ELSE IF in.kind = "switch" /\ in.module # row.module THEN "change"
    ELSE IF row.active # NoQuiz /\ (row.active \in OpenQuizzes \/ in.kind = "answer")
    THEN "grade"
    ELSE IF in.kind = "ask" THEN "generate"
    ELSE IF in.kind = "thanks" THEN "respond"
    ELSE "dialogue"

EchoAllowed == [E |-> {"E", "C"}, C |-> {"C", "H"}, H |-> {"H", "C", "O"}, O |-> {"O", "E"}]

Cue(in) == IF in.kind = "talk" THEN in.cue ELSE "plain"

\* EchoFSM.update with the stage execute_turn proposes.
NextEcho(cue, echo) ==
    LET proposed == IF echo = "E" THEN "C" ELSE echo IN
    CASE cue = "emotion"    -> "E"
      [] cue = "confusion"  -> "C"
      [] cue = "reflection" -> "O"
      [] OTHER              -> IF proposed \in EchoAllowed[echo] THEN proposed ELSE echo

\* An UPDATE writes the columns whose value differs from the one loaded.
Merge(current, loaded, new) ==
    [module |-> IF new.module # loaded.module THEN new.module ELSE current.module,
     active |-> IF new.active # loaded.active THEN new.active ELSE current.active,
     echo   |-> IF new.echo   # loaded.echo   THEN new.echo   ELSE current.echo]

\* Mutants of Tallied: the count goes down; the new answer is left out of the
\* observations.
Tallied_CountsDown(seen, r) ==
    [known |-> TRUE, count |-> seen.count - 1, basis |-> seen.basis \cup {r}]

Tallied_ForgetsAnswer(seen, r) ==
    [known |-> TRUE, count |-> seen.count + 1, basis |-> seen.basis]

\* update_student_state on a question that counts: the estimate is recomputed
\* from every attempt of the learner in the module that was visible, and
\* attempt_count becomes the value read plus one.
Tallied(seen, r) ==
    [known |-> TRUE, count |-> seen.count + 1, basis |-> seen.basis \cup {r}]

\* The ability row as a request reads it, with the attempts it can see.
Seen(m) ==
    [ability[m] EXCEPT
        !.basis = {history[i].id : i \in {k \in DOMAIN history :
                                            ModuleOf[history[k].quiz] = m}}]

\* Mutant of AttemptConflict: attempt_id has no unique constraint.
AttemptConflict_NoUnique(r, q, seen) ==
    LET now == ability[ModuleOf[q]] IN
    \/ ~seen.known /\ now.known
    \/ q \in Counting /\ seen.count = 0 /\ now.count > 0

\* A commit that inserts a row another request has inserted since the read
\* breaks a unique constraint: attempt_id; user and module; and, with the first
\* counted attempt, user, module and day.  (On a later day the same conflict is
\* an instance of RaiseError.)
AttemptConflict(r, q, seen) ==
    LET now == ability[ModuleOf[q]] IN
    \/ Recorded(r)
    \/ ~seen.known /\ now.known
    \/ q \in Counting /\ seen.count = 0 /\ now.count > 0

\* Mutant of AbilityAfter: counts_for_mirt is not looked at.
AbilityAfter_CountsAll(r, q, seen) ==
    [ability EXCEPT ![ModuleOf[q]] = Tallied(seen, r)]

AbilityAfter(r, q, seen) ==
    LET m == ModuleOf[q] IN
    IF q \in Counting THEN [ability EXCEPT ![m] = Tallied(seen, r)]
    ELSE [ability EXCEPT ![m].known = TRUE]

-----------------------------------------------------------------------------
(* Handlers                                                                 *)

Become(h, w) == handlers' = [handlers EXCEPT ![h] = w]

Goto(h, step) == handlers' = [handlers EXCEPT ![h].step = step]

At(h, step) == handlers[h].step = step

\* The session a busy handler works for.
SessionOf(h) == sent[handlers[h].req].session

InputOf(h) == sent[handlers[h].req].input

\* A client delivers request r: for the first time with any content, later
\* with the content it already had.
Deliver(r, s, in) ==
    /\ sends[r] < MaxSends
    /\ sent[r] \in {Unsent, [session |-> s, input |-> in]}
    /\ sent' = [sent EXCEPT ![r] = [session |-> s, input |-> in]]
    /\ sends' = [sends EXCEPT ![r] = @ + 1]

-----------------------------------------------------------------------------
(* POST /chat                                                               *)

\* Mutant of Replayable: the stored result is never looked up.
Replayable_Never(r) == FALSE

\* A completed execution answers a repeated request.
Replayable(r) == turns[r].status = "completed"

\* chat up to the lookup of an earlier execution: a completed one is replayed
\* from its stored result, any other one is executed (again).
ReceiveTurn(h, r, s, in) ==
    /\ At(h, "idle")
    /\ in.kind \notin {"submit", "clear"}
    /\ Deliver(r, s, in)
    /\ IF Replayable(r)
       THEN UNCHANGED handlers
       ELSE Become(h, Begin(r, IF turns[r].status = "none" THEN "insert" ELSE "ready",
                            Plan(in, sessions[s]), sessions[s]))
    /\ UNCHANGED <<sessions, turns, history, ability, errors, crashes>>

\* chat commits the planned execution.  If the id was taken in the meantime the
\* unique constraint fails outside the try block and nothing is stored.
InsertTurn(h) ==
    LET r == handlers[h].req IN
    /\ At(h, "insert")
    /\ IF turns[r].status = "none"
       THEN /\ turns' = [turns EXCEPT ![r].status = "planned"]
            /\ Goto(h, "load")
       ELSE /\ Become(h, Idle)
            /\ UNCHANGED turns
    /\ UNCHANGED <<sessions, history, ability, sent, sends, errors, crashes>>

\* The commit expired the session row: execute_turn loads it again, but the
\* plan stays the one made before.
LoadSession(h) ==
    LET row == sessions[SessionOf(h)] IN
    /\ At(h, "load")
    /\ Become(h, [handlers[h] EXCEPT !.step = "ready", !.row = row, !.new = row])
    /\ UNCHANGED <<sessions, turns, history, ability, sent, sends, errors, crashes>>

\* execute_turn, RESPOND_GREETING, CLOSE_SESSION, REJECT_REQUEST and
\* GENERAL_RESPONSE: nothing but the messages.
Respond(h) ==
    /\ At(h, "ready")
    /\ handlers[h].action = "respond"
    /\ Goto(h, "finish")
    /\ UNCHANGED <<sessions, turns, history, ability, sent, sends, errors, crashes>>

\* execute_turn, LEARNING_DIALOGUE.
Converse(h) ==
    LET row == handlers[h].row IN
    /\ At(h, "ready")
    /\ handlers[h].action = "dialogue"
    /\ Become(h, [handlers[h] EXCEPT !.step = "finish",
                      !.new = [row EXCEPT !.echo = NextEcho(Cue(InputOf(h)), row.echo)]])
    /\ UNCHANGED <<sessions, turns, history, ability, sent, sends, errors, crashes>>

\* Mutant of ChangeModule: the pending question is kept.
ChangeModule_KeepsQuestion(h) ==
    /\ At(h, "ready")
    /\ handlers[h].action = "change"
    /\ Become(h, [handlers[h] EXCEPT !.step = "finish",
                      !.new = [@ EXCEPT !.module = InputOf(h).module, !.echo = "E"]])
    /\ UNCHANGED <<sessions, turns, history, ability, sent, sends, errors, crashes>>

\* execute_turn, CHANGE_MODULE: a new ECHO cycle without a pending question.
ChangeModule(h) ==
    /\ At(h, "ready")
    /\ handlers[h].action = "change"
    /\ Become(h, [handlers[h] EXCEPT !.step = "finish",
                      !.new = [module |-> InputOf(h).module, active |-> NoQuiz,
                               echo |-> "E"]])
    /\ UNCHANGED <<sessions, turns, history, ability, sent, sends, errors, crashes>>

AskedPurpose(in, m, active) ==
    IF in.kind = "ask" /\ in.purpose # "none" THEN in.purpose
    ELSE RecommendedPurpose(Bank(m), PointsIn[m], history, active)

Permitted(p, row) ==
    /\ p # "none"
    /\ CanRequest(Bank(row.module), PointsIn[row.module], history, p, row.active)

\* execute_turn, GENERATE_QUIZ: when the ladder permits the purpose asked for,
\* or recommended, a question of its pool becomes the active one.
GenerateQuiz(h) ==
    LET w == handlers[h]
        p == AskedPurpose(InputOf(h), w.row.module, w.row.active)
    IN
    /\ At(h, "ready")
    /\ w.action = "generate"
    /\ IF Permitted(p, w.row)
       THEN \E q \in Candidates(Bank(w.row.module), history, p) :
              Become(h, [w EXCEPT !.step = "finish", !.quiz = q, !.new.active = q,
                                  !.seen = ability[w.row.module]])
       ELSE Goto(h, "finish")
    /\ UNCHANGED <<sessions, turns, history, ability, sent, sends, errors, crashes>>

\* execute_turn, GRADE_ANSWER up to the commit of update_student_state: the
\* answer is graded against the question active in the row at hand.  An attempt
\* id already on record is left as it is.
GradeAnswer(h) ==
    LET w == handlers[h]
        q == w.row.active
    IN
    /\ At(h, "ready")
    /\ w.action = "grade"
    /\ q # NoQuiz
    /\ \E s \in Scores :
         Become(h, [w EXCEPT !.step = IF Recorded(w.req) THEN "finish" ELSE "record",
                             !.quiz = q, !.score = s, !.new.active = NoQuiz,
                             !.seen = Seen(ModuleOf[q])])
    /\ UNCHANGED <<sessions, turns, history, ability, sent, sends, errors, crashes>>

\* Mutant of RecordAttempt: the attempt is never added to the session.
RecordAttempt_NotAdded(h, next) ==
    LET w == handlers[h] IN
    /\ ~AttemptConflict(w.req, w.quiz, w.seen)
    /\ ability' = AbilityAfter(w.req, w.quiz, w.seen)
    /\ Become(h, [w EXCEPT !.step = next, !.updated = TRUE, !.seen = NoAbility])
    /\ UNCHANGED <<sessions, turns, history, sent, sends, errors, crashes>>

\* The commit inside update_student_state: attempt, estimate and statistics.
RecordAttempt(h, next) ==
    LET w == handlers[h] IN
    /\ ~AttemptConflict(w.req, w.quiz, w.seen)
    /\ history' = Append(history, [id |-> w.req, quiz |-> w.quiz, score |-> w.score])
    /\ ability' = AbilityAfter(w.req, w.quiz, w.seen)
    /\ Become(h, [w EXCEPT !.step = next, !.updated = TRUE, !.seen = NoAbility])
    /\ UNCHANGED <<sessions, turns, sent, sends, errors, crashes>>

RecordGrade(h) == At(h, "record") /\ RecordAttempt(h, "finish")

\* get_learner_ability inserts a missing row with the commit of the turn.
InsertsAbility(w) == w.quiz # NoQuiz /\ ~w.updated /\ ~w.seen.known

FinishConflict(w) == InsertsAbility(w) /\ ability[ModuleOf[w.quiz]].known


\* What the turn leaves in the session row.  A graded turn clears active_quiz_id
\* whatever it holds by then: the commit of the attempt has expired the row.
SessionAfter(w, current) ==
    IF w.action = "grade" THEN [current EXCEPT !.active = NoQuiz]
    ELSE Merge(current, w.row, w.new)

\* Mutant of Graded: the result reports on the question active by now.
Graded_ActiveNow(w) ==
    IF w.action = "grade" THEN sessions[sent[w.req].session].active ELSE NoQuiz

Graded(w) == IF w.action = "grade" THEN w.quiz ELSE NoQuiz

\* A wrong answer on a counting question is followed by memory feedback.
WantsFeedback(w) == w.action = "grade" /\ w.score < 10 /\ w.quiz \in Counting

\* execute_turn from the messages to the commit of the completed execution.
FinishTurn(h) ==
    LET w == handlers[h]
        s == SessionOf(h)
    IN
    /\ At(h, "finish")
    /\ ~FinishConflict(w)
    /\ sessions' = [sessions EXCEPT ![s] = SessionAfter(w, @)]
    /\ ability' = IF InsertsAbility(w)
                  THEN [ability EXCEPT ![ModuleOf[w.quiz]].known = TRUE] ELSE ability
    /\ turns' = [turns EXCEPT ![w.req] = [status |-> "completed", verdict |-> Graded(w),
                                          commits |-> @.commits + 1]]
    /\ IF WantsFeedback(w) THEN Goto(h, "feedback") ELSE Become(h, Idle)
    /\ UNCHANGED <<history, sent, sends, errors, crashes>>

\* Mutant of StoreFeedback: the feedback replaces the stored result.
StoreFeedback_Overwrites(h) ==
    LET w == handlers[h] IN
    /\ At(h, "feedback")
    /\ turns' = [turns EXCEPT ![w.req].verdict = NoQuiz]
    /\ Become(h, Idle)
    /\ UNCHANGED <<sessions, history, ability, sent, sends, errors, crashes>>

\* _persist_misconception_feedback and the second commit: the stored result is
\* written once more.
StoreFeedback(h) ==
    LET w == handlers[h] IN
    /\ At(h, "feedback")
    /\ turns' = [turns EXCEPT ![w.req].verdict = w.quiz]
    /\ Become(h, Idle)
    /\ UNCHANGED <<sessions, history, ability, sent, sends, errors, crashes>>

\* chat's except clause: roll back, mark the execution failed whatever its
\* status is by now, answer 500.
Abandon(h) ==
    /\ turns' = [turns EXCEPT ![handlers[h].req].status = "failed"]
    /\ Become(h, Idle)
    /\ UNCHANGED <<sessions, history, ability, sent, sends, crashes>>


\* An exception the code brings about itself: no question to grade, or a
\* broken unique constraint.
Fail(h) ==
    LET w == handlers[h] IN
    /\ \/ At(h, "ready") /\ w.action = "grade" /\ w.row.active = NoQuiz
       \/ At(h, "record") /\ AttemptConflict(w.req, w.quiz, w.seen)
       \/ At(h, "finish") /\ FinishConflict(w)
    /\ Abandon(h)
    /\ UNCHANGED errors

\* An exception from a service, the model or the database.
RaiseError(h) ==
    /\ handlers[h].step \in {"load", "ready", "record", "finish", "feedback"}
    /\ errors < MaxErrors
    /\ errors' = errors + 1
    /\ Abandon(h)

\* The other endpoints have no execution to mark: the exception rolls back.
DropRequest(h) ==
    /\ handlers[h].step \in {"submit", "enter", "check", "release", "wipe"}
    /\ errors < MaxErrors
    /\ errors' = errors + 1
    /\ Become(h, Idle)
    /\ UNCHANGED <<sessions, turns, history, ability, sent, sends, crashes>>

-----------------------------------------------------------------------------
(* POST /quiz/submit                                                        *)

\* Mutant of MaySubmit: the ladder is not asked.
MaySubmit_Unchecked(r, q, row) == row.active \in {NoQuiz, q}

\* A question may be submitted when it is the active one, when its attempt is
\* already on record, or when the ladder offers its purpose.
MaySubmit(r, q, row) ==
    /\ row.active \in {NoQuiz, q}
    /\ row.active = q \/ Recorded(r) \/ Offered(q, history)

ReceiveSubmission(h, r, s, in) ==
    LET row == IF s = NoSession THEN FreshSession ELSE sessions[s] IN
    /\ At(h, "idle")
    /\ in.kind = "submit"
    /\ Deliver(r, s, in)
    /\ IF MaySubmit(r, in.quiz, row)
       THEN Become(h, [Begin(r, "submit", "grade", row) EXCEPT !.quiz = in.quiz])
       ELSE UNCHANGED handlers
    /\ UNCHANGED <<sessions, turns, history, ability, errors, crashes>>

GradeSubmission(h) ==
    LET w == handlers[h] IN
    /\ At(h, "submit")
    /\ \E s \in Scores :
         Become(h, [w EXCEPT !.step = IF Recorded(w.req) THEN "check" ELSE "enter",
                             !.score = s, !.seen = Seen(ModuleOf[w.quiz])])
    /\ UNCHANGED <<sessions, turns, history, ability, sent, sends, errors, crashes>>

EnterSubmission(h) == At(h, "enter") /\ RecordAttempt(h, "check")

\* Does the session still wait for this question?  The row is read again only
\* if a commit has expired it.
CheckActive(h) ==
    LET w == handlers[h]
        s == SessionOf(h)
        row == IF w.updated /\ s # NoSession THEN sessions[s] ELSE w.row
    IN
    /\ At(h, "check")
    /\ IF s # NoSession /\ row.active = w.quiz
       THEN Goto(h, "release")
       ELSE Become(h, Idle)
    /\ UNCHANGED <<sessions, turns, history, ability, sent, sends, errors, crashes>>

ReleaseQuestion(h) ==
    /\ At(h, "release")
    /\ sessions' = [sessions EXCEPT ![SessionOf(h)].active = NoQuiz]
    /\ Become(h, Idle)
    /\ UNCHANGED <<turns, history, ability, sent, sends, errors, crashes>>

\* A broken unique constraint: 500 without a trace.
RejectSubmission(h) ==
    LET w == handlers[h] IN
    /\ At(h, "enter")
    /\ AttemptConflict(w.req, w.quiz, w.seen)
    /\ Become(h, Idle)
    /\ UNCHANGED <<sessions, turns, history, ability, sent, sends, errors, crashes>>

-----------------------------------------------------------------------------
(* DELETE /sessions/{id}/messages                                           *)

ReceiveClear(h, r, s, in) ==
    /\ At(h, "idle")
    /\ in.kind = "clear"
    /\ Deliver(r, s, in)
    /\ Become(h, [Begin(r, "wipe", "respond", sessions[s]) EXCEPT
                      !.new = [sessions[s] EXCEPT !.active = NoQuiz, !.echo = "E"]])
    /\ UNCHANGED <<sessions, turns, history, ability, errors, crashes>>

ClearMessages(h) ==
    LET w == handlers[h] IN
    /\ At(h, "wipe")
    /\ sessions' = [sessions EXCEPT ![SessionOf(h)] = Merge(@, w.row, w.new)]
    /\ Become(h, Idle)
    /\ UNCHANGED <<turns, history, ability, sent, sends, errors, crashes>>

-----------------------------------------------------------------------------
(* The process restarts: the requests in flight are gone, the rows stay.    *)

Restart ==
    /\ crashes < MaxCrashes
    /\ \E h \in Handlers : ~At(h, "idle")
    /\ crashes' = crashes + 1
    /\ handlers' = [h \in Handlers |-> Idle]
    /\ UNCHANGED <<sessions, turns, history, ability, sent, sends, errors>>

-----------------------------------------------------------------------------

Init ==
    /\ sessions = [s \in Sessions |-> FreshSession]
    /\ turns = [r \in Requests |-> [status |-> "none", verdict |-> NoQuiz, commits |-> 0]]
    /\ history = << >>
    /\ ability = [m \in Modules |-> NoAbility]
    /\ sent = [r \in Requests |-> Unsent]
    /\ sends = [r \in Requests |-> 0]
    /\ handlers = [h \in Handlers |-> Idle]
    /\ errors = 0
    /\ crashes = 0

Receive(h) ==
    \E r \in Requests, in \in Inputs :
        \/ \E s \in Sessions : ReceiveTurn(h, r, s, in)
        \/ \E s \in Sessions \cup {NoSession} : ReceiveSubmission(h, r, s, in)
        \/ \E s \in Sessions : ReceiveClear(h, r, s, in)

\* What the server does with a request once it has it.
Work(h) ==
    \/ InsertTurn(h) \/ LoadSession(h)
    \/ Respond(h) \/ Converse(h) \/ ChangeModule(h) \/ GenerateQuiz(h) \/ GradeAnswer(h)
    \/ RecordGrade(h) \/ FinishTurn(h) \/ StoreFeedback(h) \/ Fail(h)
    \/ GradeSubmission(h) \/ EnterSubmission(h) \/ CheckActive(h) \/ ReleaseQuestion(h)
    \/ RejectSubmission(h)
    \/ ClearMessages(h)

Next ==
    \/ \E h \in Handlers : Receive(h) \/ Work(h) \/ RaiseError(h) \/ DropRequest(h)
    \/ Restart

Spec == Init /\ [][Next]_vars

\* A worker thread that has a request keeps running.  Clients owe nothing.
Fairness == \A h \in Handlers : WF_vars(Work(h))

FairSpec == Spec /\ Fairness

-----------------------------------------------------------------------------
(* Properties                                                               *)

TypeOK ==
    /\ sessions \in [Sessions -> SessionRow]
    /\ turns \in [Requests -> TurnRow]
    /\ history \in Seq(Attempt)
    /\ ability \in [Modules -> AbilityRow]
    /\ sent \in [Requests -> [session : Sessions \cup {NoSession}, input : Inputs]
                                \cup {Unsent}]
    /\ sends \in [Requests -> Nat]
    /\ handlers \in [Handlers -> Busy \cup {Idle}]
    /\ errors \in Nat
    /\ crashes \in Nat

CountedIn(m) ==
    {i \in DOMAIN history : history[i].quiz \in Counting /\ ModuleOf[history[i].quiz] = m}

\* No interleaving of requests, retries and crashes scores an attempt twice:
\* attempt_count never runs ahead of the counted attempts on record.
\* (update_student_state reads the count and writes it back without a lock.)
NoOvercount == \A m \in Modules : ability[m].count <= Cardinality(CountedIn(m))

\* The estimate of a module rests on attempts of that module that are on
\* record, never on one that was rolled back or refused.
EstimateGrounded ==
    \A m \in Modules : \A r \in ability[m].basis :
        \E i \in DOMAIN history : history[i].id = r /\ ModuleOf[history[i].quiz] = m

\* When requests do not overlap, errors, crashes and retries notwithstanding,
\* attempt_count is exact and the estimate rests on every counted attempt.
ExactTally ==
    \A m \in Modules :
        /\ ability[m].count = Cardinality(CountedIn(m))
        /\ {history[i].id : i \in CountedIn(m)} \subseteq ability[m].basis

\* Every posttest answer on record came after a moment at which the stage test
\* was passed, every stage answer after a completed pretest, however the
\* requests overlapped between the check of the ladder and the commit.
Earlier(i, m, p, statuses) ==
    \E j \in 0 .. i - 1 :
        Status(Bank(m), PointsIn[m], SubSeq(history, 1, j), p) \in statuses

LadderRespected ==
    \A i \in DOMAIN history :
        LET q == history[i].quiz IN
        /\ Purpose[q] = "posttest" => Earlier(i, ModuleOf[q], "stage_test", {"completed"})
        /\ Purpose[q] = "stage_test" => Earlier(i, ModuleOf[q], "pretest", {"completed"})

\* Once a stage test is complete and failed, nothing but a practice answer opens
\* the way to the next stage answer.
RetakeAfterPractice ==
    \A i, k \in DOMAIN history :
        LET m == ModuleOf[history[k].quiz] IN
        (/\ i < k
         /\ Purpose[history[k].quiz] = "stage_test"
         /\ Status(Bank(m), PointsIn[m], SubSeq(history, 1, i), "stage_test")
              = "review_required")
        => \E j \in i + 1 .. k - 1 : /\ ModuleOf[history[j].quiz] = m
                                     /\ Purpose[history[j].quiz] = "practice"

\* The question a session waits for belongs to the module the session is in:
\* grading, the ladder and the switch of modules agree on it.
ActiveInModule ==
    \A s \in Sessions :
        sessions[s].active # NoQuiz => ModuleOf[sessions[s].active] = sessions[s].module

\* A request id leaves at most one pair of messages and one decision.
OneCommitPerRequest == \A r \in Requests : turns[r].commits <= 1

\* A completed turn reports on the very question its attempt id answered.
VerdictMatchesAttempt ==
    \A r \in Requests :
        turns[r].status = "completed" /\ turns[r].verdict # NoQuiz =>
            \E i \in DOMAIN history :
                history[i].id = r /\ history[i].quiz = turns[r].verdict

\* A completed turn is what a replay returns: when no request is delivered twice,
\* nothing takes it back but an exception in its own feedback, which marks it
\* failed; the verdict and the attempt it rests on stay as they are.
CompletedStands ==
    [][\A r \in Requests :
         turns[r].status = "completed" /\ turns'[r] # turns[r] =>
            /\ turns'[r] = [turns[r] EXCEPT !.status = "failed"]
            /\ errors' = errors + 1
            /\ Recorded(r)'
            /\ \E h \in Handlers : handlers[h].step = "feedback" /\ handlers[h].req = r
      ]_vars

\* A question is never swapped for another one while it waits for its answer.
QuestionNotReplaced ==
    [][\A s \in Sessions :
         sessions[s].active # NoQuiz =>
             sessions'[s].active \in {sessions[s].active, NoQuiz}]_sessions

\* U, A and R rest on questions allowed to update them, and on no others.
EstimateCountsOnly ==
    \A m \in Modules : \A i \in DOMAIN history :
        history[i].id \in ability[m].basis => history[i].quiz \in Counting

\* The ledger of attempts behaves as AttemptLedger promises.
Ledger == INSTANCE AttemptLedger WITH
    AttemptIds <- Requests, Questions <- Quizzes, ScoreRange <- Scores,
    Offered <- Offered

LedgerSpec == Ledger!Spec


=============================================================================
