----------------------------- MODULE CourseContent -----------------------------
(***************************************************************************)
(* What mentors put into a module and what learners answer from it:        *)
(* question imports, the analysis of a video into oral checkpoints, their  *)
(* edits and their freezing, and oral attempts.                            *)
(*                                                                         *)
(* A handler reads rows and commits later; what the database checks again  *)
(* at the commit is that a row of the updated id is still there, which may *)
(* by then be another one, and that unique keys are unique.  A commit that *)
(* waits too long for another writer is refused.                           *)
(***************************************************************************)
EXTENDS Naturals, FiniteSets, Functions

CONSTANTS
    Handlers,     \* requests under way
    Previews,     \* question files, all of the same one question
    Nodes,        \* CHECKPOINT_RATIOS
    Points,       \* checkpoint ids
    Texts, Complete, \* question, points and sources; those with points and official sources only
    Jobs,         \* video analysis jobs
    Recordings,   \* transcribed recordings
    AttemptIds,   \* chosen by clients
    NoPoint, NoAbility,
    MaxRestarts   \* bound

ASSUME ContentAssumption ==
    /\ NoPoint \notin Points /\ NoAbility \notin Nat /\ Previews \intersect Points = {} /\ Nodes # {}
    /\ Points \subseteq Nat /\ Complete \subseteq Texts /\ Texts # {}
    /\ MaxRestarts \in Nat

VARIABLES
    handlers,
    previews,    \* status in the preview's file
    bank,        \* how many quizzes were made of each preview and checkpoint
    timed,       \* the video's duration can be read
    points,      \* video_checkpoints
    racing,      \* history: who had read a checkpoint as a draft when it was frozen
    jobs,        \* video_analysis_jobs and their threads
    recordings,  \* the checkpoint each was recorded for
    attempts,    \* video_oral_attempts, each with its row of the answer history
    tally,       \* attempt_count of the learner's ability row
    restarts

vars == <<handlers, previews, bank, timed, points, racing, jobs, recordings, attempts,
          tally, restarts>>

-----------------------------------------------------------------------------
Idle == [op |-> "idle"]

\* quiz: which of the quizzes made of it.
Point == [state : {"none", "draft", "frozen"}, node : Nodes, text : Texts, quiz : Nat]
NoRow == [state |-> "none", node |-> CHOOSE n \in Nodes : TRUE,
          text |-> CHOOSE t \in Texts : TRUE, quiz |-> 0]

\* alive: the thread of run_video_analysis_task; scanned: it has read the nodes of
\* the frozen checkpoints; refused (history): a write of its status was.
Job == [status : {"none", "queued", "processing", "completed", "requires_manual", "failed"},
        alive : BOOLEAN, scanned : BOOLEAN, taken : SUBSET Nodes, refused : BOOLEAN]

Attempt == [id : AttemptIds, recording : Recordings, point : Points, quiz : Nat]

InState(s) == {p \in Points : points[p].state = s}
Active(j) == jobs[j].status \in {"queued", "processing"}
Over(job, s) == [job EXCEPT !.status = s, !.alive = FALSE, !.scanned = FALSE, !.taken = {}]
Reply(h) == handlers' = [handlers EXCEPT ![h] = Idle]
Goes(h, rec) == handlers[h] = Idle /\ handlers' = [handlers EXCEPT ![h] = rec]
At(h, op) == handlers[h].op = op

\* h is about to update the row with the id p.
Holds(h, p) == \/ At(h, "edit") /\ handlers[h].point = p
               \/ At(h, "freeze") /\ p \in DOMAIN handlers[h].read

-----------------------------------------------------------------------------
(* confirm_quiz_import.                                                    *)

\* Reads the file, and whether the bank has the question already.
StartImport(h, p) ==
    /\ previews[p] = "pending"
    /\ Goes(h, [op |-> "import", preview |-> p,
                skip |-> \E f \in Previews : bank[f] > 0])
    /\ UNCHANGED <<previews, bank, timed, points, jobs, recordings, attempts, tally, restarts>>

\* The file says confirmed before the questions are committed.
WritePreview(h) ==
    /\ At(h, "import")
    /\ previews' = [previews EXCEPT ![handlers[h].preview] = "confirmed"]
    /\ handlers' = [handlers EXCEPT ![h].op = "commit"]
    /\ UNCHANGED <<bank, timed, points, jobs, recordings, attempts, tally, restarts>>

\* Mutant of CommitImport: the commit comes first, and the file is not written.
CommitImport_First(h) ==
    /\ At(h, "import")
    /\ bank' = IF handlers[h].skip THEN bank ELSE [bank EXCEPT ![handlers[h].preview] = @ + 1]
    /\ Reply(h)
    /\ UNCHANGED <<previews, timed, points, jobs, recordings, attempts, tally, restarts>>

CommitImport(h) ==
    /\ At(h, "commit")
    /\ bank' = IF handlers[h].skip THEN bank ELSE [bank EXCEPT ![handlers[h].preview] = @ + 1]
    /\ Reply(h)
    /\ UNCHANGED <<previews, timed, points, jobs, recordings, attempts, tally, restarts>>

-----------------------------------------------------------------------------
(* Video analysis: generate_video_checkpoints, run_video_analysis.         *)

\* An active job is returned instead; otherwise a new one is queued.
StartGenerate(h) ==
    /\ \A j \in Jobs : ~Active(j)
    /\ Goes(h, [op |-> "generate"])
    /\ UNCHANGED <<previews, bank, timed, points, jobs, recordings, attempts, tally, restarts>>

CommitGenerate(h) ==
    /\ At(h, "generate")
    /\ \E j \in Jobs :
        /\ jobs[j].status = "none"
        /\ jobs' = [jobs EXCEPT ![j].status = "queued", ![j].alive = TRUE]
    /\ Reply(h)
    /\ UNCHANGED <<previews, bank, timed, points, recordings, attempts, tally, restarts>>

Process(j) ==
    /\ jobs[j].alive /\ jobs[j].status = "queued"
    /\ jobs' = [jobs EXCEPT ![j].status = "processing"]
    /\ UNCHANGED <<handlers, previews, bank, timed, points, recordings, attempts, tally, restarts>>

\* After the frames: the nodes that have a frozen checkpoint, read without a lock.
\* Without a duration none is asked for.
Scan(j) ==
    /\ jobs[j].alive /\ jobs[j].status = "processing" /\ ~jobs[j].scanned
    /\ jobs' = [jobs EXCEPT ![j].scanned = TRUE,
                ![j].taken = {n \in Nodes : timed /\ \E p \in InState("frozen") : points[p].node = n}]
    /\ UNCHANGED <<handlers, previews, bank, timed, points, recordings, attempts, tally, restarts>>

\* The drafts there are now give way to new ones, which have no sources yet, frozen
\* checkpoints stay; without a duration nothing is deleted.  The ids follow the
\* greatest that is left, so those of the deleted drafts may come back.  Which
\* nodes have context is the video's.
Replace(j) ==
    /\ jobs[j].alive /\ jobs[j].status = "processing" /\ jobs[j].scanned
    /\ LET kept == InState("frozen") \union (IF timed THEN {} ELSE InState("draft"))
           ids == {p \in Points : \A q \in kept : p > q}
       IN  \E made \in SUBSET (Nodes \ jobs[j].taken) :
           \E id \in Injection(made, ids), text \in [made -> Texts \ Complete] :
            /\ points' = [p \in Points |->
                    IF p \in kept THEN points[p]
                    ELSE IF \E n \in made : id[n] = p
                    THEN LET n == CHOOSE m \in made : id[m] = p
                         IN  [state |-> "draft", node |-> n, text |-> text[n], quiz |-> 0]
                    ELSE NoRow]
            /\ jobs' = [jobs EXCEPT ![j] =
                    Over(@, IF \/ made # {}
                               \/ timed /\ Cardinality(InState("frozen")) >= Cardinality(Nodes)
                            THEN "completed" ELSE "requires_manual")]
    /\ UNCHANGED <<handlers, previews, bank, timed, recordings, attempts, tally, restarts>>

\* Mutant of Fail: the status is left as it is.
Fail_StaysActive(j) ==
    /\ jobs[j].alive /\ jobs[j].status = "processing"
    /\ jobs' = [jobs EXCEPT ![j] = Over(@, @.status)]
    /\ UNCHANGED <<handlers, previews, bank, timed, points, recordings, attempts, tally, restarts>>

\* No frames, no OCR, another job's frames deleted under it, or its drafts refused.
Fail(j) ==
    /\ jobs[j].alive /\ jobs[j].status = "processing"
    /\ \E s \in {"failed", "requires_manual"} :
        jobs' = [jobs EXCEPT ![j] = Over(@, s)]
    /\ UNCHANGED <<handlers, previews, bank, timed, points, recordings, attempts, tally, restarts>>

\* Neither the status of a job that begins nor that of one that fails can be
\* written: the exception ends the thread.
StatusRefused(j) ==
    /\ jobs[j].alive /\ Active(j)
    /\ jobs' = [jobs EXCEPT ![j] = [Over(@, @.status) EXCEPT !.refused = TRUE]]
    /\ UNCHANGED <<handlers, previews, bank, timed, points, recordings, attempts, tally, restarts>>

-----------------------------------------------------------------------------
(* Edits and freezing.                                                     *)

\* Mutant of StartEdit: a frozen checkpoint may be edited.
StartEdit_Unchecked(h, p) ==
    /\ points[p].state # "none"
    /\ Goes(h, [op |-> "edit", point |-> p])
    /\ UNCHANGED <<previews, bank, timed, points, jobs, recordings, attempts, tally, restarts>>

StartEdit(h, p) ==
    /\ points[p].state = "draft"
    /\ Goes(h, [op |-> "edit", point |-> p])
    /\ UNCHANGED <<previews, bank, timed, points, jobs, recordings, attempts, tally, restarts>>

\* What the request names is written to the row that has the id now: it may be
\* frozen, or another draft; if there is none it is an error.
CommitEdit(h) ==
    /\ At(h, "edit")
    /\ LET p == handlers[h].point
       IN  IF points[p].state = "none" THEN UNCHANGED points
           ELSE \E t \in Texts, n \in Nodes :
                    points' = [points EXCEPT ![p].text = t, ![p].node = n]
    /\ Reply(h)
    /\ UNCHANGED <<previews, bank, timed, jobs, recordings, attempts, tally, restarts>>

\* Every node has a checkpoint, and every draft is complete.
StartFreeze(h) ==
    /\ timed => \A n \in Nodes : \E p \in InState("draft") \union InState("frozen") :
                    points[p].node = n
    /\ InState("draft") # {} /\ \A p \in InState("draft") : points[p].text \in Complete
    /\ Goes(h, [op |-> "freeze", read |-> [p \in InState("draft") |-> points[p].text]])
    /\ UNCHANGED <<previews, bank, timed, points, jobs, recordings, attempts, tally, restarts>>

\* A new quiz for each id that was read, whatever its row is now: also if it is
\* frozen.  The text that was read is written back if it had to be stripped.
CommitFreeze(h) ==
    /\ At(h, "freeze")
    /\ LET read == handlers[h].read
       IN  IF \E p \in DOMAIN read : points[p].state = "none"
           THEN UNCHANGED <<bank, points>>
           ELSE /\ bank' = [q \in DOMAIN bank |-> bank[q] + IF q \in DOMAIN read THEN 1 ELSE 0]
                /\ \E text \in [DOMAIN read -> Texts] :
                    /\ \A p \in DOMAIN read : text[p] \in {points[p].text, read[p]}
                    /\ points' = [p \in Points |->
                            IF p \in DOMAIN read
                            THEN [points[p] EXCEPT !.state = "frozen", !.text = text[p],
                                                   !.quiz = bank'[p]]
                            ELSE points[p]]
    /\ Reply(h)
    /\ UNCHANGED <<previews, timed, jobs, recordings, attempts, tally, restarts>>

-----------------------------------------------------------------------------
(* Oral attempts: submit_video_oral_attempt.                               *)

\* create_micro_job accepts a recording for a frozen checkpoint; it is
\* transcribed when it can be submitted.
Recorded(r, p) ==
    /\ recordings[r] = NoPoint /\ points[p].state = "frozen"
    /\ recordings' = [recordings EXCEPT ![r] = p]
    /\ UNCHANGED <<handlers, previews, bank, timed, points, jobs, attempts, tally, restarts>>

\* A recorded attempt is answered again, or refused; the judge is asked
\* about any other.
StartAttempt(h, r, a) ==
    /\ recordings[r] # NoPoint
    /\ \A x \in attempts : x.id # a /\ x.recording # r
    /\ Goes(h, [op |-> "grade", tally |-> tally,
                attempt |-> [id |-> a, recording |-> r, point |-> recordings[r],
                             quiz |-> points[recordings[r]].quiz]])
    /\ UNCHANGED <<previews, bank, timed, points, jobs, recordings, attempts, tally, restarts>>

\* Mutant of Conflict: a recording may be answered under two ids.
Conflict_IdOnly(x, seen) ==
    \/ \E y \in attempts : y.id = x.id
    \/ seen = NoAbility /\ tally # NoAbility

\* Keys that must be unique: the attempt id (in the history too), the recording,
\* and the learner's ability row.
Conflict(x, seen) ==
    \/ \E y \in attempts : y.id = x.id \/ y.recording = x.recording
    \/ seen = NoAbility /\ tally # NoAbility

Count(t) == IF t = NoAbility THEN 0 ELSE t

\* The attempt, its history row and the ability are one commit; the count is that
\* of the snapshot and one more.
CommitAttempt(h) ==
    /\ At(h, "grade")
    /\ IF Conflict(handlers[h].attempt, handlers[h].tally) THEN UNCHANGED <<attempts, tally>>
       ELSE /\ attempts' = attempts \union {handlers[h].attempt}
            /\ tally' = Count(handlers[h].tally) + 1
    /\ Reply(h)
    /\ UNCHANGED <<previews, bank, timed, points, jobs, recordings, restarts>>

\* OralAssessmentUnavailable, or the commit is refused: nothing is stored.
Unavailable(h) ==
    /\ handlers[h].op \in {"commit", "generate", "edit", "freeze", "grade"} /\ Reply(h)
    /\ UNCHANGED <<previews, bank, timed, points, jobs, recordings, attempts, tally, restarts>>

-----------------------------------------------------------------------------
Restart ==
    /\ restarts < MaxRestarts /\ restarts' = restarts + 1
    /\ handlers' = [h \in Handlers |-> Idle]
    /\ jobs' = [j \in Jobs |-> Over(jobs[j], jobs[j].status)]
    /\ UNCHANGED <<previews, bank, timed, points, recordings, attempts, tally>>

\* upload_course_videos queues the first job in the commit of the video.
Init ==
    /\ handlers = [h \in Handlers |-> Idle]
    /\ previews = [p \in Previews |-> "pending"]
    /\ bank = [q \in Previews \union Points |-> 0]
    /\ timed \in BOOLEAN
    /\ points = [p \in Points |-> NoRow] /\ racing = [p \in Points |-> {}]
    /\ LET first == CHOOSE j \in Jobs : TRUE
           job(j) == [status |-> IF j = first THEN "queued" ELSE "none",
                      alive |-> j = first, scanned |-> FALSE, taken |-> {}, refused |-> FALSE]
       IN  jobs = [j \in Jobs |-> job(j)]
    /\ recordings = [r \in Recordings |-> NoPoint]
    /\ attempts = {}
    /\ tally \in {NoAbility, 0} /\ restarts = 0

Analyse(j) == Process(j) \/ Scan(j) \/ Replace(j) \/ Fail(j) \/ StatusRefused(j)

Step ==
    \/ \E h \in Handlers :
        \/ \E p \in Previews : StartImport(h, p)
        \/ WritePreview(h) \/ CommitImport(h)
        \/ StartGenerate(h) \/ CommitGenerate(h)
        \/ \E p \in Points : StartEdit(h, p)
        \/ CommitEdit(h) \/ StartFreeze(h) \/ CommitFreeze(h)
        \/ \E r \in Recordings, a \in AttemptIds : StartAttempt(h, r, a)
        \/ CommitAttempt(h) \/ Unavailable(h)
    \/ \E j \in Jobs : Analyse(j)
    \/ \E r \in Recordings, p \in Points : Recorded(r, p)
    \/ Restart

\* Who goes on holding a checkpoint that is frozen by now.
Race == racing' = [p \in Points |->
    LET was == IF points[p].state = "frozen" THEN racing[p] ELSE Handlers
    IN  IF points'[p].state = "frozen" THEN {h \in was : Holds(h, p) /\ handlers'[h] = handlers[h]}
        ELSE {}]

Next == Step /\ Race

Spec == Init /\ [][Next]_vars

\* Background threads run as long as the process does.
FairSpec == Spec /\ \A j \in Jobs : WF_vars(Analyse(j) /\ Race)

-----------------------------------------------------------------------------
(* Properties.                                                             *)

TypeOK ==
    /\ \A h \in Handlers : handlers[h].op \in
            {"idle", "import", "commit", "generate", "edit", "freeze", "grade"}
    /\ previews \in [Previews -> {"pending", "confirmed"}]
    /\ bank \in [Previews \union Points -> Nat]
    /\ timed \in BOOLEAN /\ points \in [Points -> Point] /\ jobs \in [Jobs -> Job]
    /\ racing \in [Points -> SUBSET Handlers]
    /\ recordings \in [Recordings -> Points \union {NoPoint}]
    /\ attempts \subseteq Attempt /\ tally \in Nat \union {NoAbility}
    /\ restarts \in 0..MaxRestarts

\* A question of a file is in the bank only when the file says so, whenever the
\* process dies and whoever else confirms: a later confirmation cannot import it
\* again.
ImportedIsConfirmed ==
    \A f \in Previews : bank[f] > 0 => previews[f] = "confirmed"

\* Analyses that began before a freeze take no frozen checkpoint back, and nobody
\* changes its question, points, node or quiz but a request that had read it as a
\* draft: once those have ended it is fixed for good.
FrozenStays ==
    [][\A p \in InState("frozen") :
        /\ points'[p].state = "frozen"
        /\ points'[p] # points[p] => \E h \in racing[p] : handlers'[h] = Idle]_vars

\* Concurrent and repeated submissions score a recording once, under one id, for
\* the checkpoint it was made for and with a quiz of it; the learner's count never
\* exceeds what was scored, though two that overlap may count once.
ScoredOnce ==
    /\ \A x, y \in attempts : x.id = y.id \/ x.recording = y.recording => x = y
    /\ \A x \in attempts : x.point = recordings[x.recording] /\ x.quiz \in 1..bank[x.point]
    /\ Count(tally) <= Cardinality(attempts) /\ (Count(tally) = 0 => attempts = {})

\* An analysis ends and lets the next one begin, unless its process died or the
\* database refused its own status: then it stays active for good.
AnalysisSettles ==
    \A j \in Jobs : Active(j) /\ jobs[j].alive ~> ~Active(j) \/ restarts > 0 \/ jobs[j].refused
=============================================================================
