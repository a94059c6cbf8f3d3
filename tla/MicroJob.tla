------------------------------ MODULE MicroJob ------------------------------
(***************************************************************************)
(* Voice recordings and the external detector.  A recording is uploaded    *)
(* alone or in a mentor's batch; a background task of the same response    *)
(* submits it to the detector and then has it transcribed; polls of the    *)
(* web page and callbacks of the detector bring its events in.             *)
(*                                                                         *)
(* One thread is one request of the API server with the background tasks   *)
(* Starlette runs after its response, one after the other.  A handler is   *)
(* cut where it waits for another service: the row it read may be stale    *)
(* when it commits, and SQLAlchemy then writes the columns it changed.     *)
(* "processing" is not told apart from "queued": no guard does.            *)
(***************************************************************************)
EXTENDS Naturals, FiniteSets

CONSTANTS
    Recordings,    \* dedupe keys: an audio file in its scope
    NoRecording,
    NoJob,         \* the recording has not been uploaded
    Externals,     \* the detector's job ids
    NoExternal,
    Threads,       \* requests (and their tasks) in progress at a time
    DetectorKinds, \* the services that may be deployed: "real", "mock"
    MaxBatch,      \* recordings of one upload
    MaxFailures,   \* bound: outages and malformed answers
    MaxRestarts    \* bound: restarts of the API server or the detector

ASSUME MicroAssumption ==
    /\ NoExternal \notin Externals
    /\ IsFiniteSet(Recordings) /\ NoRecording \notin Recordings
    /\ DetectorKinds \subseteq {"real", "mock"}
    /\ MaxBatch \in Nat /\ MaxFailures \in Nat /\ MaxRestarts \in Nat

VARIABLES
    kind,      \* which detector is deployed
    jobs,      \* table micro_detection_jobs
    events,    \* table micro_representation_events: whose events are stored
    detector,  \* the detector's own jobs
    threads,
    failures,
    restarts

vars == <<kind, jobs, events, detector, threads, failures, restarts>>

-----------------------------------------------------------------------------
(* Rows and threads.                                                       *)

Statuses == {"awaiting_detector", "queued", "completed", "failed"}
SyncStatuses == {"pending", "synced", "failed"}
Transcriptions == {"pending", "processing", "completed", "unavailable", "failed"}

\* fresh: updated_at lies within MICRO_SUBMISSION_LEASE_SECONDS.
JobRow == [status : Statuses, ext : Externals \union {NoExternal},
           sync : SyncStatuses, fresh : BOOLEAN, asr : Transcriptions]

ASSUME RowAssumption == NoJob \notin JobRow

NewJob == [status |-> "queued", ext |-> NoExternal, sync |-> "pending",
           fresh |-> TRUE, asr |-> "pending"]

DetectorJob == [state : {"absent", "queued", "completed", "failed"},
                rec : Recordings \union {NoRecording}]

Answers == {"none", "queued", "completed", "unsynced", "failed", "rejected",
            "transient", "contract", "unavailable"}

Pcs == {"idle", "next", "submit", "bind", "transcribe", "asr", "fetch", "store"}

\* row is the row as the thread read it, stored whether it found the events
\* of ext in the table; todo are the recordings of the tasks still to run.
Thread == [pc : Pcs, rec : Recordings \union {NoRecording},
           todo : SUBSET Recordings, row : JobRow \union {NoJob},
           ext : Externals \union {NoExternal}, answer : Answers,
           stored : BOOLEAN]

Idle == [pc |-> "idle", rec |-> NoRecording, todo |-> {}, row |-> NoJob,
         ext |-> NoExternal, answer |-> "none", stored |-> FALSE]

Known(r) == jobs[r] # NoJob

\* The recordings a thread has yet to submit.
Owed(t) == threads[t].todo
             \union (IF threads[t].pc \in {"submit", "bind"}
                     THEN {threads[t].rec} ELSE {})

\* The commit of a row: only the columns that differ from what was read are
\* written; a write renews updated_at.
Written(now, read, new) == IF new # read THEN new ELSE now

Merge(now, read, new) ==
    [status |-> Written(now.status, read.status, new.status),
     ext    |-> Written(now.ext, read.ext, new.ext),
     sync   |-> Written(now.sync, read.sync, new.sync),
     asr    |-> Written(now.asr, read.asr, new.asr),
     fresh  |-> now.fresh \/ new # read]

(* What an answer of the detector makes of a row.                          *)
Applied(row, answer, e) ==
    CASE answer = "queued"    -> [row EXCEPT !.status = "queued", !.ext = e]
      [] answer = "failed"    -> [row EXCEPT !.status = "failed", !.ext = e]
      [] answer = "completed" -> [row EXCEPT !.status = "completed", !.ext = e,
                                             !.sync = "synced"]
      [] answer = "unsynced"  -> [row EXCEPT !.status = "completed", !.ext = e,
                                             !.sync = "failed"]
      [] answer = "rejected"  -> [row EXCEPT !.status = "failed", !.ext = e,
                                             !.sync = "failed"]
      [] answer = "transient" -> [row EXCEPT !.status = "awaiting_detector"]
      [] answer = "contract"  -> [row EXCEPT !.status = "failed"]
      [] answer = "unavailable" ->
            IF row.status = "completed" THEN [row EXCEPT !.sync = "failed"] ELSE row

-----------------------------------------------------------------------------
(* Uploads and retries.                                                    *)

\* create_micro_job (one recording), create_mentor_batch (several, stored in
\* one transaction): rows for the recordings seen for the first time, and a
\* background task for each.
Upload(t) ==
    \E S \in SUBSET {r \in Recordings : ~Known(r)} :
        /\ threads[t] = Idle
        /\ S # {} /\ Cardinality(S) <= MaxBatch
        /\ jobs' = [r \in Recordings |-> IF r \in S THEN NewJob ELSE jobs[r]]
        /\ threads' = [threads EXCEPT ![t] = [Idle EXCEPT !.pc = "next", !.todo = S]]
        /\ UNCHANGED <<kind, events, detector, failures, restarts>>

\* Mutants of Retryable: without the lease; only what was given up.
Retryable_NoLease(r) ==
    /\ Known(r) /\ jobs[r].ext = NoExternal
    /\ jobs[r].status \in {"awaiting_detector", "queued"}
Retryable_AwaitingOnly(r) ==
    /\ Known(r) /\ jobs[r].ext = NoExternal
    /\ jobs[r].status = "awaiting_detector"

\* The conditional UPDATE of queue_awaiting_micro_job_retry.
Retryable(r) ==
    /\ Known(r)
    /\ jobs[r].ext = NoExternal
    /\ \/ jobs[r].status = "awaiting_detector"
       \/ jobs[r].status = "queued" /\ ~jobs[r].fresh

\* A poll of a job without an external id, or a repeated upload of its
\* recording, submits it again.
Requeue(t, r) ==
    /\ threads[t] = Idle
    /\ Retryable(r)
    /\ jobs' = [jobs EXCEPT ![r].status = "queued", ![r].fresh = TRUE]
    /\ threads' = [threads EXCEPT ![t] = [Idle EXCEPT !.pc = "next", !.todo = {r}]]
    /\ UNCHANGED <<kind, events, detector, failures, restarts>>

\* A task that waits for another of its batch to be submitted and transcribed.
Waiting(t, r) == r \in threads[t].todo /\ threads[t].pc # "next"

\* 60 seconds without a write.  A submission that has begun, or need not wait,
\* ends sooner: the lease is 30 seconds longer than the timeout of the call.
\* One that waits in a batch has no such bound.
LeaseExpires(r) ==
    /\ Known(r) /\ jobs[r].fresh
    /\ \A t \in Threads : r \in Owed(t) => Waiting(t, r)
    /\ jobs' = [jobs EXCEPT ![r].fresh = FALSE]
    /\ UNCHANGED <<kind, events, detector, threads, failures, restarts>>

-----------------------------------------------------------------------------
(* The background task: submit_micro_job, then transcribe_micro_job.       *)

\* submit_micro_job reads the row; it does not look at its status.
BeginTask(t) ==
    /\ threads[t].pc = "next"
    /\ \E r \in threads[t].todo :
        threads' = [threads EXCEPT ![t].pc = "submit", ![t].rec = r,
                                   ![t].todo = @ \ {r}, ![t].row = jobs[r]]
    /\ UNCHANGED <<kind, jobs, events, detector, failures, restarts>>

\* The next recording of the batch, or the end of the request.
EndTask(t) ==
    /\ threads[t].pc = "next" /\ threads[t].todo = {}
    /\ threads' = [threads EXCEPT ![t] = Idle]
    /\ UNCHANGED <<kind, jobs, events, detector, failures, restarts>>

Answered(t, answer, e, stored) ==
    threads' = [threads EXCEPT ![t].answer = answer, ![t].ext = e, ![t].stored = stored,
                               ![t].pc = IF @ = "submit" THEN "bind" ELSE "store"]

\* The mock derives its job id from the recording, the real service draws it.
NewIds(r) ==
    LET same == {e \in Externals : detector[e].rec = r /\ kind = "mock"}
    IN IF same # {} THEN same ELSE {e \in Externals : detector[e].rec = NoRecording}

\* POST /v1/detection/jobs: the mock is done at once, the real one queues.
Accept(e, r) ==
    detector' = [detector EXCEPT ![e] =
        [state |-> IF kind = "mock" THEN "completed" ELSE "queued", rec |-> r]]

\* The detector takes the recording; a completed job's events are fetched in
\* the same step of submit_micro_job.
SubmitAccepted(t) ==
    /\ threads[t].pc = "submit"
    /\ \E e \in NewIds(threads[t].rec) :
        /\ Accept(e, threads[t].rec)
        /\ IF kind = "mock"
           THEN Answered(t, "completed", e, e \in events[threads[t].rec])
           ELSE Answered(t, "queued", e, FALSE)
    /\ UNCHANGED <<kind, jobs, events, failures, restarts>>

\* The detector takes it, but ECHO never learns: the answer is lost
\* (temporary), malformed (final), or its events cannot be had.
SubmitGarbled(t) ==
    /\ threads[t].pc = "submit" /\ failures < MaxFailures
    /\ \E e \in NewIds(threads[t].rec) :
        /\ Accept(e, threads[t].rec)
        /\ \/ \E answer \in {"transient", "contract"} : Answered(t, answer, NoExternal, FALSE)
           \/ /\ kind = "mock"
              /\ \E answer \in {"unsynced", "rejected"} : Answered(t, answer, e, FALSE)
    /\ failures' = failures + 1
    /\ UNCHANGED <<kind, jobs, events, restarts>>

\* The detector cannot be reached (temporary) or refuses (final).
SubmitRefused(t) ==
    /\ threads[t].pc = "submit" /\ failures < MaxFailures
    /\ \E answer \in {"transient", "contract"} : Answered(t, answer, NoExternal, FALSE)
    /\ failures' = failures + 1
    /\ UNCHANGED <<kind, jobs, events, detector, restarts>>

\* Another request stored the same events since this one looked.
EventConflict(t) ==
    /\ threads[t].answer = "completed" /\ ~threads[t].stored
    /\ threads[t].ext \in events[threads[t].rec]

\* The commit of what the detector answered; an insert of events that another
\* request committed meanwhile rolls it back.
Commit(t) ==
    LET self == threads[t]
        new  == Applied(self.row, self.answer, self.ext)
    IN IF EventConflict(t) THEN UNCHANGED <<jobs, events>>
       ELSE /\ jobs' = [jobs EXCEPT ![self.rec] = Merge(@, self.row, new)]
            /\ events' = IF self.answer = "completed"
                         THEN [events EXCEPT ![self.rec] = @ \union {self.ext}]
                         ELSE events

\* The error of a failed insert ends the whole list of tasks.
SubmitCommit(t) ==
    /\ threads[t].pc = "bind"
    /\ Commit(t)
    /\ threads' = [threads EXCEPT ![t] =
          IF EventConflict(t) THEN Idle
          ELSE [Idle EXCEPT !.pc = "transcribe", !.rec = threads[t].rec, !.todo = threads[t].todo]]
    /\ UNCHANGED <<kind, detector, failures, restarts>>

\* transcribe_micro_job: a finished transcription is left alone.
TranscribeBegin(t) ==
    /\ threads[t].pc = "transcribe"
    /\ IF jobs[threads[t].rec].asr = "completed"
       THEN /\ threads' = [threads EXCEPT ![t].pc = "next", ![t].rec = NoRecording]
            /\ UNCHANGED jobs
       ELSE /\ threads' = [threads EXCEPT ![t].pc = "asr"]
            /\ jobs' = [jobs EXCEPT ![threads[t].rec].asr = "processing",
                                    ![threads[t].rec].fresh = TRUE]
    /\ UNCHANGED <<kind, events, detector, failures, restarts>>

\* The row was expired by the commit before, so the outcome is written
\* whatever the row says by now.
TranscribeEnd(t) ==
    /\ threads[t].pc = "asr"
    /\ \/ /\ jobs' = [jobs EXCEPT ![threads[t].rec].asr = "completed",
                                   ![threads[t].rec].fresh = TRUE]
          /\ UNCHANGED failures
       \/ \E outcome \in {"unavailable", "failed"} :
          /\ failures < MaxFailures /\ failures' = failures + 1
          /\ jobs' = [jobs EXCEPT ![threads[t].rec].asr = outcome,
                                  ![threads[t].rec].fresh = TRUE]
    /\ threads' = [threads EXCEPT ![t].pc = "next", ![t].rec = NoRecording]
    /\ UNCHANGED <<kind, events, detector, restarts>>

-----------------------------------------------------------------------------
(* Polls: get_micro_job of a job that has an external id.                  *)

Settled(r) ==
    /\ Known(r)
    /\ \/ jobs[r].status = "failed"
       \/ jobs[r].status = "completed" /\ jobs[r].sync = "synced"

Poll(t, r) ==
    /\ threads[t] = Idle
    /\ Known(r) /\ jobs[r].ext # NoExternal /\ ~Settled(r)
    /\ threads' = [threads EXCEPT ![t] =
          [Idle EXCEPT !.pc = "fetch", !.rec = r, !.row = jobs[r], !.ext = jobs[r].ext]]
    /\ UNCHANGED <<kind, jobs, events, detector, failures, restarts>>

\* The answer of GET jobs/{id}, with GET jobs/{id}/events when it is completed.
PollAnswered(t) ==
    LET e == threads[t].ext
    IN /\ threads[t].pc = "fetch"
       /\ \/ /\ detector[e].state \in {"queued", "failed"}
             /\ Answered(t, detector[e].state, e, FALSE)
          \/ /\ detector[e].state = "completed"
             /\ Answered(t, "completed", e, e \in events[threads[t].rec])
          \/ /\ detector[e].state = "absent"      \* 404
             /\ Answered(t, "rejected", e, FALSE)
       /\ UNCHANGED <<kind, jobs, events, detector, failures, restarts>>

\* An outage, or a completed job whose events cannot be fetched, do not fit
\* the job, or contradict the duration stored before.
PollFailed(t) ==
    LET e == threads[t].ext
    IN /\ threads[t].pc = "fetch" /\ failures < MaxFailures
       /\ \/ Answered(t, "unavailable", e, FALSE)
          \/ /\ detector[e].state = "completed"
             /\ \E answer \in {"unsynced", "rejected"} : Answered(t, answer, e, FALSE)
       /\ failures' = failures + 1
       /\ UNCHANGED <<kind, jobs, events, detector, restarts>>

PollCommit(t) ==
    /\ threads[t].pc = "store"
    /\ Commit(t)
    /\ threads' = [threads EXCEPT ![t] = Idle]
    /\ UNCHANGED <<kind, detector, failures, restarts>>

-----------------------------------------------------------------------------
(* Callbacks and the detector.                                             *)

\* Mutant of Callback: the external job is not compared.
Callback_AnyJob(e) ==
    LET r == detector[e].rec
    IN /\ detector[e].state = "completed"
       /\ Known(r) /\ jobs[r].ext # NoExternal /\ jobs[r].status # "failed"
       /\ jobs' = [jobs EXCEPT ![r].status = "completed", ![r].sync = "synced",
                               ![r].fresh = TRUE]
       /\ events' = [events EXCEPT ![r] = @ \union {e}]
       /\ UNCHANGED <<kind, detector, threads, failures, restarts>>

\* ingest_micro_events: the events of e arrive at the job e was created for.
\* The 409 of an unbound or failed job changes nothing.
Callback(e) ==
    LET r == detector[e].rec
    IN /\ detector[e].state = "completed"
       /\ Known(r) /\ jobs[r].ext # NoExternal /\ jobs[r].status # "failed"
       /\ IF jobs[r].ext = e
          THEN /\ jobs' = [jobs EXCEPT ![r].status = "completed", ![r].sync = "synced",
                                       ![r].fresh = TRUE]
               /\ events' = [events EXCEPT ![r] = @ \union {e}]
          ELSE /\ jobs' = [jobs EXCEPT ![r].status = "failed", ![r].sync = "failed",
                                       ![r].fresh = TRUE]
               /\ UNCHANGED events
       /\ UNCHANGED <<kind, detector, threads, failures, restarts>>

\* _detect: the task of the real service ends.
Detect(e) ==
    /\ detector[e].state = "queued"
    /\ \/ /\ detector' = [detector EXCEPT ![e].state = "completed"]
          /\ UNCHANGED failures
       \/ /\ failures < MaxFailures /\ failures' = failures + 1
          /\ detector' = [detector EXCEPT ![e].state = "failed"]
    /\ UNCHANGED <<kind, jobs, events, threads, restarts>>

\* _restore_jobs fails what was interrupted; the mock keeps its jobs in memory.
DetectorRestart ==
    /\ restarts < MaxRestarts /\ restarts' = restarts + 1
    /\ detector' = [e \in Externals |->
          CASE kind = "mock" -> [detector[e] EXCEPT !.state = "absent"]
            [] kind = "real" /\ detector[e].state = "queued" -> [detector[e] EXCEPT !.state = "failed"]
            [] OTHER -> detector[e]]
    /\ UNCHANGED <<kind, jobs, events, threads, failures>>

\* The API server stops: requests and background tasks are gone.
Restart ==
    /\ restarts < MaxRestarts /\ restarts' = restarts + 1
    /\ threads' = [t \in Threads |-> Idle]
    /\ UNCHANGED <<kind, jobs, events, detector, failures>>

-----------------------------------------------------------------------------
Init ==
    /\ kind \in DetectorKinds
    /\ jobs = [r \in Recordings |-> NoJob]
    /\ events = [r \in Recordings |-> {}]
    /\ detector = [e \in Externals |-> [state |-> "absent", rec |-> NoRecording]]
    /\ threads = [t \in Threads |-> Idle]
    /\ failures = 0
    /\ restarts = 0

\* What a thread does once it has begun.
Work(t) ==
    \/ BeginTask(t) \/ EndTask(t)
    \/ SubmitAccepted(t) \/ SubmitGarbled(t) \/ SubmitRefused(t) \/ SubmitCommit(t)
    \/ TranscribeBegin(t) \/ TranscribeEnd(t)
    \/ PollAnswered(t) \/ PollFailed(t) \/ PollCommit(t)

Next ==
    \/ \E t \in Threads :
        \/ Upload(t) \/ Work(t)
        \/ \E r \in Recordings : Requeue(t, r) \/ Poll(t, r)
    \/ \E r \in Recordings : LeaseExpires(r)
    \/ \E e \in Externals : Callback(e) \/ Detect(e)
    \/ DetectorRestart \/ Restart

Spec == Init /\ [][Next]_vars

(* Threads and the detector run, time passes, and whoever waits for a job  *)
(* keeps polling it, as the page does after an upload.                     *)
Fairness ==
    /\ \A t \in Threads : WF_vars(Work(t))
    /\ \A e \in Externals : WF_vars(Detect(e))
    /\ \A r \in Recordings :
        /\ WF_vars(LeaseExpires(r))
        /\ SF_vars(\E t \in Threads : Requeue(t, r) \/ Poll(t, r))

FairSpec == Spec /\ Fairness

-----------------------------------------------------------------------------
(* Properties.                                                             *)

TypeOK ==
    /\ kind \in DetectorKinds
    /\ jobs \in [Recordings -> JobRow \union {NoJob}]
    /\ events \in [Recordings -> SUBSET Externals]
    /\ detector \in [Externals -> DetectorJob]
    /\ threads \in [Threads -> Thread]
    /\ failures \in 0..MaxFailures
    /\ restarts \in 0..MaxRestarts

\* No two requests submit the same recording: docs/service-contracts.md:355
\* "concurrent requests can only trigger one external submission".
OneSubmitter ==
    \A r \in Recordings, t1, t2 \in Threads :
        r \in Owed(t1) /\ r \in Owed(t2) => t1 = t2

\* A job that counts as completed and synchronized has the events of the
\* external job it names, and of no other, in the table: what is shown to the
\* learner is one detection of the recording.
EvidenceOfBound ==
    \A r \in Recordings :
        /\ events[r] # {} => events[r] = {jobs[r].ext}
        /\ Known(r) /\ jobs[r].status = "completed" /\ jobs[r].sync = "synced"
              => jobs[r].ext \in events[r]

\* A recording that was uploaded comes to an end for good, whichever answers
\* are lost, late or repeated: failed, or completed with its events.
JobSettles ==
    \A r \in Recordings : Known(r) ~> [](Settled(r))

=============================================================================
