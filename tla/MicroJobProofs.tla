----------------------------- MODULE MicroJobProofs -----------------------------
(***************************************************************************)
(* Proofs about MicroJob, for any number of recordings, requests, external *)
(* jobs, failures and restarts.  Types hold for any size of a batch; that  *)
(* a recording has one submitter, and that the stored events are those of  *)
(* the job it is bound to, when no task waits for another of its batch.    *)
(***************************************************************************)
EXTENDS MicroJob, FiniteSetTheorems, TLAPS

Uploaded == {r \in Recordings : Known(r)}

\* Answers that name an external job.
Naming == {"queued", "failed", "completed", "unsynced", "rejected"}

\* What a thread has in hand, when the recordings in known have been uploaded.
ThreadIn(u, known) ==
    /\ u \in Thread
    /\ u.todo \subseteq known
    /\ u.pc \in {"submit", "bind", "transcribe", "asr", "fetch", "store"} => u.rec \in known
    /\ u.pc \in {"submit", "bind", "fetch", "store"} => u.row \in JobRow
    /\ u.pc \in {"bind", "store"} => u.answer # "none"
    /\ u.pc \in {"fetch", "store"} => u.ext \in Externals
    /\ u.pc = "bind" /\ u.answer \in Naming => u.ext \in Externals

ThreadsIn ==
    /\ threads \in [Threads -> Thread]
    /\ \A t \in Threads : ThreadIn(threads[t], Uploaded)

DetectorIn ==
    /\ detector \in [Externals -> DetectorJob]
    /\ \A e \in Externals : detector[e].state # "absent" => detector[e].rec \in Recordings

RowsIn ==
    /\ jobs \in [Recordings -> JobRow \cup {NoJob}]
    /\ events \in [Recordings -> SUBSET Externals]

CountersIn ==
    /\ kind \in DetectorKinds /\ failures \in 0..MaxFailures /\ restarts \in 0..MaxRestarts

TInv == ThreadsIn /\ DetectorIn /\ RowsIn /\ CountersIn

LEMMA TInvMeans == TInv => TypeOK
  BY DEF TInv, ThreadsIn, DetectorIn, RowsIn, CountersIn, TypeOK

-----------------------------------------------------------------------------
(* Threads.                                                                *)

LEMMA IdleIn == ASSUME NEW known PROVE ThreadIn(Idle, known)
  BY DEF Idle, ThreadIn, Thread, Pcs, Answers

\* What was uploaded stays so.
LEMMA ThreadInGrows ==
  ASSUME NEW u, NEW known, NEW more, known \subseteq more, ThreadIn(u, known)
  PROVE  ThreadIn(u, more)
  BY DEF ThreadIn

\* One thread goes on.
LEMMA ThreadStep ==
  ASSUME TInv, Uploaded \subseteq Uploaded', NEW t \in Threads, NEW u,
         ThreadIn(u, Uploaded'), threads' = [threads EXCEPT ![t] = u]
  PROVE  ThreadsIn' /\ threads'[t] = u /\ \A s \in Threads \ {t} : threads'[s] = threads[s]
<1>1. threads \in [Threads -> Thread] /\ u \in Thread
  BY DEF TInv, ThreadsIn, ThreadIn
<1>2. /\ threads' \in [Threads -> Thread] /\ threads'[t] = u
      /\ \A s \in Threads \ {t} : threads'[s] = threads[s]
  BY <1>1
<1>3. ASSUME NEW s \in Threads
      PROVE  ThreadIn(threads'[s], Uploaded')
  <2>1. CASE s = t
    BY <1>2, <2>1
  <2>2. CASE s # t
    <3>1. ThreadIn(threads[s], Uploaded')
      BY ThreadInGrows DEF TInv, ThreadsIn
    <3>2. QED
      BY <1>2, <2>2, <3>1
  <2>3. QED
    BY <2>1, <2>2
<1>4. QED
  BY <1>2, <1>3 DEF ThreadsIn

LEMMA ThreadsStay ==
  ASSUME TInv, Uploaded \subseteq Uploaded', threads' = threads
  PROVE  ThreadsIn'
<1>1. \A t \in Threads : ThreadIn(threads[t], Uploaded')
  BY ThreadInGrows DEF TInv, ThreadsIn
<1>2. QED
  BY <1>1 DEF TInv, ThreadsIn

LEMMA UploadedStays ==
  ASSUME TInv,
         \A r \in Recordings : jobs'[r] = jobs[r] \/ jobs'[r] \in JobRow
  PROVE  /\ Uploaded \subseteq Uploaded'
         /\ \A r \in Uploaded : jobs[r] \in JobRow
  BY RowAssumption DEF TInv, RowsIn, Uploaded, Known

\* A thread is told an answer.
LEMMA AnsweredStep ==
  ASSUME TInv, NEW t \in Threads, threads[t].pc \in {"submit", "fetch"}, jobs' = jobs,
         NEW answer \in Answers, answer # "none",
         NEW e \in Externals \cup {NoExternal}, NEW stored \in BOOLEAN,
         threads[t].pc = "fetch" => e = threads[t].ext,
         threads[t].pc = "submit" /\ answer \in Naming => e \in Externals,
         Answered(t, answer, e, stored)
  PROVE  /\ ThreadsIn'
         /\ \A s \in Threads \ {t} : threads'[s] = threads[s]
         /\ threads'[t].pc = IF threads[t].pc = "submit" THEN "bind" ELSE "store"
         /\ threads'[t].rec = threads[t].rec /\ threads'[t].row = threads[t].row
         /\ threads'[t].todo = threads[t].todo /\ threads'[t].ext = e
<1> DEFINE to == IF threads[t].pc = "submit" THEN "bind" ELSE "store"
           u == [threads[t] EXCEPT !.answer = answer, !.ext = e, !.stored = stored, !.pc = to]
<1>1. threads \in [Threads -> Thread] /\ threads[t] \in Thread /\ ThreadIn(threads[t], Uploaded)
  BY DEF TInv, ThreadsIn
<1>2. threads' = [threads EXCEPT ![t] = u]
  BY <1>1 DEF Answered
<1>3. /\ u \in Thread /\ u.pc = to /\ u.rec = threads[t].rec /\ u.row = threads[t].row
      /\ u.todo = threads[t].todo /\ u.ext = e /\ u.answer = answer
  BY <1>1 DEF Thread, Pcs
<1> HIDE DEF u
<1>4. ThreadIn(u, Uploaded)
  BY <1>1, <1>3 DEF ThreadIn
<1>5. Uploaded' = Uploaded
  BY DEF Uploaded, Known
<1>6. ThreadsIn' /\ threads'[t] = u /\ \A s \in Threads \ {t} : threads'[s] = threads[s]
  BY <1>2, <1>4, <1>5, ThreadStep
<1>7. QED
  BY <1>3, <1>6

-----------------------------------------------------------------------------
(* Rows.                                                                   *)

\* One row is written.
LEMMA RowStep ==
  ASSUME TInv, NEW r \in Recordings, NEW new \in JobRow,
         jobs' = [jobs EXCEPT ![r] = new]
  PROVE  /\ jobs' \in [Recordings -> JobRow \cup {NoJob}]
         /\ jobs'[r] = new /\ \A x \in Recordings \ {r} : jobs'[x] = jobs[x]
         /\ Uploaded \subseteq Uploaded'
<1>1. /\ jobs' \in [Recordings -> JobRow \cup {NoJob}]
      /\ jobs'[r] = new /\ \A x \in Recordings \ {r} : jobs'[x] = jobs[x]
  BY DEF TInv, RowsIn
<1>2. QED
  BY <1>1, UploadedStays

LEMMA UploadedRow ==
  ASSUME TInv, NEW r \in Uploaded
  PROVE  r \in Recordings /\ jobs[r] \in JobRow
  BY DEF TInv, RowsIn, Uploaded, Known

\* What an answer makes of a row, and what is committed of it.
LEMMA AppliedRow ==
  ASSUME NEW row \in JobRow, NEW answer \in Answers, answer # "none",
         NEW e \in Externals \cup {NoExternal}
  PROVE  /\ Applied(row, answer, e) \in JobRow
         /\ answer \in Naming => Applied(row, answer, e).ext = e
         /\ answer \notin Naming => Applied(row, answer, e).ext = row.ext
         /\ answer # "completed" =>
                Applied(row, answer, e).sync = row.sync \/ Applied(row, answer, e).sync = "failed"
<1>1. CASE answer = "queued"
  BY <1>1 DEF Applied, JobRow, Statuses, SyncStatuses, Naming
<1>2. CASE answer = "failed"
  BY <1>2 DEF Applied, JobRow, Statuses, SyncStatuses, Naming
<1>3. CASE answer = "completed"
  BY <1>3 DEF Applied, JobRow, Statuses, SyncStatuses, Naming
<1>4. CASE answer = "unsynced"
  BY <1>4 DEF Applied, JobRow, Statuses, SyncStatuses, Naming
<1>5. CASE answer = "rejected"
  BY <1>5 DEF Applied, JobRow, Statuses, SyncStatuses, Naming
<1>6. CASE answer = "transient"
  BY <1>6 DEF Applied, JobRow, Statuses, SyncStatuses, Naming
<1>7. CASE answer = "contract"
  BY <1>7 DEF Applied, JobRow, Statuses, SyncStatuses, Naming
<1>8. CASE answer = "unavailable"
  BY <1>8 DEF Applied, JobRow, Statuses, SyncStatuses, Naming
<1>9. QED
  BY <1>1, <1>2, <1>3, <1>4, <1>5, <1>6, <1>7, <1>8 DEF Answers

LEMMA MergeRow ==
  ASSUME NEW now \in JobRow, NEW read \in JobRow, NEW new \in JobRow
  PROVE  /\ Merge(now, read, new) \in JobRow
         /\ Merge(now, read, new).ext = IF new.ext # read.ext THEN new.ext ELSE now.ext
         /\ Merge(now, read, new).sync = IF new.sync # read.sync THEN new.sync ELSE now.sync
  BY DEF Merge, Written, JobRow

-----------------------------------------------------------------------------
(* The actions keep the types.                                             *)

\* The detector takes a recording.
LEMMA AcceptIn ==
  ASSUME TInv, NEW r \in Recordings, NEW e \in Externals, Accept(e, r)
  PROVE  DetectorIn'
<1> DEFINE j == [state |-> IF kind = "mock" THEN "completed" ELSE "queued", rec |-> r]
<1>1. j \in DetectorJob /\ j.rec = r
  BY DEF DetectorJob
<1>2. detector' = [detector EXCEPT ![e] = j]
  BY DEF Accept
<1> HIDE DEF j
<1>3. detector \in [Externals -> DetectorJob]
  BY DEF TInv, DetectorIn
<1>4. /\ detector' \in [Externals -> DetectorJob]
      /\ \A x \in Externals : detector'[x] = IF x = e THEN j ELSE detector[x]
  BY <1>1, <1>2, <1>3
<1>5. QED
  BY <1>1, <1>4 DEF TInv, DetectorIn

\* The steps in which another service answers.
LEMMA ToldStep ==
  ASSUME TInv, NEW t \in Threads,
         \/ SubmitAccepted(t) \/ SubmitGarbled(t) \/ SubmitRefused(t)
         \/ PollAnswered(t) \/ PollFailed(t)
  PROVE  /\ jobs' = jobs /\ events' = events /\ DetectorIn' /\ CountersIn'
         /\ threads[t].pc \in {"submit", "fetch"}
         /\ \E answer \in Answers, e \in Externals \cup {NoExternal}, stored \in BOOLEAN :
                /\ answer # "none" /\ Answered(t, answer, e, stored)
                /\ threads[t].pc = "fetch" => e = threads[t].ext
                /\ threads[t].pc = "submit" /\ answer \in Naming => e \in Externals
<1>1. ThreadIn(threads[t], Uploaded) /\ RowsIn
  BY DEF TInv, ThreadsIn
<1>2. \A e, r : e \in NewIds(r) => e \in Externals
  BY DEF NewIds
<1>3. failures \in Nat /\ MaxFailures \in Nat /\ \A n \in Nat : n < MaxFailures => n + 1 \in 0..MaxFailures
  BY MicroAssumption DEF TInv, CountersIn
<1>4. CASE SubmitAccepted(t)
  <2>1. threads[t].pc = "submit" /\ threads[t].rec \in Recordings
    BY <1>1, <1>4 DEF SubmitAccepted, ThreadIn, Uploaded
  <2>2. PICK e \in NewIds(threads[t].rec) :
          /\ Accept(e, threads[t].rec)
          /\ IF kind = "mock"
             THEN Answered(t, "completed", e, e \in events[threads[t].rec])
             ELSE Answered(t, "queued", e, FALSE)
    BY <1>4 DEF SubmitAccepted
  <2>3. e \in Externals /\ DetectorIn'
    BY <1>2, <2>1, <2>2, AcceptIn
  <2>4. (e \in events[threads[t].rec]) \in BOOLEAN
    OBVIOUS
  <2>5. \E answer \in Answers, stored \in BOOLEAN :
            answer # "none" /\ answer \in Naming /\ Answered(t, answer, e, stored)
    BY <2>2, <2>4 DEF Answers, Naming
  <2>6. jobs' = jobs /\ events' = events /\ CountersIn'
    BY <1>4 DEF SubmitAccepted, TInv, CountersIn
  <2>7. QED
    BY <2>1, <2>3, <2>5, <2>6
<1>5. CASE SubmitGarbled(t)
  <2>1. threads[t].pc = "submit" /\ threads[t].rec \in Recordings
    BY <1>1, <1>5 DEF SubmitGarbled, ThreadIn, Uploaded
  <2>2. PICK e \in NewIds(threads[t].rec) :
          /\ Accept(e, threads[t].rec)
          /\ \/ \E answer \in {"transient", "contract"} : Answered(t, answer, NoExternal, FALSE)
             \/ /\ kind = "mock"
                /\ \E answer \in {"unsynced", "rejected"} : Answered(t, answer, e, FALSE)
    BY <1>5 DEF SubmitGarbled
  <2>3. e \in Externals /\ DetectorIn'
    BY <1>2, <2>1, <2>2, AcceptIn
  <2>4. /\ {"unsynced", "rejected"} \subseteq Answers \ {"none"}
        /\ {"transient", "contract"} \subseteq Answers \ ({"none"} \cup Naming)
    BY DEF Answers, Naming
  <2>5. \E answer \in Answers, x \in Externals \cup {NoExternal} :
            answer # "none" /\ Answered(t, answer, x, FALSE) /\ (answer \in Naming => x \in Externals)
    BY <2>2, <2>3, <2>4
  <2>6. jobs' = jobs /\ events' = events /\ CountersIn'
    BY <1>3, <1>5 DEF SubmitGarbled, TInv, CountersIn
  <2>7. QED
    BY <2>1, <2>3, <2>5, <2>6
<1>6. CASE SubmitRefused(t)
  <2>1. PICK answer \in {"transient", "contract"} : Answered(t, answer, NoExternal, FALSE)
    BY <1>6 DEF SubmitRefused
  <2>2. answer \in Answers /\ answer # "none" /\ answer \notin Naming
    BY DEF Answers, Naming
  <2>3. /\ jobs' = jobs /\ events' = events /\ CountersIn' /\ DetectorIn'
        /\ threads[t].pc = "submit"
    BY <1>3, <1>6 DEF SubmitRefused, TInv, CountersIn, DetectorIn
  <2>4. QED
    BY <2>1, <2>2, <2>3
<1>7. CASE PollAnswered(t) \/ PollFailed(t)
  <2>1. threads[t].pc = "fetch" /\ threads[t].ext \in Externals
    BY <1>1, <1>7 DEF PollAnswered, PollFailed, ThreadIn
  <2>2. \E answer \in Answers, stored \in BOOLEAN :
            answer # "none" /\ Answered(t, answer, threads[t].ext, stored)
    <3>1. CASE PollAnswered(t)
      <4>1. (threads[t].ext \in events[threads[t].rec]) \in BOOLEAN
        OBVIOUS
      <4>2. {"queued", "failed", "completed", "rejected"} \subseteq Answers \ {"none"}
        BY DEF Answers
      <4>3. \E answer \in {"queued", "failed", "completed", "rejected"}, stored \in BOOLEAN :
                Answered(t, answer, threads[t].ext, stored)
        BY <3>1, <4>1 DEF PollAnswered
      <4>4. QED
        BY <4>2, <4>3
    <3>2. CASE PollFailed(t)
      <4>1. {"unavailable", "unsynced", "rejected"} \subseteq Answers \ {"none"}
        BY DEF Answers
      <4>2. \E answer \in {"unavailable", "unsynced", "rejected"} :
                Answered(t, answer, threads[t].ext, FALSE)
        BY <3>2 DEF PollFailed
      <4>3. QED
        BY <4>1, <4>2
    <3>3. QED
      BY <1>7, <3>1, <3>2
  <2>3. jobs' = jobs /\ events' = events /\ CountersIn' /\ DetectorIn'
    BY <1>3, <1>7 DEF PollAnswered, PollFailed, TInv, CountersIn, DetectorIn
  <2>4. QED
    BY <2>1, <2>2, <2>3
<1>8. QED
  BY <1>4, <1>5, <1>6, <1>7

LEMMA ToldIn ==
  ASSUME TInv, NEW t \in Threads,
         \/ SubmitAccepted(t) \/ SubmitGarbled(t) \/ SubmitRefused(t)
         \/ PollAnswered(t) \/ PollFailed(t)
  PROVE  /\ TInv' /\ jobs' = jobs /\ events' = events
         /\ threads[t].pc \in {"submit", "fetch"}
         /\ \A s \in Threads \ {t} : threads'[s] = threads[s]
         /\ threads'[t].pc = IF threads[t].pc = "submit" THEN "bind" ELSE "store"
         /\ threads'[t].rec = threads[t].rec /\ threads'[t].row = threads[t].row
         /\ threads'[t].todo = threads[t].todo
         /\ threads[t].pc = "fetch" => threads'[t].ext = threads[t].ext
<1>1. PICK answer \in Answers, e \in Externals \cup {NoExternal}, stored \in BOOLEAN :
          /\ answer # "none" /\ Answered(t, answer, e, stored)
          /\ threads[t].pc = "fetch" => e = threads[t].ext
          /\ threads[t].pc = "submit" /\ answer \in Naming => e \in Externals
  BY ToldStep
<1>2. /\ jobs' = jobs /\ events' = events /\ DetectorIn' /\ CountersIn'
      /\ threads[t].pc \in {"submit", "fetch"}
  BY ToldStep
<1>3. RowsIn'
  BY <1>2 DEF TInv, RowsIn
<1>4. QED
  BY <1>1, <1>2, <1>3, AnsweredStep DEF TInv

\* A request that has been answered and has its tasks before it.
LEMMA NextTaskIn ==
  ASSUME NEW S \in SUBSET Recordings, NEW known, S \subseteq known
  PROVE  ThreadIn([Idle EXCEPT !.pc = "next", !.todo = S], known)
  BY DEF Idle, ThreadIn, Thread, Pcs, Answers

LEMMA UploadIn ==
  ASSUME TInv, NEW t \in Threads, Upload(t)
  PROVE  /\ TInv' /\ events' = events
         /\ \A s \in Threads \ {t} : threads'[s] = threads[s]
         /\ \E S \in SUBSET Recordings :
              /\ \A r \in S : ~Known(r)
              /\ S # {} /\ Cardinality(S) <= MaxBatch
              /\ \A r \in Recordings : jobs'[r] = IF r \in S THEN NewJob ELSE jobs[r]
              /\ threads'[t] = [Idle EXCEPT !.pc = "next", !.todo = S]
<1>1. PICK S \in SUBSET {r \in Recordings : ~Known(r)} :
        /\ S # {} /\ Cardinality(S) <= MaxBatch
        /\ jobs' = [r \in Recordings |-> IF r \in S THEN NewJob ELSE jobs[r]]
        /\ threads' = [threads EXCEPT ![t] = [Idle EXCEPT !.pc = "next", !.todo = S]]
        /\ UNCHANGED <<kind, events, detector, failures, restarts>>
  BY DEF Upload
<1> DEFINE u == [Idle EXCEPT !.pc = "next", !.todo = S]
<1>2. NewJob \in JobRow
  BY DEF NewJob, JobRow, Statuses, SyncStatuses, Transcriptions
<1>3. /\ jobs' \in [Recordings -> JobRow \cup {NoJob}]
      /\ \A r \in Recordings : jobs'[r] = IF r \in S THEN NewJob ELSE jobs[r]
  BY <1>1, <1>2 DEF TInv, RowsIn
<1>4. Uploaded \subseteq Uploaded'
  BY <1>2, <1>3, UploadedStays
<1>5. ThreadIn(u, Uploaded')
  <2>1. S \subseteq Uploaded'
    BY <1>2, <1>3, RowAssumption DEF Uploaded, Known
  <2>2. QED
    BY <2>1, NextTaskIn
<1> HIDE DEF u
<1>6. ThreadsIn' /\ threads'[t] = u /\ \A s \in Threads \ {t} : threads'[s] = threads[s]
  BY <1>1, <1>4, <1>5, ThreadStep DEF u
<1>7. TInv'
  BY <1>1, <1>3, <1>6 DEF TInv, RowsIn, DetectorIn, CountersIn
<1>8. QED
  BY <1>1, <1>3, <1>6, <1>7 DEF u

LEMMA RequeueIn ==
  ASSUME TInv, NEW t \in Threads, NEW r \in Recordings, Requeue(t, r)
  PROVE  /\ TInv' /\ events' = events
         /\ \A s \in Threads \ {t} : threads'[s] = threads[s]
         /\ threads'[t] = [Idle EXCEPT !.pc = "next", !.todo = {r}]
         /\ jobs[r] \in JobRow
         /\ jobs'[r] = [jobs[r] EXCEPT !.status = "queued", !.fresh = TRUE]
         /\ \A x \in Recordings \ {r} : jobs'[x] = jobs[x]
<1> DEFINE new == [jobs[r] EXCEPT !.status = "queued", !.fresh = TRUE]
           u == [Idle EXCEPT !.pc = "next", !.todo = {r}]
<1>1. /\ Retryable(r) /\ threads' = [threads EXCEPT ![t] = u]
      /\ UNCHANGED <<kind, events, detector, failures, restarts>>
      /\ jobs' = [jobs EXCEPT ![r] = new]
  BY DEF Requeue
<1>2. r \in Uploaded /\ jobs[r] \in JobRow
  BY <1>1, UploadedRow DEF Retryable, Uploaded
<1>3. new \in JobRow
  BY <1>2 DEF JobRow, Statuses
<1> HIDE DEF new, u
<1>4. /\ jobs' \in [Recordings -> JobRow \cup {NoJob}]
      /\ jobs'[r] = new /\ \A x \in Recordings \ {r} : jobs'[x] = jobs[x]
      /\ Uploaded \subseteq Uploaded'
  BY <1>1, <1>3, RowStep
<1>5. ThreadIn(u, Uploaded')
  BY <1>2, <1>4, NextTaskIn DEF u
<1>6. ThreadsIn' /\ threads'[t] = u /\ \A s \in Threads \ {t} : threads'[s] = threads[s]
  BY <1>1, <1>4, <1>5, ThreadStep
<1>7. TInv'
  BY <1>1, <1>4, <1>6 DEF TInv, RowsIn, DetectorIn, CountersIn
<1>8. QED
  BY <1>1, <1>2, <1>4, <1>6, <1>7 DEF new, u

LEMMA CommitIn ==
  ASSUME TInv, NEW t \in Threads, threads[t].pc \in {"bind", "store"}, Commit(t)
  PROVE  LET u == threads[t]
         IN  /\ RowsIn' /\ Uploaded \subseteq Uploaded'
             /\ u.rec \in Recordings /\ jobs[u.rec] \in JobRow /\ jobs'[u.rec] \in JobRow
             /\ \A r \in Recordings \ {u.rec} : jobs'[r] = jobs[r] /\ events'[r] = events[r]
             /\ \/ jobs' = jobs /\ events' = events
                \/ /\ jobs'[u.rec].ext = IF u.answer \in Naming /\ u.ext # u.row.ext
                                         THEN u.ext ELSE jobs[u.rec].ext
                   /\ u.answer # "completed" =>
                        jobs'[u.rec].sync = jobs[u.rec].sync \/ jobs'[u.rec].sync = "failed"
                   /\ events'[u.rec] = IF u.answer = "completed"
                                      THEN events[u.rec] \cup {u.ext} ELSE events[u.rec]
<1> DEFINE u == threads[t]
           new == Applied(u.row, u.answer, u.ext)
           row == Merge(jobs[u.rec], u.row, new)
<1>1. /\ u \in Thread /\ u.rec \in Uploaded /\ u.row \in JobRow /\ u.answer # "none"
      /\ u.answer \in Answers /\ u.ext \in Externals \cup {NoExternal}
      /\ u.answer \in Naming => u.ext \in Externals
  BY DEF TInv, ThreadsIn, ThreadIn, Thread
<1>2. u.rec \in Recordings /\ jobs[u.rec] \in JobRow
  BY <1>1, UploadedRow
<1>3. \/ jobs' = jobs /\ events' = events
      \/ /\ jobs' = [jobs EXCEPT ![u.rec] = row]
         /\ events' = IF u.answer = "completed"
                      THEN [events EXCEPT ![u.rec] = @ \cup {u.ext}] ELSE events
  BY DEF Commit
<1>4. /\ new \in JobRow
      /\ u.answer \in Naming => new.ext = u.ext
      /\ u.answer \notin Naming => new.ext = u.row.ext
      /\ u.answer # "completed" => new.sync = u.row.sync \/ new.sync = "failed"
  BY <1>1, AppliedRow
<1> HIDE DEF u, new
<1>5. /\ row \in JobRow
      /\ row.ext = IF new.ext # u.row.ext THEN new.ext ELSE jobs[u.rec].ext
      /\ row.sync = IF new.sync # u.row.sync THEN new.sync ELSE jobs[u.rec].sync
  BY <1>1, <1>2, <1>4, MergeRow
<1> HIDE DEF row
<1>6. CASE jobs' = jobs /\ events' = events
  <2>1. RowsIn' /\ Uploaded \subseteq Uploaded'
    BY <1>6 DEF TInv, RowsIn, Uploaded, Known
  <2>2. QED
    BY <1>2, <1>6, <2>1 DEF u
<1>7. CASE /\ jobs' = [jobs EXCEPT ![u.rec] = row]
           /\ events' = IF u.answer = "completed"
                        THEN [events EXCEPT ![u.rec] = @ \cup {u.ext}] ELSE events
  <2>1. /\ jobs' \in [Recordings -> JobRow \cup {NoJob}]
        /\ jobs'[u.rec] = row /\ \A x \in Recordings \ {u.rec} : jobs'[x] = jobs[x]
        /\ Uploaded \subseteq Uploaded'
    BY <1>2, <1>5, <1>7, RowStep
  <2>2. events \in [Recordings -> SUBSET Externals]
    BY DEF TInv, RowsIn
  <2>3. /\ events' \in [Recordings -> SUBSET Externals]
        /\ \A x \in Recordings \ {u.rec} : events'[x] = events[x]
        /\ events'[u.rec] = IF u.answer = "completed"
                           THEN events[u.rec] \cup {u.ext} ELSE events[u.rec]
    <3>1. CASE u.answer = "completed"
      <4>1. u.ext \in Externals
        BY <1>1, <3>1 DEF Naming
      <4>2. events' = [events EXCEPT ![u.rec] = @ \cup {u.ext}]
        BY <1>7, <3>1
      <4>3. QED
        BY <1>2, <2>2, <3>1, <4>1, <4>2
    <3>2. CASE u.answer # "completed"
      BY <1>7, <2>2, <3>2
    <3>3. QED
      BY <3>1, <3>2
  <2>4. row.ext = IF u.answer \in Naming /\ u.ext # u.row.ext THEN u.ext ELSE jobs[u.rec].ext
    BY <1>4, <1>5
  <2>5. u.answer # "completed" => row.sync = jobs[u.rec].sync \/ row.sync = "failed"
    BY <1>4, <1>5
  <2>6. QED
    BY <1>2, <1>5, <2>1, <2>3, <2>4, <2>5 DEF u, RowsIn
<1>8. QED
  BY <1>3, <1>6, <1>7

\* The steps that only move a thread.
LEMMA MovedIn ==
  ASSUME TInv, NEW t \in Threads,
         \/ BeginTask(t) \/ EndTask(t) \/ \E r \in Recordings : Poll(t, r)
  PROVE  /\ TInv' /\ jobs' = jobs /\ events' = events
         /\ \A s \in Threads \ {t} : threads'[s] = threads[s]
         /\ \/ /\ threads[t].pc = "next" /\ threads'[t].pc = "submit"
               /\ threads'[t].rec \in threads[t].todo
               /\ threads'[t].todo = threads[t].todo \ {threads'[t].rec}
               /\ threads'[t].row = jobs[threads'[t].rec]
            \/ threads'[t] = Idle
            \/ /\ threads'[t].pc = "fetch" /\ threads'[t].todo = {}
               /\ threads'[t].row = jobs[threads'[t].rec]
               /\ threads'[t].ext = jobs[threads'[t].rec].ext
<1>1. /\ threads \in [Threads -> Thread] /\ ThreadIn(threads[t], Uploaded) /\ threads[t] \in Thread
  BY DEF TInv, ThreadsIn
<1>2. /\ UNCHANGED <<kind, jobs, events, detector, failures, restarts>>
      /\ jobs' = jobs /\ Uploaded' = Uploaded
  BY DEF BeginTask, EndTask, Poll, Uploaded, Known
<1>3. \E u : /\ threads' = [threads EXCEPT ![t] = u] /\ ThreadIn(u, Uploaded)
             /\ \/ /\ threads[t].pc = "next" /\ u.pc = "submit"
                   /\ u.rec \in threads[t].todo /\ u.todo = threads[t].todo \ {u.rec}
                   /\ u.row = jobs[u.rec]
                \/ u = Idle
                \/ /\ u.pc = "fetch" /\ u.todo = {}
                   /\ u.row = jobs[u.rec] /\ u.ext = jobs[u.rec].ext
  <2>1. CASE BeginTask(t)
    <3>1. PICK r \in threads[t].todo :
            threads' = [threads EXCEPT ![t].pc = "submit", ![t].rec = r,
                                       ![t].todo = @ \ {r}, ![t].row = jobs[r]]
      BY <2>1 DEF BeginTask
    <3> DEFINE u == [threads[t] EXCEPT !.pc = "submit", !.rec = r, !.todo = @ \ {r}, !.row = jobs[r]]
    <3>2. r \in Uploaded /\ r \in Recordings /\ jobs[r] \in JobRow
      BY <1>1, UploadedRow DEF ThreadIn, Uploaded
    <3>3. threads' = [threads EXCEPT ![t] = u]
      BY <1>1, <3>1
    <3>4. /\ u \in Thread /\ u.pc = "submit" /\ u.rec = r
          /\ u.todo = threads[t].todo \ {r} /\ u.row = jobs[r]
      BY <1>1, <3>2 DEF Thread, Pcs
    <3> HIDE DEF u
    <3>5. ThreadIn(u, Uploaded)
      BY <1>1, <3>2, <3>4 DEF ThreadIn
    <3>6. QED
      BY <2>1, <3>3, <3>4, <3>5 DEF BeginTask
  <2>2. CASE EndTask(t)
    BY <2>2, IdleIn DEF EndTask
  <2>3. ASSUME NEW r \in Recordings, Poll(t, r)
        PROVE  \E u : /\ threads' = [threads EXCEPT ![t] = u] /\ ThreadIn(u, Uploaded)
                      /\ u.pc = "fetch" /\ u.todo = {}
                      /\ u.row = jobs[u.rec] /\ u.ext = jobs[u.rec].ext
    <3> DEFINE u == [Idle EXCEPT !.pc = "fetch", !.rec = r, !.row = jobs[r], !.ext = jobs[r].ext]
    <3>1. threads' = [threads EXCEPT ![t] = u] /\ r \in Uploaded /\ jobs[r].ext # NoExternal
      BY <2>3 DEF Poll, Uploaded
    <3>2. jobs[r] \in JobRow /\ jobs[r].ext \in Externals
      BY <3>1, UploadedRow DEF JobRow
    <3>3. /\ u \in Thread /\ u.pc = "fetch" /\ u.todo = {} /\ u.rec = r
          /\ u.row = jobs[r] /\ u.ext = jobs[r].ext
      BY <3>2 DEF Idle, Thread, Pcs, Answers
    <3> HIDE DEF u
    <3>4. ThreadIn(u, Uploaded)
      BY <3>1, <3>2, <3>3 DEF ThreadIn
    <3>5. QED
      BY <3>1, <3>3, <3>4
  <2>4. QED
    BY <2>1, <2>2, <2>3
<1>4. PICK u : /\ threads' = [threads EXCEPT ![t] = u] /\ ThreadIn(u, Uploaded)
               /\ \/ /\ threads[t].pc = "next" /\ u.pc = "submit"
                     /\ u.rec \in threads[t].todo /\ u.todo = threads[t].todo \ {u.rec}
                     /\ u.row = jobs[u.rec]
                  \/ u = Idle
                  \/ /\ u.pc = "fetch" /\ u.todo = {}
                     /\ u.row = jobs[u.rec] /\ u.ext = jobs[u.rec].ext
  BY <1>3
<1>5. ThreadsIn' /\ threads'[t] = u /\ \A s \in Threads \ {t} : threads'[s] = threads[s]
  BY <1>2, <1>4, ThreadStep
<1>6. TInv'
  BY <1>2, <1>5 DEF TInv, RowsIn, DetectorIn, CountersIn
<1>7. QED
  BY <1>2, <1>4, <1>5, <1>6

\* The steps that commit an answer.
LEMMA CommitsIn ==
  ASSUME TInv, NEW t \in Threads, SubmitCommit(t) \/ PollCommit(t)
  PROVE  /\ TInv' /\ Commit(t)
         /\ \A s \in Threads \ {t} : threads'[s] = threads[s]
         /\ threads[t].pc \in {"bind", "store"}
         /\ \/ threads'[t] = Idle
            \/ threads'[t].pc = "transcribe" /\ threads'[t].todo = threads[t].todo
<1>1. /\ threads \in [Threads -> Thread] /\ ThreadIn(threads[t], Uploaded) /\ threads[t] \in Thread
  BY DEF TInv, ThreadsIn
<1>2. /\ Commit(t) /\ threads[t].pc \in {"bind", "store"}
      /\ UNCHANGED <<kind, detector, failures, restarts>>
  BY DEF SubmitCommit, PollCommit
<1>3. RowsIn' /\ Uploaded \subseteq Uploaded'
  BY <1>2, CommitIn
<1> DEFINE v == [Idle EXCEPT !.pc = "transcribe", !.rec = threads[t].rec, !.todo = threads[t].todo]
<1>4. \/ threads' = [threads EXCEPT ![t] = Idle]
      \/ threads' = [threads EXCEPT ![t] = v]
  BY <1>2 DEF SubmitCommit, PollCommit
<1>5. ThreadIn(v, Uploaded') /\ v.pc = "transcribe" /\ v.todo = threads[t].todo
  <2>1. threads[t].rec \in Uploaded' /\ threads[t].todo \subseteq Uploaded'
    BY <1>1, <1>2, <1>3 DEF ThreadIn
  <2>2. v \in Thread /\ v.pc = "transcribe" /\ v.todo = threads[t].todo /\ v.rec = threads[t].rec
    BY <1>1 DEF Idle, Thread, Pcs, Answers
  <2> HIDE DEF v
  <2>3. QED
    BY <2>1, <2>2 DEF ThreadIn
<1> HIDE DEF v
<1>6. PICK u \in {Idle, v} : threads' = [threads EXCEPT ![t] = u]
  BY <1>4
<1>7. ThreadIn(u, Uploaded')
  BY <1>5, IdleIn
<1>8. ThreadsIn' /\ threads'[t] = u /\ \A s \in Threads \ {t} : threads'[s] = threads[s]
  BY <1>3, <1>6, <1>7, ThreadStep
<1>9. TInv'
  BY <1>2, <1>3, <1>8 DEF TInv, DetectorIn, CountersIn
<1>10. QED
  BY <1>2, <1>5, <1>6, <1>8, <1>9

\* The steps that transcribe.
LEMMA TranscribesIn ==
  ASSUME TInv, NEW t \in Threads, TranscribeBegin(t) \/ TranscribeEnd(t)
  PROVE  /\ TInv' /\ events' = events
         /\ \A s \in Threads \ {t} : threads'[s] = threads[s]
         /\ threads[t].pc \in {"transcribe", "asr"} /\ threads'[t].pc \in {"asr", "next"}
         /\ threads'[t].todo = threads[t].todo
         /\ \A r \in Recordings :
              \/ jobs'[r] = jobs[r]
              \/ /\ jobs[r] \in JobRow /\ jobs'[r] \in JobRow
                 /\ jobs'[r].ext = jobs[r].ext /\ jobs'[r].status = jobs[r].status
                 /\ jobs'[r].sync = jobs[r].sync /\ jobs'[r].fresh
<1> DEFINE q == threads[t].rec
           to(asr) == [jobs[q] EXCEPT !.asr = asr, !.fresh = TRUE]
           u == [threads[t] EXCEPT !.pc = "asr"]
           v == [threads[t] EXCEPT !.pc = "next", !.rec = NoRecording]
<1>1. /\ threads \in [Threads -> Thread] /\ ThreadIn(threads[t], Uploaded) /\ threads[t] \in Thread
      /\ threads[t].pc \in {"transcribe", "asr"}
  BY DEF TInv, ThreadsIn, TranscribeBegin, TranscribeEnd
<1>2. q \in Uploaded /\ q \in Recordings /\ jobs[q] \in JobRow
  BY <1>1, UploadedRow DEF ThreadIn
<1>3. failures \in Nat /\ MaxFailures \in Nat /\ \A n \in Nat : n < MaxFailures => n + 1 \in 0..MaxFailures
  BY MicroAssumption DEF TInv, CountersIn
<1>4. /\ UNCHANGED <<kind, events, detector, restarts>> /\ failures' \in 0..MaxFailures
      /\ \/ threads' = [threads EXCEPT ![t] = u]
         \/ threads' = [threads EXCEPT ![t] = v]
      /\ \/ jobs' = jobs
         \/ \E asr \in Transcriptions : jobs' = [jobs EXCEPT ![q] = to(asr)]
  <2>1. jobs \in [Recordings -> JobRow \cup {NoJob}] /\ failures \in 0..MaxFailures
    BY DEF TInv, RowsIn, CountersIn
  <2>2. {"processing", "completed", "unavailable", "failed"} \subseteq Transcriptions
    BY DEF Transcriptions
  <2>3. CASE TranscribeBegin(t)
    <3>1. UNCHANGED <<kind, events, detector, restarts>> /\ failures' = failures
      BY <2>3 DEF TranscribeBegin
    <3>2. \/ threads' = [threads EXCEPT ![t] = v] /\ jobs' = jobs
          \/ threads' = [threads EXCEPT ![t] = u] /\ jobs' = [jobs EXCEPT ![q] = to("processing")]
      BY <1>1, <1>2, <2>1, <2>3 DEF TranscribeBegin
    <3>3. QED
      BY <2>1, <2>2, <3>1, <3>2
  <2>4. CASE TranscribeEnd(t)
    <3>1. /\ UNCHANGED <<kind, events, detector, restarts>> /\ failures' \in 0..MaxFailures
          /\ threads' = [threads EXCEPT ![t] = v]
      BY <1>1, <1>3, <2>1, <2>4 DEF TranscribeEnd
    <3>2. \E asr \in {"completed", "unavailable", "failed"} : jobs' = [jobs EXCEPT ![q] = to(asr)]
      BY <1>2, <2>1, <2>4 DEF TranscribeEnd
    <3>3. QED
      BY <2>2, <3>1, <3>2
  <2>5. QED
    BY <2>3, <2>4
<1>5. \A asr \in Transcriptions :
        /\ to(asr) \in JobRow /\ to(asr).ext = jobs[q].ext /\ to(asr).status = jobs[q].status
        /\ to(asr).sync = jobs[q].sync /\ to(asr).fresh
  BY <1>2 DEF JobRow
<1> HIDE DEF to
<1>6. /\ jobs' \in [Recordings -> JobRow \cup {NoJob}] /\ Uploaded \subseteq Uploaded'
      /\ \A r \in Recordings :
              \/ jobs'[r] = jobs[r]
              \/ /\ jobs[r] \in JobRow /\ jobs'[r] \in JobRow
                 /\ jobs'[r].ext = jobs[r].ext /\ jobs'[r].status = jobs[r].status
                 /\ jobs'[r].sync = jobs[r].sync /\ jobs'[r].fresh
  <2>1. CASE jobs' = jobs
    BY <2>1 DEF TInv, RowsIn, Uploaded, Known
  <2>2. ASSUME NEW asr \in Transcriptions, jobs' = [jobs EXCEPT ![q] = to(asr)]
        PROVE  /\ jobs' \in [Recordings -> JobRow \cup {NoJob}] /\ Uploaded \subseteq Uploaded'
               /\ jobs'[q] = to(asr) /\ \A x \in Recordings \ {q} : jobs'[x] = jobs[x]
    BY <1>2, <1>5, <2>2, RowStep
  <2>3. QED
    BY <1>2, <1>4, <1>5, <2>1, <2>2
<1>7. /\ ThreadIn(u, Uploaded') /\ u.pc = "asr" /\ u.todo = threads[t].todo
      /\ ThreadIn(v, Uploaded') /\ v.pc = "next" /\ v.todo = threads[t].todo
  <2>1. threads[t].rec \in Uploaded' /\ threads[t].todo \subseteq Uploaded'
    BY <1>1, <1>2, <1>6 DEF ThreadIn
  <2>2. /\ u \in Thread /\ u.pc = "asr" /\ u.todo = threads[t].todo /\ u.rec = threads[t].rec
        /\ v \in Thread /\ v.pc = "next" /\ v.todo = threads[t].todo
    BY <1>1 DEF Thread, Pcs
  <2> HIDE DEF u, v
  <2>3. QED
    BY <2>1, <2>2 DEF ThreadIn
<1> HIDE DEF u, v
<1>8. PICK w \in {u, v} : threads' = [threads EXCEPT ![t] = w]
  BY <1>4
<1>9. ThreadsIn' /\ threads'[t] = w /\ \A s \in Threads \ {t} : threads'[s] = threads[s]
  BY <1>6, <1>7, <1>8, ThreadStep
<1>10. TInv'
  BY <1>4, <1>6, <1>9 DEF TInv, RowsIn, DetectorIn, CountersIn
<1>11. QED
  BY <1>1, <1>4, <1>6, <1>7, <1>8, <1>9, <1>10

LEMMA LeaseExpiresIn ==
  ASSUME TInv, NEW r \in Recordings, LeaseExpires(r)
  PROVE  /\ TInv' /\ events' = events /\ threads' = threads
         /\ jobs[r] \in JobRow /\ jobs'[r] = [jobs[r] EXCEPT !.fresh = FALSE]
         /\ \A x \in Recordings \ {r} : jobs'[x] = jobs[x]
<1> DEFINE new == [jobs[r] EXCEPT !.fresh = FALSE]
<1>1. /\ r \in Uploaded /\ jobs' = [jobs EXCEPT ![r] = new]
      /\ UNCHANGED <<kind, events, detector, threads, failures, restarts>>
  BY DEF LeaseExpires, Uploaded
<1>2. jobs[r] \in JobRow
  BY <1>1, UploadedRow
<1>3. new \in JobRow
  BY <1>2 DEF JobRow
<1> HIDE DEF new
<1>4. /\ jobs' \in [Recordings -> JobRow \cup {NoJob}]
      /\ jobs'[r] = new /\ \A x \in Recordings \ {r} : jobs'[x] = jobs[x]
      /\ Uploaded \subseteq Uploaded'
  BY <1>1, <1>3, RowStep
<1>5. ThreadsIn'
  BY <1>1, <1>4, ThreadsStay
<1>6. TInv'
  BY <1>1, <1>4, <1>5 DEF TInv, RowsIn, DetectorIn, CountersIn
<1>7. QED
  BY <1>1, <1>2, <1>4, <1>6 DEF new

\* A callback finds its job bound to it and stores its events, or fails the job.
LEMMA CallbackIn ==
  ASSUME TInv, NEW e \in Externals, Callback(e)
  PROVE  LET r == detector[e].rec
         IN  /\ TInv' /\ threads' = threads
             /\ r \in Recordings /\ jobs[r] \in JobRow /\ jobs'[r] \in JobRow
             /\ jobs[r].ext # NoExternal /\ jobs'[r].ext = jobs[r].ext
             /\ \A x \in Recordings \ {r} : jobs'[x] = jobs[x] /\ events'[x] = events[x]
             /\ \/ jobs[r].ext = e /\ events'[r] = events[r] \cup {e}
                \/ events'[r] = events[r] /\ jobs'[r].sync = "failed"
<1> DEFINE r == detector[e].rec
           good == [jobs[r] EXCEPT !.status = "completed", !.sync = "synced", !.fresh = TRUE]
           bad == [jobs[r] EXCEPT !.status = "failed", !.sync = "failed", !.fresh = TRUE]
<1>1. r \in Uploaded /\ r \in Recordings /\ jobs[r].ext # NoExternal
  BY DEF Callback, TInv, DetectorIn, Uploaded
<1>2. jobs[r] \in JobRow
  BY <1>1, UploadedRow
<1>3. /\ good \in JobRow /\ good.ext = jobs[r].ext
      /\ bad \in JobRow /\ bad.ext = jobs[r].ext /\ bad.sync = "failed"
  BY <1>2 DEF JobRow, Statuses, SyncStatuses
<1>4. UNCHANGED <<kind, detector, threads, failures, restarts>>
  BY DEF Callback
<1>5. \/ /\ jobs[r].ext = e /\ jobs' = [jobs EXCEPT ![r] = good]
         /\ events' = [events EXCEPT ![r] = @ \cup {e}]
      \/ jobs' = [jobs EXCEPT ![r] = bad] /\ events' = events
  BY DEF Callback
<1> HIDE DEF r, good, bad
<1>6. PICK new \in {good, bad} : jobs' = [jobs EXCEPT ![r] = new]
  BY <1>5
<1>7. /\ jobs' \in [Recordings -> JobRow \cup {NoJob}]
      /\ jobs'[r] = new /\ \A x \in Recordings \ {r} : jobs'[x] = jobs[x]
      /\ Uploaded \subseteq Uploaded'
  BY <1>1, <1>3, <1>6, RowStep
<1>8. events \in [Recordings -> SUBSET Externals] /\ jobs \in [Recordings -> JobRow \cup {NoJob}]
  BY DEF TInv, RowsIn
<1>9. /\ events' \in [Recordings -> SUBSET Externals]
      /\ \A x \in Recordings \ {r} : events'[x] = events[x]
      /\ \/ jobs[r].ext = e /\ events'[r] = events[r] \cup {e}
         \/ events'[r] = events[r] /\ jobs'[r].sync = "failed"
  BY <1>1, <1>3, <1>5, <1>8
<1>10. ThreadsIn'
  BY <1>4, <1>7, ThreadsStay
<1>11. TInv'
  BY <1>4, <1>7, <1>9, <1>10 DEF TInv, RowsIn, DetectorIn, CountersIn
<1>12. QED
  BY <1>1, <1>2, <1>3, <1>4, <1>6, <1>7, <1>9, <1>11 DEF r

\* The detector works on, or restarts.
LEMMA DetectorStepIn ==
  ASSUME TInv, DetectorRestart \/ \E e \in Externals : Detect(e)
  PROVE  TInv' /\ jobs' = jobs /\ events' = events /\ threads' = threads
<1>1. detector \in [Externals -> DetectorJob] /\ \A e \in Externals : detector[e] \in DetectorJob
  BY DEF TInv, DetectorIn
<1>2. \A e \in Externals :
        \A s \in {"absent", "completed", "failed"} :
            /\ [detector[e] EXCEPT !.state = s] \in DetectorJob
            /\ [detector[e] EXCEPT !.state = s].state = s
            /\ [detector[e] EXCEPT !.state = s].rec = detector[e].rec
  BY <1>1 DEF DetectorJob
<1>3. DetectorIn'
  <2>1. CASE DetectorRestart
    <3>1. \A e \in Externals :
            \/ detector'[e] = detector[e]
            \/ detector'[e] = [detector[e] EXCEPT !.state = "absent"]
            \/ detector[e].state = "queued" /\ detector'[e] = [detector[e] EXCEPT !.state = "failed"]
      BY <2>1 DEF DetectorRestart
    <3>2. detector' \in [Externals -> DetectorJob]
      <4>1. detector' = [e \in Externals |-> detector'[e]]
        BY <2>1 DEF DetectorRestart
      <4>2. \A e \in Externals : detector'[e] \in DetectorJob
        BY <1>1, <1>2, <3>1
      <4>3. QED
        BY <4>1, <4>2
    <3>3. \A e \in Externals : detector'[e].state # "absent" => detector'[e].rec \in Recordings
      <4>1. ASSUME NEW e \in Externals, detector'[e].state # "absent"
            PROVE  detector[e].state # "absent" /\ detector'[e].rec = detector[e].rec
        <5>1. CASE detector'[e] = detector[e]
          BY <4>1, <5>1
        <5>2. CASE detector'[e] = [detector[e] EXCEPT !.state = "absent"]
          <6>1. detector'[e].state = "absent"
            BY <1>2, <5>2
          <6>2. QED
            BY <4>1, <6>1
        <5>3. CASE /\ detector[e].state = "queued"
                   /\ detector'[e] = [detector[e] EXCEPT !.state = "failed"]
          BY <1>2, <5>3
        <5>4. QED
          BY <3>1, <5>1, <5>2, <5>3
      <4>2. QED
        BY <4>1 DEF TInv, DetectorIn
    <3>4. QED
      BY <3>2, <3>3 DEF DetectorIn
  <2>2. ASSUME NEW e \in Externals, Detect(e)
        PROVE  DetectorIn'
    <3>1. PICK s \in {"completed", "failed"} : detector' = [detector EXCEPT ![e].state = s]
      BY <2>2 DEF Detect
    <3> DEFINE j == [detector[e] EXCEPT !.state = s]
    <3>2. j \in DetectorJob /\ j.rec \in Recordings
      BY <1>2, <2>2 DEF Detect, TInv, DetectorIn
    <3>3. detector' = [detector EXCEPT ![e] = j]
      BY <3>1
    <3> HIDE DEF j
    <3>4. /\ detector' \in [Externals -> DetectorJob]
          /\ \A x \in Externals : detector'[x] = IF x = e THEN j ELSE detector[x]
      BY <1>1, <3>2, <3>3
    <3>5. QED
      BY <3>2, <3>4 DEF TInv, DetectorIn
  <2>3. QED
    BY <2>1, <2>2
<1>4. UNCHANGED <<kind, jobs, events, threads>>
  BY DEF Detect, DetectorRestart
<1>5. failures' \in 0..MaxFailures /\ restarts' \in 0..MaxRestarts
  BY MicroAssumption DEF Detect, DetectorRestart, TInv, CountersIn
<1>6. ThreadsIn' /\ RowsIn'
  <2>1. Uploaded' = Uploaded
    BY <1>4 DEF Uploaded, Known
  <2>2. QED
    BY <1>4, <2>1, ThreadsStay DEF TInv, RowsIn
<1>7. QED
  BY <1>3, <1>4, <1>5, <1>6 DEF TInv, CountersIn

\* The API server starts again, or nothing happens.
LEMMA RestartIn ==
  ASSUME TInv, Restart
  PROVE  TInv' /\ jobs' = jobs /\ events' = events /\ threads' = [t \in Threads |-> Idle]
<1>1. UNCHANGED <<kind, jobs, events, detector, failures>> /\ threads' = [t \in Threads |-> Idle]
  BY DEF Restart
<1>2. ThreadsIn'
  <2>1. ThreadIn(Idle, Uploaded') /\ Idle \in Thread
    BY IdleIn DEF ThreadIn
  <2>2. QED
    BY <1>1, <2>1 DEF ThreadsIn
<1>3. restarts' \in 0..MaxRestarts
  BY MicroAssumption DEF Restart, TInv, CountersIn
<1>4. QED
  BY <1>1, <1>2, <1>3 DEF TInv, RowsIn, DetectorIn, CountersIn

LEMMA InitTypes ==
  ASSUME Init
  PROVE  TInv
<1>1. [state |-> "absent", rec |-> NoRecording] \in DetectorJob
  BY DEF DetectorJob
<1>2. DetectorIn
  BY <1>1 DEF Init, DetectorIn
<1>3. \A t \in Threads : ThreadIn(threads[t], Uploaded)
  BY IdleIn DEF Init
<1>4. threads \in [Threads -> Thread]
  BY IdleIn DEF Init, ThreadIn
<1>5. QED
  BY <1>2, <1>3, <1>4, MicroAssumption DEF Init, TInv, ThreadsIn, RowsIn, CountersIn

LEMMA NextTypes ==
  ASSUME TInv, [Next]_vars
  PROVE  TInv'
<1>1. ASSUME NEW t \in Threads, Upload(t) \/ Work(t)
      PROVE  TInv'
  BY <1>1, UploadIn, ToldIn, MovedIn, CommitsIn, TranscribesIn DEF Work
<1>2. ASSUME NEW t \in Threads, NEW r \in Recordings, Requeue(t, r) \/ Poll(t, r)
      PROVE  TInv'
  BY <1>2, RequeueIn, MovedIn
<1>3. CASE UNCHANGED vars
  <2>1. /\ UNCHANGED <<kind, jobs, events, detector, threads, failures, restarts>>
        /\ jobs' = jobs /\ threads' = threads
    BY <1>3 DEF vars
  <2>2. ThreadsIn'
    <3>1. Uploaded' = Uploaded
      BY <2>1 DEF Uploaded, Known
    <3>2. QED
      BY <2>1, <3>1, ThreadsStay
  <2>3. QED
    BY <2>1, <2>2 DEF TInv, RowsIn, DetectorIn, CountersIn
<1>4. QED
  BY <1>1, <1>2, <1>3, LeaseExpiresIn, CallbackIn, DetectorStepIn, RestartIn DEF Next

\* Rows, detector and threads keep their types, and a thread only works on an
\* uploaded recording, whatever the size of a polling batch.
THEOREM TypesInvariant == Spec => []TInv
  BY InitTypes, NextTypes, PTL DEF Spec

\* Rows, threads and the detector's jobs keep their types, whatever the size
\* of a batch.
THEOREM MicroTypes == Spec => []TypeOK
  BY TypesInvariant, TInvMeans, PTL

-----------------------------------------------------------------------------
(* One submitter, and the evidence of the bound job.                       *)

\* A thread has one recording at most, and knows how it is bound.
Shape(u) ==
    /\ u.pc # "next" => u.todo = {}
    /\ \A r1, r2 \in u.todo : r1 = r2
    /\ u.pc \in {"submit", "bind"} => u.row.ext = NoExternal
    /\ u.pc \in {"fetch", "store"} => u.row.ext = u.ext

\* A poll is about the job the recording is bound to.
Follows(t) == threads[t].pc \in {"fetch", "store"} => jobs[threads[t].rec].ext = threads[t].ext

\* Not bound, and the lease of the submission runs.
Leased(r) == jobs[r].ext = NoExternal /\ jobs[r].status = "queued" /\ jobs[r].fresh

Evidence ==
    \A r \in Recordings :
        /\ events[r] # {} => Known(r) /\ jobs[r].ext \in Externals /\ events[r] = {jobs[r].ext}
        /\ Known(r) /\ jobs[r].sync = "synced" => jobs[r].ext \in events[r]

BInv ==
    /\ \A t \in Threads : Shape(threads[t]) /\ Follows(t)
    /\ \A t \in Threads : \A r \in Owed(t) : Leased(r)
    /\ OneSubmitter /\ Evidence

\* An external id is written once.
Binds == \A r \in Recordings :
    Known(r) /\ jobs[r].ext # NoExternal => jobs'[r].ext = jobs[r].ext

LEMMA IdleShape == Shape(Idle) /\ Idle.pc = "idle" /\ Idle.todo = {}
  BY DEF Shape, Idle

LEMMA ThreadFacts ==
  ASSUME TInv, NEW t \in Threads
  PROVE  /\ Owed(t) \subseteq Recordings
         /\ threads[t].pc \in {"submit", "bind"} => threads[t].rec \in Owed(t)
         /\ threads[t].pc \in {"fetch", "store"} =>
                /\ threads[t].rec \in Recordings /\ Known(threads[t].rec)
                /\ threads[t].ext \in Externals
  BY DEF TInv, ThreadsIn, ThreadIn, Owed, Uploaded

LEMMA EvidenceStays ==
  ASSUME TInv, TInv', Evidence,
         \A r \in Recordings :
            /\ events'[r] = events[r]
            /\ \/ jobs'[r] = jobs[r]
               \/ ~Known(r) /\ jobs'[r].sync = "pending"
               \/ /\ jobs[r] \in JobRow /\ jobs'[r] \in JobRow
                  /\ jobs'[r].ext = jobs[r].ext /\ jobs'[r].sync = jobs[r].sync
  PROVE  Evidence'
  BY RowAssumption DEF Evidence, Known

\* Threads take nothing more on them, and what they have keeps its lease.
LEMMA NoMoreOwed ==
  ASSUME TInv, BInv, Binds, Evidence',
         \A s \in Threads : Shape(threads'[s]),
         \A s \in Threads : threads'[s] = threads[s] \/ Follows(s)',
         \A s \in Threads : Owed(s)' \subseteq Owed(s),
         \A s \in Threads : \A r \in Owed(s)' : Leased(r)'
  PROVE  BInv'
<1>1. \A s \in Threads : Follows(s)'
  <2>1. ASSUME NEW s \in Threads, threads'[s] = threads[s], threads[s].pc \in {"fetch", "store"}
        PROVE  jobs'[threads[s].rec].ext = threads[s].ext
    BY <2>1, ThreadFacts, MicroAssumption DEF BInv, Follows, Binds
  <2>2. QED
    BY <2>1 DEF Follows
<1>2. OneSubmitter'
  BY DEF BInv, OneSubmitter
<1>3. QED
  BY <1>1, <1>2 DEF BInv

\* One thread takes on it what no thread has.
LEMMA OneMoreOwed ==
  ASSUME TInv, BInv, Binds, Evidence', NEW t \in Threads, NEW S,
         Shape(threads'[t]), threads'[t].pc = "next", threads'[t].todo = S,
         \A s \in Threads \ {t} : threads'[s] = threads[s],
         \A s \in Threads, r \in S : r \notin Owed(s),
         \A r \in S : Leased(r)',
         \A r \in Recordings : r \notin S => jobs'[r] = jobs[r]
  PROVE  BInv'
<1>1. Owed(t)' = S /\ \A s \in Threads \ {t} : Owed(s)' = Owed(s)
  BY DEF Owed
<1>2. ASSUME NEW s \in Threads
      PROVE  Shape(threads'[s]) /\ Follows(s)'
  <2>1. CASE s = t
    BY <2>1 DEF Follows
  <2>2. CASE s # t
    BY <2>2, ThreadFacts, MicroAssumption DEF BInv, Follows, Binds
  <2>3. QED
    BY <2>1, <2>2
<1>3. ASSUME NEW s \in Threads, NEW r \in Owed(s)'
      PROVE  Leased(r)'
  <2>1. CASE s = t
    BY <1>1, <1>3, <2>1
  <2>2. CASE s # t
    <3>1. r \in Owed(s) /\ r \notin S /\ r \in Recordings
      BY <1>1, <1>3, <2>2, ThreadFacts
    <3>2. QED
      BY <3>1 DEF BInv, Leased
  <2>3. QED
    BY <2>1, <2>2
<1>4. OneSubmitter'
  BY <1>1 DEF BInv, OneSubmitter
<1>5. QED
  BY <1>2, <1>3, <1>4 DEF BInv

-----------------------------------------------------------------------------
(* The actions keep it.                                                    *)

LEMMA UploadBound ==
  ASSUME TInv, TInv', BInv, MaxBatch = 1, NEW t \in Threads, Upload(t)
  PROVE  BInv'
<1>1. PICK S \in SUBSET Recordings :
        /\ \A r \in S : ~Known(r)
        /\ S # {} /\ Cardinality(S) <= 1
        /\ \A r \in Recordings : jobs'[r] = IF r \in S THEN NewJob ELSE jobs[r]
        /\ threads'[t] = [Idle EXCEPT !.pc = "next", !.todo = S]
  BY UploadIn
<1>2. events' = events /\ \A s \in Threads \ {t} : threads'[s] = threads[s]
  BY UploadIn
<1>3. \A r1, r2 \in S : r1 = r2
  <2>1. IsFiniteSet(S)
    BY MicroAssumption, FS_Subset
  <2>2. Cardinality(S) \in Nat /\ Cardinality(S) # 0
    BY <1>1, <2>1, FS_CardinalityType, FS_EmptySet
  <2>3. Cardinality(S) = 1
    BY <1>1, <2>2
  <2>4. QED
    BY <2>1, <2>3, FS_Singleton
<1>4. threads'[t].pc = "next" /\ threads'[t].todo = S /\ Shape(threads'[t])
  BY <1>1, <1>3 DEF Shape, Idle
<1>5. \A s \in Threads, r \in S : r \notin Owed(s)
  BY <1>1 DEF TInv, ThreadsIn, ThreadIn, Owed, Uploaded
<1>6. \A r \in S : Leased(r)' /\ jobs'[r].sync = "pending"
  BY <1>1 DEF Leased, NewJob
<1>7. Evidence'
  BY <1>1, <1>2, <1>6, EvidenceStays DEF BInv
<1>8. Binds
  BY <1>1 DEF Binds
<1>9. QED
  <2>1. \A r \in S : Leased(r)'
    BY <1>6
  <2>2. \A r \in Recordings : r \notin S => jobs'[r] = jobs[r]
    BY <1>1
  <2>3. QED
    BY <1>2, <1>4, <1>5, <1>7, <1>8, <2>1, <2>2, OneMoreOwed

LEMMA RequeueBound ==
  ASSUME TInv, TInv', BInv, NEW t \in Threads, NEW r \in Recordings, Requeue(t, r)
  PROVE  BInv'
<1>1. /\ events' = events
      /\ \A s \in Threads \ {t} : threads'[s] = threads[s]
      /\ threads'[t] = [Idle EXCEPT !.pc = "next", !.todo = {r}]
      /\ jobs[r] \in JobRow
      /\ jobs'[r] = [jobs[r] EXCEPT !.status = "queued", !.fresh = TRUE]
      /\ \A x \in Recordings \ {r} : jobs'[x] = jobs[x]
  BY RequeueIn
<1>2. Retryable(r)
  BY DEF Requeue
<1>3. threads'[t].pc = "next" /\ threads'[t].todo = {r} /\ Shape(threads'[t])
  BY <1>1 DEF Shape, Idle
<1>4. \A s \in Threads : r \notin Owed(s)
  BY <1>2 DEF BInv, Leased, Retryable
<1>5. /\ jobs'[r] \in JobRow /\ jobs'[r].ext = jobs[r].ext /\ jobs'[r].sync = jobs[r].sync
      /\ jobs'[r].status = "queued" /\ jobs'[r].fresh
  BY <1>1 DEF JobRow, Statuses
<1>6. Leased(r)'
  BY <1>2, <1>5 DEF Leased, Retryable
<1>7. Evidence'
  BY <1>1, <1>5, EvidenceStays DEF BInv
<1>8. Binds
  BY <1>1, <1>5 DEF Binds
<1>9. QED
  <2>1. \A x \in {r} : Leased(x)'
    BY <1>6 DEF Leased
  <2>2. \A s \in Threads, x \in {r} : x \notin Owed(s)
    BY <1>4
  <2>3. \A x \in Recordings : x \notin {r} => jobs'[x] = jobs[x]
    BY <1>1
  <2>4. QED
    BY <1>1, <1>3, <1>7, <1>8, <2>1, <2>2, <2>3, OneMoreOwed

LEMMA ToldBound ==
  ASSUME TInv, TInv', BInv, NEW t \in Threads,
         \/ SubmitAccepted(t) \/ SubmitGarbled(t) \/ SubmitRefused(t)
         \/ PollAnswered(t) \/ PollFailed(t)
  PROVE  BInv'
<1>1. /\ jobs' = jobs /\ events' = events
      /\ threads[t].pc \in {"submit", "fetch"}
      /\ \A s \in Threads \ {t} : threads'[s] = threads[s]
      /\ threads'[t].pc = IF threads[t].pc = "submit" THEN "bind" ELSE "store"
      /\ threads'[t].rec = threads[t].rec /\ threads'[t].row = threads[t].row
      /\ threads'[t].todo = threads[t].todo
      /\ threads[t].pc = "fetch" => threads'[t].ext = threads[t].ext
  BY ToldIn
<1>2. Shape(threads'[t]) /\ Follows(t)'
  BY <1>1 DEF BInv, Shape, Follows
<1>3. \A s \in Threads : Owed(s)' = Owed(s)
  BY <1>1 DEF Owed
<1>4. Evidence' /\ Binds
  BY <1>1, EvidenceStays DEF BInv, Binds
<1>5. \A s \in Threads : \A r \in Owed(s)' : Leased(r)'
  BY <1>1, <1>3 DEF BInv, Leased
<1>6. \A s \in Threads : Shape(threads'[s]) /\ (threads'[s] = threads[s] \/ Follows(s)')
  BY <1>1, <1>2 DEF BInv
<1>7. QED
  BY <1>3, <1>4, <1>5, <1>6, NoMoreOwed

LEMMA MovedBound ==
  ASSUME TInv, TInv', BInv, NEW t \in Threads,
         \/ BeginTask(t) \/ EndTask(t) \/ \E r \in Recordings : Poll(t, r)
  PROVE  BInv'
<1>1. /\ jobs' = jobs /\ events' = events
      /\ \A s \in Threads \ {t} : threads'[s] = threads[s]
      /\ \/ /\ threads[t].pc = "next" /\ threads'[t].pc = "submit"
            /\ threads'[t].rec \in threads[t].todo
            /\ threads'[t].todo = threads[t].todo \ {threads'[t].rec}
            /\ threads'[t].row = jobs[threads'[t].rec]
         \/ threads'[t] = Idle
         \/ /\ threads'[t].pc = "fetch" /\ threads'[t].todo = {}
            /\ threads'[t].row = jobs[threads'[t].rec]
            /\ threads'[t].ext = jobs[threads'[t].rec].ext
  BY MovedIn
<1>2. Shape(threads'[t]) /\ Follows(t)' /\ Owed(t)' \subseteq Owed(t)
  <2>1. CASE /\ threads[t].pc = "next" /\ threads'[t].pc = "submit"
             /\ threads'[t].rec \in threads[t].todo
             /\ threads'[t].todo = threads[t].todo \ {threads'[t].rec}
             /\ threads'[t].row = jobs[threads'[t].rec]
    <3>1. threads'[t].todo = {}
      BY <2>1 DEF BInv, Shape
    <3>2. Owed(t)' \subseteq Owed(t) /\ threads'[t].rec \in Owed(t)
      BY <2>1, <3>1 DEF Owed
    <3>3. threads'[t].row.ext = NoExternal
      BY <2>1, <3>2 DEF BInv, Leased
    <3>4. QED
      BY <2>1, <3>1, <3>2, <3>3 DEF Shape, Follows
  <2>2. CASE threads'[t] = Idle
    BY <2>2, IdleShape DEF Follows, Owed
  <2>3. CASE /\ threads'[t].pc = "fetch" /\ threads'[t].todo = {}
             /\ threads'[t].row = jobs[threads'[t].rec]
             /\ threads'[t].ext = jobs[threads'[t].rec].ext
    BY <1>1, <2>3 DEF Shape, Follows, Owed
  <2>4. QED
    BY <1>1, <2>1, <2>2, <2>3
<1>3. \A s \in Threads : Owed(s)' \subseteq Owed(s)
  <2>1. \A s \in Threads \ {t} : Owed(s)' = Owed(s)
    BY <1>1 DEF Owed
  <2>2. QED
    BY <1>2, <2>1
<1>4. Evidence' /\ Binds
  BY <1>1, EvidenceStays DEF BInv, Binds
<1>5. \A s \in Threads : \A r \in Owed(s)' : Leased(r)'
  BY <1>1, <1>3 DEF BInv, Leased
<1>6. \A s \in Threads : Shape(threads'[s]) /\ (threads'[s] = threads[s] \/ Follows(s)')
  BY <1>1, <1>2 DEF BInv
<1>7. QED
  BY <1>3, <1>4, <1>5, <1>6, NoMoreOwed

LEMMA TranscribesBound ==
  ASSUME TInv, TInv', BInv, NEW t \in Threads, TranscribeBegin(t) \/ TranscribeEnd(t)
  PROVE  BInv'
<1>1. /\ events' = events
      /\ \A s \in Threads \ {t} : threads'[s] = threads[s]
      /\ threads[t].pc \in {"transcribe", "asr"} /\ threads'[t].pc \in {"asr", "next"}
      /\ threads'[t].todo = threads[t].todo
      /\ \A r \in Recordings :
              \/ jobs'[r] = jobs[r]
              \/ /\ jobs[r] \in JobRow /\ jobs'[r] \in JobRow
                 /\ jobs'[r].ext = jobs[r].ext /\ jobs'[r].status = jobs[r].status
                 /\ jobs'[r].sync = jobs[r].sync /\ jobs'[r].fresh
  BY TranscribesIn
<1>2. Shape(threads'[t]) /\ Follows(t)'
  BY <1>1 DEF BInv, Shape, Follows
<1>3. \A s \in Threads : Owed(s)' = Owed(s)
  BY <1>1 DEF Owed
<1>4. Evidence' /\ Binds
  <2>1. Evidence'
    BY <1>1, EvidenceStays DEF BInv
  <2>2. Binds
    BY <1>1 DEF Binds
  <2>3. QED
    BY <2>1, <2>2
<1>5. \A s \in Threads : \A r \in Owed(s)' : Leased(r)'
  BY <1>1, <1>3, ThreadFacts DEF BInv, Leased
<1>6. \A s \in Threads : Shape(threads'[s]) /\ (threads'[s] = threads[s] \/ Follows(s)')
  BY <1>1, <1>2 DEF BInv
<1>7. QED
  BY <1>3, <1>4, <1>5, <1>6, NoMoreOwed

LEMMA CommitsBound ==
  ASSUME TInv, TInv', BInv, NEW t \in Threads, SubmitCommit(t) \/ PollCommit(t)
  PROVE  BInv'
<1> DEFINE u == threads[t]
           q == u.rec
<1>1. /\ Commit(t)
      /\ \A s \in Threads \ {t} : threads'[s] = threads[s]
      /\ u.pc \in {"bind", "store"}
      /\ \/ threads'[t] = Idle
         \/ threads'[t].pc = "transcribe" /\ threads'[t].todo = u.todo
  BY CommitsIn
<1>2. /\ q \in Recordings /\ jobs[q] \in JobRow /\ jobs'[q] \in JobRow
      /\ \A r \in Recordings \ {q} : jobs'[r] = jobs[r] /\ events'[r] = events[r]
      /\ \/ jobs' = jobs /\ events' = events
         \/ /\ jobs'[q].ext = IF u.answer \in Naming /\ u.ext # u.row.ext
                              THEN u.ext ELSE jobs[q].ext
            /\ u.answer # "completed" =>
                 jobs'[q].sync = jobs[q].sync \/ jobs'[q].sync = "failed"
            /\ events'[q] = IF u.answer = "completed"
                           THEN events[q] \cup {u.ext} ELSE events[q]
  BY <1>1, CommitIn
<1>3. /\ u.todo = {} /\ Shape(u) /\ Known(q)
      /\ u.answer \in Naming => u.ext \in Externals
      /\ u.pc = "store" => u.ext \in Externals /\ u.row.ext = u.ext /\ jobs[q].ext = u.ext
      /\ u.pc = "bind" => q \in Owed(t) /\ jobs[q].ext = NoExternal /\ u.row.ext = NoExternal
  <2>1. u.todo = {} /\ Shape(u) /\ Known(q)
    BY <1>1, <1>2, RowAssumption DEF BInv, Shape, Known
  <2>2. ThreadIn(u, Uploaded)
    BY DEF TInv, ThreadsIn
  <2>3. u.pc = "store" => u.ext \in Externals /\ u.row.ext = u.ext /\ jobs[q].ext = u.ext
    BY <2>1, <2>2 DEF BInv, Shape, Follows, ThreadIn
  <2>4. u.pc = "bind" => q \in Owed(t) /\ jobs[q].ext = NoExternal /\ u.row.ext = NoExternal
    BY <2>1, ThreadFacts DEF BInv, Shape, Leased
  <2>5. QED
    BY <1>1, <2>1, <2>2, <2>3, <2>4 DEF ThreadIn
<1> HIDE DEF u, q
<1>4. \A s \in Threads \ {t} : q \notin Owed(s)
  <2>1. CASE u.pc = "bind"
    BY <1>2, <1>3, <2>1 DEF BInv, OneSubmitter
  <2>2. CASE u.pc = "store"
    BY <1>3, <2>2, MicroAssumption DEF BInv, Leased
  <2>3. QED
    BY <1>1, <2>1, <2>2
<1>5. Binds
  <2>1. jobs[q].ext # NoExternal => jobs'[q].ext = jobs[q].ext
    BY <1>1, <1>2, <1>3
  <2>2. QED
    BY <1>2, <2>1 DEF Binds
<1>6. threads'[t].todo = {} /\ threads'[t].pc \in {"idle", "transcribe"}
  BY <1>1, <1>3, IdleShape
<1>7. Shape(threads'[t]) /\ Follows(t)' /\ Owed(t)' = {}
  BY <1>6 DEF Shape, Follows, Owed
<1>8. \A s \in Threads \ {t} : Owed(s)' = Owed(s)
  BY <1>1 DEF Owed
<1>9. Evidence'
  <2>1. /\ events[q] # {} => jobs[q].ext \in Externals /\ events[q] = {jobs[q].ext}
        /\ jobs[q].sync = "synced" => jobs[q].ext \in events[q]
    BY <1>2, <1>3 DEF BInv, Evidence
  <2>2. /\ events'[q] # {} => jobs'[q].ext \in Externals /\ events'[q] = {jobs'[q].ext}
        /\ jobs'[q].sync = "synced" => jobs'[q].ext \in events'[q]
    <3>1. CASE jobs' = jobs /\ events' = events
      BY <2>1, <3>1
    <3>2. CASE /\ jobs'[q].ext = IF u.answer \in Naming /\ u.ext # u.row.ext
                                THEN u.ext ELSE jobs[q].ext
               /\ u.answer # "completed" =>
                     jobs'[q].sync = jobs[q].sync \/ jobs'[q].sync = "failed"
               /\ events'[q] = IF u.answer = "completed"
                              THEN events[q] \cup {u.ext} ELSE events[q]
      <4>1. CASE u.answer = "completed"
        <5>1. u.ext \in Externals /\ jobs'[q].ext = u.ext /\ events'[q] = events[q] \cup {u.ext}
          BY <1>1, <1>3, <3>2, <4>1, MicroAssumption DEF Naming
        <5>2. events[q] \subseteq {u.ext}
          BY <1>1, <1>3, <2>1, MicroAssumption
        <5>3. QED
          BY <5>1, <5>2
      <4>2. CASE u.answer # "completed"
        <5>1. /\ events'[q] = events[q]
              /\ jobs'[q].sync = "synced" => jobs[q].sync = "synced"
          BY <3>2, <4>2
        <5>2. jobs[q].ext \in Externals => jobs'[q].ext = jobs[q].ext
          BY <1>2, <1>3, <1>5, MicroAssumption DEF Binds
        <5>3. QED
          BY <2>1, <5>1, <5>2
      <4>3. QED
        BY <4>1, <4>2
    <3>3. QED
      BY <1>2, <3>1, <3>2
  <2>3. QED
    BY <1>2, <2>2, RowAssumption DEF BInv, Evidence, Known
<1>10. \A s \in Threads : \A r \in Owed(s)' : Leased(r)'
  <2>1. ASSUME NEW s \in Threads, NEW r \in Owed(s)'
        PROVE  Leased(r)'
    <3>1. s # t /\ r \in Owed(s) /\ r # q /\ r \in Recordings
      BY <1>4, <1>7, <1>8, <2>1, ThreadFacts
    <3>2. QED
      BY <1>2, <3>1 DEF BInv, Leased
  <2>2. QED
    BY <2>1
<1>11. \A s \in Threads : Shape(threads'[s]) /\ (threads'[s] = threads[s] \/ Follows(s)')
  BY <1>1, <1>7 DEF BInv
<1>12. \A s \in Threads : Owed(s)' \subseteq Owed(s)
  BY <1>7, <1>8
<1>13. QED
  BY <1>5, <1>9, <1>10, <1>11, <1>12, NoMoreOwed

\* The lease of a recording that is owed does not expire.
LEMMA LeaseExpiresBound ==
  ASSUME TInv, TInv', BInv, NEW r \in Recordings, LeaseExpires(r)
  PROVE  BInv'
<1>1. /\ events' = events /\ threads' = threads
      /\ jobs[r] \in JobRow /\ jobs'[r] = [jobs[r] EXCEPT !.fresh = FALSE]
      /\ \A x \in Recordings \ {r} : jobs'[x] = jobs[x]
  BY LeaseExpiresIn
<1>2. \A t \in Threads : r \notin Owed(t)
  BY DEF LeaseExpires, Waiting, BInv, Shape
<1>3. jobs'[r] \in JobRow /\ jobs'[r].ext = jobs[r].ext /\ jobs'[r].sync = jobs[r].sync
  BY <1>1 DEF JobRow
<1>4. Evidence'
  BY <1>1, <1>3, EvidenceStays DEF BInv
<1>5. Binds
  BY <1>1, <1>3 DEF Binds
<1>6. \A s \in Threads : Owed(s)' = Owed(s) /\ Shape(threads'[s])
  BY <1>1 DEF Owed, BInv
<1>7. \A s \in Threads : \A x \in Owed(s)' : Leased(x)'
  <2>1. ASSUME NEW s \in Threads, NEW x \in Owed(s)
        PROVE  Leased(x)'
    <3>1. x \in Recordings \ {r}
      BY <1>2, <2>1, ThreadFacts
    <3>2. QED
      BY <1>1, <3>1 DEF BInv, Leased
  <2>2. QED
    BY <1>6, <2>1
<1>8. QED
  BY <1>1, <1>4, <1>5, <1>6, <1>7, NoMoreOwed

LEMMA CallbackBound ==
  ASSUME TInv, TInv', BInv, NEW e \in Externals, Callback(e)
  PROVE  BInv'
<1> DEFINE r == detector[e].rec
<1>1. /\ threads' = threads
      /\ r \in Recordings /\ jobs[r] \in JobRow /\ jobs'[r] \in JobRow
      /\ jobs[r].ext # NoExternal /\ jobs'[r].ext = jobs[r].ext
      /\ \A x \in Recordings \ {r} : jobs'[x] = jobs[x] /\ events'[x] = events[x]
      /\ \/ jobs[r].ext = e /\ events'[r] = events[r] \cup {e}
         \/ events'[r] = events[r] /\ jobs'[r].sync = "failed"
  BY CallbackIn
<1> HIDE DEF r
<1>2. Known(r)
  BY <1>1, RowAssumption DEF Known
<1>3. Evidence'
  <2>1. /\ events[r] # {} => jobs[r].ext \in Externals /\ events[r] = {jobs[r].ext}
        /\ jobs[r].sync = "synced" => jobs[r].ext \in events[r]
    BY <1>1, <1>2 DEF BInv, Evidence
  <2>2. /\ events'[r] # {} => jobs'[r].ext \in Externals /\ events'[r] = {jobs'[r].ext}
        /\ jobs'[r].sync = "synced" => jobs'[r].ext \in events'[r]
    BY <1>1, <2>1
  <2>3. QED
    BY <1>1, <2>2, RowAssumption DEF BInv, Evidence, Known
<1>4. Binds
  BY <1>1 DEF Binds
<1>5. \A s \in Threads : Owed(s)' = Owed(s) /\ Shape(threads'[s])
  BY <1>1 DEF Owed, BInv
<1>6. \A s \in Threads : \A x \in Owed(s)' : Leased(x)'
  <2>1. ASSUME NEW s \in Threads, NEW x \in Owed(s)
        PROVE  Leased(x)'
    <3>1. Leased(x) /\ x \in Recordings
      BY <2>1, ThreadFacts DEF BInv
    <3>2. x # r
      BY <1>1, <3>1 DEF Leased
    <3>3. QED
      BY <1>1, <3>1, <3>2 DEF Leased
  <2>2. QED
    BY <1>5, <2>1
<1>7. QED
  BY <1>1, <1>3, <1>4, <1>5, <1>6, NoMoreOwed

LEMMA StillBound ==
  ASSUME TInv, TInv', BInv, jobs' = jobs, events' = events,
         threads' = threads \/ threads' = [t \in Threads |-> Idle]
  PROVE  BInv'
<1>1. Evidence' /\ Binds
  BY EvidenceStays DEF BInv, Binds
<1>2. \A s \in Threads :
        /\ Shape(threads'[s]) /\ Owed(s)' \subseteq Owed(s)
        /\ threads'[s] = threads[s] \/ Follows(s)'
  BY IdleShape DEF BInv, Owed, Follows
<1>3. \A s \in Threads : \A r \in Owed(s)' : Leased(r)'
  BY <1>2 DEF BInv, Leased
<1>4. QED
  BY <1>1, <1>2, <1>3, NoMoreOwed

LEMMA NextBound ==
  ASSUME TInv, TInv', BInv, MaxBatch = 1, [Next]_vars
  PROVE  BInv'
<1>1. ASSUME NEW t \in Threads, Upload(t) \/ Work(t)
      PROVE  BInv'
  BY <1>1, UploadBound, ToldBound, MovedBound, CommitsBound, TranscribesBound DEF Work
<1>2. ASSUME NEW t \in Threads, NEW r \in Recordings, Requeue(t, r) \/ Poll(t, r)
      PROVE  BInv'
  BY <1>2, RequeueBound, MovedBound
<1>3. CASE DetectorRestart \/ (\E e \in Externals : Detect(e)) \/ Restart
  BY <1>3, DetectorStepIn, RestartIn, StillBound
<1>4. CASE UNCHANGED vars
  BY <1>4, StillBound DEF vars
<1>5. QED
  BY <1>1, <1>2, <1>3, <1>4, LeaseExpiresBound, CallbackBound DEF Next

LEMMA InitBound ==
  ASSUME Init
  PROVE  BInv
<1>1. \A t \in Threads : Shape(threads[t]) /\ Follows(t) /\ Owed(t) = {}
  BY IdleShape DEF Init, Follows, Owed
<1>2. Evidence
  BY DEF Init, Evidence, Known
<1>3. QED
  BY <1>1, <1>2 DEF BInv, OneSubmitter

IInv == MaxBatch = 1 /\ TInv /\ BInv

\* With batches of one job the stored job, its events and the thread at work on
\* it agree: the invariant behind EvidenceIsOfBound and OneSubmitterAlways.
THEOREM BoundInvariant == MaxBatch = 1 /\ Spec => []IInv
<1>1. MaxBatch = 1 /\ Init => IInv
  BY InitTypes, InitBound DEF IInv
<1>2. IInv /\ [Next]_vars => IInv'
  BY NextTypes, NextBound DEF IInv
<1>3. QED
  BY <1>1, <1>2, PTL DEF Spec

\* No two requests submit a recording, when no task waits for another of its
\* batch.
THEOREM OneSubmitterAlways == MaxBatch = 1 /\ Spec => []OneSubmitter
<1>1. IInv => OneSubmitter
  BY DEF IInv, BInv
<1>2. QED
  BY BoundInvariant, <1>1, PTL

\* Under the same condition the stored events of a recording are those of the
\* external job it is bound to.
THEOREM EvidenceIsOfBound == MaxBatch = 1 /\ Spec => []EvidenceOfBound
<1>1. IInv => EvidenceOfBound
  BY DEF IInv, BInv, Evidence, EvidenceOfBound
<1>2. QED
  BY BoundInvariant, <1>1, PTL
=============================================================================
