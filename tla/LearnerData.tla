---------------------------- MODULE LearnerData ----------------------------
(***************************************************************************)
(* What ECHO knows of one user, and how it is forgotten: attempts, the     *)
(* conclusions written to SimpleMem from mistakes and from confirmed       *)
(* feedback, uploaded files with their documents in PunditRAG, and the     *)
(* deletion of all of them on the user's request.                          *)
(*                                                                         *)
(* One handler is one request of the API server, cut where it commits and  *)
(* where it waits for SimpleMem or PunditRAG.                              *)
(***************************************************************************)
EXTENDS SimpleMem, Sequences

CONSTANTS
    Questions,     \* the domains that are questions: misconceptions
    Items,         \* evidence a learner may send with a feedback
    Misconception, \* the one conclusion drawn from repeated mistakes
    Attempts,      \* attempt ids
    Docs,          \* uploads, each a file and a document of PunditRAG
    Deletions,     \* request ids of deletions
    Handlers,
    MaxFailures,   \* bound: outages of other services and of the file system
    MaxRestarts    \* bound: restarts of the API server

Corrections == {r \in Record : r.domain \notin Questions /\ r.refs = {}}
Observations == Refs \ Attempts
Preferences == Domains \ Questions

ASSUME LearnerAssumption ==
    /\ Questions \subseteq Domains /\ Misconception \in Contents
    /\ Attempts \subseteq Refs
    /\ Items \subseteq [ref : Observations, domain : Preferences, outcome : Contents,
                        confirmed : BOOLEAN, sure : BOOLEAN]
    /\ Docs \cap Conclusions = {} /\ NoId \notin Deletions
    /\ MaxFailures \in Nat /\ MaxRestarts \in Nat

VARIABLES
    history,   \* table student_question_history, oldest first
    uploads,   \* table uploads, and the requests that fill it
    external,  \* the documents in PunditRAG
    files,     \* the upload directory
    deletions, \* table user_data_deletion_jobs
    handlers,
    cutOff,    \* history: jobs whose request stopped without a word
    failures, restarts

localVars == <<history, uploads, external, files, deletions, handlers,
               cutOff, failures, restarts>>
vars == <<memories, keyOwner, localVars>>

-----------------------------------------------------------------------------
(* Rows and handlers.                                                      *)

Attempt == [id : Attempts, scope : Scopes, question : Questions, correct : BOOLEAN]

\* An upload is saved as a file, sent to PunditRAG, and stored as a row, or its
\* request is lost on the way.  linked: the row names the document.  by: the
\* deletion that deleted the row, if it had it on its list.
Upload == [state : {"none", "saved", "sent", "stored", "lost", "deleted"},
           linked : BOOLEAN, by : Deletions \union {NoId}]
NoUpload == [state |-> "none", linked |-> FALSE, by |-> NoId]
Rows == {d \in Docs : uploads[d].state = "stored"}
Linked == {d \in Docs : uploads[d].linked}

DeletionStatuses == {"none", "processing", "completed", "completed_with_degradation", "failed"}

Pcs == {"idle", "remember", "write", "clear", "purge", "finish"}

\* record: what is to be written; deletion: the job in hand with the modules
\* still to purge, the files and documents still to delete, whether anything
\* went wrong; before is what existed when the deletion began.
Handler == [pc : Pcs, record : Record \union {NoRow}, deletion : Deletions \union {NoId}, modules : SUBSET Scopes,
            disk : SUBSET Docs, docs : SUBSET Docs, errors : BOOLEAN,
            before : SUBSET (Conclusions \union Docs)]

Idle == [pc |-> "idle", record |-> NoRow, deletion |-> NoId,
         modules |-> {}, disk |-> {}, docs |-> {}, errors |-> FALSE, before |-> {}]

Fails == failures < MaxFailures /\ failures' = failures + 1

-----------------------------------------------------------------------------
(* Mistakes and feedback become candidates for a memory.                   *)

NewAttempts == Attempts \ {history[i].id : i \in DOMAIN history}

\* An answer is recorded in a commit of its own.  A wrong one lets the turn go
\* on to the feedback on misconceptions.
RecordAttempt(h) ==
    \E s \in Scopes, q \in Questions, correct \in BOOLEAN :
        /\ handlers[h] = Idle /\ NewAttempts # {}
        /\ history' = Append(history, [id |-> CHOOSE a \in NewAttempts : TRUE, scope |-> s, question |-> q, correct |-> correct])
        /\ handlers' = IF correct THEN handlers
                       ELSE [handlers EXCEPT ![h].pc = "remember",
                                ![h].record = [scope |-> s, domain |-> q,
                                               content |-> Misconception, refs |-> {}]]
        /\ UNCHANGED <<memVars, uploads, external, files, deletions,
                       cutOff, failures, restarts>>

LastTwo(S) == {n \in S : Cardinality({m \in S : m > n}) < 2}

\* Mutant of Mistakes: right answers count as well.
Mistakes_AnyAnswer(q) ==
    {history[i].id : i \in LastTwo({n \in DOMAIN history : history[n].question = q})}

\* _persist_misconception_feedback: the last two wrong answers to the question,
\* whatever was answered between them and wherever.
Mistakes(q) ==
    {history[i].id : i \in LastTwo({n \in DOMAIN history : history[n].question = q /\ ~history[n].correct})}

FormCandidate(h) ==
    LET refs == Mistakes(handlers[h].record.domain)
    IN /\ handlers[h].pc = "remember"
       /\ handlers' = [handlers EXCEPT ![h] =
             IF Cardinality(refs) < 2 THEN Idle
             ELSE [@ EXCEPT !.pc = "write", !.record.refs = refs]]
       /\ UNCHANGED <<memVars, history, uploads, external, files,
                      deletions, cutOff, failures, restarts>>

\* build_record: two or more pieces of evidence that are told apart by what
\* they are about, confirmed, of one domain, of one outcome, and believable.
Stable(evidence) ==
    /\ \A i, j \in evidence : i.ref = j.ref => i = j
    /\ Cardinality(evidence) >= 2
    /\ \A i \in evidence : i.confirmed
    /\ \A i, j \in evidence : i.domain = j.domain /\ i.outcome = j.outcome
    /\ 2 * Cardinality({i \in evidence : i.sure}) > Cardinality(evidence)

\* record_learning_feedback: what is not stable is rejected and
\* changes nothing.
GiveFeedback(h) ==
    \E evidence \in SUBSET Items, s \in Scopes, c \in Contents :
        /\ handlers[h] = Idle
        /\ Stable(evidence)
        /\ handlers' = [handlers EXCEPT ![h].pc = "write", ![h].record =
              [scope |-> s, domain |-> (CHOOSE i \in evidence : TRUE).domain,
               content |-> c, refs |-> {i.ref : i \in evidence}]]
        /\ UNCHANGED <<memVars, history, uploads, external, files, deletions,
                       cutOff, failures, restarts>>

\* LearnerMemoryService.create: stored; refused, by a rival or for the history
\* of its key; or the service does not answer, before or after it stored it.
\* The request ends with the outcome in its MemoryAudit, which nothing reads.
WriteMemory(h) ==
    LET record == handlers[h].record
    IN /\ handlers[h].pc = "write"
       /\ handlers' = [handlers EXCEPT ![h] = Idle]
       /\ \/ Upsert(record) /\ UNCHANGED failures
          \/ UNCHANGED memVars /\ Fails
       /\ UNCHANGED <<history, uploads, external, files, deletions, cutOff, restarts>>

-----------------------------------------------------------------------------
(* Files.                                                                  *)

\* upload_knowledge_document.  The lock that SQLite keeps from the flush to the
\* commit is left out: it only makes others wait, or refuses them.
SaveFile(d) ==
    /\ uploads[d].state = "none"
    /\ uploads' = [uploads EXCEPT ![d].state = "saved"]
    /\ files' = files \union {d}
    /\ UNCHANGED <<memVars, history, external, deletions, handlers, cutOff, failures, restarts>>

\* Without an answer the row will be "degraded", whether or not PunditRAG has
\* the document.
Ingest(d) ==
    /\ uploads[d].state = "saved"
    /\ \/ /\ uploads' = [uploads EXCEPT ![d].state = "sent", ![d].linked = TRUE]
          /\ external' = external \union {d}
          /\ UNCHANGED failures
       \/ /\ Fails
          /\ uploads' = [uploads EXCEPT ![d].state = "sent"]
          /\ external' = external \union {d} \/ UNCHANGED external
    /\ UNCHANGED <<memVars, history, files, deletions, handlers, cutOff, restarts>>

\* The flush or the commit may be refused; the file stays, and the document.
CommitUpload(d) ==
    /\ \/ /\ uploads[d].state = "sent"
          /\ uploads' = [uploads EXCEPT ![d].state = "stored"]
          /\ UNCHANGED failures
       \/ /\ uploads[d].state \in {"saved", "sent"} /\ Fails
          /\ uploads' = [uploads EXCEPT ![d].state = "lost"]
    /\ UNCHANGED <<memVars, history, external, files, deletions, handlers, cutOff, restarts>>

-----------------------------------------------------------------------------
(* request_user_data_deletion.                                             *)

\* A request id that is known is answered from its job and changes nothing.  The
\* files and documents to delete are those of the rows that are there now.
RequestDeletion(h) ==
    \E x \in Deletions :
        /\ handlers[h] = Idle
        /\ deletions[x] = "none"
        /\ deletions' = [deletions EXCEPT ![x] = "processing"]
        /\ handlers' = [handlers EXCEPT ![h] = [Idle EXCEPT !.pc = "clear", !.deletion = x,
                            !.disk = Rows, !.docs = Rows \cap Linked,
                            !.before = Believed \union Rows]]
        /\ UNCHANGED <<memVars, history, uploads, external, files,
                       cutOff, failures, restarts>>

DeleteRows(h) ==
    uploads' = [d \in Docs |->
        IF d \notin Rows THEN uploads[d]
        ELSE [uploads[d] EXCEPT !.state = "deleted",
                 !.by = IF d \in handlers[h].disk THEN handlers[h].deletion ELSE NoId]]

\* Mutant of ClearTables: the failed transaction ends the request without a word.
ClearTables_Silent(h) ==
    /\ handlers[h].pc = "clear"
    /\ \/ /\ handlers' = [handlers EXCEPT ![h] = Idle]
          /\ UNCHANGED <<history, uploads>>
       \/ /\ history' = << >> /\ DeleteRows(h)
          /\ handlers' = [handlers EXCEPT ![h].pc = "purge", ![h].modules = Scopes]
    /\ UNCHANGED <<memVars, external, files, deletions, cutOff, failures, restarts>>

\* The local tables, in one transaction.  A foreign key of somebody else's row,
\* of a mentor's batch for a session of this user or of progress in a video of
\* this user, rolls all of it back.  All rows of the user go, those that came
\* after the list was made included.
ClearTables(h) ==
    /\ handlers[h].pc = "clear"
    /\ \/ /\ deletions' = [deletions EXCEPT ![handlers[h].deletion] = "failed"]
          /\ handlers' = [handlers EXCEPT ![h] = Idle]
          /\ UNCHANGED <<history, uploads>>
       \/ /\ history' = << >>
          /\ DeleteRows(h)
          /\ handlers' = [handlers EXCEPT ![h].pc = "purge", ![h].modules = Scopes]
          /\ UNCHANGED deletions
    /\ UNCHANGED <<memVars, external, files, cutOff, failures, restarts>>

\* Mutant of DeleteFile: the error of the file system is dropped.
DeleteFile_DropsError(h) ==
    \E d \in handlers[h].disk :
        /\ handlers[h].pc = "purge"
        /\ handlers' = [handlers EXCEPT ![h].disk = @ \ {d}]
        /\ \/ files' = files \ {d} /\ UNCHANGED failures
           \/ Fails /\ UNCHANGED files
        /\ UNCHANGED <<memVars, history, uploads, external, deletions, cutOff, restarts>>

\* The files come first, then the modules, then the documents.
DeleteFile(h) ==
    \E d \in handlers[h].disk :
        /\ handlers[h].pc = "purge"
        /\ \/ /\ files' = files \ {d}
              /\ handlers' = [handlers EXCEPT ![h].disk = @ \ {d}]
              /\ UNCHANGED failures
           \/ /\ Fails
              /\ handlers' = [handlers EXCEPT ![h].disk = @ \ {d}, ![h].errors = TRUE]
              /\ UNCHANGED files
        /\ UNCHANGED <<memVars, history, uploads, external, deletions, cutOff, restarts>>

\* Mutant of PurgeModule: the error of SimpleMem is dropped.
PurgeModule_DropsError(h) ==
    \E s \in handlers[h].modules :
        /\ handlers[h].pc = "purge" /\ handlers[h].disk = {}
        /\ handlers' = [handlers EXCEPT ![h].modules = @ \ {s}]
        /\ \/ PurgeScope(s) /\ UNCHANGED failures
           \/ Fails /\ UNCHANGED memVars
        /\ UNCHANGED <<history, uploads, external, files, deletions, cutOff, restarts>>

PurgeModule(h) ==
    \E s \in handlers[h].modules :
        /\ handlers[h].pc = "purge" /\ handlers[h].disk = {}
        /\ \/ /\ PurgeScope(s)
              /\ handlers' = [handlers EXCEPT ![h].modules = @ \ {s}]
              /\ UNCHANGED failures
           \/ /\ Fails
              /\ handlers' = [handlers EXCEPT ![h].modules = @ \ {s}, ![h].errors = TRUE]
              /\ PurgeScope(s) \/ UNCHANGED memVars
        /\ UNCHANGED <<history, uploads, external, files, deletions, cutOff, restarts>>

DeleteDocument(h) ==
    \E d \in handlers[h].docs :
        /\ handlers[h].pc = "purge" /\ handlers[h].disk = {} /\ handlers[h].modules = {}
        /\ \/ /\ external' = external \ {d}
              /\ handlers' = [handlers EXCEPT ![h].docs = @ \ {d}]
              /\ UNCHANGED failures
           \/ /\ Fails
              /\ handlers' = [handlers EXCEPT ![h].docs = @ \ {d}, ![h].errors = TRUE]
              /\ external' = external \ {d} \/ UNCHANGED external
        /\ UNCHANGED <<memVars, history, uploads, files, deletions, cutOff, restarts>>

FinishDeletion(h) ==
    LET self == handlers[h]
    IN /\ self.pc = "purge" /\ self.disk = {} /\ self.modules = {} /\ self.docs = {}
       /\ deletions' = [deletions EXCEPT ![self.deletion] =
             IF self.errors THEN "completed_with_degradation" ELSE "completed"]
       /\ handlers' = [handlers EXCEPT ![h] = Idle]
       /\ UNCHANGED <<memVars, history, uploads, external, files, cutOff, failures, restarts>>

\* A refused commit, or an error nobody expected, ends the request.  The except
\* block records it in the same database; refused as well, it leaves the job open.
BreakOff(h) ==
    /\ handlers[h].pc \in {"clear", "purge"} /\ Fails
    /\ \/ /\ deletions' = [deletions EXCEPT ![handlers[h].deletion] = "failed"]
          /\ UNCHANGED cutOff
       \/ /\ cutOff' = cutOff \union {handlers[h].deletion}
          /\ UNCHANGED deletions
    /\ handlers' = [handlers EXCEPT ![h] = Idle]
    /\ UNCHANGED <<memVars, history, uploads, external, files, restarts>>

-----------------------------------------------------------------------------
(* LearnerMemoryService: what is not done by the handlers above.  The caller *)
(* is authorized first, and once more by the store when it changes the row. *)

CorrectMemory(id, record) == Update(id, record) /\ UNCHANGED localVars
ForgetMemory(id, s) == Delete(id, s) /\ UNCHANGED localVars
MergeMemories(s) == Consolidate(s) /\ UNCHANGED localVars

Restart ==
    /\ restarts < MaxRestarts /\ restarts' = restarts + 1
    /\ handlers' = [h \in Handlers |-> Idle]
    /\ uploads' = [d \in Docs |-> IF uploads[d].state \in {"saved", "sent"}
                                  THEN [uploads[d] EXCEPT !.state = "lost"] ELSE uploads[d]]
    /\ cutOff' = cutOff \union ({handlers[h].deletion : h \in Handlers} \ {NoId})
    /\ UNCHANGED <<memVars, history, external, files, deletions, failures>>

Init ==
    /\ StoreInit
    /\ history = << >>
    /\ uploads = [d \in Docs |-> NoUpload] /\ external = {} /\ files = {}
    /\ deletions = [x \in Deletions |-> "none"]
    /\ handlers = [h \in Handlers |-> Idle]
    /\ cutOff = {} /\ failures = 0 /\ restarts = 0

Work(h) ==
    \/ FormCandidate(h) \/ WriteMemory(h)
    \/ ClearTables(h) \/ DeleteFile(h) \/ PurgeModule(h) \/ DeleteDocument(h)
    \/ FinishDeletion(h) \/ BreakOff(h)

Next ==
    \/ \E h \in Handlers :
        RecordAttempt(h) \/ GiveFeedback(h) \/ RequestDeletion(h) \/ Work(h)
    \/ \E d \in Docs : SaveFile(d) \/ Ingest(d) \/ CommitUpload(d)
    \/ \E id \in Ids, s \in Scopes :
        ForgetMemory(id, s) \/ \E record \in Corrections : CorrectMemory(id, record)
    \/ \E s \in Scopes : MergeMemories(s)
    \/ Restart

Spec == Init /\ [][Next]_vars

-----------------------------------------------------------------------------
(* Properties.                                                             *)

TypeOK ==
    /\ StoreTypeOK
    /\ history \in Seq(Attempt)
    /\ uploads \in [Docs -> Upload] /\ external \in SUBSET Docs /\ files \in SUBSET Docs
    /\ deletions \in [Deletions -> DeletionStatuses]
    /\ handlers \in [Handlers -> Handler]
    /\ cutOff \in SUBSET Deletions
    /\ failures \in 0..MaxFailures /\ restarts \in 0..MaxRestarts

\* One mistake is not a misconception: as long as no deletion was asked for, a
\* misconception that is believed rests on two mistakes on record, made on its
\* own question (docs/service-contracts.md:332).
MisconceptionsGrounded ==
    (\A x \in Deletions : deletions[x] = "none") =>
        \A k \in Believed : k[2] \in Questions =>
            \E i, j \in DOMAIN history :
                /\ i # j /\ \A n \in {i, j} : history[n].question = k[2] /\ ~history[n].correct

\* What a deletion has on its list it deletes or reports: a deletion that says
\* "completed" has left neither the file of a row that it listed and deleted, nor
\* the document that the row names, however deletions and uploads overlap.
OrphansReported ==
    \A d \in Docs :
        uploads[d].by # NoId /\ (d \in files \/ d \in external \cap Linked) =>
            deletions[uploads[d].by] # "completed"

\* A deletion says "completed" only when what existed at its start is gone:
\* conclusions, whether merged meanwhile or not, files, and the documents that
\* their rows name.
CompletedMeansGone ==
    [][\A h \in Handlers :
        /\ handlers[h].deletion # NoId
        /\ deletions[handlers[h].deletion] = "processing"
        /\ deletions'[handlers[h].deletion] = "completed"
        => \A k \in handlers[h].before :
              k \notin (Believed \union files \union (external \cap Linked))'
      ]_vars

\* A job is open as long as a request works on it.  Only a restart, or a database
\* that refuses even to record the failure, leaves one open that nobody will
\* close, whatever else fails and however requests overlap.
OpenJobsAreWorkedOn ==
    \A x \in Deletions : deletions[x] = "processing" =>
        x \in cutOff \/ \E h \in Handlers : handlers[h].deletion = x
=============================================================================
