----------------------------- MODULE Documents -----------------------------
(***************************************************************************)
(* Course material on its way into PunditRAG: ECHO stores an upload and    *)
(* sends it to the import service, which records a document and imports it *)
(* in a background task; ECHO polls the task.  Documents and knowledge     *)
(* bases are removed while imports run.                                    *)
(*                                                                         *)
(* Mongo, Milvus and MinIO calls are steps of their own: an import and a   *)
(* removal meet between any two of them.  The local copy of a file is left *)
(* out; an import that misses it breaks like any other.                    *)
(***************************************************************************)
EXTENDS Naturals, Sequences, FiniteSets, SequencesExt

CONSTANTS
    Docs,        \* uploads, each with the document and the task it becomes
    NoDoc,
    Bases,       \* ids of knowledge bases in PunditRAG
    NoBase,
    Polls,       \* requests for the list of documents
    MaxFailures, \* bound: outages and failed imports
    MaxRestarts  \* bound: restarts of the import service

ASSUME DocumentsAssumption ==
    /\ NoDoc \notin Docs /\ NoBase \notin Bases
    /\ MaxFailures \in Nat /\ MaxRestarts \in Nat

VARIABLES
    uploads,    \* ECHO: table uploads
    ref,        \* ECHO: external_ref of the module's knowledge base
    uploaders,  \* ECHO: upload requests
    polls,      \* ECHO: list requests
    bases,      \* Mongo: knowledge bases of the module's name, oldest first
    documents,  \* Mongo: knowledge_document
    tasks,      \* memory of the import service: status of a task
    imports,    \* background tasks
    stored,     \* what Milvus and MinIO hold of which document
    eraser,     \* a removal in progress
    bypassed,   \* history: documents whose removal an import could not notice
    failures, restarts

echoVars == <<uploads, ref, uploaders, polls>>
vars == <<echoVars, bases, documents, tasks, imports, stored, eraser, bypassed,
          failures, restarts>>

-----------------------------------------------------------------------------
(* Rows and threads.                                                       *)

Row == [index : {"none", "pending", "processing", "completed", "failed", "degraded"},
        linked : BOOLEAN]       \* the external ids are known

Uploader == [pc : {"idle", "list", "create", "ingest", "commit", "done"},
             read : Bases \union {NoBase}, base : Bases \union {NoBase}, ok : BOOLEAN]

TaskStatuses == {"", "processing", "completed", "failed"}
Poll == [doc : Docs \union {NoDoc}, read : {"", "pending", "processing"},
         answer : TaskStatuses, pc : {"idle", "fetch", "store"}]
NoPoll == [doc |-> NoDoc, read |-> "", answer |-> "", pc |-> "idle"]

DocumentStatuses == {"absent", "pending", "processing", "completed", "failed", "deleting"}
Document == [status : DocumentStatuses, base : Bases \union {NoBase}]
Absent == [status |-> "absent", base |-> NoBase]

\* Pictures, the recognized subject, and the chunks with their vectors.
Stores == {"images", "names", "chunks"}

\* node_entry: how a file goes on depends on its suffix.  A PDF is converted
\* outside and its pictures stay where they are, an office file is converted
\* here, Markdown needs neither.
AfterEntry == {"mineru", "convert", "images"}

\* Mutant of Then: the end is reported before the chunks are written.
Then_ReportsEarly ==
    [queued |-> {"mark"}, mark |-> {"processing"}, processing |-> AfterEntry, mineru |-> {"unpack"}, unpack |-> {"split"},
     convert |-> {"images"}, images |-> {"split"}, split |-> {"recognize"},
     recognize |-> {"names_check"}, names_check |-> {"names"}, names |-> {"names_recheck"},
     names_recheck |-> {"embed"}, embed |-> {"complete"}, complete |-> {"report"},
     report |-> {"chunks_check"}, chunks_check |-> {"chunks"}, chunks |-> {"chunks_recheck"},
     chunks_recheck |-> {"close"}, close |-> {"ended"}]

\* The steps of invoke_import_graph and of the graph's nodes, each with the
\* checks around what it writes.  Pictures are written without any.
Then ==
    [queued |-> {"mark"}, mark |-> {"processing"}, processing |-> AfterEntry, mineru |-> {"unpack"}, unpack |-> {"split"},
     convert |-> {"images"}, images |-> {"split"}, split |-> {"recognize"},
     recognize |-> {"names_check"}, names_check |-> {"names"}, names |-> {"names_recheck"},
     names_recheck |-> {"embed"}, embed |-> {"chunks_check"}, chunks_check |-> {"chunks"},
     chunks |-> {"chunks_recheck"}, chunks_recheck |-> {"close"}, close |-> {"complete"},
     complete |-> {"report"}, report |-> {"ended"}]
Silent == {"mineru", "unpack", "convert", "split", "recognize", "embed"}
Checks == {"queued", "names_check", "chunks_check", "close"}
Rechecks == {"names_recheck", "chunks_recheck"}
Records == {"processing", "complete"}
Over == {"ended", "lost"}    \* lost: the task was not told how it ended
ImportSteps == DOMAIN Then \union {"none", "fail"} \union Over

Eraser == [pc : {"idle", "next", "chunks", "names", "images", "record", "base"},
           docs : SUBSET Docs, doc : Docs \union {NoDoc}, base : Bases \union {NoBase}]
NoErasure == [pc |-> "idle", docs |-> {}, doc |-> NoDoc, base |-> NoBase]

Alive(d) == documents[d].status \notin {"absent", "deleting"}   \* ensure_document_active
InBase(b) == {d \in Docs : documents[d].base = b}
Fails == failures < MaxFailures /\ failures' = failures + 1

-----------------------------------------------------------------------------
(* ECHO: upload_knowledge_document.                                        *)

StartUpload(d) ==
    /\ uploaders[d].pc = "idle"
    /\ uploaders' = [uploaders EXCEPT ![d] =
          [pc |-> IF ref = NoBase THEN "list" ELSE "ingest", read |-> ref,
           base |-> ref, ok |-> FALSE]]
    /\ UNCHANGED <<uploads, ref, polls, bases, documents, tasks, imports, stored, eraser,
                   bypassed, failures, restarts>>

\* ensure_knowledge_base: the first one of that name, or a new one.
FindBase(d) ==
    /\ uploaders[d].pc = "list"
    /\ uploaders' = [uploaders EXCEPT ![d] =
          IF bases = << >> THEN [@ EXCEPT !.pc = "create"]
          ELSE [@ EXCEPT !.pc = "ingest", !.base = Head(bases)]]
    /\ UNCHANGED <<uploads, ref, polls, bases, documents, tasks, imports, stored, eraser,
                   bypassed, failures, restarts>>

CreateBase(d) ==
    /\ uploaders[d].pc = "create"
    /\ \E b \in Bases \ (ToSet(bases) \union {documents[x].base : x \in Docs} \union {ref}
                            \union {uploaders[x].base : x \in Docs}) :
        /\ bases' = Append(bases, b)
        /\ \/ /\ uploaders' = [uploaders EXCEPT ![d].pc = "ingest", ![d].base = b]
              /\ UNCHANGED failures
           \/ Fails /\ uploaders' = [uploaders EXCEPT ![d].pc = "commit"]    \* answer lost
    /\ UNCHANGED <<uploads, ref, polls, documents, tasks, imports, stored, eraser,
                   bypassed, restarts>>

\* POST /upload: 404 when the knowledge base is gone; otherwise the document is
\* recorded and its import queued, whether or not ECHO hears of it.
Ingest(d) ==
    LET b == uploaders[d].base
    IN /\ uploaders[d].pc = "ingest"
       /\ IF b \in ToSet(bases)
          THEN /\ documents' = [documents EXCEPT ![d] = [status |-> "pending", base |-> b]]
               /\ imports' = [imports EXCEPT ![d] = "queued"]
               /\ \/ /\ uploaders' = [uploaders EXCEPT ![d].pc = "commit", ![d].ok = TRUE]
                     /\ UNCHANGED failures
                  \/ Fails /\ uploaders' = [uploaders EXCEPT ![d].pc = "commit"]
          ELSE /\ uploaders' = [uploaders EXCEPT ![d].pc = "commit"]
               /\ UNCHANGED <<documents, imports, failures>>
       /\ UNCHANGED <<uploads, ref, polls, bases, tasks, stored, eraser, bypassed, restarts>>

UploadUnavailable(d) ==
    /\ uploaders[d].pc \in {"list", "create", "ingest"}
    /\ Fails
    /\ uploaders' = [uploaders EXCEPT ![d].pc = "commit"]
    /\ UNCHANGED <<uploads, ref, polls, bases, documents, tasks, imports, stored, eraser,
                   bypassed, restarts>>

\* One commit for the row and for the reference to the knowledge base.
CommitUpload(d) ==
    LET self == uploaders[d]
    IN /\ self.pc = "commit"
       /\ uploads' = [uploads EXCEPT ![d] =
             [index |-> IF self.ok THEN "pending" ELSE "degraded", linked |-> self.ok]]
       /\ ref' = IF self.base # self.read THEN self.base ELSE ref
       /\ uploaders' = [uploaders EXCEPT ![d].pc = "done"]
       /\ UNCHANGED <<polls, bases, documents, tasks, imports, stored, eraser, bypassed,
                      failures, restarts>>

-----------------------------------------------------------------------------
(* ECHO: list_knowledge_documents, which polls the open imports.           *)

Look(p, d) ==
    /\ polls[p] = NoPoll
    /\ uploads[d].linked /\ uploads[d].index \in {"pending", "processing"}
    /\ polls' = [polls EXCEPT ![p] = [doc |-> d, read |-> uploads[d].index, answer |-> "",
                                      pc |-> "fetch"]]
    /\ UNCHANGED <<uploads, ref, uploaders, bases, documents, tasks, imports, stored,
                   eraser, bypassed, failures, restarts>>

\* An outage leaves the status alone, as the empty status of an unknown task does.
Fetch(p) ==
    /\ polls[p].pc = "fetch"
    /\ \/ /\ polls' = [polls EXCEPT ![p].pc = "store", ![p].answer = tasks[polls[p].doc]]
          /\ UNCHANGED failures
       \/ Fails /\ polls' = [polls EXCEPT ![p].pc = "store"]
    /\ UNCHANGED <<uploads, ref, uploaders, bases, documents, tasks, imports, stored,
                   eraser, bypassed, restarts>>

Store(p) ==
    LET self == polls[p]
    IN /\ self.pc = "store"
       /\ uploads' = IF self.answer \in {"", self.read} THEN uploads
                     ELSE [uploads EXCEPT ![self.doc].index = self.answer]
       /\ polls' = [polls EXCEPT ![p] = NoPoll]
       /\ UNCHANGED <<ref, uploaders, bases, documents, tasks, imports, stored, eraser,
                      bypassed, failures, restarts>>

-----------------------------------------------------------------------------
(* The import.                                                             *)

Advance(d) == \E s \in Then[imports[d]] : imports' = [imports EXCEPT ![d] = s]
GiveUp(d) == imports' = [imports EXCEPT ![d] = "fail"]

\* update_document changes nothing when there is no document, and writes over
\* the mark of a removal.
SetStatus(d, status) ==
    /\ documents' = IF documents[d] = Absent THEN documents
                    ELSE [documents EXCEPT ![d].status = status]
    /\ bypassed' = IF documents[d].status = "deleting" THEN bypassed \union {d} ELSE bypassed

Check(d) ==
    /\ imports[d] \in Checks
    /\ IF Alive(d) THEN Advance(d) ELSE GiveUp(d)
    /\ UNCHANGED <<echoVars, bases, documents, tasks, stored, eraser, bypassed,
                   failures, restarts>>

\* The task is told before the record.
Mark(d) ==
    /\ imports[d] = "mark"
    /\ tasks' = [tasks EXCEPT ![d] = "processing"]
    /\ Advance(d)
    /\ UNCHANGED <<echoVars, bases, documents, stored, eraser, bypassed, failures, restarts>>

\* The status of the record is written some time after the check, whatever it is
\* by now.
Written(d) == IF imports[d] = "complete" THEN "completed" ELSE "processing"
Record(d) ==
    /\ imports[d] \in Records
    /\ SetStatus(d, Written(d))
    /\ Advance(d)
    /\ UNCHANGED <<echoVars, bases, tasks, stored, eraser, failures, restarts>>

\* Nodes that write nothing the other requests see: each ends or breaks.
Node(d, step) ==
    /\ imports[d] = step
    /\ Advance(d)
    /\ UNCHANGED <<echoVars, bases, documents, tasks, stored, eraser, bypassed,
                   failures, restarts>>

AskMinerU(d) == Node(d, "mineru")       \* polled for ten minutes at most
Unpack(d) == Node(d, "unpack")
ConvertFile(d) == Node(d, "convert")
Split(d) == Node(d, "split")
Recognize(d) == Node(d, "recognize")
Embed(d) == Node(d, "embed")

Insert(d) ==
    /\ imports[d] \in Stores
    /\ stored' = [stored EXCEPT ![imports[d]] = @ \union {d}]
    /\ Advance(d)
    /\ UNCHANGED <<echoVars, bases, documents, tasks, eraser, bypassed, failures, restarts>>

Rechecked(d) == IF imports[d] = "names_recheck" THEN "names" ELSE "chunks"
Rechecking(s, d) == imports[d] \in Rechecks /\ Rechecked(d) = s

\* Mutant of Recheck: nothing is taken back.
Recheck_Keeps(d) ==
    /\ imports[d] \in Rechecks
    /\ IF Alive(d) THEN Advance(d) ELSE GiveUp(d)
    /\ UNCHANGED <<echoVars, bases, documents, tasks, stored, eraser, bypassed,
                   failures, restarts>>

\* What was written for a document that is gone by now is taken back.
Recheck(d) ==
    /\ imports[d] \in Rechecks
    /\ IF Alive(d) THEN Advance(d) /\ UNCHANGED <<stored, bypassed, failures>>
       ELSE /\ GiveUp(d)
            /\ \/ /\ stored' = [stored EXCEPT ![Rechecked(d)] = @ \ {d}]
                  /\ UNCHANGED <<bypassed, failures>>
               \/ /\ Fails /\ bypassed' = bypassed \union {d}
                  /\ UNCHANGED stored
    /\ UNCHANGED <<echoVars, bases, documents, tasks, eraser, restarts>>

\* A node, or a call of Mongo, Milvus, MinIO or a model, fails.  A recheck that
\* cannot ask is no RuntimeError and takes nothing back.
Break(d) ==
    /\ imports[d] \in Stores \union Silent \union Checks \union Rechecks \union Records /\ Fails
    /\ GiveUp(d)
    /\ bypassed' = IF imports[d] \in Rechecks THEN bypassed \union {d} ELSE bypassed
    /\ UNCHANGED <<echoVars, bases, documents, tasks, stored, eraser, restarts>>

\* A write takes effect, but its answer is lost; no recheck follows.
BreakLate(d) ==
    /\ imports[d] \in Stores \union Records /\ Fails
    /\ GiveUp(d)
    /\ IF imports[d] \in Records
       THEN SetStatus(d, Written(d)) /\ UNCHANGED stored
       ELSE /\ stored' = [stored EXCEPT ![imports[d]] = @ \union {d}]
            /\ bypassed' = bypassed \union {d}
            /\ UNCHANGED documents
    /\ UNCHANGED <<echoVars, bases, tasks, eraser, restarts>>

Report(d) ==
    /\ imports[d] = "report"
    /\ tasks' = [tasks EXCEPT ![d] = "completed"]
    /\ Advance(d)
    /\ UNCHANGED <<echoVars, bases, documents, stored, eraser, bypassed, failures, restarts>>

\* Mutant of Fail: the task is left open.
Fail_SilentTask(d) ==
    /\ imports[d] = "fail"
    /\ SetStatus(d, "failed")
    /\ imports' = [imports EXCEPT ![d] = "ended"]
    /\ UNCHANGED <<echoVars, bases, tasks, stored, eraser, failures, restarts>>

\* The except block: the record first, then the task.
Fail(d) ==
    /\ imports[d] = "fail"
    /\ SetStatus(d, "failed")
    /\ tasks' = [tasks EXCEPT ![d] = "failed"]
    /\ imports' = [imports EXCEPT ![d] = "ended"]
    /\ UNCHANGED <<echoVars, bases, stored, eraser, failures, restarts>>

\* Mongo cannot be reached in the except block, or its answer is lost: the
\* exception leaves the task as it is.
FailUnheard(d) ==
    /\ imports[d] = "fail" /\ Fails
    /\ SetStatus(d, "failed") \/ UNCHANGED <<documents, bypassed>>
    /\ imports' = [imports EXCEPT ![d] = "lost"]
    /\ UNCHANGED <<echoVars, bases, tasks, stored, eraser, restarts>>

-----------------------------------------------------------------------------
(* Removal of a document, or of a knowledge base with its documents.       *)

MarkDeleting(docs) ==
    documents' = [d \in Docs |-> IF d \in docs THEN [documents[d] EXCEPT !.status = "deleting"]
                                 ELSE documents[d]]

RemoveDocument(d) ==
    /\ eraser = NoErasure /\ documents[d] # Absent
    /\ MarkDeleting({d})
    /\ eraser' = [NoErasure EXCEPT !.pc = "chunks", !.doc = d]
    /\ UNCHANGED <<echoVars, bases, tasks, imports, stored, bypassed, failures, restarts>>

\* list_documents leaves out the documents an earlier removal did not finish.
RemoveBase(b) ==
    LET docs == {d \in InBase(b) : Alive(d)}
    IN /\ eraser = NoErasure /\ b \in ToSet(bases)
       /\ MarkDeleting(docs)
       /\ eraser' = [NoErasure EXCEPT !.pc = "next", !.docs = docs, !.base = b]
       /\ UNCHANGED <<echoVars, bases, tasks, imports, stored, bypassed, failures, restarts>>

NextDocument ==
    /\ eraser.pc = "next"
    /\ eraser' \in IF eraser.docs = {} THEN {[eraser EXCEPT !.pc = "base"]}
                   ELSE {[eraser EXCEPT !.pc = "chunks", !.doc = d, !.docs = @ \ {d}] :
                            d \in eraser.docs}
    /\ UNCHANGED <<echoVars, bases, documents, tasks, imports, stored, bypassed,
                   failures, restarts>>

ErasePc(pc) == CASE pc = "chunks" -> "names" [] pc = "names" -> "images"
                 [] pc = "images" -> IF eraser.base = NoBase THEN "record" ELSE "next"

\* Without a Milvus client, or with an error of MinIO, the store is skipped.
EraseStore ==
    /\ eraser.pc \in Stores
    /\ eraser' = [eraser EXCEPT !.pc = ErasePc(@)]
    /\ \/ /\ stored' = [stored EXCEPT ![eraser.pc] = @ \ {eraser.doc}]
          /\ UNCHANGED <<bypassed, failures>>
       \/ /\ Fails /\ bypassed' = bypassed \union {eraser.doc}
          /\ UNCHANGED stored
    /\ UNCHANGED <<echoVars, bases, documents, tasks, imports, restarts>>

\* Any other error ends the request; what is marked stays marked.
EraseBreaks ==
    /\ eraser.pc \in Stores \union {"record", "base"} /\ Fails
    /\ eraser' = NoErasure
    /\ UNCHANGED <<echoVars, bases, documents, tasks, imports, stored, bypassed, restarts>>

EraseRecord ==
    /\ eraser.pc = "record"
    /\ documents' = [documents EXCEPT ![eraser.doc] = Absent]
    /\ eraser' = NoErasure
    /\ UNCHANGED <<echoVars, bases, tasks, imports, stored, bypassed, failures, restarts>>

\* delete_knowledge_base_record takes every document of the base with it, those
\* that were not listed included.
EraseBase ==
    LET b == eraser.base
    IN /\ eraser.pc = "base"
       /\ documents' = [d \in Docs |-> IF d \in InBase(b) THEN Absent ELSE documents[d]]
       /\ \E i \in DOMAIN bases : bases[i] = b /\ bases' = RemoveAt(bases, i)
       /\ eraser' = NoErasure
       /\ bypassed' = bypassed \union
             {d \in InBase(b) : \E s \in {"names", "chunks"} :
                                    d \in stored[s] /\ ~Rechecking(s, d)}
       /\ UNCHANGED <<echoVars, tasks, imports, stored, failures, restarts>>

\* Requests, background tasks and their statuses are lost.
Restart ==
    /\ restarts < MaxRestarts /\ restarts' = restarts + 1
    /\ imports' = [d \in Docs |-> IF imports[d] = "none" THEN "none" ELSE "ended"]
    /\ tasks' = [d \in Docs |-> ""]
    /\ eraser' = NoErasure
    /\ bypassed' = bypassed \union {d \in Docs : imports[d] \in Rechecks}
    /\ UNCHANGED <<echoVars, bases, documents, stored, failures>>

-----------------------------------------------------------------------------
Init ==
    /\ uploads = [d \in Docs |-> [index |-> "none", linked |-> FALSE]]
    /\ ref = NoBase
    /\ uploaders = [d \in Docs |->
          [pc |-> "idle", read |-> NoBase, base |-> NoBase, ok |-> FALSE]]
    /\ polls = [p \in Polls |-> NoPoll]
    /\ bases = << >>
    /\ documents = [d \in Docs |-> Absent]
    /\ tasks = [d \in Docs |-> ""]
    /\ imports = [d \in Docs |-> "none"]
    /\ stored = [s \in Stores |-> {}]
    /\ eraser = NoErasure
    /\ bypassed = {}
    /\ failures = 0 /\ restarts = 0

Upload(d) ==
    \/ StartUpload(d) \/ FindBase(d) \/ CreateBase(d) \/ Ingest(d)
    \/ UploadUnavailable(d) \/ CommitUpload(d)
Import(d) ==
    \/ Check(d) \/ Mark(d) \/ Record(d)
    \/ AskMinerU(d) \/ Unpack(d) \/ ConvertFile(d) \/ Split(d) \/ Recognize(d) \/ Embed(d)
    \/ Insert(d) \/ Recheck(d) \/ Break(d) \/ BreakLate(d)
    \/ Report(d) \/ Fail(d) \/ FailUnheard(d)
Listing(p) == Fetch(p) \/ Store(p)
Erase == NextDocument \/ EraseStore \/ EraseBreaks \/ EraseRecord \/ EraseBase

Next ==
    \/ \E d \in Docs : Upload(d) \/ Import(d) \/ RemoveDocument(d) \/ \E p \in Polls : Look(p, d)
    \/ \E p \in Polls : Listing(p)
    \/ \E b \in Bases : RemoveBase(b)
    \/ Erase \/ Restart

Spec == Init /\ [][Next]_vars

\* Background tasks and requests run, and somebody looks at the list.
FairSpec ==
    /\ Spec
    /\ \A d \in Docs : WF_vars(Import(d)) /\ SF_vars(\E p \in Polls : Look(p, d))
    /\ \A p \in Polls : WF_vars(Listing(p))

-----------------------------------------------------------------------------
(* Properties.                                                             *)

TypeOK ==
    /\ uploads \in [Docs -> Row] /\ ref \in Bases \union {NoBase}
    /\ uploaders \in [Docs -> Uploader] /\ polls \in [Polls -> Poll]
    /\ bases \in Seq(Bases) /\ documents \in [Docs -> Document]
    /\ tasks \in [Docs -> TaskStatuses] /\ imports \in [Docs -> ImportSteps]
    /\ stored \in [Stores -> SUBSET Docs] /\ eraser \in Eraser
    /\ bypassed \in SUBSET Docs
    /\ failures \in 0..MaxFailures /\ restarts \in 0..MaxRestarts

Searchable == stored["names"] \union stored["chunks"]
Removed(d) == documents[d] = Absent /\ imports[d] \in {"none"} \union Over

\* The docstring of ensure_document_active: "keeps a background import from
\* writing back a document that has been deleted".  Once a document is removed
\* and its import is over, nothing of it can be searched.
NothingWrittenBack == \A d \in Docs : Removed(d) => d \notin Searchable

\* The same for every removal but those that the checks of the import cannot
\* notice: the import wrote its status over the mark, the store could
\* not be reached, an outage or a stop of the service fell between a write and its
\* recheck, or a base was removed under documents its removal had not listed.
RemovedIsGone == \A d \in Docs : Removed(d) => d \notin Searchable \/ d \in bypassed

\* ECHO offers a document to its searches only when its vectors are there: an
\* upload that counts as completed has its chunks, however its polls overlap,
\* unless the document is being removed.
CompletedIsSearchable ==
    \A d \in Docs : uploads[d].index = "completed" =>
        d \in stored["chunks"] \/ ~Alive(d) \/ d \in bypassed

\* An upload does not stay open whatever fails: its row learns how the import
\* ended, unless the import service is restarted or cannot reach Mongo to record
\* the failure of an import that failed.
UploadSettles ==
    \A d \in Docs : uploads[d].index = "pending" ~>
        \/ uploads[d].index \in {"completed", "failed"}
        \/ restarts > 0 \/ imports[d] = "lost"
=============================================================================
