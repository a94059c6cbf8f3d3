--------------------------- MODULE DocumentsProofs ---------------------------
(***************************************************************************)
(* Proofs about Documents: its types, that a removed document leaves       *)
(* nothing to be searched unless its removal went unnoticed, and that an   *)
(* upload reported as completed has its chunks.                            *)
(***************************************************************************)
EXTENDS Documents, TLAPS

-----------------------------------------------------------------------------
(* The steps of an import.                                                 *)

\* Where each step leads (table Then, the edges of the import graph).
LEMMA Edges ==
    /\ DOMAIN Then = {"queued", "mark", "processing", "mineru", "unpack", "convert", "images", "split",
                      "recognize", "names_check", "names", "names_recheck", "embed",
                      "chunks_check", "chunks", "chunks_recheck", "close", "complete", "report"}
    /\ Then["queued"] = {"mark"} /\ Then["mark"] = {"processing"}
    /\ Then["processing"] = {"mineru", "convert", "images"}
    /\ Then["mineru"] = {"unpack"} /\ Then["unpack"] = {"split"}
    /\ Then["convert"] = {"images"} /\ Then["images"] = {"split"}
    /\ Then["split"] = {"recognize"} /\ Then["recognize"] = {"names_check"}
    /\ Then["names_check"] = {"names"} /\ Then["names"] = {"names_recheck"}
    /\ Then["names_recheck"] = {"embed"} /\ Then["embed"] = {"chunks_check"}
    /\ Then["chunks_check"] = {"chunks"} /\ Then["chunks"] = {"chunks_recheck"}
    /\ Then["chunks_recheck"] = {"close"} /\ Then["close"] = {"complete"}
    /\ Then["complete"] = {"report"} /\ Then["report"] = {"ended"}
  BY DEF Then, AfterEntry

\* An import never returns to "none" or skips to the failure branch by itself.
LEMMA EdgesTyped ==
    ASSUME NEW s \in DOMAIN Then, NEW t \in Then[s]
    PROVE  t \in ImportSteps \ {"none", "fail"}
  BY Edges DEF ImportSteps, Over

LEMMA StepsOfImport ==
    /\ Checks \subseteq DOMAIN Then /\ Rechecks \subseteq DOMAIN Then
    /\ Stores \subseteq DOMAIN Then /\ Silent \subseteq DOMAIN Then /\ Records \subseteq DOMAIN Then
    /\ DOMAIN Then \subseteq ImportSteps /\ {"none", "fail", "ended", "lost"} \subseteq ImportSteps
  BY Edges DEF Checks, Rechecks, Stores, Silent, Records, ImportSteps, Over

\* A knowledge base taken from a list of them leaves a list of them.
LEMMA RemoveAtTyped ==
    ASSUME NEW S, NEW s \in Seq(S), NEW i \in DOMAIN s
    PROVE  RemoveAt(s, i) \in Seq(S)
  <1>1. SubSeq(s, 1, i - 1) \in Seq(S)
    OBVIOUS
  <1>2. SubSeq(s, i + 1, Len(s)) \in Seq(S)
    OBVIOUS
  <1> QED
    BY <1>1, <1>2 DEF RemoveAt

-----------------------------------------------------------------------------
(* Types.                                                                  *)

LEMMA AdvanceTyped ==
    ASSUME TypeOK, NEW d \in Docs, imports[d] \in DOMAIN Then, Advance(d)
    PROVE  imports' \in [Docs -> ImportSteps]
  <1>1. PICK s \in Then[imports[d]] : imports' = [imports EXCEPT ![d] = s]
    BY DEF Advance
  <1>2. s \in ImportSteps
    BY EdgesTyped
  <1> QED
    BY <1>1, <1>2 DEF TypeOK

LEMMA SetStatusTyped ==
    ASSUME TypeOK, NEW d \in Docs, NEW status \in DocumentStatuses, SetStatus(d, status)
    PROVE  documents' \in [Docs -> Document] /\ bypassed' \in SUBSET Docs
  BY DEF TypeOK, SetStatus, Document

LEMMA MarkTyped ==
    ASSUME TypeOK, NEW docs \in SUBSET Docs, MarkDeleting(docs)
    PROVE  documents' \in [Docs -> Document]
  BY DEF TypeOK, MarkDeleting, Document, DocumentStatuses

LEMMA GiveUpTyped ==
    ASSUME TypeOK, NEW d \in Docs, GiveUp(d)
    PROVE  imports' \in [Docs -> ImportSteps]
  BY StepsOfImport DEF TypeOK, GiveUp

LEMMA FailsTyped ==
    ASSUME TypeOK, Fails
    PROVE  failures' \in 0..MaxFailures
  BY DocumentsAssumption DEF TypeOK, Fails

LEMMA UploadTyped ==
    ASSUME TypeOK, NEW d \in Docs, Upload(d)
    PROVE  TypeOK'
  <1>1. CASE StartUpload(d)
    BY <1>1 DEF StartUpload, TypeOK, Uploader
  <1>2. CASE FindBase(d)
    <2>1. bases # << >> => Head(bases) \in Bases
      BY DEF TypeOK
    <2>2. uploaders' \in [Docs -> Uploader]
      BY <1>2, <2>1 DEF FindBase, TypeOK, Uploader
    <2> QED
      BY <1>2, <2>2 DEF FindBase, TypeOK
  <1>3. CASE CreateBase(d)
    <2>1. PICK b \in Bases :
             /\ bases' = Append(bases, b)
             /\ \/ /\ uploaders' = [uploaders EXCEPT ![d].pc = "ingest", ![d].base = b]
                   /\ UNCHANGED failures
                \/ Fails /\ uploaders' = [uploaders EXCEPT ![d].pc = "commit"]
      BY <1>3 DEF CreateBase
    <2>2. bases' \in Seq(Bases) /\ failures' \in 0..MaxFailures
      BY <2>1, FailsTyped DEF TypeOK
    <2>3. CASE uploaders' = [uploaders EXCEPT ![d].pc = "ingest", ![d].base = b]
      <3> uploaders[d] \in Uploader
        BY DEF TypeOK
      <3>1. [uploaders[d] EXCEPT !.pc = "ingest", !.base = b] \in Uploader
        BY DEF Uploader
      <3>2. uploaders' = [uploaders EXCEPT ![d] = [uploaders[d] EXCEPT !.pc = "ingest", !.base = b]]
        BY <2>3
      <3> QED
        BY <1>3, <2>2, <3>1, <3>2 DEF CreateBase, TypeOK
    <2>4. CASE uploaders' = [uploaders EXCEPT ![d].pc = "commit"]
      <3>1. uploaders' \in [Docs -> Uploader]
        BY <2>4 DEF TypeOK, Uploader
      <3> QED
        BY <1>3, <2>2, <3>1 DEF CreateBase, TypeOK
    <2> QED
      BY <2>1, <2>3, <2>4
  <1>4. CASE Ingest(d)
    <2>1. failures' \in 0..MaxFailures
      BY <1>4, FailsTyped DEF Ingest, TypeOK
    <2>2. uploaders[d] \in Uploader /\ uploaders[d].base \in Bases \union {NoBase}
      BY DEF TypeOK, Uploader
    <2>3. /\ [uploaders[d] EXCEPT !.pc = "commit", !.ok = TRUE] \in Uploader
          /\ [uploaders[d] EXCEPT !.pc = "commit"] \in Uploader
      BY <2>2 DEF Uploader
    <2>4. \/ uploaders' = [uploaders EXCEPT ![d] = [uploaders[d] EXCEPT !.pc = "commit", !.ok = TRUE]]
          \/ uploaders' = [uploaders EXCEPT ![d] = [uploaders[d] EXCEPT !.pc = "commit"]]
      BY <1>4 DEF Ingest
    <2>5. uploaders' \in [Docs -> Uploader]
      BY <2>3, <2>4 DEF TypeOK
    <2>6. [status |-> "pending", base |-> uploaders[d].base] \in Document
      BY <2>2 DEF Document, DocumentStatuses
    <2>7. documents' \in [Docs -> Document]
      BY <1>4, <2>6 DEF Ingest, TypeOK
    <2>8. imports' \in [Docs -> ImportSteps]
      BY <1>4, StepsOfImport DEF Ingest, TypeOK, Checks
    <2> QED
      BY <1>4, <2>1, <2>5, <2>7, <2>8 DEF Ingest, TypeOK
  <1>5. CASE UploadUnavailable(d)
    <2>1. uploaders' \in [Docs -> Uploader]
      BY <1>5 DEF UploadUnavailable, TypeOK, Uploader
    <2> QED
      BY <1>5, <2>1, FailsTyped DEF UploadUnavailable, TypeOK
  <1>6. CASE CommitUpload(d)
    BY <1>6 DEF CommitUpload, TypeOK, Row, Uploader
  <1> QED
    BY <1>1, <1>2, <1>3, <1>4, <1>5, <1>6 DEF Upload

LEMMA LookTyped ==
    ASSUME TypeOK, NEW p \in Polls, NEW d \in Docs, Look(p, d)
    PROVE  TypeOK'
  <1>1. polls' \in [Polls -> Poll]
    BY DEF Look, TypeOK, Poll, TaskStatuses
  <1> QED
    BY <1>1 DEF Look, TypeOK

\* A poll that looked at nothing has nothing to fetch, and what it fetched is
\* a status an upload may have.
LEMMA ListingTyped ==
    ASSUME TypeOK, NEW p \in Polls, polls[p].pc # "idle" => polls[p].doc \in Docs,
           Listing(p)
    PROVE  TypeOK'
  <1>1. CASE Fetch(p)
    <2>1. polls[p] \in Poll /\ polls[p].doc \in Docs /\ tasks[polls[p].doc] \in TaskStatuses
      BY <1>1 DEF Fetch, TypeOK, Poll
    <2>2. /\ [polls[p] EXCEPT !.pc = "store", !.answer = tasks[polls[p].doc]] \in Poll
          /\ [polls[p] EXCEPT !.pc = "store"] \in Poll
      BY <2>1 DEF Poll
    <2>3. \/ polls' = [polls EXCEPT ![p] = [polls[p] EXCEPT !.pc = "store",
                                                           !.answer = tasks[polls[p].doc]]]
          \/ polls' = [polls EXCEPT ![p] = [polls[p] EXCEPT !.pc = "store"]]
      BY <1>1 DEF Fetch
    <2>4. polls' \in [Polls -> Poll]
      BY <2>2, <2>3 DEF TypeOK
    <2> QED
      BY <1>1, <2>4, FailsTyped DEF Fetch, TypeOK
  <1>2. CASE Store(p)
    <2>1. polls' \in [Polls -> Poll]
      BY <1>2 DEF Store, TypeOK, Poll, NoPoll, TaskStatuses
    <2>2. uploads' \in [Docs -> Row]
      BY <1>2 DEF Store, TypeOK, Poll, TaskStatuses, Row
    <2> QED
      BY <1>2, <2>1, <2>2 DEF Store, TypeOK
  <1> QED
    BY <1>1, <1>2 DEF Listing

LEMMA ImportTyped ==
    ASSUME TypeOK, NEW d \in Docs, Import(d)
    PROVE  TypeOK'
  <1>1. CASE Check(d)
    <2>1. imports' \in [Docs -> ImportSteps]
      BY <1>1, StepsOfImport, AdvanceTyped, GiveUpTyped DEF Check
    <2> QED
      BY <1>1, <2>1 DEF Check, TypeOK, echoVars
  <1>2. CASE Mark(d)
    <2>1. imports' \in [Docs -> ImportSteps]
      BY <1>2, Edges, AdvanceTyped DEF Mark
    <2> QED
      BY <1>2, <2>1 DEF Mark, TypeOK, echoVars, TaskStatuses
  <1>3. ASSUME NEW step \in Silent, Node(d, step)
        PROVE  TypeOK'
    <2>1. imports' \in [Docs -> ImportSteps]
      BY <1>3, StepsOfImport, AdvanceTyped DEF Node
    <2> QED
      BY <1>3, <2>1 DEF Node, TypeOK, echoVars
  <1>4. CASE Insert(d)
    <2>1. imports' \in [Docs -> ImportSteps]
      BY <1>4, StepsOfImport, AdvanceTyped DEF Insert
    <2> QED
      BY <1>4, <2>1 DEF Insert, TypeOK, echoVars
  <1>5. CASE Recheck(d)
    <2>1. imports' \in [Docs -> ImportSteps]
      BY <1>5, StepsOfImport, AdvanceTyped, GiveUpTyped DEF Recheck
    <2>2. failures' \in 0..MaxFailures
      BY <1>5, FailsTyped DEF Recheck, TypeOK
    <2>3. stored' \in [Stores -> SUBSET Docs] /\ bypassed' \in SUBSET Docs
      BY <1>5 DEF Recheck, TypeOK
    <2> QED
      BY <1>5, <2>1, <2>2, <2>3 DEF Recheck, TypeOK, echoVars
  <1>6. CASE Break(d)
    BY <1>6, GiveUpTyped, FailsTyped DEF Break, TypeOK, echoVars
  <1>7. CASE Record(d)
    <2>1. imports' \in [Docs -> ImportSteps]
      BY <1>7, StepsOfImport, AdvanceTyped DEF Record
    <2>2. documents' \in [Docs -> Document] /\ bypassed' \in SUBSET Docs
      BY <1>7, SetStatusTyped DEF Record, Written, DocumentStatuses
    <2> QED
      BY <1>7, <2>1, <2>2 DEF Record, TypeOK, echoVars
  <1>8. CASE Report(d)
    <2>1. imports' \in [Docs -> ImportSteps]
      BY <1>8, Edges, AdvanceTyped DEF Report
    <2> QED
      BY <1>8, <2>1 DEF Report, TypeOK, echoVars, TaskStatuses
  <1>9. CASE Fail(d)
    <2>1. documents' \in [Docs -> Document] /\ bypassed' \in SUBSET Docs
      BY <1>9, SetStatusTyped DEF Fail, DocumentStatuses
    <2> QED
      BY <1>9, <2>1, StepsOfImport DEF Fail, TypeOK, echoVars, TaskStatuses
  <1>10. CASE BreakLate(d)
    <2>1. imports' \in [Docs -> ImportSteps] /\ failures' \in 0..MaxFailures
      BY <1>10, GiveUpTyped, FailsTyped DEF BreakLate
    <2>2. CASE SetStatus(d, Written(d)) /\ UNCHANGED stored
      <3>1. documents' \in [Docs -> Document] /\ bypassed' \in SUBSET Docs
        BY <2>2, SetStatusTyped DEF Written, DocumentStatuses
      <3> QED
        BY <1>10, <2>1, <2>2, <3>1 DEF BreakLate, TypeOK, echoVars
    <2>3. CASE /\ stored' = [stored EXCEPT ![imports[d]] = @ \union {d}]
               /\ bypassed' = bypassed \union {d} /\ UNCHANGED documents
      <3>1. stored' \in [Stores -> SUBSET Docs] /\ bypassed' \in SUBSET Docs
        BY <2>3 DEF TypeOK
      <3> QED
        BY <1>10, <2>1, <2>3, <3>1 DEF BreakLate, TypeOK, echoVars
    <2> QED
      BY <1>10, <2>2, <2>3 DEF BreakLate
  <1>11. CASE FailUnheard(d)
    <2>1. documents' \in [Docs -> Document] /\ bypassed' \in SUBSET Docs
      BY <1>11, SetStatusTyped DEF FailUnheard, DocumentStatuses, TypeOK
    <2> QED
      BY <1>11, <2>1, StepsOfImport, FailsTyped DEF FailUnheard, TypeOK, echoVars
  <1> QED
    BY <1>1, <1>2, <1>3, <1>4, <1>5, <1>6, <1>7, <1>8, <1>9, <1>10, <1>11
       DEF Import, AskMinerU, Unpack, ConvertFile, Split, Recognize, Embed, Silent

LEMMA RemovalTyped ==
    ASSUME TypeOK, eraser.pc \in Stores \union {"record"} => eraser.doc \in Docs,
           \/ \E d \in Docs : RemoveDocument(d)
           \/ \E b \in Bases : RemoveBase(b)
           \/ Erase
    PROVE  TypeOK'
  <1>1. ASSUME NEW d \in Docs, RemoveDocument(d)
        PROVE  TypeOK'
    <2>1. eraser' \in Eraser
      BY <1>1 DEF RemoveDocument, Eraser, NoErasure
    <2> QED
      BY <1>1, <2>1, MarkTyped DEF RemoveDocument, TypeOK, echoVars
  <1>2. ASSUME NEW b \in Bases, RemoveBase(b)
        PROVE  TypeOK'
    <2> DEFINE docs == {d \in InBase(b) : Alive(d)}
    <2>1. docs \in SUBSET Docs
      BY DEF InBase
    <2>2. eraser' \in Eraser
      BY <1>2, <2>1 DEF RemoveBase, Eraser, NoErasure
    <2>3. documents' \in [Docs -> Document]
      BY <1>2, <2>1, MarkTyped DEF RemoveBase
    <2> QED
      BY <1>2, <2>2, <2>3 DEF RemoveBase, TypeOK, echoVars
  <1>3. CASE NextDocument
    <2>1. eraser \in Eraser
      BY DEF TypeOK
    <2>2. [eraser EXCEPT !.pc = "base"] \in Eraser
      BY <2>1 DEF Eraser
    <2>3. ASSUME NEW d \in eraser.docs
          PROVE  [eraser EXCEPT !.pc = "chunks", !.doc = d, !.docs = @ \ {d}] \in Eraser
      BY <2>1 DEF Eraser
    <2>4. eraser' \in Eraser
      BY <1>3, <2>2, <2>3 DEF NextDocument
    <2> QED
      BY <1>3, <2>4 DEF NextDocument, TypeOK, echoVars
  <1>4. CASE EraseStore
    <2>1. ErasePc(eraser.pc) \in {"names", "images", "record", "next"}
      BY <1>4 DEF EraseStore, ErasePc, Stores
    <2>2. eraser' \in Eraser
      BY <1>4, <2>1 DEF EraseStore, TypeOK, Eraser
    <2>3. failures' \in 0..MaxFailures /\ bypassed' \in SUBSET Docs
      BY <1>4, FailsTyped DEF EraseStore, TypeOK
    <2>4. stored' \in [Stores -> SUBSET Docs]
      BY <1>4 DEF EraseStore, TypeOK
    <2> QED
      BY <1>4, <2>2, <2>3, <2>4 DEF EraseStore, TypeOK, echoVars
  <1>5. CASE EraseBreaks
    <2>1. eraser' \in Eraser
      BY <1>5 DEF EraseBreaks, Eraser, NoErasure
    <2> QED
      BY <1>5, <2>1, FailsTyped DEF EraseBreaks, TypeOK, echoVars
  <1>6. CASE EraseRecord
    <2>1. eraser' \in Eraser
      BY <1>6 DEF EraseRecord, Eraser, NoErasure
    <2>2. documents' \in [Docs -> Document]
      BY <1>6 DEF EraseRecord, TypeOK, Document, DocumentStatuses, Absent
    <2> QED
      BY <1>6, <2>1, <2>2 DEF EraseRecord, TypeOK, echoVars
  <1>7. CASE EraseBase
    <2>1. eraser' \in Eraser
      BY <1>7 DEF EraseBase, Eraser, NoErasure
    <2>2. documents' \in [Docs -> Document]
      BY <1>7 DEF EraseBase, TypeOK, Document, DocumentStatuses, Absent
    <2>3. bases' \in Seq(Bases)
      BY <1>7, RemoveAtTyped DEF EraseBase, TypeOK
    <2>4. bypassed' \in SUBSET Docs
      BY <1>7 DEF EraseBase, TypeOK, InBase
    <2> QED
      BY <1>7, <2>1, <2>2, <2>3, <2>4 DEF EraseBase, TypeOK, echoVars
  <1> QED
    BY <1>1, <1>2, <1>3, <1>4, <1>5, <1>6, <1>7 DEF Erase

LEMMA RestartTyped ==
    ASSUME TypeOK, Restart
    PROVE  TypeOK'
  <1>1. eraser' \in Eraser
    BY DEF Restart, Eraser, NoErasure
  <1>2. imports' \in [Docs -> ImportSteps] /\ tasks' \in [Docs -> TaskStatuses]
    BY StepsOfImport DEF Restart, TaskStatuses
  <1>3. bypassed' \in SUBSET Docs
    BY DEF Restart, TypeOK
  <1>4. restarts < MaxRestarts /\ restarts' = restarts + 1
    BY DEF Restart
  <1>5. restarts' \in 0..MaxRestarts
    BY <1>4, DocumentsAssumption DEF TypeOK
  <1> QED
    BY <1>1, <1>2, <1>3, <1>5 DEF Restart, TypeOK, echoVars

LEMMA InitTyped == Init => TypeOK
  <1> SUFFICES ASSUME Init
               PROVE  TypeOK
    OBVIOUS
  <1>1. uploads \in [Docs -> Row] /\ documents \in [Docs -> Document]
    BY DEF Init, Row, Document, DocumentStatuses, Absent
  <1>2. uploaders \in [Docs -> Uploader] /\ polls \in [Polls -> Poll] /\ eraser \in Eraser
    BY DEF Init, Uploader, Poll, NoPoll, TaskStatuses, Eraser, NoErasure
  <1>3. tasks \in [Docs -> TaskStatuses] /\ imports \in [Docs -> ImportSteps]
    BY StepsOfImport DEF Init, TaskStatuses
  <1>4. failures = 0 /\ restarts = 0
    BY DEF Init
  <1>5. failures \in 0..MaxFailures /\ restarts \in 0..MaxRestarts
    BY <1>4, DocumentsAssumption
  <1>6. ref \in Bases \union {NoBase} /\ bases = << >> /\ bypassed \in SUBSET Docs
    BY DEF Init
  <1>7. << >> \in Seq(Bases)
    OBVIOUS
  <1>8. stored \in [Stores -> SUBSET Docs]
    BY DEF Init
  <1> QED
    BY <1>1, <1>2, <1>3, <1>5, <1>6, <1>7, <1>8 DEF TypeOK

-----------------------------------------------------------------------------
(* The invariant.                                                          *)

\* The import service has not heard of this upload.
Unsent(d) == uploaders[d].pc \in {"idle", "list", "create", "ingest"}
Untouched(d) ==
    /\ documents[d] = Absent /\ imports[d] = "none" /\ tasks[d] = ""
    /\ uploads[d].index = "none" /\ ~uploads[d].linked
    /\ \A p \in Polls : polls[p].doc # d
    /\ eraser.doc # d /\ d \notin eraser.docs
UnsentUntouched == \A d \in Docs : Unsent(d) => Untouched(d)

\* Only a record that was never made, or was deleted, has no status.
NoGhost == \A d \in Docs : documents[d].status = "absent" => documents[d] = Absent

PollsKnown == \A p \in Polls : polls[p].pc # "idle" => polls[p].doc \in Docs

\* Nothing of d is in a store, or its import will look at it again, or the
\* removal went unnoticed.
Clean(s, d) == d \notin stored[s] \/ d \in bypassed \/ Rechecking(s, d)
AbsentIsClean ==
    \A d \in Docs : documents[d] = Absent => Clean("names", d) /\ Clean("chunks", d)

\* A document being removed is marked, unless its import wrote over the mark,
\* and the stores the removal has passed are clean.
Condemned(d) == documents[d].status = "deleting" \/ d \in bypassed
EraserMarks ==
    /\ eraser.pc \in Stores \union {"record"} => eraser.doc \in Docs /\ Condemned(eraser.doc)
    /\ \A d \in eraser.docs : Condemned(d)
EraserClean ==
    /\ eraser.pc = "record" => eraser.base = NoBase
    /\ eraser.base = NoBase =>
          /\ eraser.pc \in {"names", "images", "record"} => Clean("chunks", eraser.doc)
          /\ eraser.pc \in {"images", "record"} => Clean("names", eraser.doc)

\* Somebody holds, or will hold, that the import of d is complete.
Claimed(d) ==
    \/ imports[d] \in {"chunks_recheck", "close", "complete", "report"}
    \/ tasks[d] = "completed" \/ uploads[d].index = "completed"
    \/ \E p \in Polls : polls[p].doc = d /\ polls[p].answer = "completed"
Founded(d) == d \in stored["chunks"] \/ ~Alive(d) \/ d \in bypassed
ClaimsFounded == \A d \in Docs : Claimed(d) => Founded(d)

IInv ==
    /\ TypeOK /\ UnsentUntouched /\ NoGhost /\ PollsKnown /\ AbsentIsClean
    /\ EraserMarks /\ EraserClean /\ ClaimsFounded

-----------------------------------------------------------------------------
(* What the steps of an import do to the document they are about, and that *)
(* they leave the others alone.                                            *)

LEMMA SetStatusEffect ==
    ASSUME TypeOK, NoGhost, NEW d \in Docs, NEW status \in {"processing", "completed", "failed"},
           SetStatus(d, status)
    PROVE  /\ \A x \in Docs \ {d} :
                  documents'[x] = documents[x] /\ (x \in bypassed' <=> x \in bypassed)
           /\ bypassed \subseteq bypassed'
           /\ documents[d] = Absent <=> documents'[d] = Absent
           /\ documents'[d].status = "absent" => documents'[d] = Absent
           /\ documents[d].status = "deleting" => d \in bypassed'
  BY DEF SetStatus, TypeOK, NoGhost, Absent, Document

Unmoved(x) ==
    /\ documents'[x] = documents[x] /\ imports'[x] = imports[x] /\ tasks'[x] = tasks[x]
    /\ x \in bypassed' <=> x \in bypassed
    /\ \A s \in Stores : x \in stored'[s] <=> x \in stored[s]
Owned(d) ==
    /\ bypassed \subseteq bypassed'
    /\ documents[d] = Absent <=> documents'[d] = Absent
    /\ documents'[d].status = "absent" => documents'[d] = Absent
    /\ documents[d].status = "deleting" => documents'[d].status = "deleting" \/ d \in bypassed'

LEMMA ImportFrame ==
    ASSUME TypeOK, NoGhost, NEW d \in Docs, Import(d)
    PROVE  /\ imports[d] # "none" /\ UNCHANGED <<echoVars, eraser>>
           /\ \A x \in Docs \ {d} : Unmoved(x)
           /\ Owned(d)
  <1> USE DEF Unmoved, Owned
  <1>0. /\ "none" \notin DOMAIN Then /\ "none" \notin Checks /\ "none" \notin Rechecks
        /\ "none" \notin Stores /\ "none" \notin Silent /\ "none" \notin Records
    BY Edges DEF Checks, Rechecks, Stores, Silent, Records
  <1>1. CASE Check(d)
    BY <1>0, <1>1 DEF Check, Advance, GiveUp, TypeOK, NoGhost
  <1>2. CASE Mark(d)
    BY <1>2 DEF Mark, Advance, TypeOK, NoGhost
  <1>3. ASSUME NEW step \in Silent, Node(d, step)
        PROVE  /\ imports[d] # "none" /\ UNCHANGED <<echoVars, eraser>>
               /\ \A x \in Docs \ {d} : Unmoved(x)
               /\ Owned(d)
    BY <1>0, <1>3 DEF Node, Advance, TypeOK, NoGhost
  <1>4. CASE Insert(d)
    BY <1>0, <1>4 DEF Insert, Advance, TypeOK, NoGhost
  <1>5. CASE Recheck(d)
    BY <1>0, <1>5 DEF Recheck, Advance, GiveUp, TypeOK, NoGhost, Rechecked, Stores
  <1>6. CASE Break(d)
    BY <1>0, <1>6 DEF Break, GiveUp, TypeOK, NoGhost
  <1>7. CASE Record(d)
    BY <1>0, <1>7, SetStatusEffect DEF Record, Written, Advance, TypeOK
  <1>8. CASE Report(d)
    BY <1>8 DEF Report, Advance, TypeOK, NoGhost
  <1>9. CASE Fail(d)
    BY <1>9, SetStatusEffect DEF Fail, TypeOK
  <1>10. CASE BreakLate(d)
    <2>1. CASE SetStatus(d, Written(d)) /\ UNCHANGED stored
      BY <1>0, <1>10, <2>1, SetStatusEffect DEF BreakLate, Written, GiveUp, TypeOK
    <2>2. CASE /\ stored' = [stored EXCEPT ![imports[d]] = @ \union {d}]
               /\ bypassed' = bypassed \union {d} /\ UNCHANGED documents
      BY <1>0, <1>10, <2>2 DEF BreakLate, GiveUp, TypeOK, NoGhost
    <2> QED
      BY <1>10, <2>1, <2>2 DEF BreakLate
  <1>11. CASE FailUnheard(d)
    <2>1. CASE SetStatus(d, "failed")
      BY <1>11, <2>1, SetStatusEffect DEF FailUnheard, TypeOK
    <2>2. CASE UNCHANGED <<documents, bypassed>>
      BY <1>11, <2>2 DEF FailUnheard, TypeOK, NoGhost
    <2> QED
      BY <1>11, <2>1, <2>2 DEF FailUnheard
  <1> QED
    BY <1>1, <1>2, <1>3, <1>4, <1>5, <1>6, <1>7, <1>8, <1>9, <1>10, <1>11
       DEF Import, AskMinerU, Unpack, ConvertFile, Split, Recognize, Embed, Silent

-----------------------------------------------------------------------------
(* Each part of the invariant is kept.                                     *)

\* An upload request changes its own document only, and that one only by the
\* call that the import service answers.
LEMMA UploadFrame ==
    ASSUME TypeOK, NEW d \in Docs, Upload(d)
    PROVE  /\ UNCHANGED <<polls, tasks, stored, eraser, bypassed, restarts>>
           /\ \A x \in Docs \ {d} : /\ uploads'[x] = uploads[x] /\ uploaders'[x] = uploaders[x]
                                    /\ documents'[x] = documents[x] /\ imports'[x] = imports[x]
           /\ \/ UNCHANGED <<uploads, documents, imports>>
              \/ /\ UNCHANGED uploads
                 /\ uploaders[d].pc = "ingest" /\ uploaders'[d].pc = "commit"
                 /\ imports'[d] = "queued" /\ documents'[d].status = "pending"
              \/ /\ UNCHANGED <<documents, imports>>
                 /\ uploaders[d].pc = "commit" /\ uploaders'[d].pc = "done"
                 /\ uploads'[d].index \in {"pending", "degraded"}
           /\ uploaders'[d].pc \in {"idle", "list", "create", "ingest"}
                 => uploaders[d].pc \in {"idle", "list", "create", "ingest"}
  <1>1. CASE StartUpload(d)
    BY <1>1 DEF StartUpload, TypeOK
  <1>2. CASE FindBase(d)
    BY <1>2 DEF FindBase, TypeOK
  <1>3. CASE CreateBase(d)
    BY <1>3 DEF CreateBase, TypeOK
  <1>4. CASE Ingest(d)
    BY <1>4 DEF Ingest, TypeOK, Uploader
  <1>5. CASE UploadUnavailable(d)
    BY <1>5 DEF UploadUnavailable, TypeOK, Uploader
  <1>6. CASE CommitUpload(d)
    BY <1>6 DEF CommitUpload, TypeOK, Uploader
  <1> QED
    BY <1>1, <1>2, <1>3, <1>4, <1>5, <1>6 DEF Upload

LEMMA LookFrame ==
    ASSUME TypeOK, NEW p \in Polls, NEW d \in Docs, Look(p, d)
    PROVE  /\ UNCHANGED <<uploads, uploaders, documents, tasks, imports, stored, eraser, bypassed>>
           /\ uploads[d].linked
           /\ polls'[p].doc = d /\ polls'[p].answer = "" /\ polls'[p].pc = "fetch"
           /\ \A q \in Polls \ {p} : polls'[q] = polls[q]
  BY DEF Look, TypeOK

\* A poll ends with nothing in hand, or takes along what is known of its task;
\* only a status it took along reaches the upload.
LEMMA ListingFrame ==
    ASSUME TypeOK, PollsKnown, NEW p \in Polls, Listing(p)
    PROVE  /\ UNCHANGED <<uploaders, documents, tasks, imports, stored, eraser, bypassed>>
           /\ \A q \in Polls \ {p} : polls'[q] = polls[q]
           /\ \/ /\ polls'[p].doc = polls[p].doc /\ polls'[p].pc = "store" /\ polls[p].doc \in Docs
                 /\ polls'[p].answer \in {polls[p].answer, tasks[polls[p].doc]}
                 /\ UNCHANGED uploads
              \/ /\ polls'[p] = NoPoll /\ polls[p].doc \in Docs
                 /\ uploads' \in {uploads, [uploads EXCEPT ![polls[p].doc].index = polls[p].answer]}
  <1>1. CASE Fetch(p)
    <2>1. polls[p] \in Poll /\ polls[p].doc \in Docs
      BY <1>1 DEF Fetch, TypeOK, PollsKnown
    <2>2. \/ polls' = [polls EXCEPT ![p] = [polls[p] EXCEPT !.pc = "store",
                                                           !.answer = tasks[polls[p].doc]]]
          \/ polls' = [polls EXCEPT ![p] = [polls[p] EXCEPT !.pc = "store"]]
      BY <1>1 DEF Fetch
    <2>3. /\ \A q \in Polls \ {p} : polls'[q] = polls[q]
          /\ polls'[p].doc = polls[p].doc /\ polls'[p].pc = "store"
          /\ polls'[p].answer \in {polls[p].answer, tasks[polls[p].doc]}
      <3>1. polls'[p] = [polls[p] EXCEPT !.pc = "store", !.answer = tasks[polls[p].doc]]
            \/ polls'[p] = [polls[p] EXCEPT !.pc = "store"]
        BY <2>2 DEF TypeOK
      <3>2. \A q \in Polls \ {p} : polls'[q] = polls[q]
        BY <2>2 DEF TypeOK
      <3> QED
        BY <2>1, <3>1, <3>2 DEF Poll
    <2> QED
      BY <1>1, <2>1, <2>3 DEF Fetch
  <1>2. CASE Store(p)
    BY <1>2 DEF Store, TypeOK, PollsKnown
  <1> QED
    BY <1>1, <1>2 DEF Listing

LEMMA MarkEffect ==
    ASSUME TypeOK, NEW docs \in SUBSET Docs, MarkDeleting(docs)
    PROVE  /\ \A x \in Docs \ docs : documents'[x] = documents[x]
           /\ \A x \in docs : documents'[x].status = "deleting" /\ documents'[x].base = documents[x].base
  BY DEF MarkDeleting, TypeOK, Document

LEMMA AbsentIsNotAlive ==
    ASSUME NEW d, documents[d] = Absent
    PROVE  ~Alive(d)
  BY DEF Absent, Alive

LEMMA UntouchedKept ==
    ASSUME IInv, [Next]_vars
    PROVE  UnsentUntouched'
  <1> SUFFICES ASSUME NEW d \in Docs, Unsent(d)'
               PROVE  Untouched(d)'
    BY DEF UnsentUntouched
  <1> USE DEF IInv
  <1>0. Unsent(d) => Untouched(d)
    BY DEF UnsentUntouched
  <1>1. ASSUME NEW x \in Docs, Upload(x)
        PROVE  Untouched(d)'
    <2>1. Unsent(d)
      BY <1>1, UploadFrame DEF Unsent
    <2>2. /\ uploads'[d] = uploads[d] /\ documents'[d] = documents[d] /\ imports'[d] = imports[d]
          /\ UNCHANGED <<polls, tasks, eraser>>
      BY <1>1, <2>1, UploadFrame DEF Unsent
    <2> QED
      BY <1>0, <2>1, <2>2 DEF Untouched
  <1>2. ASSUME NEW p \in Polls, NEW x \in Docs, Look(p, x)
        PROVE  Untouched(d)'
    <2>0. /\ UNCHANGED <<uploads, uploaders>> /\ uploads[x].linked
          /\ polls'[p].doc = x /\ \A q \in Polls \ {p} : polls'[q] = polls[q]
      BY <1>2, LookFrame
    <2>1. Untouched(d)
      BY <1>0, <2>0 DEF Unsent
    <2>2. x # d
      <3>1. ~uploads[d].linked
        BY <2>1 DEF Untouched
      <3> QED
        BY <2>0, <3>1
    <2>3. \A q \in Polls : polls'[q].doc # d
      BY <2>0, <2>1, <2>2 DEF Untouched
    <2> QED
      BY <1>2, <2>1, <2>3, LookFrame DEF Untouched
  <1>3. ASSUME NEW p \in Polls, Listing(p)
        PROVE  Untouched(d)'
    <2>1. Untouched(d) /\ NoPoll.doc # d
      BY <1>0, <1>3, ListingFrame, DocumentsAssumption DEF NoPoll, Unsent
    <2>2. \A q \in Polls : polls'[q].doc # d
      BY <1>3, <2>1, ListingFrame DEF Untouched
    <2>3. uploads'[d] = uploads[d]
      BY <1>3, <2>1, ListingFrame DEF Untouched, TypeOK
    <2> QED
      BY <1>3, <2>1, <2>2, <2>3, ListingFrame DEF Untouched
  <1>4. ASSUME NEW x \in Docs, Import(x)
        PROVE  Untouched(d)'
    <2>1. Untouched(d) /\ imports[x] # "none" /\ UNCHANGED <<uploads, polls, eraser>>
      BY <1>0, <1>4, ImportFrame DEF Unsent, echoVars
    <2>2. Unmoved(d)
      BY <1>4, <2>1, ImportFrame DEF Untouched
    <2> QED
      BY <2>1, <2>2 DEF Untouched, Unmoved
  <1>5. ASSUME NEW x \in Docs, RemoveDocument(x)
        PROVE  Untouched(d)'
    <2>1. Untouched(d) /\ d # x /\ d # NoDoc
      BY <1>0, <1>5, DocumentsAssumption DEF RemoveDocument, echoVars, Unsent, Untouched
    <2>2. MarkDeleting({x}) /\ {x} \in SUBSET Docs
      BY <1>5 DEF RemoveDocument
    <2>3. documents'[d] = documents[d]
      BY <2>1, <2>2, MarkEffect
    <2> QED
      BY <1>5, <2>1, <2>3 DEF RemoveDocument, NoErasure, echoVars, Untouched
  <1>6. ASSUME NEW b \in Bases, RemoveBase(b)
        PROVE  Untouched(d)'
    <2> DEFINE docs == {x \in InBase(b) : Alive(x)}
    <2>1. Untouched(d) /\ d # NoDoc /\ d \notin docs
      BY <1>0, <1>6, DocumentsAssumption, AbsentIsNotAlive
         DEF RemoveBase, echoVars, Unsent, Untouched
    <2>2. MarkDeleting(docs) /\ docs \in SUBSET Docs
      BY <1>6 DEF RemoveBase, InBase
    <2>3. documents'[d] = documents[d]
      BY <2>1, <2>2, MarkEffect
    <2>4. eraser'.doc = NoDoc /\ eraser'.docs = docs
      BY <1>6 DEF RemoveBase, NoErasure
    <2> QED
      BY <1>6, <2>1, <2>3, <2>4 DEF RemoveBase, echoVars, Untouched
  <1>7. CASE NextDocument
    <2>1. Untouched(d)
      BY <1>0, <1>7 DEF NextDocument, echoVars, Unsent
    <2>2. eraser \in Eraser
      BY DEF TypeOK
    <2>3. CASE eraser' = [eraser EXCEPT !.pc = "base"]
      BY <1>7, <2>1, <2>2, <2>3 DEF NextDocument, echoVars, Eraser, Untouched
    <2>4. ASSUME NEW x \in eraser.docs,
                 eraser' = [eraser EXCEPT !.pc = "chunks", !.doc = x, !.docs = @ \ {x}]
          PROVE  eraser'.doc # d /\ d \notin eraser'.docs
      BY <2>1, <2>2, <2>4 DEF Eraser, Untouched
    <2> QED
      BY <1>7, <2>1, <2>3, <2>4 DEF NextDocument, echoVars, Untouched
  <1>8. CASE EraseStore
    BY <1>0, <1>8 DEF EraseStore, TypeOK, Eraser, echoVars, Unsent, Untouched
  <1>9. CASE EraseBreaks \/ EraseRecord \/ EraseBase \/ Restart
    <2>1. Untouched(d) /\ d # NoDoc
      BY <1>0, <1>9, DocumentsAssumption
         DEF EraseBreaks, EraseRecord, EraseBase, Restart, echoVars, Unsent
    <2>2. eraser' = NoErasure
      BY <1>9 DEF EraseBreaks, EraseRecord, EraseBase, Restart
    <2>4. eraser'.doc # d /\ d \notin eraser'.docs
      BY <2>1, <2>2 DEF NoErasure
    <2>3. documents'[d] = documents[d] /\ imports'[d] = imports[d] /\ tasks'[d] = tasks[d]
      BY <1>9, <2>1 DEF EraseBreaks, EraseRecord, EraseBase, Restart, Untouched, TypeOK
    <2> QED
      BY <1>9, <2>1, <2>3, <2>4
         DEF EraseBreaks, EraseRecord, EraseBase, Restart, echoVars, Untouched
  <1>10. CASE UNCHANGED vars
    BY <1>0, <1>10 DEF vars, echoVars, Unsent, Untouched
  <1> QED
    BY <1>1, <1>2, <1>3, <1>4, <1>5, <1>6, <1>7, <1>8, <1>9, <1>10 DEF Next, Erase

\* A request for a removal marks records, and makes none.
LEMMA RequestEffect ==
    ASSUME TypeOK, (\E d \in Docs : RemoveDocument(d)) \/ (\E b \in Bases : RemoveBase(b))
    PROVE  /\ UNCHANGED <<echoVars, tasks, imports, stored, bypassed>>
           /\ \A x \in Docs : \/ documents'[x] = documents[x]
                              \/ documents'[x].status = "deleting" /\ documents[x] # Absent
  <1>1. ASSUME NEW d \in Docs, RemoveDocument(d)
        PROVE  \A x \in Docs : \/ documents'[x] = documents[x]
                               \/ documents'[x].status = "deleting" /\ documents[x] # Absent
    <2>1. MarkDeleting({d}) /\ {d} \in SUBSET Docs /\ documents[d] # Absent
      BY <1>1 DEF RemoveDocument
    <2> QED
      BY <2>1, MarkEffect
  <1>2. ASSUME NEW b \in Bases, RemoveBase(b)
        PROVE  \A x \in Docs : \/ documents'[x] = documents[x]
                               \/ documents'[x].status = "deleting" /\ documents[x] # Absent
    <2> DEFINE docs == {d \in InBase(b) : Alive(d)}
    <2>1. MarkDeleting(docs) /\ docs \in SUBSET Docs
      BY <1>2 DEF RemoveBase, InBase
    <2>2. \A x \in docs : documents[x] # Absent
      BY AbsentIsNotAlive
    <2> HIDE DEF docs
    <2> QED
      BY <2>1, <2>2, MarkEffect
  <1>3. CASE \E d \in Docs : RemoveDocument(d)
    BY <1>1, <1>3 DEF RemoveDocument
  <1>4. CASE \E b \in Bases : RemoveBase(b)
    BY <1>2, <1>4 DEF RemoveBase
  <1> QED
    BY <1>3, <1>4

\* How the removals leave the records.
LEMMA RemovalEffect ==
    ASSUME TypeOK, EraserMarks,
           \/ \E d \in Docs : RemoveDocument(d)
           \/ \E b \in Bases : RemoveBase(b)
           \/ Erase \/ Restart
    PROVE  /\ UNCHANGED <<echoVars>>
           /\ \A d \in Docs : \/ documents'[d] = documents[d]
                              \/ documents'[d] = Absent
                              \/ documents'[d].status = "deleting" /\ documents[d] # Absent
           /\ bypassed \subseteq bypassed'
  <1>1. CASE (\E d \in Docs : RemoveDocument(d)) \/ (\E b \in Bases : RemoveBase(b))
    BY <1>1, RequestEffect
  <1>2. CASE NextDocument \/ EraseBreaks \/ Restart
    BY <1>2 DEF NextDocument, EraseBreaks, Restart
  <1>3. CASE EraseStore
    BY <1>3 DEF EraseStore
  <1>4. CASE EraseRecord
    BY <1>4 DEF EraseRecord, TypeOK
  <1>5. CASE EraseBase
    BY <1>5 DEF EraseBase, TypeOK
  <1> QED
    BY <1>1, <1>2, <1>3, <1>4, <1>5 DEF Erase

LEMMA NoGhostKept ==
    ASSUME IInv, [Next]_vars
    PROVE  NoGhost'
  <1> USE DEF IInv
  <1> SUFFICES ASSUME NEW d \in Docs, documents'[d].status = "absent"
               PROVE  documents'[d] = Absent
    BY DEF NoGhost
  <1>1. ASSUME NEW x \in Docs, Upload(x)
        PROVE  documents'[d] = Absent
    BY <1>1, UploadFrame DEF NoGhost
  <1>2. CASE \E p \in Polls : Listing(p) \/ \E x \in Docs : Look(p, x)
    BY <1>2, LookFrame, ListingFrame DEF NoGhost
  <1>3. ASSUME NEW x \in Docs, Import(x)
        PROVE  documents'[d] = Absent
    <2>1. x # d => documents'[d] = documents[d]
      BY <1>3, ImportFrame DEF Unmoved
    <2> QED
      BY <1>3, <2>1, ImportFrame DEF Owned, NoGhost
  <1>4. CASE \/ \E x \in Docs : RemoveDocument(x)
             \/ \E b \in Bases : RemoveBase(b)
             \/ Erase \/ Restart
    BY <1>4, RemovalEffect DEF NoGhost
  <1>5. CASE UNCHANGED vars
    BY <1>5 DEF vars, NoGhost
  <1> QED
    BY <1>1, <1>2, <1>3, <1>4, <1>5 DEF Next

LEMMA PollsKept ==
    ASSUME IInv, [Next]_vars
    PROVE  PollsKnown'
  <1> USE DEF IInv
  <1>1. ASSUME NEW p \in Polls, NEW x \in Docs, Look(p, x)
        PROVE  PollsKnown'
    <2>1. polls'[p].doc = x /\ \A q \in Polls \ {p} : polls'[q] = polls[q]
      BY <1>1, LookFrame
    <2>2. \A q \in Polls : polls[q].pc # "idle" => polls[q].doc \in Docs
      BY DEF PollsKnown
    <2>3. SUFFICES ASSUME NEW q \in Polls, polls'[q].pc # "idle"
                   PROVE  polls'[q].doc \in Docs
      BY DEF PollsKnown
    <2> QED
      BY <2>1, <2>2, <2>3
  <1>2. ASSUME NEW p \in Polls, Listing(p)
        PROVE  PollsKnown'
    <2> SUFFICES ASSUME NEW q \in Polls, polls'[q].pc # "idle"
                 PROVE  polls'[q].doc \in Docs
      BY DEF PollsKnown
    <2>1. CASE q = p
      <3>1. polls'[p] = NoPoll \/ polls'[p].doc \in Docs
        BY <1>2, ListingFrame
      <3>2. NoPoll.pc = "idle"
        BY DEF NoPoll
      <3> QED
        BY <2>1, <3>1, <3>2
    <2>2. CASE q # p
      BY <1>2, <2>2, ListingFrame DEF PollsKnown
    <2> QED
      BY <2>1, <2>2
  <1>3. UNCHANGED polls => PollsKnown'
    BY DEF PollsKnown
  <1>4. ASSUME NEW x \in Docs, Upload(x) \/ Import(x)
        PROVE  UNCHANGED polls
    BY <1>4, UploadFrame, ImportFrame DEF echoVars
  <1>5. CASE \/ \E x \in Docs : RemoveDocument(x)
             \/ \E b \in Bases : RemoveBase(b)
             \/ Erase \/ Restart
    BY <1>3, <1>5, RemovalEffect DEF echoVars
  <1>6. CASE UNCHANGED vars
    BY <1>3, <1>6 DEF vars, echoVars
  <1> QED
    BY <1>1, <1>2, <1>3, <1>4, <1>5, <1>6 DEF Next


\* Where an import finds its document gone, it leaves the stores as clean as
\* they were: what it writes it looks at again, and takes back.
LEMMA CleanByImport ==
    ASSUME TypeOK, NoGhost, NEW d \in Docs, Import(d), NEW s \in {"names", "chunks"},
           ~Alive(d), Clean(s, d)
    PROVE  Clean(s, d)'
  <1>1. CASE imports[d] \notin Stores \union Rechecks
    <2>1. d \notin stored[s] \/ d \in bypassed
      BY <1>1 DEF Clean, Rechecking
    <2>2. stored' = stored
      BY <1>1 DEF Import, Check, Mark, AskMinerU, Unpack, ConvertFile, Split, Recognize, Embed,
                  Node, Insert, Recheck, Break, BreakLate, Record, Report, Fail, FailUnheard, Stores, Records
    <2> QED
      BY <2>1, <2>2, ImportFrame DEF Clean, Owned
  <1>2. CASE imports[d] \in Stores
    <2>1. d \notin stored[s] \/ d \in bypassed
      BY <1>2 DEF Clean, Rechecking, Stores, Rechecks
    <2>2. Insert(d) \/ Break(d) \/ BreakLate(d)
      BY <1>2 DEF Import, Check, Mark, AskMinerU, Unpack, ConvertFile, Split, Recognize, Embed,
                  Node, Insert, Recheck, Break, BreakLate, Record, Report, Fail, FailUnheard, Stores, Checks, Rechecks, Records
    <2>3. CASE Break(d) \/ BreakLate(d)
      BY <1>2, <2>1, <2>3 DEF Break, BreakLate, Clean, Stores, Records, Rechecks
    <2>4. CASE Insert(d) /\ imports[d] = s
      <3>1. imports'[d] = (IF s = "names" THEN "names_recheck" ELSE "chunks_recheck")
        BY <2>4, Edges DEF Insert, Advance, TypeOK
      <3> QED
        BY <3>1 DEF Clean, Rechecking, Rechecked, Rechecks
    <2>5. CASE Insert(d) /\ imports[d] # s
      <3>1. stored'[s] = stored[s] /\ bypassed' = bypassed
        BY <2>5 DEF Insert, TypeOK, Stores
      <3> QED
        BY <2>1, <3>1 DEF Clean
    <2> QED
      BY <2>2, <2>3, <2>4, <2>5
  <1>3. CASE imports[d] \in Rechecks
    <2>1. Recheck(d) \/ Break(d)
      BY <1>3 DEF Import, Check, Mark, AskMinerU, Unpack, ConvertFile, Split, Recognize, Embed,
                  Node, Insert, Recheck, Break, BreakLate, Record, Report, Fail, FailUnheard, Stores, Checks, Rechecks, Records,
                  Silent
    <2>2. \/ stored' = [stored EXCEPT ![Rechecked(d)] = @ \ {d}] /\ bypassed' = bypassed
          \/ d \in bypassed'
      BY <1>3, <2>1 DEF Recheck, Break
    <2>3. CASE d \in bypassed'
      BY <2>3 DEF Clean
    <2>4. CASE stored' = [stored EXCEPT ![Rechecked(d)] = @ \ {d}] /\ bypassed' = bypassed
      BY <1>3, <2>4 DEF Clean, Rechecking, Rechecked, TypeOK, Stores
    <2> QED
      BY <2>2, <2>3, <2>4
  <1> QED
    BY <1>1, <1>2, <1>3

LEMMA CleanApart ==
    ASSUME NEW d \in Docs, NEW s \in {"names", "chunks"}, Unmoved(d)
    PROVE  Clean(s, d)' <=> Clean(s, d)
  BY DEF Unmoved, Clean, Rechecking, Rechecked, Stores

\* A store that lost documents, or a document more that may be bypassed.
LEMMA CleanShrinks ==
    ASSUME NEW d \in Docs, NEW s, Clean(s, d),
           stored'[s] \subseteq stored[s], bypassed \subseteq bypassed', imports'[d] = imports[d]
    PROVE  Clean(s, d)'
  BY DEF Clean, Rechecking, Rechecked

\* A step of a removal takes out of the store it is about only.
LEMMA StoreErased ==
    ASSUME TypeOK, EraseStore
    PROVE  /\ UNCHANGED <<echoVars, bases, documents, tasks, imports>>
           /\ bypassed \subseteq bypassed'
           /\ \A s \in Stores : stored'[s] \subseteq stored[s]
           /\ \A s \in Stores : stored[s] \subseteq stored'[s] \union {eraser.doc}
           /\ eraser.doc \notin stored'[eraser.pc] \/ eraser.doc \in bypassed'
  BY DEF EraseStore, TypeOK

LEMMA AbsentKept ==
    ASSUME IInv, [Next]_vars
    PROVE  AbsentIsClean'
  <1> USE DEF IInv
  <1> SUFFICES ASSUME NEW d \in Docs, documents'[d] = Absent, NEW s \in {"names", "chunks"}
               PROVE  Clean(s, d)'
    BY DEF AbsentIsClean
  <1>0. documents[d] = Absent => Clean(s, d)
    BY DEF AbsentIsClean
  <1>1. ASSUME NEW x \in Docs, Upload(x)
        PROVE  Clean(s, d)'
    <2>1. documents'[x].status = "pending" => x # d
      BY DEF Absent
    <2>2. /\ documents'[d] = documents[d] /\ imports'[d] = imports[d]
          /\ UNCHANGED <<stored, bypassed>>
      BY <1>1, <2>1, UploadFrame
    <2> QED
      BY <1>0, <2>2, CleanShrinks
  <1>2. CASE \E p \in Polls : Listing(p) \/ \E x \in Docs : Look(p, x)
    <2>1. UNCHANGED <<documents, imports, stored, bypassed>>
      BY <1>2, LookFrame, ListingFrame
    <2> QED
      BY <1>0, <2>1, CleanShrinks
  <1>3. ASSUME NEW x \in Docs, Import(x)
        PROVE  Clean(s, d)'
    <2>1. CASE x = d
      BY <1>0, <1>3, <2>1, ImportFrame, CleanByImport, AbsentIsNotAlive DEF Owned
    <2>2. CASE x # d
      BY <1>0, <1>3, <2>2, ImportFrame, CleanApart DEF Unmoved
    <2> QED
      BY <2>1, <2>2
  <1>4. CASE (\E x \in Docs : RemoveDocument(x)) \/ \E b \in Bases : RemoveBase(b)
    <2>1. documents[d] = Absent
      <3>1. documents'[d] = documents[d] \/ documents'[d].status = "deleting"
        BY <1>4, RequestEffect
      <3> QED
        BY <3>1 DEF Absent
    <2>2. UNCHANGED <<imports, stored, bypassed>>
      BY <1>4, RequestEffect
    <2> QED
      BY <1>0, <2>1, <2>2, CleanShrinks
  <1>5. CASE NextDocument \/ EraseBreaks
    <2>1. UNCHANGED <<documents, imports, stored, bypassed>>
      BY <1>5 DEF NextDocument, EraseBreaks
    <2> QED
      BY <1>0, <2>1, CleanShrinks
  <1>6. CASE EraseStore
    BY <1>0, <1>6, StoreErased, CleanShrinks DEF Stores
  <1>7. CASE EraseRecord
    <2>1. Clean(s, eraser.doc)
      BY <1>7 DEF EraserClean, EraseRecord
    <2>2. documents'[d] = documents[d] \/ d = eraser.doc
      BY <1>7 DEF EraseRecord, TypeOK
    <2>3. UNCHANGED <<imports, stored, bypassed>>
      BY <1>7 DEF EraseRecord
    <2> QED
      BY <1>0, <2>1, <2>2, <2>3, CleanShrinks
  <1>8. CASE EraseBase
    <2>1. CASE d \in InBase(eraser.base)
      BY <1>8, <2>1 DEF EraseBase, Clean, Rechecking, Rechecked
    <2>2. CASE d \notin InBase(eraser.base)
      <3>1. /\ documents'[d] = documents[d] /\ UNCHANGED <<imports, stored>>
            /\ bypassed \subseteq bypassed'
        BY <1>8, <2>2 DEF EraseBase
      <3> QED
        BY <1>0, <3>1, CleanShrinks
    <2> QED
      BY <2>1, <2>2
  <1>9. CASE Restart
    <2>1. Clean(s, d)
      BY <1>0, <1>9 DEF Restart
    <2> QED
      BY <1>9, <2>1 DEF Restart, Clean, Rechecking
  <1>10. CASE UNCHANGED vars
    <2>1. UNCHANGED <<documents, imports, stored, bypassed>>
      BY <1>10 DEF vars
    <2> QED
      BY <1>0, <2>1, CleanShrinks
  <1> QED
    BY <1>1, <1>2, <1>3, <1>4, <1>5, <1>6, <1>7, <1>8, <1>9, <1>10 DEF Next, Erase

\* The mark of a removal stays, or is written over by an import that finds out.
LEMMA CondemnedKept ==
    ASSUME IInv, [Next]_vars, ~EraseRecord, ~EraseBase, NEW d \in Docs, Condemned(d)
    PROVE  Condemned(d)'
  <1> USE DEF IInv, Condemned
  <1>1. ASSUME NEW x \in Docs, Upload(x)
        PROVE  Condemned(d)'
    <2>1. CASE UNCHANGED documents
      BY <1>1, <2>1, UploadFrame
    <2>2. CASE x = d /\ documents' # documents
      <3>1. documents[d] = Absent /\ UNCHANGED bypassed
        BY <1>1, <2>2, UploadFrame DEF UnsentUntouched, Unsent, Untouched
      <3> QED
        BY <3>1 DEF Absent
    <2>3. CASE x # d
      BY <1>1, <2>3, UploadFrame
    <2> QED
      BY <2>1, <2>2, <2>3
  <1>2. CASE \E p \in Polls : Listing(p) \/ \E x \in Docs : Look(p, x)
    BY <1>2, LookFrame, ListingFrame
  <1>3. ASSUME NEW x \in Docs, Import(x)
        PROVE  Condemned(d)'
    BY <1>3, ImportFrame DEF Owned, Unmoved
  <1>4. CASE (\E x \in Docs : RemoveDocument(x)) \/ (\E b \in Bases : RemoveBase(b))
    BY <1>4, RequestEffect
  <1>5. CASE NextDocument \/ EraseStore \/ EraseBreaks \/ Restart
    BY <1>5 DEF NextDocument, EraseStore, EraseBreaks, Restart
  <1>6. CASE UNCHANGED vars
    BY <1>6 DEF vars
  <1> QED
    BY <1>1, <1>2, <1>3, <1>4, <1>5, <1>6 DEF Next, Erase

LEMMA EraserMarksKept ==
    ASSUME IInv, [Next]_vars
    PROVE  EraserMarks'
  <1> USE DEF IInv
  <1>1. CASE eraser' = NoErasure
    BY <1>1 DEF EraserMarks, NoErasure, Stores
  <1>2. CASE UNCHANGED eraser /\ ~EraseRecord /\ ~EraseBase
    <2>1. \A d \in eraser.docs : d \in Docs
      BY DEF TypeOK, Eraser
    <2> QED
      BY <1>2, <2>1, CondemnedKept DEF EraserMarks
  <1>3. ASSUME NEW x \in Docs, RemoveDocument(x)
        PROVE  EraserMarks'
    <2>1. eraser'.pc = "chunks" /\ eraser'.doc = x /\ eraser'.docs = {}
      BY <1>3 DEF RemoveDocument, NoErasure
    <2>2. MarkDeleting({x}) /\ {x} \in SUBSET Docs
      BY <1>3 DEF RemoveDocument
    <2>3. documents'[x].status = "deleting"
      BY <2>2, MarkEffect
    <2> QED
      BY <2>1, <2>3 DEF EraserMarks, Condemned
  <1>4. ASSUME NEW b \in Bases, RemoveBase(b)
        PROVE  EraserMarks'
    <2> DEFINE docs == {d \in InBase(b) : Alive(d)}
    <2>1. eraser'.pc = "next" /\ eraser'.docs = docs
      BY <1>4 DEF RemoveBase, NoErasure
    <2>2. MarkDeleting(docs) /\ docs \in SUBSET Docs
      BY <1>4 DEF RemoveBase, InBase
    <2> HIDE DEF docs
    <2>3. \A x \in docs : documents'[x].status = "deleting"
      BY <2>2, MarkEffect
    <2> QED
      BY <2>1, <2>3 DEF EraserMarks, Condemned, Stores
  <1>5. CASE NextDocument
    <2>1. eraser \in Eraser /\ eraser.docs \subseteq Docs
      BY DEF TypeOK, Eraser
    <2>2. UNCHANGED <<documents, bypassed>>
      BY <1>5 DEF NextDocument
    <2>3. \A d \in Docs : Condemned(d)' <=> Condemned(d)
      BY <2>2 DEF Condemned
    <2>4. CASE eraser' = [eraser EXCEPT !.pc = "base"]
      <3>1. eraser'.pc = "base" /\ eraser'.docs = eraser.docs
        BY <2>1, <2>4 DEF Eraser
      <3> QED
        BY <2>1, <2>3, <3>1 DEF EraserMarks, Stores
    <2>5. ASSUME NEW d \in eraser.docs,
                 eraser' = [eraser EXCEPT !.pc = "chunks", !.doc = d, !.docs = @ \ {d}]
          PROVE  EraserMarks'
      <3>1. eraser'.doc = d /\ eraser'.docs = eraser.docs \ {d}
        BY <2>1, <2>5 DEF Eraser
      <3> QED
        BY <2>1, <2>3, <3>1 DEF EraserMarks
    <2> QED
      BY <1>5, <2>4, <2>5 DEF NextDocument
  <1>6. CASE EraseStore
    <2>1. eraser \in Eraser /\ eraser.docs \subseteq Docs /\ eraser.doc \in Docs
      BY <1>6 DEF TypeOK, Eraser, EraserMarks, EraseStore
    <2>2. eraser'.doc = eraser.doc /\ eraser'.docs = eraser.docs
      BY <1>6, <2>1 DEF EraseStore, Eraser
    <2>3. \A d \in Docs : Condemned(d) => Condemned(d)'
      BY <1>6, StoreErased DEF Condemned
    <2> QED
      BY <1>6, <2>1, <2>2, <2>3 DEF EraserMarks, EraseStore
  <1>7. CASE UNCHANGED eraser /\ (EraseRecord \/ EraseBase)
    <2>1. eraser' = NoErasure
      BY <1>7 DEF EraseRecord, EraseBase
    <2> QED
      BY <1>1, <2>1
  <1>8. ASSUME NEW x \in Docs, Upload(x) \/ Import(x)
        PROVE  UNCHANGED eraser
    BY <1>8, UploadFrame, ImportFrame
  <1>9. CASE \E p \in Polls : Listing(p) \/ \E x \in Docs : Look(p, x)
    BY <1>2, <1>7, <1>9, LookFrame, ListingFrame
  <1>10. CASE EraseBreaks \/ EraseRecord \/ EraseBase \/ Restart
    BY <1>1, <1>10 DEF EraseBreaks, EraseRecord, EraseBase, Restart
  <1>11. CASE UNCHANGED vars
    BY <1>2, <1>7, <1>11 DEF vars
  <1> QED
    BY <1>2, <1>3, <1>4, <1>5, <1>6, <1>7, <1>8, <1>9, <1>10, <1>11 DEF Next, Erase


LEMMA EraserCleanKept ==
    ASSUME IInv, [Next]_vars
    PROVE  EraserClean'
  <1> USE DEF IInv
  <1>1. CASE eraser' = NoErasure
    BY <1>1 DEF EraserClean, NoErasure
  <1>2. ASSUME UNCHANGED eraser,
               \A s \in {"names", "chunks"} : Clean(s, eraser.doc) /\ eraser.pc \in {"names", "images", "record"}
                                                => Clean(s, eraser.doc)'
        PROVE  EraserClean'
    <2>1. /\ eraser.pc \in {"names", "images", "record"} /\ Clean("chunks", eraser.doc)
             => Clean("chunks", eraser.doc)'
          /\ eraser.pc \in {"names", "images", "record"} /\ Clean("names", eraser.doc)
             => Clean("names", eraser.doc)'
      BY <1>2
    <2> QED
      BY <1>2, <2>1 DEF EraserClean
  <1>3. eraser.pc \in {"names", "images", "record"} => eraser.doc \in Docs /\ Condemned(eraser.doc)
    BY DEF EraserMarks, Stores
  <1>4. ASSUME NEW x \in Docs, Upload(x)
        PROVE  EraserClean'
    <2>1. UNCHANGED <<eraser, stored, bypassed>>
      BY <1>4, UploadFrame
    <2>2. eraser.doc \in Docs => imports'[eraser.doc] = imports[eraser.doc]
      <3>1. CASE UNCHANGED imports
        BY <3>1
      <3>2. CASE imports' # imports
        <4>1. eraser.doc # x
          BY <1>4, <3>2, UploadFrame DEF UnsentUntouched, Unsent, Untouched
        <4> QED
          BY <1>4, <4>1, UploadFrame
      <3> QED
        BY <3>1, <3>2
    <2> QED
      BY <1>2, <1>3, <2>1, <2>2, CleanShrinks
  <1>5. CASE \E p \in Polls : Listing(p) \/ \E x \in Docs : Look(p, x)
    <2>1. UNCHANGED <<eraser, imports, stored, bypassed>>
      BY <1>5, LookFrame, ListingFrame
    <2> QED
      BY <1>2, <1>3, <2>1, CleanShrinks
  <1>6. ASSUME NEW x \in Docs, Import(x)
        PROVE  EraserClean'
    <2>1. UNCHANGED eraser
      BY <1>6, ImportFrame
    <2>2. ASSUME NEW s \in {"names", "chunks"}, Clean(s, eraser.doc),
                 eraser.pc \in {"names", "images", "record"}
          PROVE  Clean(s, eraser.doc)'
      <3>1. CASE eraser.doc # x
        BY <1>3, <1>6, <2>2, <3>1, ImportFrame, CleanApart
      <3>2. CASE eraser.doc = x /\ x \in bypassed
        <4>1. x \in bypassed'
          BY <1>6, <3>2, ImportFrame DEF Owned
        <4>2. Clean(s, x)'
          BY <4>1 DEF Clean
        <4> QED
          BY <2>1, <3>2, <4>2 DEF Clean, Rechecking, Rechecked
      <3>3. CASE eraser.doc = x /\ x \notin bypassed
        <4>1. ~Alive(x)
          BY <1>3, <2>2, <3>3 DEF Condemned, Alive
        <4>2. Clean(s, x)'
          BY <1>6, <2>2, <3>3, <4>1, CleanByImport
        <4> QED
          BY <2>1, <3>3, <4>2 DEF Clean, Rechecking, Rechecked
      <3> QED
        BY <3>1, <3>2, <3>3
    <2> QED
      BY <1>2, <2>1, <2>2
  <1>7. CASE (\E x \in Docs : RemoveDocument(x)) \/ (\E b \in Bases : RemoveBase(b)) \/ NextDocument
    <2>1. CASE (\E x \in Docs : RemoveDocument(x)) \/ (\E b \in Bases : RemoveBase(b))
      BY <2>1 DEF RemoveDocument, RemoveBase, NoErasure, EraserClean
    <2>2. CASE NextDocument
      <3>1. eraser \in Eraser
        BY DEF TypeOK
      <3>2. eraser'.pc \in {"base", "chunks"}
        BY <2>2, <3>1 DEF NextDocument, Eraser
      <3> QED
        BY <3>2 DEF EraserClean
    <2> QED
      BY <1>7, <2>1, <2>2
  <1>8. CASE EraseStore
    <2>1. eraser \in Eraser /\ eraser.doc \in Docs
      BY <1>8 DEF TypeOK, Eraser, EraserMarks, EraseStore
    <2>2. eraser'.doc = eraser.doc /\ eraser'.base = eraser.base /\ eraser'.pc = ErasePc(eraser.pc)
      BY <1>8, <2>1 DEF EraseStore, Eraser
    <2>3. ASSUME NEW s \in {"names", "chunks"}, Clean(s, eraser.doc) \/ eraser.pc = s
          PROVE  Clean(s, eraser.doc)'
      <3>1. CASE eraser.pc = s
        <4>1. eraser.doc \notin stored'[s] \/ eraser.doc \in bypassed'
          BY <1>8, <3>1, StoreErased
        <4> QED
          BY <2>2, <4>1 DEF Clean
      <3>2. CASE Clean(s, eraser.doc)
        <4>1. Clean(s, eraser'.doc)
          BY <2>2, <3>2
        <4> QED
          BY <1>8, <2>1, <2>2, <3>2, StoreErased, CleanShrinks DEF Stores
      <3> QED
        BY <2>3, <3>1, <3>2
    <2>4. /\ Clean("chunks", eraser.doc) \/ eraser.pc = "chunks" => Clean("chunks", eraser.doc)'
          /\ Clean("names", eraser.doc) \/ eraser.pc = "names" => Clean("names", eraser.doc)'
      BY <2>3
    <2>5. /\ eraser.pc = "chunks" => ErasePc(eraser.pc) = "names"
          /\ eraser.pc = "names" => ErasePc(eraser.pc) = "images"
          /\ eraser.pc = "images" => ErasePc(eraser.pc) = (IF eraser.base = NoBase THEN "record" ELSE "next")
          /\ eraser.pc \in {"chunks", "names", "images"}
      BY <1>8 DEF EraseStore, ErasePc, Stores
    <2> QED
      BY <2>2, <2>4, <2>5 DEF EraserClean
  <1>9. CASE EraseBreaks \/ EraseRecord \/ EraseBase \/ Restart
    BY <1>1, <1>9 DEF EraseBreaks, EraseRecord, EraseBase, Restart
  <1>10. CASE UNCHANGED vars
    <2>1. UNCHANGED <<eraser, imports, stored, bypassed>>
      BY <1>10 DEF vars
    <2> QED
      BY <1>2, <1>3, <2>1, CleanShrinks
  <1> QED
    BY <1>4, <1>5, <1>6, <1>7, <1>8, <1>9, <1>10 DEF Next, Erase


\* What an import wrote stays where it can be searched, as long as its
\* document is not removed.
LEMMA FoundedByImport ==
    ASSUME TypeOK, NoGhost, NEW d \in Docs, Import(d), Founded(d)
    PROVE  Founded(d)'
  <1>1. CASE ~Alive(d) \/ d \in bypassed
    BY <1>1, ImportFrame DEF Founded, Alive, Owned, Absent, NoGhost
  <1>2. CASE Alive(d) /\ d \in stored["chunks"]
    <2>1. d \in stored'["chunks"]
      BY <1>2 DEF Import, Check, Mark, AskMinerU, Unpack, ConvertFile, Split, Recognize, Embed,
                  Node, Insert, Recheck, Break, BreakLate, Record, Report, Fail, FailUnheard, Stores, TypeOK
    <2> QED
      BY <2>1 DEF Founded
  <1> QED
    BY <1>1, <1>2 DEF Founded

\* An import comes to claim completion by writing the chunks only.
LEMMA ClaimByImport ==
    ASSUME TypeOK, NEW d \in Docs, Import(d), Claimed(d)', ~Claimed(d)
    PROVE  Founded(d)'
  <1>0. /\ imports[d] \notin {"chunks_recheck", "close", "complete", "report"}
        /\ tasks[d] # "completed"
    BY DEF Claimed
  <1>1. \/ imports'[d] \in {"chunks_recheck", "close", "complete", "report"}
        \/ tasks'[d] = "completed"
    <2>1. UNCHANGED <<uploads, polls>>
      BY DEF Import, Check, Mark, AskMinerU, Unpack, ConvertFile, Split, Recognize, Embed,
             Node, Insert, Recheck, Break, BreakLate, Record, Report, Fail, FailUnheard, echoVars
    <2> QED
      BY <2>1 DEF Claimed
  <1>2. Insert(d) /\ imports[d] = "chunks"
    <2>1. CASE Check(d) \/ Recheck(d)
      BY <1>0, <1>1, <2>1, Edges DEF Check, Recheck, Advance, GiveUp, TypeOK, Checks, Rechecks
    <2>2. CASE Mark(d)
      BY <1>0, <1>1, <2>2, Edges DEF Mark, Advance, TypeOK
    <2>3. ASSUME NEW step \in Silent, Node(d, step)
          PROVE  FALSE
      BY <1>0, <1>1, <2>3, Edges DEF Node, Advance, TypeOK, Silent
    <2>4. CASE Insert(d)
      <3>1. UNCHANGED tasks /\ imports[d] \in {"images", "names", "chunks"}
        BY <2>4 DEF Insert, Stores
      <3>2. imports[d] = "images" => imports'[d] = "split"
        BY <2>4, Edges DEF Insert, Advance, TypeOK
      <3>3. imports[d] = "names" => imports'[d] = "names_recheck"
        BY <2>4, Edges DEF Insert, Advance, TypeOK
      <3> QED
        BY <1>0, <1>1, <2>4, <3>1, <3>2, <3>3
    <2>5. CASE Break(d) \/ BreakLate(d) \/ Fail(d) \/ FailUnheard(d)
      BY <1>0, <1>1, <2>5 DEF Break, BreakLate, GiveUp, Fail, FailUnheard, TypeOK
    <2>6. CASE Record(d) \/ Report(d)
      BY <1>0, <1>1, <2>6, Edges DEF Record, Records, Report, Advance, TypeOK
    <2> QED
      BY <2>1, <2>2, <2>3, <2>4, <2>5, <2>6
         DEF Import, AskMinerU, Unpack, ConvertFile, Split, Recognize, Embed, Silent
  <1>3. d \in stored'["chunks"]
    BY <1>2 DEF Insert, TypeOK, Stores
  <1> QED
    BY <1>3 DEF Founded

LEMMA ClaimsKept ==
    ASSUME IInv, [Next]_vars
    PROVE  ClaimsFounded'
  <1> USE DEF IInv
  <1> SUFFICES ASSUME NEW d \in Docs, Claimed(d)'
               PROVE  Founded(d)'
    BY DEF ClaimsFounded
  <1>0. Claimed(d) => Founded(d)
    BY DEF ClaimsFounded
  <1>1. ASSUME NEW x \in Docs, Upload(x)
        PROVE  Founded(d)'
    <2>1. UNCHANGED <<tasks, polls, stored, bypassed>>
      BY <1>1, UploadFrame
    <2>2. imports'[d] = imports[d]
      <3>1. CASE UNCHANGED imports
        BY <3>1
      <3>2. CASE imports' # imports /\ x = d
        <4>1. Untouched(d) /\ uploads' = uploads /\ imports'[d] = "queued"
          BY <1>1, <3>2, UploadFrame DEF UnsentUntouched, Unsent
        <4>2. ~Claimed(d)'
          BY <2>1, <4>1 DEF Claimed, Untouched
        <4> QED
          BY <4>2
      <3>3. CASE x # d
        BY <1>1, <3>3, UploadFrame
      <3> QED
        BY <3>1, <3>2, <3>3
    <2>3. Claimed(d)
      <3>1. uploads'[d].index = "completed" => uploads[d].index = "completed"
        BY <1>1, UploadFrame
      <3> QED
        BY <2>1, <2>2, <3>1 DEF Claimed
    <2>4. documents'[d] = documents[d]
      <3>1. ~Untouched(d)
        BY <2>3 DEF Claimed, Untouched
      <3> QED
        BY <1>1, <3>1, UploadFrame DEF UnsentUntouched, Unsent
    <2> QED
      BY <1>0, <2>1, <2>3, <2>4 DEF Founded, Alive
  <1>2. ASSUME NEW p \in Polls, NEW x \in Docs, Look(p, x)
        PROVE  Founded(d)'
    <2>1. /\ UNCHANGED <<uploads, documents, tasks, imports, stored, bypassed>>
          /\ polls'[p].answer = "" /\ \A q \in Polls \ {p} : polls'[q] = polls[q]
      BY <1>2, LookFrame
    <2>2. Claimed(d)
      BY <2>1 DEF Claimed
    <2> QED
      BY <1>0, <2>1, <2>2 DEF Founded, Alive
  <1>3. ASSUME NEW p \in Polls, Listing(p)
        PROVE  Founded(d)'
    <2>1. /\ UNCHANGED <<documents, tasks, imports, stored, bypassed>>
          /\ \A q \in Polls \ {p} : polls'[q] = polls[q]
      BY <1>3, ListingFrame
    <2>2. Claimed(d)
      <3>1. CASE /\ polls'[p].doc = polls[p].doc
                 /\ polls'[p].answer \in {polls[p].answer, tasks[polls[p].doc]}
                 /\ UNCHANGED uploads
        BY <2>1, <3>1 DEF Claimed
      <3>2. CASE /\ polls'[p] = NoPoll
                 /\ uploads' \in {uploads, [uploads EXCEPT ![polls[p].doc].index = polls[p].answer]}
        <4>0. NoPoll.answer = ""
          BY DEF NoPoll
        <4>1. polls'[p].answer = ""
          BY <3>2, <4>0
        <4>2. uploads'[d].index = "completed" =>
                 \/ uploads[d].index = "completed"
                 \/ polls[p].doc = d /\ polls[p].answer = "completed"
          BY <3>2 DEF TypeOK, Row
        <4> QED
          BY <2>1, <4>1, <4>2 DEF Claimed
      <3> QED
        BY <1>3, <3>1, <3>2, ListingFrame
    <2> QED
      BY <1>0, <2>1, <2>2 DEF Founded, Alive
  <1>4. ASSUME NEW x \in Docs, Import(x)
        PROVE  Founded(d)'
    <2>1. CASE x = d
      BY <1>0, <1>4, <2>1, FoundedByImport, ClaimByImport
    <2>2. CASE x # d
      <3>1. Unmoved(d) /\ UNCHANGED <<uploads, polls>>
        BY <1>4, <2>2, ImportFrame DEF echoVars
      <3>2. Claimed(d)
        BY <3>1 DEF Claimed, Unmoved
      <3> QED
        BY <1>0, <3>1, <3>2 DEF Founded, Unmoved, Alive, Stores
    <2> QED
      BY <2>1, <2>2
  <1>5. CASE (\E x \in Docs : RemoveDocument(x)) \/ (\E b \in Bases : RemoveBase(b))
    <2>1. /\ UNCHANGED <<uploads, polls, tasks, imports, stored, bypassed>>
          /\ documents'[d] = documents[d] \/ documents'[d].status = "deleting"
      BY <1>5, RequestEffect DEF echoVars
    <2>2. Claimed(d)
      BY <2>1 DEF Claimed
    <2> QED
      BY <1>0, <2>1, <2>2 DEF Founded, Alive
  <1>6. CASE NextDocument \/ EraseBreaks
    <2>1. UNCHANGED <<uploads, polls, documents, tasks, imports, stored, bypassed>>
      BY <1>6 DEF NextDocument, EraseBreaks, echoVars
    <2>2. Claimed(d)
      BY <2>1 DEF Claimed
    <2> QED
      BY <1>0, <2>1, <2>2 DEF Founded, Alive
  <1>7. CASE EraseStore
    <2>1. /\ UNCHANGED <<uploads, polls, documents, tasks, imports>> /\ bypassed \subseteq bypassed'
          /\ stored["chunks"] \subseteq stored'["chunks"] \union {eraser.doc}
      BY <1>7, StoreErased DEF echoVars, Stores
    <2>2. Claimed(d)
      BY <2>1 DEF Claimed
    <2>3. CASE d = eraser.doc
      BY <1>7, <2>1, <2>3 DEF EraseStore, EraserMarks, Condemned, Founded, Alive
    <2>4. CASE d # eraser.doc
      BY <1>0, <2>1, <2>2, <2>4 DEF Founded, Alive
    <2> QED
      BY <2>3, <2>4
  <1>8. CASE EraseRecord \/ EraseBase
    <2>1. /\ UNCHANGED <<uploads, polls, tasks, imports, stored>> /\ bypassed \subseteq bypassed'
          /\ documents'[d] = documents[d] \/ documents'[d] = Absent
      BY <1>8 DEF EraseRecord, EraseBase, echoVars, TypeOK
    <2>2. Claimed(d)
      BY <2>1 DEF Claimed
    <2> QED
      BY <1>0, <2>1, <2>2 DEF Founded, Alive, Absent
  <1>9. CASE Restart
    <2>1. /\ UNCHANGED <<uploads, polls, documents, stored>> /\ bypassed \subseteq bypassed'
          /\ imports'[d] \in {"none", "ended"} /\ tasks'[d] = ""
      BY <1>9 DEF Restart, echoVars
    <2>2. Claimed(d)
      BY <2>1 DEF Claimed
    <2> QED
      BY <1>0, <2>1, <2>2 DEF Founded, Alive
  <1>10. CASE UNCHANGED vars
    <2>1. UNCHANGED <<uploads, polls, documents, tasks, imports, stored, bypassed>>
      BY <1>10 DEF vars, echoVars
    <2>2. Claimed(d)
      BY <2>1 DEF Claimed
    <2> QED
      BY <1>0, <2>1, <2>2 DEF Founded, Alive
  <1> QED
    BY <1>1, <1>2, <1>3, <1>4, <1>5, <1>6, <1>7, <1>8, <1>9, <1>10 DEF Next, Erase

-----------------------------------------------------------------------------
(* The theorems.                                                           *)

LEMMA Inductive ==
    /\ Init => IInv
    /\ IInv /\ [Next]_vars => IInv'
  <1>1. Init => IInv
    <2> SUFFICES ASSUME Init
                 PROVE  IInv
      OBVIOUS
    <2>1. TypeOK
      BY InitTyped
    <2>2. UnsentUntouched
      BY DocumentsAssumption DEF Init, UnsentUntouched, Untouched, NoPoll, NoErasure
    <2>3. NoGhost /\ PollsKnown
      BY DEF Init, NoGhost, PollsKnown, NoPoll
    <2>4. AbsentIsClean
      BY DEF Init, AbsentIsClean, Clean, Stores
    <2>5. EraserMarks /\ EraserClean
      BY DEF Init, EraserMarks, EraserClean, NoErasure, Stores
    <2>6. ClaimsFounded
      BY DEF Init, ClaimsFounded, Claimed, NoPoll
    <2> QED
      BY <2>1, <2>2, <2>3, <2>4, <2>5, <2>6 DEF IInv
  <1>2. ASSUME IInv, [Next]_vars
        PROVE  IInv'
    <2>1. TypeOK'
      <3>1. CASE UNCHANGED vars
        BY <1>2, <3>1 DEF IInv, TypeOK, vars, echoVars
      <3> QED
        BY <1>2, <3>1, UploadTyped, LookTyped, ListingTyped, ImportTyped, RemovalTyped, RestartTyped
           DEF IInv, PollsKnown, EraserMarks, Next
    <2> QED
      BY <1>2, <2>1, UntouchedKept, NoGhostKept, PollsKept, AbsentKept, EraserMarksKept,
         EraserCleanKept, ClaimsKept DEF IInv
  <1> QED
    BY <1>1, <1>2

\* The invariant of this module holds at every step of an upload, an import, a
\* listing and a removal.
THEOREM Invariant == Spec => []IInv
  BY Inductive, PTL DEF Spec

\* The variables keep their types: an upload has one of the statuses of its
\* table, and the outages and restarts stay within their bounds.
THEOREM Typed == Spec => []TypeOK
  <1>1. IInv => TypeOK
    BY DEF IInv
  <1> QED
    BY <1>1, Invariant, PTL

\* Nothing of a removed document can be searched once its import is over,
\* except where the checks of the import could not notice the removal
\* (delete_document_resources against the checks around insert_vectors).
THEOREM Gone == Spec => []RemovedIsGone
  <1>1. IInv => RemovedIsGone
    BY DEF IInv, AbsentIsClean, Clean, Rechecking, Rechecks, RemovedIsGone, Removed, Over, Searchable
  <1> QED
    BY <1>1, Invariant, PTL

\* An upload that ECHO counts as completed has its chunks in the vector store,
\* unless it is being removed, however polls, imports and removals interleave
\* (list_knowledge_documents and update_import_task).
THEOREM CompletedHasChunks == Spec => []CompletedIsSearchable
  <1>1. IInv => CompletedIsSearchable
    BY DEF IInv, ClaimsFounded, Claimed, Founded, CompletedIsSearchable
  <1> QED
    BY <1>1, Invariant, PTL


=============================================================================
