------------------------- MODULE CourseContentProofs -------------------------
(***************************************************************************)
(* Proofs about CourseContent, for any number of requests, files,          *)
(* checkpoints, analyses and recordings, and any number of restarts.       *)
(***************************************************************************)
EXTENDS CourseContent, FiniteSetTheorems, TLAPS

\* The drafts a freeze has read, with their texts.
Reads == UNION {[S -> Texts] : S \in SUBSET Points}

\* What each kind of request has in hand.
Requests ==
    {Idle}
    \cup [op : {"import", "commit"}, preview : Previews, skip : BOOLEAN]
    \cup [op : {"generate"}]
    \cup [op : {"edit"}, point : Points]
    \cup [op : {"freeze"}, read : Reads]
    \cup [op : {"grade"}, tally : Nat \cup {NoAbility}, attempt : Attempt]

Tables ==
    /\ previews \in [Previews -> {"pending", "confirmed"}]
    /\ bank \in [Previews \union Points -> Nat]
    /\ timed \in BOOLEAN /\ points \in [Points -> Point] /\ jobs \in [Jobs -> Job]
    /\ recordings \in [Recordings -> Points \union {NoPoint}]
    /\ attempts \subseteq Attempt /\ tally \in Nat \union {NoAbility}
    /\ restarts \in 0..MaxRestarts

TypeInv == handlers \in [Handlers -> Requests] /\ Tables

LEMMA IdleRequest == Idle \in Requests /\ Idle.op = "idle"
  BY DEF Idle, Requests

LEMMA TypeInvMeans == TypeInv /\ racing \in [Points -> SUBSET Handlers] => TypeOK
<1> SUFFICES ASSUME TypeInv, racing \in [Points -> SUBSET Handlers], NEW h \in Handlers
             PROVE  handlers[h].op \in {"idle", "import", "commit", "generate", "edit", "freeze", "grade"}
  BY DEF TypeOK, TypeInv, Tables
<1>1. handlers[h] \in Requests
  BY DEF TypeInv
<1>2. QED
  BY <1>1 DEF Requests, Idle

\* What a request has in hand follows from what it does.
LEMMA InHand ==
  ASSUME TypeInv, NEW h \in Handlers
  PROVE  /\ handlers[h] \in Requests
         /\ At(h, "import") \/ At(h, "commit") =>
               handlers[h] \in [op : {"import", "commit"}, preview : Previews, skip : BOOLEAN]
         /\ At(h, "edit") => handlers[h] \in [op : {"edit"}, point : Points]
         /\ At(h, "freeze") => handlers[h] \in [op : {"freeze"}, read : Reads]
         /\ At(h, "grade") =>
               handlers[h] \in [op : {"grade"}, tally : Nat \cup {NoAbility}, attempt : Attempt]
<1>1. handlers[h] \in Requests
  BY DEF TypeInv
<1>2. QED
  BY <1>1 DEF Requests, Idle, At

\* One request goes on, the others are where they were.
LEMMA OneRequest ==
  ASSUME TypeInv, NEW h \in Handlers, NEW w \in Requests,
         handlers' = [handlers EXCEPT ![h] = w]
  PROVE  /\ handlers' \in [Handlers -> Requests]
         /\ handlers'[h] = w
         /\ \A g \in Handlers \ {h} : handlers'[g] = handlers[g]
  BY DEF TypeInv

-----------------------------------------------------------------------------
(* The invariant.                                                          *)

\* A file is marked before its question is committed.
Imports ==
    /\ ImportedIsConfirmed
    /\ \A h \in Handlers : At(h, "commit") => previews[handlers[h].preview] = "confirmed"

\* A frozen checkpoint has a quiz of its own; what was recorded was recorded
\* for a frozen checkpoint.
Frozen ==
    /\ \A p \in Points : points[p].state = "frozen" => points[p].quiz \in 1..bank[p]
    /\ \A r \in Recordings : recordings[r] # NoPoint => points[recordings[r]].state = "frozen"

\* An attempt, graded or recorded, is of the checkpoint of its recording.
Fits(x) ==
    /\ recordings[x.recording] # NoPoint
    /\ x.point = recordings[x.recording] /\ x.quiz \in 1..bank[x.point]

\* The same of the attempt in hand now, after the step.
FitsNext(x) ==
    /\ recordings'[x.recording] # NoPoint
    /\ x.point = recordings'[x.recording] /\ x.quiz \in 1..bank'[x.point]

\* The count a request has read never exceeds what is scored by now.
Scores ==
    /\ IsFiniteSet(attempts)
    /\ \A x, y \in attempts : x.id = y.id \/ x.recording = y.recording => x = y
    /\ \A x \in attempts : Fits(x)
    /\ Count(tally) <= Cardinality(attempts) /\ (Count(tally) = 0 => attempts = {})
    /\ \A h \in Handlers : At(h, "grade") =>
          Fits(handlers[h].attempt) /\ Count(handlers[h].tally) <= Cardinality(attempts)

IInv == TypeInv /\ Imports /\ Frozen /\ Scores

\* What every step keeps of a checkpoint and of the bank.
Grows ==
    /\ \A q \in Previews \cup Points : bank'[q] >= bank[q]
    /\ \A p \in Points : points[p].state = "frozen" =>
          /\ points'[p].state = "frozen"
          /\ points'[p].quiz \in 1..bank'[p] /\ points'[p].quiz >= points[p].quiz

LEMMA PointType ==
  ASSUME TypeInv, NEW p \in Points
  PROVE  /\ points[p] \in Point /\ points[p].quiz \in Nat
         /\ bank[p] \in Nat
  BY DEF TypeInv, Tables, Point

\* Nothing happens to checkpoints and bank.
LEMMA StaysGrows ==
  ASSUME IInv, bank' = bank, points' = points
  PROVE  Grows
<1>1. \A q \in Previews \cup Points : bank[q] \in Nat
  BY DEF IInv, TypeInv, Tables
<1>2. \A p \in Points : points[p].quiz \in Nat
  BY PointType DEF IInv
<1>3. QED
  BY <1>1, <1>2 DEF Grows, IInv, Frozen

\* Attempts that fit go on fitting.
LEMMA FitsStays ==
  ASSUME TypeInv, TypeInv', Grows, NEW x \in Attempt, Fits(x),
         \A r \in Recordings : recordings[r] # NoPoint => recordings'[r] = recordings[r]
  PROVE  FitsNext(x)
<1>1. x.recording \in Recordings /\ x.point \in Points /\ x.quiz \in Nat
  BY DEF Attempt
<1>2. bank[x.point] \in Nat /\ bank'[x.point] \in Nat /\ bank'[x.point] >= bank[x.point]
  BY <1>1 DEF TypeInv, Tables, Grows
<1>3. QED
  BY <1>1, <1>2 DEF Fits, FitsNext

-----------------------------------------------------------------------------
(* What keeps the parts of the invariant.                                  *)

LEMMA ImportsNext ==
  ASSUME IInv,
         \A f \in Previews : previews[f] = "confirmed" => previews'[f] = "confirmed",
         \A f \in Previews : bank'[f] > 0 => bank[f] > 0 \/ previews'[f] = "confirmed",
         \A h \in Handlers : At(h, "commit")' =>
            handlers'[h] = handlers[h] \/ previews'[handlers'[h].preview] = "confirmed"
  PROVE  Imports'
<1>1. ImportedIsConfirmed'
  BY DEF IInv, Imports, ImportedIsConfirmed
<1>2. ASSUME NEW h \in Handlers, At(h, "commit")', handlers'[h] = handlers[h]
      PROVE  previews'[handlers'[h].preview] = "confirmed"
  <2>1. At(h, "commit")
    BY <1>2 DEF At
  <2>2. handlers[h].preview \in Previews
    BY <2>1, InHand DEF IInv
  <2>3. QED
    BY <1>2, <2>1, <2>2 DEF IInv, Imports
<1>3. QED
  BY <1>1, <1>2 DEF Imports

LEMMA FrozenNext ==
  ASSUME IInv, Grows,
         \A p \in Points : points'[p].state = "frozen" =>
            points[p].state = "frozen" \/ points'[p].quiz \in 1..bank'[p],
         \A r \in Recordings : recordings'[r] # NoPoint =>
            \/ recordings'[r] = recordings[r]
            \/ recordings'[r] \in Points /\ points[recordings'[r]].state = "frozen"
  PROVE  Frozen'
<1>1. \A p \in Points : points'[p].state = "frozen" => points'[p].quiz \in 1..bank'[p]
  BY DEF Grows
<1>2. ASSUME NEW r \in Recordings, recordings'[r] # NoPoint
      PROVE  points'[recordings'[r]].state = "frozen"
  <2>1. recordings'[r] \in Points /\ points[recordings'[r]].state = "frozen"
    BY <1>2 DEF IInv, Frozen, TypeInv, Tables
  <2>2. QED
    BY <2>1 DEF Grows
<1>3. QED
  BY <1>1, <1>2 DEF Frozen

LEMMA ScoresNext ==
  ASSUME IInv, TypeInv', Grows, attempts' = attempts, tally' = tally,
         \A r \in Recordings : recordings[r] # NoPoint => recordings'[r] = recordings[r],
         \A h \in Handlers : At(h, "grade")' =>
            \/ handlers'[h] = handlers[h]
            \/ /\ FitsNext(handlers'[h].attempt)
               /\ Count(handlers'[h].tally) <= Cardinality(attempts)
  PROVE  Scores'
<1>1. ASSUME NEW x \in attempts
      PROVE  FitsNext(x)
  BY FitsStays DEF IInv, Scores, TypeInv, Tables
<1>2. ASSUME NEW h \in Handlers, At(h, "grade")
      PROVE  FitsNext(handlers[h].attempt) /\ Count(handlers[h].tally) <= Cardinality(attempts)
  <2>1. handlers[h].attempt \in Attempt
    BY <1>2, InHand DEF IInv
  <2>2. Fits(handlers[h].attempt) /\ Count(handlers[h].tally) <= Cardinality(attempts)
    BY <1>2 DEF IInv, Scores
  <2>3. QED
    BY <2>1, <2>2, FitsStays DEF IInv
<1>3. ASSUME NEW h \in Handlers, At(h, "grade")'
      PROVE  FitsNext(handlers'[h].attempt) /\ Count(handlers'[h].tally) <= Cardinality(attempts)
  BY <1>2, <1>3 DEF At
<1>4. /\ \A x \in attempts' : Fits(x)'
      /\ \A h \in Handlers : At(h, "grade")' =>
            Fits(handlers[h].attempt)' /\ Count(handlers'[h].tally) <= Cardinality(attempts')
  BY <1>1, <1>3 DEF Fits, FitsNext
<1>5. QED
  BY <1>4 DEF IInv, Scores, Count

\* A step that only reads, answers or goes on with an analysis.
LEMMA QuietStep ==
  ASSUME IInv, TypeInv', UNCHANGED <<previews, bank, points, recordings, attempts, tally>>,
         \A h \in Handlers : handlers'[h] = handlers[h] \/ handlers'[h].op \notin {"commit", "grade"}
  PROVE  IInv' /\ Grows
<1>1. Grows
  BY StaysGrows
<1>2. Imports'
  BY ImportsNext DEF At
<1>3. Frozen'
  BY <1>1, FrozenNext
<1>4. Scores'
  BY <1>1, ScoresNext DEF At
<1>5. QED
  BY <1>1, <1>2, <1>3, <1>4 DEF IInv

-----------------------------------------------------------------------------
(* The actions.                                                            *)

LEMMA ReplyTypes ==
  ASSUME TypeInv, NEW h \in Handlers, Reply(h)
  PROVE  /\ handlers' \in [Handlers -> Requests]
         /\ handlers'[h].op = "idle"
         /\ \A g \in Handlers \ {h} : handlers'[g] = handlers[g]
  BY IdleRequest, OneRequest DEF Reply

LEMMA GoesTypes ==
  ASSUME TypeInv, NEW h \in Handlers, NEW w \in Requests, Goes(h, w)
  PROVE  /\ handlers' \in [Handlers -> Requests]
         /\ handlers'[h] = w
         /\ \A g \in Handlers \ {h} : handlers'[g] = handlers[g]
  BY OneRequest DEF Goes

LEMMA ReadingKeeps ==
  ASSUME IInv, NEW h \in Handlers,
         \/ \E p \in Previews : StartImport(h, p)
         \/ StartGenerate(h) \/ StartFreeze(h) \/ Unavailable(h)
         \/ \E p \in Points : StartEdit(h, p)
  PROVE  IInv' /\ Grows
<1>1. /\ UNCHANGED <<previews, bank, timed, points, jobs, recordings, attempts, tally, restarts>>
      /\ \/ Reply(h)
         \/ \E w \in Requests : Goes(h, w) /\ w.op \notin {"commit", "grade"}
  <2>1. ASSUME NEW p \in Previews, StartImport(h, p)
        PROVE  /\ UNCHANGED <<previews, bank, timed, points, jobs, recordings, attempts, tally, restarts>>
               /\ \E w \in Requests : Goes(h, w) /\ w.op \notin {"commit", "grade"}
    <3> DEFINE w == [op |-> "import", preview |-> p, skip |-> \E f \in Previews : bank[f] > 0]
    <3>1. w \in [op : {"import", "commit"}, preview : Previews, skip : BOOLEAN] /\ w.op = "import"
      OBVIOUS
    <3>2. w \in Requests
      BY <3>1 DEF Requests
    <3>3. Goes(h, w)
      BY <2>1 DEF StartImport
    <3>4. QED
      BY <2>1, <3>1, <3>2, <3>3 DEF StartImport
  <2>2. ASSUME StartGenerate(h)
        PROVE  /\ UNCHANGED <<previews, bank, timed, points, jobs, recordings, attempts, tally, restarts>>
               /\ \E w \in Requests : Goes(h, w) /\ w.op \notin {"commit", "grade"}
    <3>1. [op |-> "generate"] \in Requests
      BY DEF Requests
    <3>2. QED
      BY <2>2, <3>1 DEF StartGenerate
  <2>3. ASSUME StartFreeze(h)
        PROVE  /\ UNCHANGED <<previews, bank, timed, points, jobs, recordings, attempts, tally, restarts>>
               /\ \E w \in Requests : Goes(h, w) /\ w.op \notin {"commit", "grade"}
    <3> DEFINE read == [p \in InState("draft") |-> points[p].text]
               w == [op |-> "freeze", read |-> read]
    <3>1. InState("draft") \in SUBSET Points /\ \A p \in InState("draft") : points[p].text \in Texts
      BY PointType DEF IInv, InState, Point
    <3>2. read \in [InState("draft") -> Texts]
      BY <3>1
    <3> HIDE DEF read
    <3>3. read \in Reads
      BY <3>1, <3>2 DEF Reads
    <3>4. w \in Requests /\ w.op = "freeze"
      BY <3>3 DEF Requests
    <3>5. Goes(h, w)
      BY <2>3 DEF StartFreeze, read
    <3> HIDE DEF w
    <3>6. QED
      BY <2>3, <3>4, <3>5 DEF StartFreeze
  <2>4. ASSUME NEW p \in Points, StartEdit(h, p)
        PROVE  /\ UNCHANGED <<previews, bank, timed, points, jobs, recordings, attempts, tally, restarts>>
               /\ \E w \in Requests : Goes(h, w) /\ w.op \notin {"commit", "grade"}
    <3>1. [op |-> "edit", point |-> p] \in Requests
      BY DEF Requests
    <3>2. QED
      BY <2>4, <3>1 DEF StartEdit
  <2>5. QED
    BY <2>1, <2>2, <2>3, <2>4 DEF Unavailable
<1>2. /\ handlers' \in [Handlers -> Requests]
      /\ \A g \in Handlers : handlers'[g] = handlers[g] \/ handlers'[g].op \notin {"commit", "grade"}
  BY <1>1, ReplyTypes, GoesTypes DEF IInv
<1>3. TypeInv'
  BY <1>1, <1>2 DEF IInv, TypeInv, Tables
<1>4. QED
  BY <1>1, <1>2, <1>3, QuietStep

LEMMA GenerateKeeps ==
  ASSUME IInv, NEW h \in Handlers, CommitGenerate(h)
  PROVE  IInv' /\ Grows
<1>1. PICK j \in Jobs :
        /\ jobs' = [jobs EXCEPT ![j].status = "queued", ![j].alive = TRUE]
        /\ Reply(h)
        /\ UNCHANGED <<previews, bank, timed, points, recordings, attempts, tally, restarts>>
  BY DEF CommitGenerate
<1>2. jobs \in [Jobs -> Job]
  BY DEF IInv, TypeInv, Tables
<1>3. [jobs[j] EXCEPT !.status = "queued", !.alive = TRUE] \in Job
  BY <1>2 DEF Job
<1>4. jobs' \in [Jobs -> Job]
  BY <1>1, <1>2, <1>3
<1>5. /\ handlers' \in [Handlers -> Requests]
      /\ \A g \in Handlers : handlers'[g] = handlers[g] \/ handlers'[g].op \notin {"commit", "grade"}
  BY <1>1, ReplyTypes DEF IInv
<1>6. TypeInv'
  BY <1>1, <1>4, <1>5 DEF IInv, TypeInv, Tables
<1>7. QED
  BY <1>1, <1>5, <1>6, QuietStep

\* An analysis that is over.
LEMMA OverType ==
  ASSUME NEW job \in Job,
         NEW t \in {"none", "queued", "processing", "completed", "requires_manual", "failed"}
  PROVE  Over(job, t) \in Job
<1>1. [job EXCEPT !.status = t, !.alive = FALSE] \in Job
  BY DEF Job
<1>2. ASSUME NEW x \in Job
      PROVE  [x EXCEPT !.scanned = FALSE, !.taken = {}] \in Job
  BY DEF Job
<1>3. Over(job, t) = [[job EXCEPT !.status = t, !.alive = FALSE] EXCEPT !.scanned = FALSE, !.taken = {}]
  BY Zenon DEF Over
<1>4. QED
  BY <1>1, <1>2, <1>3

LEMMA AnalysisKeeps ==
  ASSUME IInv, NEW j \in Jobs, Process(j) \/ Scan(j) \/ Fail(j) \/ StatusRefused(j)
  PROVE  IInv' /\ Grows
<1>1. /\ jobs \in [Jobs -> Job] /\ jobs[j] \in Job
      /\ jobs[j].status \in {"none", "queued", "processing", "completed", "requires_manual", "failed"}
  BY DEF IInv, TypeInv, Tables, Job
<1>2. \E w \in Job : jobs' = [jobs EXCEPT ![j] = w]
  <2>1. CASE Process(j)
    <3>1. [jobs[j] EXCEPT !.status = "processing"] \in Job
      BY <1>1 DEF Job
    <3>2. jobs' = [jobs EXCEPT ![j] = [jobs[j] EXCEPT !.status = "processing"]]
      BY <1>1, <2>1 DEF Process
    <3>3. QED
      BY <3>1, <3>2
  <2>2. CASE Scan(j)
    <3> DEFINE t == {n \in Nodes : timed /\ \E p \in InState("frozen") : points[p].node = n}
    <3>1. t \subseteq Nodes
      OBVIOUS
    <3>2. jobs' = [jobs EXCEPT ![j].scanned = TRUE, ![j].taken = t]
      BY <2>2 DEF Scan
    <3> HIDE DEF t
    <3>3. [jobs[j] EXCEPT !.scanned = TRUE, !.taken = t] \in Job
      BY <1>1, <3>1 DEF Job
    <3>4. jobs' = [jobs EXCEPT ![j] = [jobs[j] EXCEPT !.scanned = TRUE, !.taken = t]]
      BY <1>1, <3>2
    <3>5. QED
      BY <3>3, <3>4
  <2>3. CASE Fail(j)
    <3>1. PICK t \in {"failed", "requires_manual"} : jobs' = [jobs EXCEPT ![j] = Over(@, t)]
      BY <2>3 DEF Fail
    <3>2. Over(jobs[j], t) \in Job
      BY <1>1, OverType
    <3>3. QED
      BY <3>1, <3>2
  <2>4. CASE StatusRefused(j)
    <3> DEFINE over == Over(jobs[j], jobs[j].status)
    <3>1. over \in Job
      BY <1>1, OverType
    <3>2. jobs' = [jobs EXCEPT ![j] = [over EXCEPT !.refused = TRUE]]
      BY <2>4 DEF StatusRefused
    <3> HIDE DEF over
    <3>3. [over EXCEPT !.refused = TRUE] \in Job
      BY <3>1 DEF Job
    <3>4. QED
      BY <3>2, <3>3
  <2>5. QED
    BY <2>1, <2>2, <2>3, <2>4
<1>3. jobs' \in [Jobs -> Job]
  BY <1>1, <1>2
<1>4. UNCHANGED <<handlers, previews, bank, timed, points, recordings, attempts, tally, restarts>>
  BY DEF Process, Scan, Fail, StatusRefused
<1>5. TypeInv'
  BY <1>3, <1>4 DEF IInv, TypeInv, Tables
<1>6. QED
  BY <1>4, <1>5, QuietStep

LEMMA RestartKeeps ==
  ASSUME IInv, Restart
  PROVE  IInv' /\ Grows
<1>1. \A j \in Jobs : Over(jobs[j], jobs[j].status) \in Job
  <2>1. \A j \in Jobs : jobs[j] \in Job /\ jobs[j].status \in
           {"none", "queued", "processing", "completed", "requires_manual", "failed"}
    BY DEF IInv, TypeInv, Tables, Job
  <2>2. QED
    BY <2>1, OverType
<1>2. jobs' \in [Jobs -> Job] /\ handlers' \in [Handlers -> Requests] /\ restarts' \in 0..MaxRestarts
  BY <1>1, IdleRequest, ContentAssumption DEF Restart, IInv, TypeInv, Tables
<1>3. UNCHANGED <<previews, bank, timed, points, recordings, attempts, tally>>
  BY DEF Restart
<1>4. TypeInv'
  BY <1>2, <1>3 DEF IInv, TypeInv, Tables
<1>5. \A h \in Handlers : handlers'[h].op = "idle"
  BY IdleRequest DEF Restart
<1>6. QED
  BY <1>3, <1>4, <1>5, QuietStep

LEMMA WritePreviewKeeps ==
  ASSUME IInv, NEW h \in Handlers, WritePreview(h)
  PROVE  IInv' /\ Grows
<1> DEFINE w == [handlers[h] EXCEPT !.op = "commit"]
<1>1. /\ handlers[h] \in [op : {"import", "commit"}, preview : Previews, skip : BOOLEAN]
      /\ previews' = [previews EXCEPT ![handlers[h].preview] = "confirmed"]
      /\ handlers' = [handlers EXCEPT ![h] = w]
      /\ UNCHANGED <<bank, timed, points, jobs, recordings, attempts, tally, restarts>>
  BY InHand DEF WritePreview, IInv
<1>2. /\ w \in [op : {"import", "commit"}, preview : Previews, skip : BOOLEAN]
      /\ w.op = "commit" /\ w.preview = handlers[h].preview
  BY <1>1
<1>3. w \in Requests
  BY <1>2 DEF Requests
<1> HIDE DEF w
<1>4. /\ handlers' \in [Handlers -> Requests] /\ handlers'[h] = w
      /\ \A g \in Handlers \ {h} : handlers'[g] = handlers[g]
  BY <1>1, <1>3, OneRequest DEF IInv
<1>5. /\ previews' \in [Previews -> {"pending", "confirmed"}]
      /\ \A f \in Previews : previews[f] = "confirmed" => previews'[f] = "confirmed"
      /\ previews'[w.preview] = "confirmed"
  BY <1>1, <1>2 DEF IInv, TypeInv, Tables
<1>6. TypeInv'
  BY <1>1, <1>4, <1>5 DEF IInv, TypeInv, Tables
<1>7. Grows
  BY <1>1, StaysGrows
<1>8. Imports'
  BY <1>1, <1>4, <1>5, ImportsNext
<1>9. Frozen'
  BY <1>1, <1>7, FrozenNext
<1>10. Scores'
  <2>1. \A g \in Handlers : At(g, "grade")' => handlers'[g] = handlers[g]
    BY <1>2, <1>4 DEF At
  <2>2. QED
    BY <1>1, <1>6, <1>7, <2>1, ScoresNext
<1>11. QED
  BY <1>6, <1>7, <1>8, <1>9, <1>10 DEF IInv

LEMMA CommitImportKeeps ==
  ASSUME IInv, NEW h \in Handlers, CommitImport(h)
  PROVE  IInv' /\ Grows
<1> DEFINE f == handlers[h].preview
<1>1. /\ f \in Previews /\ previews[f] = "confirmed"
      /\ bank' = bank \/ bank' = [bank EXCEPT ![f] = @ + 1]
      /\ Reply(h)
      /\ UNCHANGED <<previews, timed, points, jobs, recordings, attempts, tally, restarts>>
  BY InHand DEF CommitImport, IInv, Imports
<1> HIDE DEF f
<1>2. bank \in [Previews \union Points -> Nat] /\ \A q \in Previews \union Points : bank[q] \in Nat
  BY DEF IInv, TypeInv, Tables
<1>3. /\ bank' \in [Previews \union Points -> Nat]
      /\ \A q \in Previews \union Points : bank'[q] >= bank[q]
      /\ \A q \in (Previews \union Points) \ {f} : bank'[q] = bank[q]
  BY <1>1, <1>2
<1>4. /\ handlers' \in [Handlers -> Requests] /\ handlers'[h].op = "idle"
      /\ \A g \in Handlers \ {h} : handlers'[g] = handlers[g]
  BY <1>1, ReplyTypes DEF IInv
<1>5. TypeInv'
  BY <1>1, <1>3, <1>4 DEF IInv, TypeInv, Tables
<1>6. Grows
  <2>1. ASSUME NEW p \in Points, points[p].state = "frozen"
        PROVE  /\ points'[p].state = "frozen"
               /\ points'[p].quiz \in 1..bank'[p] /\ points'[p].quiz >= points[p].quiz
    <3>1. points[p].quiz \in 1..bank[p] /\ points[p].quiz \in Nat /\ bank[p] \in Nat /\ bank'[p] \in Nat
      BY <1>3, <2>1, PointType DEF IInv, Frozen
    <3>2. QED
      BY <1>1, <1>3, <2>1, <3>1
  <2>2. QED
    BY <1>3, <2>1 DEF Grows
<1>7. Imports'
  <2>1. \A g \in Previews : bank'[g] > 0 => bank[g] > 0 \/ previews'[g] = "confirmed"
    BY <1>1, <1>3
  <2>2. \A g \in Handlers : At(g, "commit")' => handlers'[g] = handlers[g]
    BY <1>4 DEF At
  <2>3. QED
    BY <1>1, <2>1, <2>2, ImportsNext
<1>8. Frozen'
  BY <1>1, <1>6, FrozenNext
<1>9. Scores'
  <2>1. \A g \in Handlers : At(g, "grade")' => handlers'[g] = handlers[g]
    BY <1>4 DEF At
  <2>2. QED
    BY <1>1, <1>5, <1>6, <2>1, ScoresNext
<1>10. QED
  BY <1>5, <1>6, <1>7, <1>8, <1>9 DEF IInv

\* A step that changes checkpoints, their quizzes and analyses, and no request
\* but by its answer.
LEMMA ContentStep ==
  ASSUME IInv, TypeInv', Grows, UNCHANGED <<previews, recordings, attempts, tally>>,
         \A f \in Previews : bank'[f] = bank[f],
         \A p \in Points : points'[p].state = "frozen" =>
            points[p].state = "frozen" \/ points'[p].quiz \in 1..bank'[p],
         \A h \in Handlers : handlers'[h] = handlers[h] \/ handlers'[h].op = "idle"
  PROVE  IInv'
<1>1. Imports'
  BY ImportsNext DEF At
<1>2. Frozen'
  BY FrozenNext
<1>3. Scores'
  BY ScoresNext DEF At
<1>4. QED
  BY <1>1, <1>2, <1>3 DEF IInv

LEMMA ReplaceKeeps ==
  ASSUME IInv, NEW j \in Jobs, Replace(j)
  PROVE  /\ IInv' /\ Grows /\ handlers' = handlers
         /\ \A p \in Points : points[p].state = "frozen" => points'[p] = points[p]
<1> DEFINE kept == InState("frozen") \union (IF timed THEN {} ELSE InState("draft"))
           ids == {p \in Points : \A q \in kept : p > q}
<1>1. PICK made \in SUBSET (Nodes \ jobs[j].taken) :
        \E id \in Injection(made, ids), text \in [made -> Texts \ Complete] :
            /\ points' = [p \in Points |->
                    IF p \in kept THEN points[p]
                    ELSE IF \E n \in made : id[n] = p
                    THEN LET n == CHOOSE m \in made : id[m] = p
                         IN  [state |-> "draft", node |-> n, text |-> text[n], quiz |-> 0]
                    ELSE NoRow]
            /\ jobs' = [jobs EXCEPT ![j] =
                    Over(@, IF \/ made # {}
                               \/ timed /\ Cardinality(InState("frozen")) >= Cardinality(Nodes)
                            THEN "completed" ELSE "requires_manual")]
  BY DEF Replace
<1>2. PICK id \in Injection(made, ids) : \E text \in [made -> Texts \ Complete] :
            /\ points' = [p \in Points |->
                    IF p \in kept THEN points[p]
                    ELSE IF \E n \in made : id[n] = p
                    THEN LET n == CHOOSE m \in made : id[m] = p
                         IN  [state |-> "draft", node |-> n, text |-> text[n], quiz |-> 0]
                    ELSE NoRow]
            /\ jobs' = [jobs EXCEPT ![j] =
                    Over(@, IF \/ made # {}
                               \/ timed /\ Cardinality(InState("frozen")) >= Cardinality(Nodes)
                            THEN "completed" ELSE "requires_manual")]
  BY <1>1
<1>3. PICK text \in [made -> Texts \ Complete] :
            /\ points' = [p \in Points |->
                    IF p \in kept THEN points[p]
                    ELSE IF \E n \in made : id[n] = p
                    THEN LET n == CHOOSE m \in made : id[m] = p
                         IN  [state |-> "draft", node |-> n, text |-> text[n], quiz |-> 0]
                    ELSE NoRow]
            /\ jobs' = [jobs EXCEPT ![j] =
                    Over(@, IF \/ made # {}
                               \/ timed /\ Cardinality(InState("frozen")) >= Cardinality(Nodes)
                            THEN "completed" ELSE "requires_manual")]
  BY <1>2
<1> DEFINE n(p) == CHOOSE m \in made : id[m] = p
           row(p) == IF p \in kept THEN points[p]
                     ELSE IF \E m \in made : id[m] = p
                     THEN [state |-> "draft", node |-> n(p), text |-> text[n(p)], quiz |-> 0]
                     ELSE NoRow
           status == IF \/ made # {}
                        \/ timed /\ Cardinality(InState("frozen")) >= Cardinality(Nodes)
                     THEN "completed" ELSE "requires_manual"
<1>4. points' = [p \in Points |-> row(p)] /\ jobs' = [jobs EXCEPT ![j] = Over(jobs[j], status)]
  BY <1>3
<1>5. made \subseteq Nodes /\ kept \subseteq Points /\ InState("frozen") \subseteq kept
  BY DEF InState
<1>6. UNCHANGED <<handlers, previews, bank, timed, recordings, attempts, tally, restarts>>
  BY DEF Replace
<1>7. status \in {"none", "queued", "processing", "completed", "requires_manual", "failed"}
  OBVIOUS
<1> HIDE DEF kept, ids, status
<1>8. ASSUME NEW p \in Points
      PROVE  /\ row(p) \in Point
             /\ row(p) = points[p] \/ (points[p].state # "frozen" /\ row(p).state # "frozen")
  <2>1. points[p] \in Point /\ NoRow \in Point /\ NoRow.state = "none"
    <3>1. (CHOOSE m \in Nodes : TRUE) \in Nodes /\ (CHOOSE t \in Texts : TRUE) \in Texts
      BY ContentAssumption
    <3>2. QED
      BY <3>1, PointType DEF IInv, NoRow, Point
  <2>2. CASE p \in kept
    BY <2>1, <2>2
  <2>3. CASE p \notin kept /\ \E m \in made : id[m] = p
    <3>1. n(p) \in made
      BY <2>3
    <3>2. n(p) \in Nodes /\ text[n(p)] \in Texts
      BY <1>5, <3>1
    <3>3. row(p) = [state |-> "draft", node |-> n(p), text |-> text[n(p)], quiz |-> 0]
      BY <2>3
    <3> HIDE DEF row, n
    <3>4. row(p) \in Point /\ row(p).state = "draft"
      BY <3>2, <3>3 DEF Point
    <3>5. points[p].state # "frozen"
      BY <1>5, <2>3 DEF InState
    <3>6. QED
      BY <3>4, <3>5
  <2>4. CASE p \notin kept /\ ~\E m \in made : id[m] = p
    <3>1. row(p) = NoRow
      BY <2>4
    <3>2. points[p].state # "frozen"
      BY <1>5, <2>4 DEF InState
    <3> HIDE DEF row
    <3>3. QED
      BY <2>1, <3>1, <3>2
  <2>5. QED
    BY <2>2, <2>3, <2>4
<1> HIDE DEF row, n
<1>9. points' \in [Points -> Point] /\ \A p \in Points : points'[p] = row(p)
  BY <1>4, <1>8
<1>10. jobs' \in [Jobs -> Job]
  <2>1. jobs \in [Jobs -> Job] /\ jobs[j] \in Job
    BY DEF IInv, TypeInv, Tables
  <2>2. Over(jobs[j], status) \in Job
    BY <1>7, <2>1, OverType
  <2>3. QED
    BY <1>4, <2>1, <2>2
<1>11. TypeInv'
  BY <1>6, <1>9, <1>10 DEF IInv, TypeInv, Tables
<1>12. Grows
  <2>1. \A q \in Previews \cup Points : bank[q] \in Nat /\ bank'[q] = bank[q]
    BY <1>6 DEF IInv, TypeInv, Tables
  <2>2. \A p \in Points : points[p].state = "frozen" =>
          points'[p] = points[p] /\ points[p].quiz \in 1..bank[p] /\ points[p].quiz \in Nat
    BY <1>8, <1>9, PointType DEF IInv, Frozen
  <2>3. QED
    BY <2>1, <2>2 DEF Grows
<1>13. \A p \in Points : points'[p].state = "frozen" => points[p].state = "frozen"
  BY <1>8, <1>9
<1>14. QED
  BY <1>6, <1>8, <1>9, <1>11, <1>12, <1>13, ContentStep

LEMMA CommitEditKeeps ==
  ASSUME IInv, NEW h \in Handlers, CommitEdit(h)
  PROVE  IInv' /\ Grows
<1> DEFINE p == handlers[h].point
<1>1. /\ p \in Points /\ Reply(h)
      /\ UNCHANGED <<previews, bank, timed, jobs, recordings, attempts, tally, restarts>>
      /\ \/ points' = points
         \/ \E t \in Texts, n \in Nodes :
               points' = [points EXCEPT ![p].text = t, ![p].node = n]
  BY InHand DEF CommitEdit, IInv
<1> HIDE DEF p
<1>2. points \in [Points -> Point]
  BY DEF IInv, TypeInv, Tables
<1>3. /\ points' \in [Points -> Point]
      /\ \A q \in Points : points'[q].state = points[q].state /\ points'[q].quiz = points[q].quiz
  <2>1. ASSUME NEW t \in Texts, NEW n \in Nodes,
               points' = [points EXCEPT ![p].text = t, ![p].node = n]
        PROVE  /\ points' \in [Points -> Point]
               /\ \A q \in Points : points'[q].state = points[q].state /\ points'[q].quiz = points[q].quiz
    <3> DEFINE row == [points[p] EXCEPT !.text = t, !.node = n]
    <3>1. row \in Point /\ row.state = points[p].state /\ row.quiz = points[p].quiz
      <4>1. points[p] \in Point
        BY <1>1, <1>2
      <4>2. QED
        BY <4>1 DEF Point
    <3>2. points' = [points EXCEPT ![p] = row]
      BY <2>1
    <3> HIDE DEF row
    <3>3. QED
      BY <1>1, <1>2, <3>1, <3>2
  <2>2. QED
    BY <1>1, <1>2, <2>1
<1>4. /\ handlers' \in [Handlers -> Requests]
      /\ \A g \in Handlers : handlers'[g] = handlers[g] \/ handlers'[g].op = "idle"
  BY <1>1, ReplyTypes DEF IInv
<1>5. TypeInv'
  BY <1>1, <1>3, <1>4 DEF IInv, TypeInv, Tables
<1>6. Grows
  <2>1. \A q \in Previews \cup Points : bank[q] \in Nat /\ bank'[q] = bank[q]
    BY <1>1 DEF IInv, TypeInv, Tables
  <2>2. \A q \in Points : points[q].state = "frozen" =>
          points[q].quiz \in 1..bank[q] /\ points[q].quiz \in Nat
    BY PointType DEF IInv, Frozen
  <2>3. QED
    BY <1>3, <2>1, <2>2 DEF Grows
<1>7. QED
  BY <1>1, <1>3, <1>4, <1>5, <1>6, ContentStep

LEMMA CommitFreezeKeeps ==
  ASSUME IInv, NEW h \in Handlers, CommitFreeze(h)
  PROVE  IInv' /\ Grows
<1> DEFINE read == DOMAIN handlers[h].read
           Freezes(text) ==
              points' = [p \in Points |->
                  IF p \in read
                  THEN [points[p] EXCEPT !.state = "frozen", !.text = text[p], !.quiz = bank'[p]]
                  ELSE points[p]]
<1>1. /\ read \subseteq Points /\ Reply(h)
      /\ UNCHANGED <<previews, timed, jobs, recordings, attempts, tally, restarts>>
      /\ \/ bank' = bank /\ points' = points
         \/ /\ bank' = [q \in DOMAIN bank |-> bank[q] + IF q \in read THEN 1 ELSE 0]
            /\ \E text \in [read -> Texts] : Freezes(text)
  <2>1. At(h, "freeze") /\ handlers[h].read \in Reads
    BY InHand DEF CommitFreeze, IInv
  <2>2. read \subseteq Points
    BY <2>1 DEF Reads
  <2>3. QED
    BY <2>2 DEF CommitFreeze
<1> HIDE DEF read
<1>2. /\ handlers' \in [Handlers -> Requests]
      /\ \A g \in Handlers : handlers'[g] = handlers[g] \/ handlers'[g].op = "idle"
  BY <1>1, ReplyTypes DEF IInv
<1>3. CASE bank' = bank /\ points' = points
  <2>1. TypeInv'
    BY <1>1, <1>2, <1>3 DEF IInv, TypeInv, Tables
  <2>2. Grows
    BY <1>3, StaysGrows
  <2>3. QED
    BY <1>1, <1>2, <1>3, <2>1, <2>2, ContentStep
<1>4. CASE /\ bank' = [q \in DOMAIN bank |-> bank[q] + IF q \in read THEN 1 ELSE 0]
           /\ \E text \in [read -> Texts] : Freezes(text)
  <2> PICK text \in [read -> Texts] : Freezes(text)
    BY <1>4
  <2> HIDE DEF Freezes
  <2>1. /\ bank' \in [Previews \cup Points -> Nat]
        /\ \A q \in Previews \cup Points :
              /\ bank[q] \in Nat
              /\ q \in read => bank'[q] = bank[q] + 1
              /\ q \notin read => bank'[q] = bank[q]
    <3>1. bank \in [Previews \cup Points -> Nat] /\ DOMAIN bank = Previews \cup Points
      BY DEF IInv, TypeInv, Tables
    <3>2. \A q \in Previews \cup Points :
            /\ bank[q] \in Nat
            /\ bank'[q] = bank[q] + IF q \in read THEN 1 ELSE 0
      BY <1>4, <3>1
    <3>3. bank' \in [Previews \cup Points -> Nat]
      <4>1. \A q \in Previews \cup Points : bank[q] + (IF q \in read THEN 1 ELSE 0) \in Nat
        BY <3>2
      <4>2. bank' = [q \in Previews \cup Points |-> bank[q] + IF q \in read THEN 1 ELSE 0]
        BY <1>4, <3>1
      <4>3. QED
        BY <4>1, <4>2
    <3>4. QED
      BY <3>2, <3>3
  <2>2. \A f \in Previews : bank'[f] = bank[f]
    <3>1. \A f \in Previews : f \notin read
      BY <1>1, ContentAssumption
    <3>2. QED
      BY <2>1, <3>1
  <2>3. ASSUME NEW p \in Points
        PROVE  /\ points'[p] \in Point
               /\ p \in read => points'[p].state = "frozen" /\ points'[p].quiz = bank[p] + 1
               /\ p \notin read => points'[p] = points[p]
               /\ p \in read => bank'[p] = bank[p] + 1
    <3>1. points[p] \in Point /\ bank[p] \in Nat /\ bank'[p] \in Nat
      BY <2>1, PointType DEF IInv
    <3>2. CASE p \in read
      <4>1. points'[p] = [points[p] EXCEPT !.state = "frozen", !.text = text[p], !.quiz = bank'[p]]
        BY <3>2 DEF Freezes
      <4>2. QED
        BY <2>1, <3>1, <3>2, <4>1 DEF Point
    <3>3. CASE p \notin read
      BY <2>1, <3>1, <3>3 DEF Freezes
    <3>4. QED
      BY <3>2, <3>3
  <2>4. points' \in [Points -> Point]
    <3> DEFINE row(p) == IF p \in read
                         THEN [points[p] EXCEPT !.state = "frozen", !.text = text[p], !.quiz = bank'[p]]
                         ELSE points[p]
    <3>1. points' = [p \in Points |-> row(p)]
      BY DEF Freezes
    <3> HIDE DEF row
    <3>2. \A p \in Points : row(p) \in Point
      BY <2>3, <3>1
    <3>3. QED
      BY <3>1, <3>2
  <2>5. TypeInv'
    BY <1>1, <1>2, <2>1, <2>4 DEF IInv, TypeInv, Tables
  <2>6. Grows
    <3>1. \A q \in Previews \cup Points : bank'[q] >= bank[q]
      BY <2>1
    <3>2. ASSUME NEW p \in Points, points[p].state = "frozen"
          PROVE  /\ points'[p].state = "frozen"
                 /\ points'[p].quiz \in 1..bank'[p] /\ points'[p].quiz >= points[p].quiz
      <4>1. points[p].quiz \in 1..bank[p] /\ points[p].quiz \in Nat /\ bank[p] \in Nat
        BY <3>2, PointType DEF IInv, Frozen
      <4>2. bank'[p] \in Nat /\ bank'[p] >= bank[p]
        BY <2>1, <3>1
      <4>3. QED
        BY <2>3, <3>2, <4>1, <4>2
    <3>3. QED
      BY <3>1, <3>2 DEF Grows
  <2>7. \A p \in Points : points'[p].state = "frozen" =>
            points[p].state = "frozen" \/ points'[p].quiz \in 1..bank'[p]
    BY <2>1, <2>3
  <2>8. QED
    BY <1>1, <1>2, <2>2, <2>5, <2>6, <2>7, ContentStep
<1>5. QED
  BY <1>1, <1>3, <1>4

LEMMA RecordedKeeps ==
  ASSUME IInv, NEW r \in Recordings, NEW p \in Points, Recorded(r, p)
  PROVE  IInv' /\ Grows
<1>1. /\ recordings[r] = NoPoint /\ points[p].state = "frozen"
      /\ recordings' = [recordings EXCEPT ![r] = p]
      /\ UNCHANGED <<handlers, previews, bank, timed, points, jobs, attempts, tally, restarts>>
  BY DEF Recorded
<1>2. recordings \in [Recordings -> Points \cup {NoPoint}]
  BY DEF IInv, TypeInv, Tables
<1>3. \A x \in Recordings : recordings'[x] = recordings[x] \/ (x = r /\ recordings'[x] = p)
  BY <1>1, <1>2
<1>4. TypeInv'
  <2>1. recordings' \in [Recordings -> Points \cup {NoPoint}]
    BY <1>1, <1>2
  <2>2. QED
    BY <1>1, <2>1 DEF IInv, TypeInv, Tables
<1>5. Grows
  BY <1>1, StaysGrows
<1>6. Imports'
  BY <1>1, ImportsNext
<1>7. Frozen'
  BY <1>1, <1>3, <1>5, FrozenNext
<1>8. Scores'
  BY <1>1, <1>3, <1>5, <1>4, ScoresNext
<1>9. QED
  BY <1>4, <1>5, <1>6, <1>7, <1>8 DEF IInv

LEMMA StartAttemptKeeps ==
  ASSUME IInv, NEW h \in Handlers, NEW r \in Recordings, NEW a \in AttemptIds,
         StartAttempt(h, r, a)
  PROVE  IInv' /\ Grows
<1> DEFINE x == [id |-> a, recording |-> r, point |-> recordings[r],
                 quiz |-> points[recordings[r]].quiz]
           w == [op |-> "grade", tally |-> tally, attempt |-> x]
<1>1. /\ Goes(h, w) /\ recordings[r] # NoPoint
      /\ UNCHANGED <<previews, bank, timed, points, jobs, recordings, attempts, tally, restarts>>
  BY DEF StartAttempt
<1>2. recordings[r] \in Points /\ points[recordings[r]].quiz \in 1..bank[recordings[r]]
  BY <1>1 DEF IInv, TypeInv, Tables, Frozen
<1>3. points[recordings[r]].quiz \in Nat
  BY <1>2, PointType DEF IInv
<1>4. x \in Attempt /\ Fits(x)
  BY <1>1, <1>2, <1>3 DEF Attempt, Fits
<1> HIDE DEF x
<1>5. w \in [op : {"grade"}, tally : Nat \cup {NoAbility}, attempt : Attempt]
  BY <1>4 DEF IInv, TypeInv, Tables
<1>6. w \in Requests /\ w.op = "grade" /\ w.attempt = x /\ w.tally = tally
  BY <1>5 DEF Requests
<1> HIDE DEF w
<1>7. /\ handlers' \in [Handlers -> Requests] /\ handlers'[h] = w
      /\ \A g \in Handlers \ {h} : handlers'[g] = handlers[g]
  BY <1>1, <1>6, GoesTypes DEF IInv
<1>8. TypeInv'
  BY <1>1, <1>7 DEF IInv, TypeInv, Tables
<1>9. Grows
  BY <1>1, StaysGrows
<1>10. Imports'
  <2>1. \A g \in Handlers : At(g, "commit")' => handlers'[g] = handlers[g]
    BY <1>6, <1>7 DEF At
  <2>2. QED
    BY <1>1, <2>1, ImportsNext
<1>11. Frozen'
  BY <1>1, <1>9, FrozenNext
<1>12. Scores'
  <2>1. FitsNext(x) /\ Count(tally) <= Cardinality(attempts)
    BY <1>1, <1>4 DEF Fits, FitsNext, IInv, Scores
  <2>2. \A g \in Handlers : handlers'[g] = handlers[g] \/ g = h
    BY <1>7
  <2>3. \A g \in Handlers : At(g, "grade")' =>
            \/ handlers'[g] = handlers[g]
            \/ /\ FitsNext(handlers'[g].attempt)
               /\ Count(handlers'[g].tally) <= Cardinality(attempts)
    BY <1>6, <1>7, <2>1, <2>2
  <2>4. QED
    BY <1>1, <1>8, <1>9, <2>3, ScoresNext
<1>13. QED
  BY <1>8, <1>9, <1>10, <1>11, <1>12 DEF IInv

LEMMA CommitAttemptKeeps ==
  ASSUME IInv, NEW h \in Handlers, CommitAttempt(h)
  PROVE  IInv' /\ Grows
<1> DEFINE x == handlers[h].attempt
           seen == handlers[h].tally
<1>1. /\ x \in Attempt /\ seen \in Nat \cup {NoAbility}
      /\ Fits(x) /\ Count(seen) <= Cardinality(attempts)
      /\ Reply(h)
      /\ UNCHANGED <<previews, bank, timed, points, jobs, recordings, restarts>>
      /\ \/ attempts' = attempts /\ tally' = tally
         \/ /\ ~Conflict(x, seen)
            /\ attempts' = attempts \union {x} /\ tally' = Count(seen) + 1
  BY InHand DEF CommitAttempt, IInv, Scores
<1> HIDE DEF x, seen
<1>2. /\ handlers' \in [Handlers -> Requests] /\ handlers'[h].op = "idle"
      /\ \A g \in Handlers \ {h} : handlers'[g] = handlers[g]
  BY <1>1, ReplyTypes DEF IInv
<1>3. Grows
  BY <1>1, StaysGrows
<1>4. Imports'
  <2>1. \A g \in Handlers : At(g, "commit")' => handlers'[g] = handlers[g]
    BY <1>2 DEF At
  <2>2. QED
    BY <1>1, <2>1, ImportsNext
<1>5. Frozen'
  BY <1>1, <1>3, FrozenNext
<1>6. \A g \in Handlers : At(g, "grade")' => handlers'[g] = handlers[g]
  BY <1>2 DEF At
<1>7. CASE attempts' = attempts /\ tally' = tally
  <2>1. TypeInv'
    BY <1>1, <1>2, <1>7 DEF IInv, TypeInv, Tables
  <2>2. Scores'
    BY <1>1, <1>3, <1>6, <1>7, <2>1, ScoresNext
  <2>3. QED
    BY <1>3, <1>4, <1>5, <2>1, <2>2 DEF IInv
<1>8. CASE /\ ~Conflict(x, seen)
           /\ attempts' = attempts \union {x} /\ tally' = Count(seen) + 1
  <2>1. Count(seen) \in Nat
    BY <1>1 DEF Count
  <2>2. TypeInv'
    BY <1>1, <1>2, <1>8, <2>1 DEF IInv, TypeInv, Tables
  <2>3. IsFiniteSet(attempts) /\ x \notin attempts
    BY <1>8 DEF IInv, Scores, Conflict
  <2>4. /\ IsFiniteSet(attempts') /\ Cardinality(attempts') = Cardinality(attempts) + 1
        /\ Cardinality(attempts) \in Nat
    BY <1>8, <2>3, FS_AddElement, FS_CardinalityType
  <2>5. \A y, z \in attempts' : y.id = z.id \/ y.recording = z.recording => y = z
    BY <1>8 DEF IInv, Scores, Conflict
  <2>6. \A y \in Attempt : Fits(y) => FitsNext(y)
    BY <1>1 DEF Fits, FitsNext
  <2>7. \A y \in attempts' : FitsNext(y)
    BY <1>1, <1>8, <2>6 DEF IInv, TypeInv, Tables, Scores
  <2>8. Count(tally') = Count(seen) + 1 /\ Count(tally') # 0
    BY <1>8, <2>1, ContentAssumption DEF Count
  <2>9. ASSUME NEW g \in Handlers, At(g, "grade")'
        PROVE  FitsNext(handlers'[g].attempt) /\ Count(handlers'[g].tally) <= Cardinality(attempts')
    <3>1. At(g, "grade") /\ handlers'[g] = handlers[g]
      BY <1>6, <2>9 DEF At
    <3>2. /\ handlers[g].attempt \in Attempt /\ handlers[g].tally \in Nat \cup {NoAbility}
      BY <3>1, InHand DEF IInv
    <3>3. Fits(handlers[g].attempt) /\ Count(handlers[g].tally) <= Cardinality(attempts)
      BY <3>1 DEF IInv, Scores
    <3>4. Count(handlers[g].tally) \in Nat
      BY <3>2 DEF Count
    <3>5. QED
      BY <2>4, <2>6, <3>1, <3>2, <3>3, <3>4
  <2>10. Scores'
    <3>1. /\ \A y \in attempts' : Fits(y)'
          /\ \A g \in Handlers : At(g, "grade")' =>
                Fits(handlers[g].attempt)' /\ Count(handlers'[g].tally) <= Cardinality(attempts')
      BY <2>7, <2>9 DEF Fits, FitsNext
    <3>2. Count(tally') <= Cardinality(attempts')
      BY <1>1, <2>1, <2>4, <2>8
    <3>3. QED
      BY <2>4, <2>5, <2>8, <3>1, <3>2 DEF Scores, Count
  <2>11. QED
    BY <1>3, <1>4, <1>5, <2>2, <2>10 DEF IInv
<1>9. QED
  BY <1>1, <1>7, <1>8

-----------------------------------------------------------------------------
(* Who holds a frozen checkpoint.                                          *)

\* A request that was under way when a checkpoint was frozen is in racing, and no
\* other holds one.
Races ==
    /\ racing \in [Points -> SUBSET Handlers]
    /\ \A p \in Points, h \in Handlers :
          points[p].state = "frozen" /\ Holds(h, p) => h \in racing[p]

\* A request comes to hold only what is not frozen; a frozen checkpoint is changed
\* only by one that held it and is answered.
Holders ==
    /\ \A p \in Points, h \in Handlers :
          Holds(h, p)' => \/ handlers'[h] = handlers[h]
                          \/ points[p].state # "frozen" /\ points' = points
    /\ \A p \in Points : points[p].state = "frozen" /\ points'[p] # points[p] =>
          \E h \in Handlers : Holds(h, p) /\ handlers'[h] = Idle

\* A step in which one request goes on to something else than an edit or a freeze.
LEMMA OtherHolders ==
  ASSUME IInv, points' = points, NEW h \in Handlers, NEW w, w.op \notin {"edit", "freeze"},
         handlers' = [handlers EXCEPT ![h] = w]
  PROVE  Holders
<1>1. handlers \in [Handlers -> Requests]
  BY DEF IInv, TypeInv
<1>2. \A g \in Handlers : handlers'[g] = handlers[g] \/ handlers'[g].op \notin {"edit", "freeze"}
  BY <1>1
<1>3. QED
  BY <1>2 DEF Holders, Holds, At

LEMMA StartEditHolders ==
  ASSUME IInv, NEW h \in Handlers, NEW p \in Points, StartEdit(h, p)
  PROVE  Holders
<1> DEFINE w == [op |-> "edit", point |-> p]
<1>1. handlers \in [Handlers -> Requests] /\ handlers' = [handlers EXCEPT ![h] = w] /\ points' = points
  BY DEF IInv, TypeInv, StartEdit, Goes
<1>2. ASSUME NEW q \in Points, NEW g \in Handlers, Holds(g, q)', handlers'[g] # handlers[g]
      PROVE  points[q].state # "frozen"
  <2>1. handlers'[g] = w
    BY <1>1, <1>2
  <2>2. q = p
    BY <1>2, <2>1 DEF Holds, At
  <2>3. QED
    BY <2>2 DEF StartEdit
<1>3. QED
  BY <1>1, <1>2 DEF Holders

LEMMA StartFreezeHolders ==
  ASSUME IInv, NEW h \in Handlers, StartFreeze(h)
  PROVE  Holders
<1> DEFINE read == [p \in InState("draft") |-> points[p].text]
           w == [op |-> "freeze", read |-> read]
<1>1. handlers \in [Handlers -> Requests] /\ handlers' = [handlers EXCEPT ![h] = w] /\ points' = points
  BY DEF IInv, TypeInv, StartFreeze, Goes
<1>2. ASSUME NEW q \in Points, NEW g \in Handlers, Holds(g, q)', handlers'[g] # handlers[g]
      PROVE  points[q].state # "frozen"
  <2>1. handlers'[g] = w
    BY <1>1, <1>2
  <2>2. q \in DOMAIN read
    BY <1>2, <2>1 DEF Holds, At
  <2>3. QED
    BY <2>2 DEF InState
<1>3. QED
  BY <1>1, <1>2 DEF Holders

LEMMA CommitEditHolders ==
  ASSUME IInv, NEW h \in Handlers, CommitEdit(h)
  PROVE  Holders
<1> DEFINE p == handlers[h].point
<1>1. /\ p \in Points /\ At(h, "edit") /\ handlers' = [handlers EXCEPT ![h] = Idle]
      /\ handlers \in [Handlers -> Requests] /\ points \in [Points -> Point]
  BY InHand DEF CommitEdit, Reply, IInv, TypeInv, Tables
<1>2. \A g \in Handlers : handlers'[g] = handlers[g] \/ handlers'[g] = Idle
  BY <1>1
<1>3. handlers'[h] = Idle /\ Holds(h, p)
  BY <1>1 DEF Holds
<1>4. \A q \in Points \ {p} : points'[q] = points[q]
  <2>1. CASE points' = points
    BY <2>1
  <2>2. CASE \E t \in Texts, n \in Nodes : points' = [points EXCEPT ![p].text = t, ![p].node = n]
    BY <1>1, <2>2
  <2>3. QED
    BY <2>1, <2>2 DEF CommitEdit
<1> HIDE DEF p
<1>5. \A q \in Points, g \in Handlers : Holds(g, q)' => handlers'[g] = handlers[g]
  BY <1>2, IdleRequest DEF Holds, At
<1>6. QED
  BY <1>3, <1>4, <1>5 DEF Holders

LEMMA CommitFreezeHolders ==
  ASSUME IInv, NEW h \in Handlers, CommitFreeze(h)
  PROVE  Holders
<1> DEFINE read == DOMAIN handlers[h].read
<1>1. /\ At(h, "freeze") /\ handlers' = [handlers EXCEPT ![h] = Idle]
      /\ handlers \in [Handlers -> Requests]
  BY DEF CommitFreeze, Reply, IInv, TypeInv
<1>2. \A g \in Handlers : handlers'[g] = handlers[g] \/ handlers'[g] = Idle
  BY <1>1
<1>3. handlers'[h] = Idle /\ \A q \in read : Holds(h, q)
  BY <1>1 DEF Holds
<1>4. \A q \in Points : q \notin read => points'[q] = points[q]
  BY DEF CommitFreeze
<1> HIDE DEF read
<1>5. \A q \in Points, g \in Handlers : Holds(g, q)' => handlers'[g] = handlers[g]
  BY <1>2, IdleRequest DEF Holds, At
<1>6. QED
  BY <1>3, <1>4, <1>5 DEF Holders

LEMMA StepHolders ==
  ASSUME IInv, Step
  PROVE  Holders
<1>1. ASSUME NEW h \in Handlers, \/ \E p \in Previews : StartImport(h, p)
                                \/ StartGenerate(h)
                                \/ \E r \in Recordings, a \in AttemptIds : StartAttempt(h, r, a)
      PROVE  Holders
  <2>1. points' = points
    BY <1>1 DEF StartImport, StartGenerate, StartAttempt
  <2>2. \E w : w.op \notin {"edit", "freeze"} /\ handlers' = [handlers EXCEPT ![h] = w]
    <3>1. CASE \E p \in Previews : StartImport(h, p)
      <4>1. PICK p \in Previews : StartImport(h, p)
        BY <3>1
      <4> DEFINE w == [op |-> "import", preview |-> p, skip |-> \E f \in Previews : bank[f] > 0]
      <4>2. w.op = "import" /\ handlers' = [handlers EXCEPT ![h] = w]
        BY <4>1 DEF StartImport, Goes
      <4> HIDE DEF w
      <4>3. QED
        BY <4>2
    <3>2. CASE StartGenerate(h)
      BY <3>2 DEF StartGenerate, Goes
    <3>3. CASE \E r \in Recordings, a \in AttemptIds : StartAttempt(h, r, a)
      <4>1. PICK r \in Recordings, a \in AttemptIds : StartAttempt(h, r, a)
        BY <3>3
      <4> DEFINE w == [op |-> "grade", tally |-> tally,
                attempt |-> [id |-> a, recording |-> r, point |-> recordings[r],
                             quiz |-> points[recordings[r]].quiz]]
      <4>2. w.op = "grade" /\ handlers' = [handlers EXCEPT ![h] = w]
        BY <4>1 DEF StartAttempt, Goes
      <4> HIDE DEF w
      <4>3. QED
        BY <4>2
    <3>4. QED
      BY <1>1, <3>1, <3>2, <3>3
  <2>3. QED
    BY <2>1, <2>2, OtherHolders
<1>2. ASSUME NEW h \in Handlers, \/ CommitImport(h) \/ CommitGenerate(h) \/ CommitAttempt(h)
                                \/ Unavailable(h)
      PROVE  Holders
  <2>1. points' = points /\ handlers' = [handlers EXCEPT ![h] = Idle]
    BY <1>2 DEF CommitImport, CommitGenerate, CommitAttempt, Unavailable, Reply
  <2>2. QED
    BY <2>1, IdleRequest, OtherHolders
<1>3. ASSUME NEW h \in Handlers, WritePreview(h)
      PROVE  Holders
  <2> DEFINE w == [handlers[h] EXCEPT !.op = "commit"]
  <2>1. handlers[h] \in [op : {"import", "commit"}, preview : Previews, skip : BOOLEAN]
    BY <1>3, InHand DEF IInv, WritePreview
  <2>2. points' = points /\ handlers' = [handlers EXCEPT ![h] = w] /\ w.op = "commit"
    BY <1>3, <2>1 DEF WritePreview
  <2> HIDE DEF w
  <2>3. QED
    BY <2>2, OtherHolders
<1>4. ASSUME handlers' = handlers, \A p \in Points : points[p].state = "frozen" => points'[p] = points[p]
      PROVE  Holders
  BY <1>4 DEF Holders
<1>5. ASSUME NEW j \in Jobs, Analyse(j)
      PROVE  Holders
  <2>1. CASE Replace(j)
    BY <1>4, <2>1, ReplaceKeeps
  <2>2. CASE ~Replace(j)
    BY <1>4, <1>5, <2>2 DEF Analyse, Process, Scan, Fail, StatusRefused
  <2>3. QED
    BY <2>1, <2>2
<1>6. ASSUME NEW r \in Recordings, NEW p \in Points, Recorded(r, p)
      PROVE  Holders
  BY <1>4, <1>6 DEF Recorded
<1>7. ASSUME Restart
      PROVE  Holders
  <2>1. points' = points /\ \A g \in Handlers : handlers'[g] = Idle
    BY <1>7 DEF Restart
  <2>2. QED
    BY <2>1, IdleRequest DEF Holders, Holds, At
<1>8. QED
  BY <1>1, <1>2, <1>3, <1>5, <1>6, <1>7, StartEditHolders, StartFreezeHolders, CommitEditHolders,
     CommitFreezeHolders DEF Step

LEMMA RacesNext ==
  ASSUME IInv, IInv', Races, Holders, Race
  PROVE  Races'
<1>1. ASSUME NEW p \in Points
      PROVE  racing'[p] \subseteq Handlers
  BY DEF Race, Races
<1>2. racing' \in [Points -> SUBSET Handlers]
  BY <1>1 DEF Race
<1>3. ASSUME NEW p \in Points, NEW h \in Handlers, points'[p].state = "frozen", Holds(h, p)'
      PROVE  h \in racing'[p]
  <2>1. handlers'[h] = handlers[h]
    BY <1>3 DEF Holders
  <2>2. Holds(h, p)
    BY <1>3, <2>1 DEF Holds, At
  <2>3. points[p].state = "frozen" => h \in racing[p]
    BY <2>2 DEF Races
  <2>4. QED
    BY <1>3, <2>1, <2>2, <2>3 DEF Race
<1>4. QED
  BY <1>2, <1>3 DEF Races

-----------------------------------------------------------------------------
(* The theorems.                                                           *)

LEMMA StepKeeps ==
  ASSUME IInv, Step \/ UNCHANGED vars
  PROVE  IInv' /\ Grows
<1>1. CASE Step
  <2>1. ASSUME NEW h \in Handlers,
               \/ \E p \in Previews : StartImport(h, p)
               \/ StartGenerate(h) \/ StartFreeze(h) \/ Unavailable(h)
               \/ \E p \in Points : StartEdit(h, p)
        PROVE  IInv' /\ Grows
    BY <2>1, ReadingKeeps
  <2>2. ASSUME NEW h \in Handlers,
               \/ WritePreview(h) \/ CommitImport(h) \/ CommitGenerate(h) \/ CommitEdit(h)
               \/ CommitFreeze(h) \/ CommitAttempt(h)
        PROVE  IInv' /\ Grows
    BY <2>2, WritePreviewKeeps, CommitImportKeeps, GenerateKeeps, CommitEditKeeps,
       CommitFreezeKeeps, CommitAttemptKeeps
  <2>3. ASSUME NEW h \in Handlers, NEW r \in Recordings, NEW a \in AttemptIds, StartAttempt(h, r, a)
        PROVE  IInv' /\ Grows
    BY <2>3, StartAttemptKeeps
  <2>4. ASSUME NEW j \in Jobs, Analyse(j)
        PROVE  IInv' /\ Grows
    BY <2>4, AnalysisKeeps, ReplaceKeeps DEF Analyse
  <2>5. ASSUME NEW r \in Recordings, NEW p \in Points, Recorded(r, p)
        PROVE  IInv' /\ Grows
    BY <2>5, RecordedKeeps
  <2>6. QED
    BY <1>1, <2>1, <2>2, <2>3, <2>4, <2>5, RestartKeeps DEF Step
<1>2. CASE UNCHANGED vars
  <2>1. /\ UNCHANGED <<previews, bank, timed, points, jobs, recordings, attempts, tally, restarts>>
        /\ handlers' = handlers
    BY <1>2 DEF vars
  <2>2. TypeInv'
    BY <2>1 DEF IInv, TypeInv, Tables
  <2>3. QED
    BY <2>1, <2>2, QuietStep
<1>3. QED
  BY <1>1, <1>2

LEMMA NextKeeps ==
  ASSUME IInv, Races, [Next]_vars
  PROVE  IInv' /\ Races'
<1>1. IInv'
  BY StepKeeps DEF Next
<1>2. CASE Next
  BY <1>1, <1>2, StepHolders, RacesNext DEF Next
<1>3. CASE UNCHANGED vars
  <2>1. points' = points /\ racing' = racing /\ handlers' = handlers
    BY <1>3 DEF vars
  <2>2. QED
    BY <1>1, <2>1 DEF Races, Holds, At
<1>4. QED
  BY <1>1, <1>2, <1>3

LEMMA InitHolds ==
  ASSUME Init
  PROVE  IInv /\ Races
<1>1. NoRow \in Point
  <2>1. (CHOOSE n \in Nodes : TRUE) \in Nodes
    BY ContentAssumption
  <2>2. (CHOOSE t \in Texts : TRUE) \in Texts
    BY ContentAssumption
  <2>3. QED
    BY <2>1, <2>2 DEF NoRow, Point
<1>2. handlers \in [Handlers -> Requests] /\ \A h \in Handlers : handlers[h].op = "idle"
  BY IdleRequest DEF Init
<1>3. jobs \in [Jobs -> Job]
  BY DEF Init, Job
<1>4. Tables
  BY <1>1, <1>3, ContentAssumption DEF Init, Tables
<1>5. Imports
  BY <1>2 DEF Init, Imports, ImportedIsConfirmed, At
<1>6. Frozen
  BY DEF Init, Frozen, NoRow
<1>7. Scores
  <2>1. IsFiniteSet(attempts) /\ Cardinality(attempts) = 0 /\ attempts = {}
    BY FS_EmptySet DEF Init
  <2>2. Count(tally) = 0
    BY DEF Init, Count
  <2>3. QED
    BY <1>2, <2>1, <2>2 DEF Scores, At
<1>8. Races
  BY DEF Init, Races, NoRow
<1>9. QED
  BY <1>2, <1>4, <1>5, <1>6, <1>7, <1>8 DEF IInv, TypeInv

\* The inductive invariant holds in every state: the types, the imports of
\* confirmed previews, the frozen checkpoints, the scores of the attempts and the
\* requests that hold a frozen checkpoint.
THEOREM Invariant == Spec => [](IInv /\ Races)
  BY InitHolds, NextKeeps, PTL DEF Spec

\* The tables and the requests in progress keep their types.
THEOREM ContentTypes == Spec => []TypeOK
<1>1. IInv /\ Races => TypeOK
  BY TypeInvMeans DEF IInv, Races
<1>2. QED
  BY Invariant, <1>1, PTL

\* A question of a file is in the bank only when the file says so, whoever else
\* imports and wherever the process dies.
THEOREM ImportsConfirmed == Spec => []ImportedIsConfirmed
<1>1. IInv => ImportedIsConfirmed
  BY DEF IInv, Imports
<1>2. QED
  BY Invariant, <1>1, PTL

\* A recording is scored once, for its own checkpoint, and the learner's count
\* never exceeds what is scored.
THEOREM RecordingScoredOnce == Spec => []ScoredOnce
<1>1. IInv => ScoredOnce
  BY DEF IInv, Scores, Fits, ScoredOnce
<1>2. QED
  BY Invariant, <1>1, PTL

\* No step takes a frozen checkpoint back, or changes its text, node or quiz, but
\* the commit of a request that had read it as a draft.
THEOREM FrozenForGood == Spec => FrozenStays
<1> DEFINE Keeps == \A p \in InState("frozen") :
        /\ points'[p].state = "frozen"
        /\ points'[p] # points[p] => \E h \in racing[p] : handlers'[h] = Idle
<1>1. ASSUME IInv, Races, Next
      PROVE  Keeps
  <2>1. Grows /\ Holders
    BY <1>1, StepKeeps, StepHolders DEF Next
  <2>2. ASSUME NEW p \in InState("frozen"), points'[p] # points[p]
        PROVE  \E h \in racing[p] : handlers'[h] = Idle
    <3>1. PICK h \in Handlers : Holds(h, p) /\ handlers'[h] = Idle
      BY <2>1, <2>2 DEF Holders, InState
    <3>2. h \in racing[p]
      BY <2>2, <3>1, <1>1 DEF Races, InState
    <3>3. QED
      BY <3>1, <3>2
  <2>3. QED
    BY <2>1, <2>2 DEF Grows, InState
<1> HIDE DEF Keeps
<1>2. IInv /\ Races /\ [Next]_vars => [Keeps]_vars
  BY <1>1
<1>3. Spec => [][Keeps]_vars
  BY Invariant, <1>2, PTL DEF Spec
<1>4. QED
  BY <1>3 DEF Keeps, FrozenStays
=============================================================================
