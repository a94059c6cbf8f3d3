-------------------------- MODULE LearningTurnProofs --------------------------
(***************************************************************************)
(* Proofs about LearningTurn, for any number of sessions, modules,         *)
(* questions, requests and handlers, and any bounds: types, the counts and *)
(* estimates, the ledger of attempts and the ladder.  At the end is what   *)
(* holds when the requests of a learner do not overlap, or when none is    *)
(* delivered twice; the findings show that neither can be dropped.         *)
(***************************************************************************)
EXTENDS LearningTurn, FiniteSetTheorems, WellFoundedInduction, TLAPS

ChatSteps == {"insert", "load", "ready", "record", "finish", "feedback"}

SubmitSteps == {"submit", "enter", "check", "release"}

\* What a busy handler knows of its request m: the content has been sent, a
\* turn belongs to a session, and the fields its next steps use are set.
Coherent(w, m) ==
    /\ m # Unsent
    /\ w.step \in ChatSteps \cup {"wipe", "release"} => m.session \in Sessions
    /\ w.step \in ChatSteps /\ w.action = "change" => m.input.kind = "switch"
    /\ w.step \in SubmitSteps \cup {"record", "feedback"} => w.quiz \in Quizzes
    /\ w.step \in SubmitSteps => w.action = "grade"

Workers ==
    /\ handlers \in [Handlers -> Busy \cup {Idle}]
    /\ \A h \in Handlers :
         ~At(h, "idle") => Coherent(handlers[h], sent[handlers[h].req])

\* The tables keep their type whatever the handlers do.
Tables ==
    /\ sessions \in [Sessions -> SessionRow]
    /\ turns \in [Requests -> TurnRow]
    /\ history \in Seq(Attempt)
    /\ ability \in [Modules -> AbilityRow]

Wire ==
    /\ sent \in [Requests -> [session : Sessions \cup {NoSession}, input : Inputs]
                                \cup {Unsent}]
    /\ sends \in [Requests -> Nat]
    /\ errors \in Nat
    /\ crashes \in Nat

TypeInv == Tables /\ Wire /\ Workers

LEMMA TypeInvImplies == TypeInv => TypeOK
  BY DEF TypeInv, TypeOK, Tables, Wire, Workers

-----------------------------------------------------------------------------
(* Types of the pure parts                                                  *)

LEMMA IdleStep == Idle.step = "idle" /\ \A w \in Busy : w.step # "idle"
  BY DEF Idle, Busy, Steps

LEMMA FreshSessionType == FreshSession \in SessionRow
  BY TurnAssumption DEF FreshSession, SessionRow, EchoStates

LEMMA NoAbilityType == NoAbility \in AbilityRow
  BY DEF NoAbility, AbilityRow

LEMMA PlanType ==
  ASSUME NEW in, NEW row
  PROVE  /\ Plan(in, row) \in Actions
         /\ Plan(in, row) = "change" => in.kind = "switch"
  BY DEF Plan, Actions

LEMMA SwitchInput ==
  ASSUME NEW in \in Inputs, in.kind = "switch"
  PROVE  in.module \in Modules
  BY TurnAssumption DEF AllInputs

LEMMA SubmitInput ==
  ASSUME NEW in \in Inputs, in.kind = "submit"
  PROVE  in.quiz \in Quizzes
  BY TurnAssumption DEF AllInputs

LEMMA NextEchoType ==
  ASSUME NEW cue, NEW echo \in EchoStates
  PROVE  NextEcho(cue, echo) \in EchoStates
  BY DEF NextEcho, EchoStates, EchoAllowed

LEMMA BeginType ==
  ASSUME NEW r \in Requests, NEW step \in Steps, NEW action \in Actions,
         NEW row \in SessionRow
  PROVE  Begin(r, step, action, row) \in Busy
<1>1. AnyScore \in Scores
  BY TurnAssumption DEF AnyScore
<1>2. QED
  BY <1>1, NoAbilityType DEF Begin, Busy

LEMMA CandidatesInBank ==
  ASSUME NEW bank, NEW h, NEW p, NEW q \in Candidates(bank, h, p)
  PROVE  q \in bank /\ Purpose[q] = p
  BY DEF Candidates, Phase

LEMMA MergeType ==
  ASSUME NEW a \in SessionRow, NEW b \in SessionRow, NEW c \in SessionRow
  PROVE  Merge(a, b, c) \in SessionRow
  BY DEF Merge, SessionRow

LEMMA EntryType ==
  ASSUME TypeOK
  PROVE  /\ Len(history) \in Nat
         /\ DOMAIN history = 1 .. Len(history)
         /\ \A i \in DOMAIN history : /\ history[i] \in Attempt
                                      /\ history[i].id \in Requests
                                      /\ history[i].quiz \in Quizzes
<1>1. history \in Seq(Attempt)
  BY DEF TypeOK
<1>2. Len(history) \in Nat /\ DOMAIN history = 1 .. Len(history)
  BY <1>1
<1>3. \A i \in DOMAIN history : history[i] \in Attempt
  BY <1>1, <1>2
<1>4. QED
  BY <1>2, <1>3 DEF Attempt

LEMMA SeenType ==
  ASSUME TypeOK, NEW m \in Modules
  PROVE  /\ Seen(m) \in AbilityRow
         /\ Seen(m).count = ability[m].count
         /\ Seen(m).basis = {history[i].id : i \in {k \in DOMAIN history :
                                                    ModuleOf[history[k].quiz] = m}}
<1>1. ability[m] \in AbilityRow
  BY DEF TypeOK
<1>2. \A i \in DOMAIN history : history[i].id \in Requests
  BY EntryType
<1> DEFINE K == {k \in DOMAIN history : ModuleOf[history[k].quiz] = m}
           B == {history[i].id : i \in K}
<1>3. B \subseteq Requests
  BY <1>2
<1>4. Seen(m) = [ability[m] EXCEPT !.basis = B]
  BY DEF Seen
<1> HIDE DEF B
<1>5. Seen(m) \in AbilityRow /\ Seen(m).count = ability[m].count /\ Seen(m).basis = B
  BY <1>1, <1>3, <1>4 DEF AbilityRow
<1>6. QED
  BY <1>5 DEF B

-----------------------------------------------------------------------------
(* What a handler may become                                                *)

LEMMA MessageType ==
  ASSUME TypeOK, NEW r \in Requests, sent[r] # Unsent
  PROVE  sent[r].session \in Sessions \cup {NoSession} /\ sent[r].input \in Inputs
  BY DEF TypeOK

LEMMA BusyHandler ==
  ASSUME TypeInv, NEW h \in Handlers, ~At(h, "idle")
  PROVE  /\ handlers[h] \in Busy
         /\ handlers[h].req \in Requests
         /\ Coherent(handlers[h], sent[handlers[h].req])
         /\ SessionOf(h) \in Sessions \cup {NoSession}
         /\ InputOf(h) \in Inputs
<1>1. handlers[h] \in Busy
  BY IdleStep DEF TypeInv, Workers, At
<1>2. handlers[h].req \in Requests /\ Coherent(handlers[h], sent[handlers[h].req])
  BY <1>1 DEF TypeInv, Workers, Busy
<1>3. QED
  BY <1>1, <1>2, MessageType, TypeInvImplies DEF Coherent, SessionOf, InputOf

LEMMA BecomeBusy ==
  ASSUME TypeInv, NEW h \in Handlers, NEW w \in Busy, Coherent(w, sent[w.req]),
         Become(h, w), UNCHANGED sent
  PROVE  Workers'
  BY DEF TypeInv, Workers, Become, At

LEMMA BecomeIdle ==
  ASSUME TypeInv, NEW h \in Handlers, Become(h, Idle), UNCHANGED sent
  PROVE  Workers'
  BY DEF TypeInv, Workers, Become, At, Idle

\* A delivery leaves the content of every request in flight as it was.
LEMMA DeliverType ==
  ASSUME TypeInv, NEW r \in Requests, NEW s \in Sessions \cup {NoSession},
         NEW in \in Inputs, Deliver(r, s, in)
  PROVE  /\ sent' \in [Requests -> [session : Sessions \cup {NoSession}, input : Inputs]
                                     \cup {Unsent}]
         /\ sends' \in [Requests -> Nat]
         /\ sent'[r] = [session |-> s, input |-> in]
         /\ \A k \in Requests : sent[k] # Unsent => sent'[k] = sent[k]
  BY DEF TypeInv, Wire, Deliver

LEMMA DeliverWorkers ==
  ASSUME TypeInv, NEW r \in Requests, NEW s \in Sessions \cup {NoSession},
         NEW in \in Inputs, Deliver(r, s, in),
         NEW h \in Handlers,
         \/ UNCHANGED handlers
         \/ \E w \in Busy : /\ w.req = r
                            /\ Coherent(w, [session |-> s, input |-> in])
                            /\ Become(h, w)
  PROVE  Workers'
<1>1. [session |-> s, input |-> in] # Unsent
  BY TurnAssumption
<1>2. \A k \in Handlers : ~At(k, "idle") =>
        /\ handlers[k].req \in Requests
        /\ Coherent(handlers[k], sent'[handlers[k].req])
  BY BusyHandler, DeliverType DEF Coherent
<1>3. CASE UNCHANGED handlers
  BY <1>2, <1>3 DEF TypeInv, Workers, At
<1>4. ASSUME NEW w \in Busy, w.req = r, Coherent(w, [session |-> s, input |-> in]),
             Become(h, w)
      PROVE  Workers'
  BY <1>2, <1>4, DeliverType DEF TypeInv, Workers, At, Become
<1>5. QED
  BY <1>3, <1>4

-----------------------------------------------------------------------------
(* Type correctness                                                         *)

LEMMA TypeInit == Init => TypeInv
<1> SUFFICES ASSUME Init PROVE TypeInv
  OBVIOUS
<1>1. Tables /\ Wire
  <2>1. sessions \in [Sessions -> SessionRow] /\ ability \in [Modules -> AbilityRow]
    BY FreshSessionType, NoAbilityType DEF Init
  <2>2. turns \in [Requests -> TurnRow] /\ history \in Seq(Attempt)
    BY DEF Init, TurnRow, TurnStatus
  <2>3. QED
    BY <2>1, <2>2 DEF Init, Tables, Wire
<1>2. Workers
  BY DEF Init, Workers, At, Idle
<1>3. QED
  BY <1>1, <1>2 DEF TypeInv

LEMMA ReceiveTypes ==
  ASSUME TypeInv, NEW h \in Handlers, Receive(h)
  PROVE  TypeInv'
<1> PICK r \in Requests, in \in Inputs :
        \/ \E s \in Sessions : ReceiveTurn(h, r, s, in)
        \/ \E s \in Sessions \cup {NoSession} : ReceiveSubmission(h, r, s, in)
        \/ \E s \in Sessions : ReceiveClear(h, r, s, in)
  BY DEF Receive
<1> USE DEF TypeInv
<1>1. ASSUME NEW s \in Sessions, ReceiveTurn(h, r, s, in)
      PROVE  TypeInv'
  <2>1. Tables' /\ Wire'
    BY <1>1, DeliverType DEF ReceiveTurn, Tables, Wire
  <2> DEFINE step == IF turns[r].status = "none" THEN "insert" ELSE "ready"
             w == Begin(r, step, Plan(in, sessions[s]), sessions[s])
  <2>2. w \in Busy
    BY BeginType, PlanType DEF Tables, Steps
  <2>3. w.req = r /\ Coherent(w, [session |-> s, input |-> in])
    BY PlanType, TurnAssumption DEF Begin, Coherent, ChatSteps, SubmitSteps
  <2>4. UNCHANGED handlers \/ Become(h, w)
    BY <1>1 DEF ReceiveTurn
  <2> HIDE DEF w
  <2>5. Workers'
    BY <1>1, <2>2, <2>3, <2>4, DeliverWorkers DEF ReceiveTurn
  <2>6. QED
    BY <2>1, <2>5
<1>2. ASSUME NEW s \in Sessions \cup {NoSession}, ReceiveSubmission(h, r, s, in)
      PROVE  TypeInv'
  <2>1. Tables' /\ Wire'
    BY <1>2, DeliverType DEF ReceiveSubmission, Tables, Wire
  <2> DEFINE row == IF s = NoSession THEN FreshSession ELSE sessions[s]
             b == Begin(r, "submit", "grade", row)
             w == [b EXCEPT !.quiz = in.quiz]
  <2>2. b \in Busy
    BY BeginType, FreshSessionType DEF Tables, Steps, Actions
  <2>3. w \in Busy /\ w.quiz \in Quizzes
    BY <1>2, <2>2, SubmitInput DEF ReceiveSubmission, Busy
  <2>4. w.req = r /\ Coherent(w, [session |-> s, input |-> in])
    BY <2>3, TurnAssumption DEF Begin, Coherent, ChatSteps, SubmitSteps
  <2>5. UNCHANGED handlers \/ Become(h, w)
    BY <1>2 DEF ReceiveSubmission
  <2> HIDE DEF w
  <2>6. Workers'
    BY <1>2, <2>3, <2>4, <2>5, DeliverWorkers DEF ReceiveSubmission
  <2>7. QED
    BY <2>1, <2>6
<1>3. ASSUME NEW s \in Sessions, ReceiveClear(h, r, s, in)
      PROVE  TypeInv'
  <2>1. Tables' /\ Wire'
    BY <1>3, DeliverType DEF ReceiveClear, Tables, Wire
  <2> DEFINE b == Begin(r, "wipe", "respond", sessions[s])
             w == [b EXCEPT !.new = [sessions[s] EXCEPT !.active = NoQuiz, !.echo = "E"]]
  <2>2. b \in Busy /\ sessions[s] \in SessionRow
    BY BeginType DEF Tables, Steps, Actions
  <2>3. w \in Busy
    BY <2>2 DEF Busy, SessionRow, EchoStates
  <2>4. w.req = r /\ Coherent(w, [session |-> s, input |-> in])
    BY TurnAssumption DEF Begin, Coherent, ChatSteps, SubmitSteps
  <2>5. Become(h, w)
    BY <1>3 DEF ReceiveClear
  <2> HIDE DEF w
  <2>6. Workers'
    BY <1>3, <2>3, <2>4, <2>5, DeliverWorkers DEF ReceiveClear
  <2>7. QED
    BY <2>1, <2>6
<1>4. QED
  BY <1>1, <1>2, <1>3

LEMMA ChatTypes ==
  ASSUME TypeInv, NEW h \in Handlers,
         \/ InsertTurn(h) \/ LoadSession(h) \/ Respond(h) \/ Converse(h)
         \/ ChangeModule(h) \/ GenerateQuiz(h) \/ GradeAnswer(h)
  PROVE  TypeInv'
<1> USE DEF TypeInv
<1> DEFINE w == handlers[h]
<1>a. ASSUME At(h, "insert") \/ At(h, "load") \/ At(h, "ready")
      PROVE  /\ w \in Busy /\ w.req \in Requests
             /\ w.row \in SessionRow /\ w.new \in SessionRow
             /\ SessionOf(h) \in Sessions /\ sessions[SessionOf(h)] \in SessionRow
             /\ InputOf(h) \in Inputs
             /\ Coherent(w, sent[w.req])
             /\ w.action = "change" => InputOf(h).module \in Modules
  <2>1. ~At(h, "idle") /\ w.step \in ChatSteps
    BY <1>a DEF At, ChatSteps
  <2>2. w \in Busy /\ w.req \in Requests /\ Coherent(w, sent[w.req]) /\ InputOf(h) \in Inputs
    BY <2>1, BusyHandler
  <2>3. SessionOf(h) \in Sessions /\ (w.action = "change" => InputOf(h).kind = "switch")
    BY <2>1, <2>2 DEF Coherent, SessionOf, InputOf
  <2>4. QED
    BY <2>2, <2>3, SwitchInput DEF Tables, Busy
<1>1. CASE InsertTurn(h)
  <2>1. Tables' /\ Wire'
    <3>1. turns[w.req] \in TurnRow
      BY <1>1, <1>a DEF InsertTurn, Tables
    <3>2. [turns[w.req] EXCEPT !.status = "planned"] \in TurnRow
      BY <3>1 DEF TurnRow, TurnStatus
    <3>3. turns' \in [Requests -> TurnRow]
      BY <1>1, <3>2 DEF InsertTurn, Tables
    <3>4. QED
      BY <1>1, <3>3 DEF InsertTurn, Tables, Wire
  <2>2. [w EXCEPT !.step = "load"] \in Busy
    BY <1>1, <1>a DEF InsertTurn, Busy, Steps
  <2>3. Coherent([w EXCEPT !.step = "load"], sent[w.req])
    BY <1>1, <1>a, <2>2 DEF InsertTurn, Coherent, ChatSteps, SubmitSteps, At, Busy
  <2>4. Workers'
    <3>1. CASE turns[w.req].status = "none"
      <4>1. Become(h, [w EXCEPT !.step = "load"]) /\ UNCHANGED sent
        BY <1>1, <3>1 DEF InsertTurn, Goto, Become
      <4>2. [w EXCEPT !.step = "load"].req = w.req
        BY <1>1, <1>a DEF InsertTurn, Busy
      <4>3. QED
        BY <2>2, <2>3, <4>1, <4>2, BecomeBusy
    <3>2. CASE turns[w.req].status # "none"
      BY <1>1, <3>2, BecomeIdle DEF InsertTurn
    <3>3. QED
      BY <3>1, <3>2
  <2>5. QED
    BY <2>1, <2>4
<1> HIDE DEF w
<1>b. ASSUME NEW v \in Busy, v.req = w.req, Coherent(v, sent[w.req]),
             Become(h, v), UNCHANGED <<sessions, turns, history, ability, sent, sends,
                                       errors, crashes>>
      PROVE  TypeInv'
  BY <1>b, BecomeBusy DEF Tables, Wire
<1>c. ASSUME At(h, "ready"), NEW v \in Busy, v.req = w.req, v.step = "finish",
             v.action = w.action
      PROVE  Coherent(v, sent[w.req])
  BY <1>a, <1>c DEF Coherent, ChatSteps, SubmitSteps, At, w
<1>2. CASE LoadSession(h)
  <2> DEFINE row == sessions[SessionOf(h)]
             v == [w EXCEPT !.step = "ready", !.row = row, !.new = row]
  <2>1. v \in Busy /\ v.req = w.req /\ v.action = w.action /\ v.step = "ready"
    BY <1>2, <1>a DEF LoadSession, Busy, Steps, w
  <2>2. Coherent(v, sent[w.req])
    BY <1>2, <1>a, <2>1 DEF LoadSession, Coherent, ChatSteps, SubmitSteps, At, w
  <2>3. QED
    BY <1>2, <1>b, <2>1, <2>2 DEF LoadSession, w
<1>3. CASE Respond(h)
  <2>1. [w EXCEPT !.step = "finish"] \in Busy
    BY <1>3, <1>a DEF Respond, Busy, Steps, w
  <2>2. QED
    BY <1>3, <1>a, <1>b, <1>c, <2>1 DEF Respond, Goto, Become, Busy, w
<1>4. CASE Converse(h)
  <2> DEFINE echo == NextEcho(Cue(InputOf(h)), w.row.echo)
             row == [w.row EXCEPT !.echo = echo]
             v == [w EXCEPT !.step = "finish", !.new = row]
  <2>1. row \in SessionRow
    BY <1>4, <1>a, NextEchoType DEF Converse, SessionRow, w
  <2>2. v \in Busy /\ v.req = w.req /\ v.action = w.action /\ v.step = "finish"
    BY <1>4, <1>a, <2>1 DEF Converse, Busy, Steps, w
  <2>3. QED
    BY <1>4, <1>b, <1>c, <2>2 DEF Converse, w
<1>5. CASE ChangeModule(h)
  <2> DEFINE row == [module |-> InputOf(h).module, active |-> NoQuiz, echo |-> "E"]
             v == [w EXCEPT !.step = "finish", !.new = row]
  <2>1. row \in SessionRow
    BY <1>5, <1>a DEF ChangeModule, SessionRow, EchoStates, w
  <2>2. v \in Busy /\ v.req = w.req /\ v.action = w.action /\ v.step = "finish"
    BY <1>5, <1>a, <2>1 DEF ChangeModule, Busy, Steps, w
  <2>3. QED
    BY <1>5, <1>b, <1>c, <2>2 DEF ChangeModule, w
<1>6. CASE GenerateQuiz(h)
  <2>1. [w EXCEPT !.step = "finish"] \in Busy
    BY <1>6, <1>a DEF GenerateQuiz, Busy, Steps, w
  <2>2. CASE Become(h, [w EXCEPT !.step = "finish"])
    BY <1>6, <2>1, <2>2, <1>a, <1>b, <1>c DEF GenerateQuiz, Busy, w
  <2> DEFINE p == AskedPurpose(InputOf(h), w.row.module, w.row.active)
             v(q) == [w EXCEPT !.step = "finish", !.quiz = q, !.new.active = q,
                               !.seen = ability[w.row.module]]
  <2>3. ASSUME NEW q \in Candidates(Bank(w.row.module), history, p), Become(h, v(q))
        PROVE  TypeInv'
    <3>1. q \in Quizzes
      BY CandidatesInBank DEF Bank
    <3>2. ability[w.row.module] \in AbilityRow
      BY <1>6, <1>a DEF GenerateQuiz, Tables, SessionRow, w
    <3>3. [w.new EXCEPT !.active = q] \in SessionRow
      BY <1>6, <1>a, <3>1 DEF GenerateQuiz, SessionRow, w
    <3>4. v(q) \in Busy /\ v(q).req = w.req /\ v(q).action = w.action /\ v(q).step = "finish"
      BY <1>6, <1>a, <3>1, <3>2, <3>3 DEF GenerateQuiz, Busy, Steps, w
    <3>5. QED
      BY <1>6, <2>3, <3>4, <1>b, <1>c DEF GenerateQuiz, w
  <2>4. QED
    BY <1>6, <2>2, <2>3 DEF GenerateQuiz, Goto, Become, w
<1>7. CASE GradeAnswer(h)
  <2> DEFINE q == w.row.active
             step == IF Recorded(w.req) THEN "finish" ELSE "record"
             v(s) == [w EXCEPT !.step = step, !.quiz = q, !.score = s, !.new.active = NoQuiz,
                               !.seen = Seen(ModuleOf[q])]
  <2>1. PICK s \in Scores : Become(h, v(s))
    BY <1>7 DEF GradeAnswer, w
  <2>2. q \in Quizzes
    BY <1>7, <1>a DEF GradeAnswer, SessionRow, w
  <2>3. Seen(ModuleOf[q]) \in AbilityRow
    BY <2>2, SeenType, TypeInvImplies, TurnAssumption
  <2>4. [w.new EXCEPT !.active = NoQuiz] \in SessionRow
    BY <1>7, <1>a DEF GradeAnswer, SessionRow, w
  <2>5. v(s) \in Busy /\ v(s).req = w.req /\ v(s).action = w.action
          /\ v(s).step \in {"finish", "record"} /\ v(s).quiz = q
    BY <1>7, <1>a, <2>2, <2>3, <2>4 DEF GradeAnswer, Busy, Steps, w
  <2>6. Coherent(v(s), sent[w.req])
    BY <1>7, <1>a, <2>2, <2>5 DEF GradeAnswer, Coherent, ChatSteps, SubmitSteps, At, w
  <2>7. QED
    BY <1>7, <1>b, <2>1, <2>5, <2>6 DEF GradeAnswer, w
<1>8. QED
  BY <1>1, <1>2, <1>3, <1>4, <1>5, <1>6, <1>7

LEMMA AbilityAfterType ==
  ASSUME TypeInv, NEW r \in Requests, NEW q \in Quizzes, NEW seen \in AbilityRow
  PROVE  /\ AbilityAfter(r, q, seen) \in [Modules -> AbilityRow]
         /\ \A m \in Modules :
              AbilityAfter(r, q, seen)[m].count =
                IF q \in Counting /\ m = ModuleOf[q] THEN seen.count + 1
                ELSE ability[m].count
<1> USE DEF TypeInv
<1>1. ModuleOf[q] \in Modules /\ ability \in [Modules -> AbilityRow]
  BY TurnAssumption DEF Tables
<1>2. Tallied(seen, r) \in AbilityRow /\ Tallied(seen, r).count = seen.count + 1
  BY DEF Tallied, AbilityRow
<1>3. [ability[ModuleOf[q]] EXCEPT !.known = TRUE] \in AbilityRow
  BY <1>1 DEF AbilityRow
<1>4. \A m \in Modules : [ability[m] EXCEPT !.known = TRUE].count = ability[m].count
  BY <1>1 DEF AbilityRow
<1>5. QED
  BY <1>1, <1>2, <1>3, <1>4 DEF AbilityAfter

LEMMA AbilityAfterBasis ==
  ASSUME TypeInv, NEW r \in Requests, NEW q \in Quizzes, NEW seen \in AbilityRow,
         NEW m \in Modules
  PROVE  AbilityAfter(r, q, seen)[m].basis =
           IF q \in Counting /\ m = ModuleOf[q] THEN seen.basis \cup {r}
           ELSE ability[m].basis
<1>1. ModuleOf[q] \in Modules /\ ability \in [Modules -> AbilityRow]
  BY TurnAssumption DEF TypeInv, Tables
<1>2. Tallied(seen, r).basis = seen.basis \cup {r}
  BY DEF Tallied
<1>3. [ability[m] EXCEPT !.known = TRUE].basis = ability[m].basis
  BY <1>1 DEF AbilityRow
<1>4. QED
  BY <1>1, <1>2, <1>3 DEF AbilityAfter

LEMMA RecordTypes ==
  ASSUME TypeInv, NEW h \in Handlers,
         \/ At(h, "record") /\ RecordAttempt(h, "finish")
         \/ At(h, "enter") /\ RecordAttempt(h, "check")
  PROVE  TypeInv'
<1> USE DEF TypeInv
<1> DEFINE w == handlers[h]
<1>1. /\ w \in Busy /\ w.req \in Requests /\ w.quiz \in Quizzes
      /\ w.seen \in AbilityRow /\ w.score \in Scores
      /\ Coherent(w, sent[w.req])
  <2>1. w \in Busy /\ w.req \in Requests /\ Coherent(w, sent[w.req])
    BY BusyHandler DEF At
  <2>2. QED
    BY <2>1 DEF Coherent, SubmitSteps, At, Busy
<1>2. [id |-> w.req, quiz |-> w.quiz, score |-> w.score] \in Attempt
  BY <1>1 DEF Attempt
<1>3. Tables' /\ Wire'
  <2>1. history' \in Seq(Attempt)
    BY <1>2 DEF RecordAttempt, Tables
  <2>2. ability' \in [Modules -> AbilityRow]
    BY <1>1, AbilityAfterType DEF RecordAttempt
  <2>3. QED
    BY <2>1, <2>2 DEF RecordAttempt, Tables, Wire
<1> DEFINE v(next) == [w EXCEPT !.step = next, !.updated = TRUE, !.seen = NoAbility]
<1>4. ASSUME NEW next \in {"finish", "check"}
      PROVE  v(next) \in Busy /\ v(next).req = w.req /\ v(next).step = next
               /\ v(next).action = w.action /\ v(next).quiz = w.quiz
  BY <1>1, NoAbilityType DEF Busy, Steps
<1>5. CASE At(h, "record") /\ RecordAttempt(h, "finish")
  <2>1. Coherent(v("finish"), sent[w.req])
    BY <1>1, <1>4, <1>5 DEF Coherent, ChatSteps, SubmitSteps, At
  <2>2. QED
    BY <1>3, <1>4, <1>5, <2>1, BecomeBusy DEF RecordAttempt
<1>6. CASE At(h, "enter") /\ RecordAttempt(h, "check")
  <2>1. Coherent(v("check"), sent[w.req])
    BY <1>1, <1>4, <1>6 DEF Coherent, ChatSteps, SubmitSteps, At
  <2>2. QED
    BY <1>3, <1>4, <1>6, <2>1, BecomeBusy DEF RecordAttempt
<1>7. QED
  BY <1>5, <1>6

\* The ends of a request: a handler that only closes its execution, its session
\* row or itself.
LEMMA AbandonTypes ==
  ASSUME TypeInv, NEW h \in Handlers, ~At(h, "idle"), Abandon(h), errors' \in Nat
  PROVE  TypeInv'
<1> USE DEF TypeInv
<1>1. turns[handlers[h].req] \in TurnRow
  BY BusyHandler DEF Tables
<1>2. [turns[handlers[h].req] EXCEPT !.status = "failed"] \in TurnRow
  BY <1>1 DEF TurnRow, TurnStatus
<1> DEFINE r == handlers[h].req
<1>3. r \in Requests /\ turns' = [turns EXCEPT ![r] = [turns[r] EXCEPT !.status = "failed"]]
  <2>1. turns' = [turns EXCEPT ![r].status = "failed"]
    BY DEF Abandon
  <2>2. QED
    BY <2>1, BusyHandler
<1>5. turns' \in [Requests -> TurnRow]
  BY <1>2, <1>3 DEF Tables
<1>6. Tables' /\ Wire'
  BY <1>5 DEF Abandon, Tables, Wire
<1>4. Workers'
  BY BecomeIdle DEF Abandon
<1>7. QED
  BY <1>4, <1>6

LEMMA FinishTypes ==
  ASSUME TypeInv, NEW h \in Handlers, FinishTurn(h)
  PROVE  TypeInv'
<1> USE DEF TypeInv
<1> DEFINE w == handlers[h]
           s == SessionOf(h)
<1>1. /\ w \in Busy /\ w.req \in Requests /\ s \in Sessions
      /\ Coherent(w, sent[w.req])
  <2>1. w \in Busy /\ w.req \in Requests /\ Coherent(w, sent[w.req])
    BY BusyHandler DEF FinishTurn, At
  <2>2. s \in Sessions
    BY <2>1 DEF FinishTurn, Coherent, ChatSteps, SessionOf, At
  <2>3. QED
    BY <2>1, <2>2
<1>2. sessions' \in [Sessions -> SessionRow]
  <2>1. sessions[s] \in SessionRow /\ w.row \in SessionRow /\ w.new \in SessionRow
    BY <1>1 DEF Tables, Busy
  <2>2. [sessions[s] EXCEPT !.active = NoQuiz] \in SessionRow
    BY <2>1 DEF SessionRow
  <2>3. SessionAfter(w, sessions[s]) \in SessionRow
    BY <2>1, <2>2, MergeType DEF SessionAfter
  <2>4. QED
    BY <1>1, <2>3 DEF FinishTurn, Tables
<1>3. ability' \in [Modules -> AbilityRow]
  <2>1. CASE InsertsAbility(w)
    <3>1. w.quiz \in Quizzes
      BY <1>1, <2>1 DEF InsertsAbility, Busy
    <3>2. ability[ModuleOf[w.quiz]] \in AbilityRow
      BY <3>1, TurnAssumption DEF Tables
    <3>3. [ability[ModuleOf[w.quiz]] EXCEPT !.known = TRUE] \in AbilityRow
      BY <3>2 DEF AbilityRow
    <3>4. QED
      BY <2>1, <3>3 DEF FinishTurn, Tables
  <2>2. QED
    BY <2>1 DEF FinishTurn, Tables
<1>4. turns' \in [Requests -> TurnRow]
  <2>1. turns[w.req] \in TurnRow /\ Graded(w) \in Quizzes \cup {NoQuiz}
    BY <1>1 DEF Tables, Graded, Busy
  <2>2. [status |-> "completed", verdict |-> Graded(w), commits |-> turns[w.req].commits + 1]
          \in TurnRow
    BY <2>1 DEF TurnRow, TurnStatus
  <2>3. QED
    BY <1>1, <2>2 DEF FinishTurn, Tables
<1>5. Workers'
  <2>1. CASE WantsFeedback(w)
    <3> DEFINE v == [w EXCEPT !.step = "feedback"]
    <3>1. v \in Busy /\ v.req = w.req /\ v.step = "feedback" /\ v.action = "grade"
            /\ v.quiz = w.quiz
      BY <1>1, <2>1 DEF WantsFeedback, Busy, Steps
    <3>2. w.quiz \in Quizzes
      BY <2>1, TurnAssumption DEF WantsFeedback
    <3>3. Coherent(v, sent[w.req])
      BY <1>1, <3>1, <3>2 DEF FinishTurn, Coherent, ChatSteps, SubmitSteps, At
    <3>4. Become(h, v) /\ UNCHANGED sent
      BY <2>1 DEF FinishTurn, Goto, Become
    <3> HIDE DEF v
    <3>5. QED
      BY <3>1, <3>3, <3>4, BecomeBusy
  <2>2. CASE ~WantsFeedback(w)
    BY <2>2, BecomeIdle DEF FinishTurn
  <2>3. QED
    BY <2>1, <2>2
<1>6. QED
  BY <1>2, <1>3, <1>4, <1>5 DEF FinishTurn, Tables, Wire

LEMMA WorkTypes ==
  ASSUME TypeInv, NEW h \in Handlers, Work(h)
  PROVE  TypeInv'
<1> USE DEF TypeInv
<1> DEFINE w == handlers[h]
<1>a. ASSUME ~At(h, "idle")
      PROVE  w \in Busy /\ w.req \in Requests /\ Coherent(w, sent[w.req])
  BY <1>a, BusyHandler
<1> HIDE DEF w
<1>1. CASE InsertTurn(h) \/ LoadSession(h) \/ Respond(h) \/ Converse(h)
             \/ ChangeModule(h) \/ GenerateQuiz(h) \/ GradeAnswer(h)
  BY <1>1, ChatTypes
<1>2. CASE RecordGrade(h) \/ EnterSubmission(h)
  BY <1>2, RecordTypes DEF RecordGrade, EnterSubmission
<1>3. CASE FinishTurn(h)
  BY <1>3, FinishTypes
<1>4. CASE StoreFeedback(h)
  <2>1. w.req \in Requests /\ w.quiz \in Quizzes
    BY <1>4, <1>a DEF StoreFeedback, At, Coherent, w
  <2>2. turns[w.req] \in TurnRow
    BY <2>1 DEF Tables
  <2>3. [turns[w.req] EXCEPT !.verdict = w.quiz] \in TurnRow
    BY <2>1, <2>2 DEF TurnRow
  <2>4. turns' = [turns EXCEPT ![w.req] = [turns[w.req] EXCEPT !.verdict = w.quiz]]
    BY <1>4, <2>1 DEF StoreFeedback, w
  <2>5. turns' \in [Requests -> TurnRow]
    BY <2>3, <2>4 DEF Tables
  <2>6. QED
    BY <1>4, <2>5, BecomeIdle DEF StoreFeedback, Tables, Wire
<1>5. CASE Fail(h)
  BY <1>5, AbandonTypes DEF Fail, At, Wire
<1>6. CASE GradeSubmission(h)
  <2> DEFINE step == IF Recorded(w.req) THEN "check" ELSE "enter"
             v(s) == [w EXCEPT !.step = step, !.score = s, !.seen = Seen(ModuleOf[w.quiz])]
  <2>1. PICK s \in Scores : Become(h, v(s))
    BY <1>6 DEF GradeSubmission, w
  <2>2. /\ w \in Busy /\ w.quiz \in Quizzes /\ w.action = "grade"
        /\ Coherent(w, sent[w.req])
    BY <1>6, <1>a DEF GradeSubmission, At, Coherent, SubmitSteps, w
  <2>3. Seen(ModuleOf[w.quiz]) \in AbilityRow
    BY <2>2, SeenType, TypeInvImplies, TurnAssumption
  <2>4. v(s) \in Busy /\ v(s).req = w.req /\ v(s).action = "grade" /\ v(s).quiz = w.quiz
          /\ v(s).step \in {"check", "enter"}
    BY <2>2, <2>3 DEF Busy, Steps
  <2>5. Coherent(v(s), sent[w.req])
    BY <2>2, <2>4 DEF Coherent, ChatSteps, SubmitSteps
  <2>6. QED
    BY <1>6, <2>1, <2>4, <2>5, BecomeBusy DEF GradeSubmission, Tables, Wire, w
<1>7. CASE CheckActive(h)
  <2> DEFINE v == [w EXCEPT !.step = "release"]
  <2>1. w \in Busy /\ w.action = "grade" /\ Coherent(w, sent[w.req])
          /\ sent[w.req].session \in Sessions \cup {NoSession} /\ w.quiz \in Quizzes
    BY <1>7, <1>a, BusyHandler DEF CheckActive, At, Coherent, SubmitSteps, SessionOf, w
  <2>2. v \in Busy /\ v.req = w.req /\ v.action = "grade" /\ v.quiz = w.quiz
          /\ v.step = "release"
    BY <2>1 DEF Busy, Steps
  <2>3. CASE SessionOf(h) # NoSession /\ Become(h, v)
    <3>1. Coherent(v, sent[w.req])
      BY <2>1, <2>2, <2>3 DEF Coherent, ChatSteps, SubmitSteps, SessionOf, w
    <3>2. QED
      BY <1>7, <2>2, <2>3, <3>1, BecomeBusy DEF CheckActive, Tables, Wire, w
  <2>4. CASE Become(h, Idle)
    BY <1>7, <2>4, BecomeIdle DEF CheckActive, Tables, Wire
  <2>5. QED
    BY <1>7, <2>3, <2>4 DEF CheckActive, Goto, Become, w
<1>8. CASE ReleaseQuestion(h)
  <2>1. SessionOf(h) \in Sessions
    BY <1>8, <1>a DEF ReleaseQuestion, At, Coherent, SessionOf, w
  <2>2. [sessions[SessionOf(h)] EXCEPT !.active = NoQuiz] \in SessionRow
    BY <2>1 DEF Tables, SessionRow
  <2>3. sessions' \in [Sessions -> SessionRow]
    BY <1>8, <2>1, <2>2 DEF ReleaseQuestion, Tables
  <2>4. QED
    BY <1>8, <2>3, BecomeIdle DEF ReleaseQuestion, Tables, Wire
<1>9. CASE RejectSubmission(h)
  BY <1>9, BecomeIdle DEF RejectSubmission, Tables, Wire
<1>10. CASE ClearMessages(h)
  <2>1. SessionOf(h) \in Sessions /\ w \in Busy
    BY <1>10, <1>a DEF ClearMessages, At, Coherent, SessionOf, w
  <2>2. Merge(sessions[SessionOf(h)], w.row, w.new) \in SessionRow
    BY <2>1, MergeType DEF Tables, Busy
  <2>3. sessions' \in [Sessions -> SessionRow]
    BY <1>10, <2>2 DEF ClearMessages, Tables, w
  <2>4. QED
    BY <1>10, <2>3, BecomeIdle DEF ClearMessages, Tables, Wire
<1>11. QED
  BY <1>1, <1>2, <1>3, <1>4, <1>5, <1>6, <1>7, <1>8, <1>9, <1>10 DEF Work

LEMMA TypeStep == TypeInv /\ [Next]_vars => TypeInv'
<1> SUFFICES ASSUME TypeInv, [Next]_vars
             PROVE  TypeInv'
  OBVIOUS
<1>1. ASSUME NEW h \in Handlers, Receive(h)
      PROVE  TypeInv'
  BY <1>1, ReceiveTypes
<1>2. ASSUME NEW h \in Handlers, Work(h)
      PROVE  TypeInv'
  BY <1>2, WorkTypes
<1>3. ASSUME NEW h \in Handlers, RaiseError(h)
      PROVE  TypeInv'
  BY <1>3, AbandonTypes DEF RaiseError, At, TypeInv, Wire
<1>4. ASSUME NEW h \in Handlers, DropRequest(h)
      PROVE  TypeInv'
  BY <1>4, BecomeIdle DEF DropRequest, TypeInv, Tables, Wire
<1>5. CASE Restart
  BY <1>5 DEF Restart, TypeInv, Tables, Wire, Workers, At, Idle
<1>6. CASE UNCHANGED vars
  BY <1>6 DEF vars, TypeInv, Tables, Wire, Workers, At
<1>7. QED
  BY <1>1, <1>2, <1>3, <1>4, <1>5, <1>6 DEF Next

LEMMA TypeInvariant == Spec => []TypeInv
  BY TypeInit, TypeStep, PTL DEF Spec

\* The tables, the wire and every request in flight keep their types: no
\* handler can bring a question that does not exist, an answer without a
\* session or a count below zero into the database.
THEOREM TypeCorrect == Spec => []TypeOK
  BY TypeInvariant, TypeInvImplies, PTL

-----------------------------------------------------------------------------
(* What the commit of an attempt does to the counted attempts               *)

LEMMA CountedFinite ==
  ASSUME TypeOK, NEW m
  PROVE  IsFiniteSet(CountedIn(m)) /\ Cardinality(CountedIn(m)) \in Nat
<1>1. Len(history) \in Nat /\ DOMAIN history = 1 .. Len(history)
  BY EntryType
<1>2. IsFiniteSet(1 .. Len(history))
  BY <1>1, FS_Interval
<1>3. CountedIn(m) \subseteq 1 .. Len(history)
  BY <1>1 DEF CountedIn
<1>4. IsFiniteSet(CountedIn(m))
  BY <1>2, <1>3, FS_Subset
<1>5. QED
  BY <1>4, FS_CardinalityType

LEMMA CountedGrows ==
  ASSUME TypeOK, NEW e \in Attempt, NEW m, history' = Append(history, e)
  PROVE  /\ Cardinality(CountedIn(m)) <= Cardinality(CountedIn(m)')
         /\ e.quiz \in Counting /\ m = ModuleOf[e.quiz] =>
              Cardinality(CountedIn(m)) + 1 <= Cardinality(CountedIn(m)')
<1> DEFINE n == Len(history)
<1>1. n \in Nat /\ DOMAIN history = 1 .. n /\ history \in Seq(Attempt)
  BY EntryType DEF TypeOK
<1>2. DOMAIN history' = 1 .. n + 1 /\ history'[n + 1] = e
        /\ \A i \in 1 .. n : history'[i] = history[i]
  BY <1>1
<1>3. CountedIn(m) \subseteq CountedIn(m)' /\ CountedIn(m)' \subseteq 1 .. n + 1
  BY <1>1, <1>2 DEF CountedIn
<1>4. IsFiniteSet(CountedIn(m)')
  <2>1. 1 \in Int /\ n + 1 \in Int
    BY <1>1
  <2>2. IsFiniteSet(1 .. n + 1)
    BY <2>1, FS_Interval
  <2>3. QED
    BY <1>3, <2>2, FS_Subset
<1>5. Cardinality(CountedIn(m)) <= Cardinality(CountedIn(m)')
  BY <1>3, <1>4, FS_Subset
<1>6. ASSUME e.quiz \in Counting, m = ModuleOf[e.quiz]
      PROVE  Cardinality(CountedIn(m)) + 1 <= Cardinality(CountedIn(m)')
  <2>1. n + 1 \in CountedIn(m)' /\ n + 1 \notin CountedIn(m)
    BY <1>1, <1>2, <1>6 DEF CountedIn
  <2>2. Cardinality(CountedIn(m) \cup {n + 1}) = Cardinality(CountedIn(m)) + 1
    BY <2>1, CountedFinite, FS_AddElement
  <2>3. CountedIn(m) \cup {n + 1} \subseteq CountedIn(m)'
    BY <1>3, <2>1
  <2>4. Cardinality(CountedIn(m) \cup {n + 1}) <= Cardinality(CountedIn(m)')
    BY <1>4, <2>3, FS_Subset
  <2>5. QED
    BY <2>2, <2>4
<1>7. QED
  BY <1>5, <1>6

-----------------------------------------------------------------------------
(* The two things the steps of LearningTurn do that matter here             *)

Waiting == {"record", "enter"}

LEMMA HandlerBecomes ==
  ASSUME TypeInv, NEW h \in Handlers, NEW w, Become(h, w)
  PROVE  handlers'[h] = w /\ \A k \in Handlers \ {h} : handlers'[k] = handlers[k]
  BY DEF TypeInv, Workers, Become

\* Two ability tables that count and rest on the same attempts.
SameTally(after, before) ==
    \A m \in Modules : /\ after[m].count = before[m].count
                       /\ after[m].basis = before[m].basis

\* The record of attempts and the counts change in the commit of an attempt only.
LEMMA HistoryStep ==
  ASSUME TypeInv, [Next]_vars
  PROVE  \/ UNCHANGED history /\ SameTally(ability', ability)
         \/ \E h \in Handlers :
              /\ handlers[h].step \in Waiting
              /\ handlers'[h].step \in {"finish", "check"}
              /\ \E next : RecordAttempt(h, next)
<1>1. ASSUME NEW h \in Handlers, Receive(h)
      PROVE  UNCHANGED <<history, ability>>
  BY <1>1 DEF Receive, ReceiveTurn, ReceiveSubmission, ReceiveClear
<1>2. ASSUME NEW h \in Handlers, RaiseError(h) \/ DropRequest(h)
      PROVE  UNCHANGED <<history, ability>>
  BY <1>2 DEF RaiseError, DropRequest, Abandon
<1>3. ASSUME NEW h \in Handlers, FinishTurn(h)
      PROVE  UNCHANGED history /\ SameTally(ability', ability)
  <2>1. ability \in [Modules -> AbilityRow]
    BY DEF TypeInv, Tables
  <2>2. \A m \in Modules : /\ [ability[m] EXCEPT !.known = TRUE].count = ability[m].count
                           /\ [ability[m] EXCEPT !.known = TRUE].basis = ability[m].basis
    BY <2>1 DEF AbilityRow
  <2>3. QED
    BY <1>3, <2>1, <2>2 DEF FinishTurn, SameTally
<1>4. ASSUME NEW h \in Handlers, Work(h)
      PROVE  \/ UNCHANGED <<history, ability>>
             \/ FinishTurn(h)
             \/ RecordGrade(h) \/ EnterSubmission(h)
  BY <1>4 DEF Work, InsertTurn, LoadSession, Respond, Converse, ChangeModule, GenerateQuiz,
     GradeAnswer, StoreFeedback, Fail, Abandon, GradeSubmission, CheckActive,
     ReleaseQuestion, RejectSubmission, ClearMessages
<1>5. ASSUME NEW h \in Handlers, RecordGrade(h) \/ EnterSubmission(h)
      PROVE  /\ handlers[h].step \in Waiting
             /\ handlers'[h].step \in {"finish", "check"}
             /\ \E next : RecordAttempt(h, next)
  <2>1. handlers[h] \in Busy /\ handlers[h].step \in Waiting
    BY <1>5, BusyHandler DEF RecordGrade, EnterSubmission, At, Waiting
  <2>2. PICK next \in {"finish", "check"} : RecordAttempt(h, next)
    BY <1>5 DEF RecordGrade, EnterSubmission
  <2> DEFINE w == [handlers[h] EXCEPT !.step = next, !.updated = TRUE, !.seen = NoAbility]
  <2>3. handlers'[h].step = next
    <3>1. w.step = next
      BY <2>1 DEF Busy
    <3>2. Become(h, w)
      BY <2>2 DEF RecordAttempt
    <3>3. handlers'[h] = w
      BY <3>2, HandlerBecomes
    <3>4. QED
      BY <3>1, <3>3
  <2>4. QED
    BY <2>1, <2>2, <2>3 DEF Waiting
<1>6. ASSUME Restart \/ UNCHANGED vars
      PROVE  UNCHANGED <<history, ability>>
  BY <1>6 DEF Restart, vars
<1>7. UNCHANGED ability => SameTally(ability', ability)
  BY DEF SameTally
<1>8. QED
  BY <1>1, <1>2, <1>3, <1>4, <1>5, <1>6, <1>7 DEF Next

\* Who waits to record an attempt has just read the count, or waited already.
LEMMA WaitingStep ==
  ASSUME TypeInv, [Next]_vars, NEW k \in Handlers, handlers'[k].step \in Waiting
  PROVE  \/ handlers'[k] = handlers[k]
         \/ /\ handlers[k].step \in {"ready", "submit"}
            /\ ~Recorded(handlers[k].req)
            /\ handlers'[k].quiz \in Quizzes
            /\ handlers'[k].quiz = IF At(k, "ready") THEN handlers[k].row.active
                                   ELSE handlers[k].quiz
            /\ handlers'[k].seen = Seen(ModuleOf[handlers'[k].quiz])
            /\ UNCHANGED <<history, ability>>
<1> DEFINE Goal == \/ handlers'[k] = handlers[k]
                   \/ /\ handlers[k].step \in {"ready", "submit"}
                      /\ ~Recorded(handlers[k].req)
                      /\ handlers'[k].quiz \in Quizzes
                      /\ handlers'[k].quiz = IF At(k, "ready") THEN handlers[k].row.active
                                             ELSE handlers[k].quiz
                      /\ handlers'[k].seen = Seen(ModuleOf[handlers'[k].quiz])
                      /\ UNCHANGED <<history, ability>>
<1>a. ASSUME NEW h \in Handlers, NEW w, Become(h, w), w.step \notin Waiting
      PROVE  Goal
  BY <1>a, HandlerBecomes
<1>b. ASSUME NEW h \in Handlers, ~At(h, "idle"), NEW step \in Steps \ Waiting, Goto(h, step)
      PROVE  Goal
  <2>1. Become(h, [handlers[h] EXCEPT !.step = step])
    BY <1>b DEF Goto, Become
  <2>2. [handlers[h] EXCEPT !.step = step].step = step
    BY <1>b, BusyHandler DEF Busy
  <2>3. QED
    BY <1>a, <1>b, <2>1, <2>2
<1>c. Idle.step \notin Waiting
  BY DEF Idle, Waiting
<1>1. ASSUME NEW h \in Handlers, Receive(h)
      PROVE  Goal
  <2> PICK r \in Requests, in \in Inputs :
        \/ \E s \in Sessions : ReceiveTurn(h, r, s, in)
        \/ \E s \in Sessions \cup {NoSession} : ReceiveSubmission(h, r, s, in)
        \/ \E s \in Sessions : ReceiveClear(h, r, s, in)
    BY <1>1 DEF Receive
  <2>1. ASSUME NEW s \in Sessions, ReceiveTurn(h, r, s, in)
        PROVE  Goal
    <3> DEFINE step == IF turns[r].status = "none" THEN "insert" ELSE "ready"
               w == Begin(r, step, Plan(in, sessions[s]), sessions[s])
    <3>1. w.step \notin Waiting
      BY DEF Begin, Waiting
    <3>2. UNCHANGED handlers \/ Become(h, w)
      BY <2>1 DEF ReceiveTurn
    <3> HIDE DEF w
    <3>3. QED
      BY <1>a, <3>1, <3>2
  <2>2. ASSUME NEW s \in Sessions \cup {NoSession}, ReceiveSubmission(h, r, s, in)
        PROVE  Goal
    <3> DEFINE row == IF s = NoSession THEN FreshSession ELSE sessions[s]
               w == [Begin(r, "submit", "grade", row) EXCEPT !.quiz = in.quiz]
    <3>1. w.step \notin Waiting
      BY DEF Begin, Waiting
    <3>2. UNCHANGED handlers \/ Become(h, w)
      BY <2>2 DEF ReceiveSubmission
    <3> HIDE DEF w
    <3>3. QED
      BY <1>a, <3>1, <3>2
  <2>3. ASSUME NEW s \in Sessions, ReceiveClear(h, r, s, in)
        PROVE  Goal
    <3> DEFINE w == [Begin(r, "wipe", "respond", sessions[s]) EXCEPT
                        !.new = [sessions[s] EXCEPT !.active = NoQuiz, !.echo = "E"]]
    <3>1. w.step \notin Waiting
      BY DEF Begin, Waiting
    <3>2. Become(h, w)
      BY <2>3 DEF ReceiveClear
    <3> HIDE DEF w
    <3>3. QED
      BY <1>a, <3>1, <3>2
  <2>4. QED
    BY <2>1, <2>2, <2>3
<1>2. ASSUME NEW h \in Handlers, Work(h)
      PROVE  Goal
  <2> USE <1>2
  <2>0. ASSUME ~At(h, "idle")
        PROVE  handlers[h] \in Busy /\ Coherent(handlers[h], sent[handlers[h].req])
    BY <2>0, BusyHandler
  <2>1. CASE InsertTurn(h) \/ Respond(h) \/ CheckActive(h)
    BY <2>1, <1>a, <1>b, <1>c DEF InsertTurn, Respond, CheckActive, At, Steps, Waiting
  <2>2. CASE LoadSession(h) \/ Converse(h) \/ ChangeModule(h)
    BY <2>2, <2>0, <1>a DEF LoadSession, Converse, ChangeModule, At, Busy, Waiting
  <2>3. CASE GenerateQuiz(h)
    <3>1. handlers[h] \in Busy
      BY <2>3, <2>0 DEF GenerateQuiz, At
    <3>2. CASE Goto(h, "finish")
      BY <2>3, <3>2, <1>b DEF GenerateQuiz, At, Steps, Waiting
    <3>3. CASE \E q : Become(h, [handlers[h] EXCEPT !.step = "finish", !.quiz = q,
                      !.new.active = q, !.seen = ability[handlers[h].row.module]])
      BY <3>1, <3>3, <1>a DEF Busy, Waiting
    <3>4. QED
      BY <2>3, <3>2, <3>3 DEF GenerateQuiz
  <2>4. CASE GradeAnswer(h)
    <3> DEFINE w == handlers[h]
               q == w.row.active
               step == IF Recorded(w.req) THEN "finish" ELSE "record"
               v(s) == [w EXCEPT !.step = step, !.quiz = q, !.score = s,
                                 !.new.active = NoQuiz, !.seen = Seen(ModuleOf[q])]
    <3>1. PICK s \in Scores : Become(h, v(s))
      BY <2>4 DEF GradeAnswer
    <3>2. w \in Busy /\ q \in Quizzes
      BY <2>4, <2>0 DEF GradeAnswer, At, Busy, SessionRow
    <3>3. v(s).step = step /\ v(s).quiz = q /\ v(s).seen = Seen(ModuleOf[q])
      BY <3>2 DEF Busy
    <3>4. CASE h = k
      <4>1. handlers'[k] = v(s)
        BY <3>1, <3>4, HandlerBecomes
      <4>2. ~Recorded(w.req)
        BY <3>3, <4>1 DEF Waiting
      <4>3. QED
        BY <2>4, <3>2, <3>3, <3>4, <4>1, <4>2 DEF GradeAnswer, At
    <3>5. QED
      BY <3>1, <3>4, HandlerBecomes
  <2>5. CASE RecordGrade(h) \/ EnterSubmission(h)
    <3>1. handlers[h] \in Busy
      BY <2>5, <2>0 DEF RecordGrade, EnterSubmission, At
    <3>2. PICK next \in {"finish", "check"} : Become(h, [handlers[h] EXCEPT !.step = next,
                                                 !.updated = TRUE, !.seen = NoAbility])
      BY <2>5 DEF RecordGrade, EnterSubmission, RecordAttempt
    <3>3. QED
      BY <3>1, <3>2, <1>a DEF Busy, Waiting
  <2>6. CASE FinishTurn(h)
    BY <2>6, <1>a, <1>b, <1>c DEF FinishTurn, At, Steps, Waiting
  <2>7. CASE GradeSubmission(h)
    <3> DEFINE w == handlers[h]
               step == IF Recorded(w.req) THEN "check" ELSE "enter"
               v(s) == [w EXCEPT !.step = step, !.score = s, !.seen = Seen(ModuleOf[w.quiz])]
    <3>1. PICK s \in Scores : Become(h, v(s))
      BY <2>7 DEF GradeSubmission
    <3>2. w \in Busy /\ w.quiz \in Quizzes
      BY <2>7, <2>0 DEF GradeSubmission, At, Coherent, SubmitSteps
    <3>3. v(s).step = step /\ v(s).quiz = w.quiz /\ v(s).seen = Seen(ModuleOf[w.quiz])
      BY <3>2 DEF Busy
    <3>4. CASE h = k
      <4>1. handlers'[k] = v(s)
        BY <3>1, <3>4, HandlerBecomes
      <4>2. ~Recorded(w.req)
        BY <3>3, <4>1 DEF Waiting
      <4>3. QED
        BY <2>7, <3>2, <3>3, <3>4, <4>1, <4>2 DEF GradeSubmission, At
    <3>5. QED
      BY <3>1, <3>4, HandlerBecomes
  <2>8. CASE \/ StoreFeedback(h) \/ Fail(h) \/ ReleaseQuestion(h) \/ RejectSubmission(h)
             \/ ClearMessages(h)
    <3>1. Become(h, Idle)
      BY <2>8 DEF StoreFeedback, Fail, Abandon, ReleaseQuestion, RejectSubmission,
                  ClearMessages
    <3>2. QED
      BY <3>1, <1>a, <1>c
  <2>9. QED
    BY <2>1, <2>2, <2>3, <2>4, <2>5, <2>6, <2>7, <2>8 DEF Work
<1>3. ASSUME NEW h \in Handlers, RaiseError(h) \/ DropRequest(h)
      PROVE  Goal
  BY <1>3, <1>a, <1>c DEF RaiseError, DropRequest, Abandon
<1>4. CASE Restart
  BY <1>4, <1>c DEF Restart
<1>5. CASE UNCHANGED vars
  BY <1>5 DEF vars
<1>6. QED
  BY <1>1, <1>2, <1>3, <1>4, <1>5 DEF Next

-----------------------------------------------------------------------------
(* attempt_count never runs ahead of the record                             *)

\* NoOvercount alone is not inductive: a commit writes the count its handler
\* read earlier, so the count read has to be covered by the record as well.
CountInv ==
    /\ NoOvercount
    /\ \A h \in Handlers, m \in Modules :
         handlers[h].step \in Waiting /\ m = ModuleOf[handlers[h].quiz] =>
             handlers[h].seen.count <= Cardinality(CountedIn(m))

LEMMA CountInit == Init => CountInv
<1> SUFFICES ASSUME Init
             PROVE  CountInv
  OBVIOUS
<1>1. \A m \in Modules : CountedIn(m) = {}
  BY DEF Init, CountedIn
<1>2. \A m \in Modules : ability[m].count = 0
  BY DEF Init, NoAbility
<1>3. \A h \in Handlers : handlers[h].step \notin Waiting
  BY DEF Init, Idle, Waiting
<1>4. \A m \in Modules : Cardinality(CountedIn(m)) = 0
  BY <1>1, FS_EmptySet
<1>5. QED
  BY <1>2, <1>3, <1>4 DEF CountInv, NoOvercount

LEMMA WaitingType ==
  ASSUME TypeInv, NEW h \in Handlers, handlers[h].step \in Waiting
  PROVE  /\ handlers[h].req \in Requests
         /\ handlers[h].quiz \in Quizzes
         /\ handlers[h].score \in Scores
         /\ handlers[h].seen \in AbilityRow
         /\ ModuleOf[handlers[h].quiz] \in Modules
         /\ [id |-> handlers[h].req, quiz |-> handlers[h].quiz,
             score |-> handlers[h].score] \in Attempt
<1>1. handlers[h] \in Busy /\ Coherent(handlers[h], sent[handlers[h].req])
  BY BusyHandler DEF At, Waiting
<1>2. handlers[h].quiz \in Quizzes
  BY <1>1 DEF Coherent, Waiting, SubmitSteps
<1>3. QED
  BY <1>1, <1>2, TurnAssumption DEF Busy, Attempt

LEMMA CountStep == TypeInv /\ CountInv /\ [Next]_vars => CountInv'
<1> SUFFICES ASSUME TypeInv, CountInv, [Next]_vars
             PROVE  CountInv'
  OBVIOUS
<1>t. TypeOK
  BY TypeInvImplies
\* The record only grows.
<1>1. \A m \in Modules : Cardinality(CountedIn(m)) <= Cardinality(CountedIn(m)')
  <2>1. CASE UNCHANGED history
    <3>1. \A m \in Modules : CountedIn(m)' = CountedIn(m)
      BY <2>1 DEF CountedIn
    <3>2. QED
      BY <1>t, <3>1, CountedFinite
  <2>2. CASE \E h \in Handlers : /\ handlers[h].step \in Waiting
                                 /\ \E next : RecordAttempt(h, next)
    BY <1>t, <2>2, CountedGrows, WaitingType DEF RecordAttempt
  <2>3. QED
    BY <2>1, <2>2, HistoryStep
<1>2. \A m \in Modules : /\ Cardinality(CountedIn(m)) \in Nat
                         /\ Cardinality(CountedIn(m)') \in Nat
                         /\ ability[m].count \in Nat
  <2>1. TypeOK'
    <3>1. TypeInv'
      BY TypeStep
    <3>2. QED
      BY <3>1 DEF TypeInv, TypeOK, Tables, Wire, Workers
  <2>2. \A m \in Modules : Cardinality(CountedIn(m)') \in Nat
    <3>1. \A m \in Modules : IsFiniteSet(CountedIn(m)')
      <4>1. history' \in Seq(Attempt)
        BY <2>1 DEF TypeOK
      <4>2. Len(history') \in Nat /\ DOMAIN history' = 1 .. Len(history')
        BY <4>1
      <4>3. IsFiniteSet(1 .. Len(history'))
        BY <4>2, FS_Interval
      <4>4. \A m \in Modules : CountedIn(m)' \subseteq 1 .. Len(history')
        BY <4>2 DEF CountedIn
      <4>5. QED
        BY <4>3, <4>4, FS_Subset
    <3>2. QED
      BY <3>1, FS_CardinalityType
  <2>3. \A m \in Modules : ability[m] \in AbilityRow
    BY DEF TypeInv, Tables
  <2>4. QED
    BY <1>t, <2>2, <2>3, CountedFinite DEF AbilityRow
<1>3. NoOvercount'
  <2>1. CASE UNCHANGED history /\ SameTally(ability', ability)
    BY <1>1, <1>2, <2>1 DEF CountInv, NoOvercount, SameTally
  <2>2. CASE \E h \in Handlers : /\ handlers[h].step \in Waiting
                                 /\ \E next : RecordAttempt(h, next)
    <3> PICK h \in Handlers : /\ handlers[h].step \in Waiting
                              /\ \E next : RecordAttempt(h, next)
      BY <2>2
    <3> DEFINE w == handlers[h]
               e == [id |-> w.req, quiz |-> w.quiz, score |-> w.score]
    <3>1. /\ w.req \in Requests /\ w.quiz \in Quizzes /\ w.seen \in AbilityRow
          /\ e \in Attempt /\ e.quiz = w.quiz
      BY WaitingType
    <3>2. history' = Append(history, e) /\ ability' = AbilityAfter(w.req, w.quiz, w.seen)
      BY DEF RecordAttempt
    <3>3. w.seen.count <= Cardinality(CountedIn(ModuleOf[w.quiz])) /\ w.seen.count \in Nat
      BY WaitingType DEF CountInv, AbilityRow
    <3> HIDE DEF w, e
    <3>4. ASSUME NEW m \in Modules
          PROVE  ability'[m].count <= Cardinality(CountedIn(m)')
      <4>1. ability'[m].count = IF w.quiz \in Counting /\ m = ModuleOf[w.quiz]
                                THEN w.seen.count + 1 ELSE ability[m].count
        BY <3>1, <3>2, AbilityAfterType
      <4>2. CASE w.quiz \in Counting /\ m = ModuleOf[w.quiz]
        <5>1. Cardinality(CountedIn(m)) + 1 <= Cardinality(CountedIn(m)')
          BY <1>t, <3>1, <3>2, <4>2, CountedGrows
        <5>2. QED
          BY <1>2, <3>3, <4>1, <4>2, <5>1
      <4>3. CASE ~(w.quiz \in Counting /\ m = ModuleOf[w.quiz])
        BY <1>1, <1>2, <4>1, <4>3 DEF CountInv, NoOvercount
      <4>4. QED
        BY <4>2, <4>3
    <3>5. QED
      BY <3>4 DEF NoOvercount
  <2>3. QED
    BY <2>1, <2>2, HistoryStep
<1>4. ASSUME NEW k \in Handlers, NEW m \in Modules, handlers'[k].step \in Waiting,
             m = ModuleOf[handlers'[k].quiz]
      PROVE  handlers'[k].seen.count <= Cardinality(CountedIn(m)')
  <2>1. CASE handlers'[k] = handlers[k]
    <3>1. handlers[k].seen.count \in Nat
      BY <1>4, <2>1, WaitingType DEF AbilityRow
    <3>2. handlers[k].seen.count <= Cardinality(CountedIn(m))
      BY <1>4, <2>1 DEF CountInv
    <3>3. QED
      BY <1>1, <1>2, <2>1, <3>1, <3>2
  <2>2. CASE handlers'[k] # handlers[k]
    <3>1. handlers'[k].seen = Seen(m)
      BY <1>4, <2>2, WaitingStep
    <3>2. handlers'[k].seen.count = ability[m].count
      BY <1>t, <3>1, SeenType
    <3>3. QED
      BY <1>1, <1>2, <3>2 DEF CountInv, NoOvercount
  <2>3. QED
    BY <2>1, <2>2
<1>5. QED
  BY <1>3, <1>4 DEF CountInv

\* For any number of learners' requests, handlers, retries, errors and crashes:
\* attempt_count of a module never exceeds the counted attempts on record
\* (update_student_state).
THEOREM NeverOvercounts == Spec => []NoOvercount
<1>1. CountInv => NoOvercount
  BY DEF CountInv
<1>2. QED
  BY <1>1, CountInit, CountStep, TypeInvariant, PTL DEF Spec

-----------------------------------------------------------------------------
(* The estimate rests on the record                                         *)

\* Attempt r answered a question of module m.
Stands(hist, r, m) ==
    \E i \in DOMAIN hist : hist[i].id = r /\ ModuleOf[hist[i].quiz] = m

\* A commit writes the estimate computed from the attempts its handler saw: they
\* have to be on record as well.
GroundInv ==
    /\ EstimateGrounded
    /\ \A h \in Handlers :
         handlers[h].step \in Waiting =>
             \A r \in handlers[h].seen.basis : Stands(history, r, ModuleOf[handlers[h].quiz])

LEMMA GroundInit == Init => GroundInv
<1> SUFFICES ASSUME Init
             PROVE  GroundInv
  OBVIOUS
<1>1. \A m \in Modules : ability[m].basis = {}
  BY DEF Init, NoAbility
<1>2. \A h \in Handlers : handlers[h].step \notin Waiting
  BY DEF Init, Idle, Waiting
<1>3. QED
  BY <1>1, <1>2 DEF GroundInv, EstimateGrounded

LEMMA StandsForGood ==
  ASSUME TypeInv, [Next]_vars, NEW r, NEW m, Stands(history, r, m)
  PROVE  Stands(history', r, m)
<1>1. history \in Seq(Attempt)
  BY DEF TypeInv, Tables
<1>2. CASE UNCHANGED history
  BY <1>2 DEF Stands
<1>3. ASSUME NEW e \in Attempt, history' = Append(history, e)
      PROVE  Stands(history', r, m)
  <2>1. PICK i \in DOMAIN history : history[i].id = r /\ ModuleOf[history[i].quiz] = m
    BY DEF Stands
  <2>2. i \in DOMAIN history' /\ history'[i] = history[i]
    BY <1>1, <1>3
  <2>3. QED
    BY <2>1, <2>2 DEF Stands
<1>4. QED
  BY <1>2, <1>3, HistoryStep, WaitingType DEF RecordAttempt

LEMMA GroundStep == TypeInv /\ GroundInv /\ [Next]_vars => GroundInv'
<1> SUFFICES ASSUME TypeInv, GroundInv, [Next]_vars
             PROVE  GroundInv'
  OBVIOUS
<1>t. TypeOK
  BY TypeInvImplies
<1>1. ASSUME NEW m \in Modules, NEW r \in ability'[m].basis
      PROVE  Stands(history', r, m)
  <2>1. CASE SameTally(ability', ability)
    <3>1. r \in ability[m].basis
      BY <1>1, <2>1 DEF SameTally
    <3>2. Stands(history, r, m)
      BY <3>1 DEF GroundInv, EstimateGrounded, Stands
    <3>3. QED
      BY <3>2, StandsForGood
  <2>2. ASSUME NEW h \in Handlers, handlers[h].step \in Waiting,
               \E next : RecordAttempt(h, next)
        PROVE  Stands(history', r, m)
    <3> DEFINE w == handlers[h]
               e == [id |-> w.req, quiz |-> w.quiz, score |-> w.score]
    <3>1. /\ w.req \in Requests /\ w.quiz \in Quizzes /\ w.seen \in AbilityRow
          /\ e \in Attempt
      BY <2>2, WaitingType
    <3>2. history' = Append(history, e) /\ ability' = AbilityAfter(w.req, w.quiz, w.seen)
      BY <2>2 DEF RecordAttempt
    <3>3. Stands(history', w.req, ModuleOf[w.quiz])
      <4>1. history \in Seq(Attempt)
        BY DEF TypeInv, Tables
      <4> DEFINE n == Len(history) + 1
      <4>2. n \in DOMAIN history' /\ history'[n] = e
        BY <3>1, <3>2, <4>1
      <4>3. history'[n].id = w.req /\ history'[n].quiz = w.quiz
        BY <4>2
      <4>4. QED
        BY <4>2, <4>3 DEF Stands
    <3>4. ability'[m].basis = IF w.quiz \in Counting /\ m = ModuleOf[w.quiz]
                              THEN w.seen.basis \cup {w.req} ELSE ability[m].basis
      BY <3>1, <3>2, AbilityAfterBasis
    <3>5. CASE r = w.req /\ m = ModuleOf[w.quiz]
      BY <3>3, <3>5
    <3>6. CASE r \in w.seen.basis /\ m = ModuleOf[w.quiz]
      BY <2>2, <3>6, StandsForGood DEF GroundInv
    <3>7. CASE r \in ability[m].basis
      <4>1. Stands(history, r, m)
        BY <3>7 DEF GroundInv, EstimateGrounded, Stands
      <4>2. QED
        BY <4>1, StandsForGood
    <3>8. QED
      BY <1>1, <3>4, <3>5, <3>6, <3>7
  <2>3. QED
    BY <2>1, <2>2, HistoryStep
<1>2. ASSUME NEW k \in Handlers, handlers'[k].step \in Waiting,
             NEW r \in handlers'[k].seen.basis
      PROVE  Stands(history', r, ModuleOf[handlers'[k].quiz])
  <2>1. CASE handlers'[k] = handlers[k]
    BY <1>2, <2>1, StandsForGood DEF GroundInv
  <2>2. CASE handlers'[k] # handlers[k]
    <3> DEFINE m == ModuleOf[handlers'[k].quiz]
    <3>1. handlers'[k].seen = Seen(m) /\ m \in Modules /\ UNCHANGED history
      BY <1>2, <2>2, WaitingStep, TurnAssumption
    <3>2. Stands(history, r, m)
      BY <1>t, <1>2, <3>1, SeenType DEF Stands
    <3>3. QED
      BY <3>2, StandsForGood
  <2>3. QED
    BY <2>1, <2>2
<1>3. EstimateGrounded'
  BY <1>1 DEF EstimateGrounded, Stands
<1>4. QED
  BY <1>2, <1>3 DEF GroundInv

\* The estimate of a module rests on attempts of that module that are on record,
\* however many requests, retries, errors and crashes overlap: never on one that
\* was rolled back or refused (update_student_state).
THEOREM EstimateIsGrounded == Spec => []EstimateGrounded
<1>1. GroundInv => EstimateGrounded
  BY DEF GroundInv
<1>2. QED
  BY <1>1, GroundInit, GroundStep, TypeInvariant, PTL DEF Spec

-----------------------------------------------------------------------------
(* Growing histories                                                        *)

LEMMA PrefixKept ==
  ASSUME NEW S, NEW hist \in Seq(S), NEW e \in S, NEW j \in 0 .. Len(hist)
  PROVE  SubSeq(Append(hist, e), 1, j) = SubSeq(hist, 1, j)
  OBVIOUS

LEMMA WholePrefix ==
  ASSUME NEW S, NEW hist \in Seq(S)
  PROVE  SubSeq(hist, 1, Len(hist)) = hist
  OBVIOUS

LEMMA OnceOfferedGrows ==
  ASSUME NEW S, NEW hist \in Seq(S), NEW e \in S, NEW q, Ledger!OnceOffered(q, hist)
  PROVE  Ledger!OnceOffered(q, Append(hist, e))
<1>1. PICK j \in 0 .. Len(hist) : Offered(q, SubSeq(hist, 1, j))
  BY DEF Ledger!OnceOffered, Ledger!Prefix
<1>2. j \in 0 .. Len(Append(hist, e))
  OBVIOUS
<1>3. Offered(q, SubSeq(Append(hist, e), 1, j))
  BY <1>1, PrefixKept
<1>4. QED
  BY <1>2, <1>3 DEF Ledger!OnceOffered, Ledger!Prefix

LEMMA OfferedNow ==
  ASSUME NEW S, NEW hist \in Seq(S), NEW q, Offered(q, hist)
  PROVE  Ledger!OnceOffered(q, hist)
<1>1. Len(hist) \in 0 .. Len(hist)
  OBVIOUS
<1>2. SubSeq(hist, 1, Len(hist)) = hist
  BY WholePrefix
<1>3. QED
  BY <1>1, <1>2 DEF Ledger!OnceOffered, Ledger!Prefix

-----------------------------------------------------------------------------
(* Where the question of a session comes from                               *)

\* A question some row already names.
Known(q) ==
    \/ q = NoQuiz
    \/ \E s \in Sessions : q = sessions[s].active
    \/ \E h \in Handlers : ~At(h, "idle") /\ q \in {handlers[h].row.active,
                                                   handlers[h].new.active}

LEMMA MergeActive ==
  ASSUME NEW a, NEW b, NEW c
  PROVE  Merge(a, b, c).active \in {a.active, c.active}
  BY DEF Merge

LEMMA SessionStep ==
  ASSUME TypeInv, [Next]_vars, NEW s \in Sessions
  PROVE  Known(sessions'[s].active)
<1>1. sessions \in [Sessions -> SessionRow] /\ Known(sessions[s].active) /\ Known(NoQuiz)
  BY DEF TypeInv, Tables, Known
<1>2. ASSUME NEW h \in Handlers, FinishTurn(h)
      PROVE  Known(sessions'[s].active)
  <2> DEFINE w == handlers[h]
  <2>1. sessions'[s] \in {sessions[s], SessionAfter(w, sessions[s])} /\ ~At(h, "idle")
    BY <1>1, <1>2 DEF FinishTurn, At
  <2>2. SessionAfter(w, sessions[s]).active \in {NoQuiz, sessions[s].active, w.new.active}
    BY <1>1, MergeActive DEF SessionAfter, SessionRow
  <2>3. QED
    BY <1>1, <2>1, <2>2 DEF Known
<1>3. ASSUME NEW h \in Handlers, ReleaseQuestion(h)
      PROVE  Known(sessions'[s].active)
  <2>1. sessions'[s] \in {sessions[s], [sessions[s] EXCEPT !.active = NoQuiz]}
    BY <1>1, <1>3 DEF ReleaseQuestion
  <2>2. [sessions[s] EXCEPT !.active = NoQuiz].active = NoQuiz
    BY <1>1 DEF SessionRow
  <2>3. QED
    BY <1>1, <2>1, <2>2
<1>4. ASSUME NEW h \in Handlers, ClearMessages(h)
      PROVE  Known(sessions'[s].active)
  <2> DEFINE w == handlers[h]
  <2>1. sessions'[s] \in {sessions[s], Merge(sessions[s], w.row, w.new)} /\ ~At(h, "idle")
    BY <1>1, <1>4 DEF ClearMessages, At
  <2>2. Merge(sessions[s], w.row, w.new).active \in {sessions[s].active, w.new.active}
    BY MergeActive
  <2>3. QED
    BY <1>1, <2>1, <2>2 DEF Known
<1>5. ASSUME NEW h \in Handlers, Work(h), ~FinishTurn(h), ~ReleaseQuestion(h),
             ~ClearMessages(h)
      PROVE  UNCHANGED sessions
  BY <1>5 DEF Work, InsertTurn, LoadSession, Respond, Converse, ChangeModule, GenerateQuiz,
     GradeAnswer, RecordGrade, EnterSubmission, RecordAttempt, StoreFeedback, Fail, Abandon,
     GradeSubmission, CheckActive, RejectSubmission
<1>6. ASSUME NEW h \in Handlers, Receive(h)
      PROVE  UNCHANGED sessions
  BY <1>6 DEF Receive, ReceiveTurn, ReceiveSubmission, ReceiveClear
<1>7. ASSUME NEW h \in Handlers, RaiseError(h) \/ DropRequest(h)
      PROVE  UNCHANGED sessions
  BY <1>7 DEF RaiseError, DropRequest, Abandon
<1>8. CASE Restart \/ UNCHANGED vars
  BY <1>1, <1>8 DEF Restart, vars
<1>9. QED
  BY <1>1, <1>2, <1>3, <1>4, <1>5, <1>6, <1>7, <1>8 DEF Next

\* What a request in flight may put into its rows, and what it may submit.
RowsFine(v) ==
    /\ Known(v.row.active)
    /\ Known(v.new.active) \/ Offered(v.new.active, history)
    /\ v.step = "submit" =>
         \/ Known(v.quiz) /\ v.quiz # NoQuiz
         \/ Recorded(v.req)
         \/ Offered(v.quiz, history)

LEMMA RowStep ==
  ASSUME TypeInv, [Next]_vars, NEW k \in Handlers, handlers'[k].step # "idle",
         handlers'[k] # handlers[k]
  PROVE  RowsFine(handlers'[k])
<1> DEFINE Goal == RowsFine(handlers'[k])
<1>a. ASSUME NEW h \in Handlers, NEW w, Become(h, w), w = Idle \/ RowsFine(w)
      PROVE  Goal
  BY <1>a, HandlerBecomes, IdleStep
\* A step that keeps row and new.
<1>b. ASSUME NEW h \in Handlers, ~At(h, "idle"), NEW w, Become(h, w),
             w.step # "submit", w.row = handlers[h].row,
             w.new.active \in {handlers[h].row.active, handlers[h].new.active, NoQuiz}
      PROVE  Goal
  <2>1. Known(w.row.active) /\ Known(w.new.active)
    BY <1>b DEF Known
  <2>2. QED
    BY <1>a, <1>b, <2>1 DEF RowsFine
<1>c. ASSUME NEW h \in Handlers, ~At(h, "idle"), NEW step \in Steps \ {"submit"}, Goto(h, step)
      PROVE  Goal
  <2>1. Become(h, [handlers[h] EXCEPT !.step = step])
    BY <1>c DEF Goto, Become
  <2>2. /\ [handlers[h] EXCEPT !.step = step].step = step
        /\ [handlers[h] EXCEPT !.step = step].row = handlers[h].row
        /\ [handlers[h] EXCEPT !.step = step].new = handlers[h].new
    BY <1>c, BusyHandler DEF Busy
  <2>3. QED
    BY <1>b, <1>c, <2>1, <2>2
<1>d. ASSUME NEW s \in Sessions
      PROVE  Known(sessions[s].active) /\ sessions[s] \in SessionRow
  BY <1>d DEF Known, TypeInv, Tables
<1>n. Known(NoQuiz)
  BY DEF Known
<1>1. ASSUME NEW h \in Handlers, Receive(h)
      PROVE  Goal
  <2> PICK r \in Requests, in \in Inputs :
        \/ \E s \in Sessions : ReceiveTurn(h, r, s, in)
        \/ \E s \in Sessions \cup {NoSession} : ReceiveSubmission(h, r, s, in)
        \/ \E s \in Sessions : ReceiveClear(h, r, s, in)
    BY <1>1 DEF Receive
  <2>1. ASSUME NEW s \in Sessions, ReceiveTurn(h, r, s, in)
        PROVE  Goal
    <3> DEFINE step == IF turns[r].status = "none" THEN "insert" ELSE "ready"
               w == Begin(r, step, Plan(in, sessions[s]), sessions[s])
    <3>1. RowsFine(w)
      BY <1>d DEF Begin, RowsFine
    <3>2. Become(h, w)
      BY <2>1 DEF ReceiveTurn
    <3> HIDE DEF w
    <3>3. QED
      BY <1>a, <3>1, <3>2
  <2>2. ASSUME NEW s \in Sessions \cup {NoSession}, ReceiveSubmission(h, r, s, in)
        PROVE  Goal
    <3> DEFINE row == IF s = NoSession THEN FreshSession ELSE sessions[s]
               w == [Begin(r, "submit", "grade", row) EXCEPT !.quiz = in.quiz]
    <3>1. Become(h, w) /\ MaySubmit(r, in.quiz, row)
      BY <2>2 DEF ReceiveSubmission
    <3>2. Known(row.active)
      BY <1>d, <1>n DEF FreshSession
    <3>3. in.quiz # NoQuiz
      BY <2>2, SubmitInput, BankAssumption DEF ReceiveSubmission
    <3>4. w.row = row /\ w.new = row /\ w.quiz = in.quiz /\ w.req = r
      BY DEF Begin
    <3> HIDE DEF w, row
    <3>5. RowsFine(w)
      BY <3>1, <3>2, <3>3, <3>4 DEF RowsFine, MaySubmit
    <3>6. QED
      BY <1>a, <3>1, <3>5
  <2>3. ASSUME NEW s \in Sessions, ReceiveClear(h, r, s, in)
        PROVE  Goal
    <3> DEFINE w == [Begin(r, "wipe", "respond", sessions[s]) EXCEPT
                        !.new = [sessions[s] EXCEPT !.active = NoQuiz, !.echo = "E"]]
    <3>1. w.row = sessions[s] /\ w.new.active = NoQuiz /\ w.step = "wipe"
      BY <1>d DEF Begin, SessionRow
    <3>2. Become(h, w)
      BY <2>3 DEF ReceiveClear
    <3> HIDE DEF w
    <3>3. RowsFine(w)
      BY <1>d, <1>n, <3>1 DEF RowsFine
    <3>4. QED
      BY <1>a, <3>2, <3>3
  <2>4. QED
    BY <2>1, <2>2, <2>3
<1>2. ASSUME NEW h \in Handlers, Work(h)
      PROVE  Goal
  <2> USE <1>2
  <2>0. ASSUME ~At(h, "idle")
        PROVE  /\ handlers[h] \in Busy
               /\ handlers[h].row \in SessionRow /\ handlers[h].new \in SessionRow
               /\ Coherent(handlers[h], sent[handlers[h].req])
               /\ At(h, "load") => SessionOf(h) \in Sessions
    BY <2>0, BusyHandler DEF Busy, Coherent, ChatSteps, At, SessionOf
  <2>1. CASE InsertTurn(h) \/ Respond(h) \/ CheckActive(h) \/ FinishTurn(h)
    BY <2>1, <1>a, <1>c DEF InsertTurn, Respond, CheckActive, FinishTurn, At, Steps
  <2>2. CASE LoadSession(h)
    <3> DEFINE row == sessions[SessionOf(h)]
               w == [handlers[h] EXCEPT !.step = "ready", !.row = row, !.new = row]
    <3>1. SessionOf(h) \in Sessions /\ handlers[h] \in Busy /\ Become(h, w)
      BY <2>2, <2>0 DEF LoadSession, At
    <3>2. w.row = row /\ w.new = row /\ w.step = "ready"
      BY <3>1 DEF Busy
    <3> HIDE DEF w
    <3>3. RowsFine(w)
      BY <3>1, <3>2, <1>d DEF RowsFine
    <3>4. QED
      BY <3>1, <3>3, <1>a
  <2>3. CASE Converse(h)
    <3> DEFINE row == [handlers[h].row EXCEPT !.echo = NextEcho(Cue(InputOf(h)), @)]
               w == [handlers[h] EXCEPT !.step = "finish", !.new = row]
    <3>1. ~At(h, "idle") /\ Become(h, w)
      BY <2>3 DEF Converse, At
    <3>2. row.active = handlers[h].row.active
      BY <2>0, <3>1 DEF SessionRow
    <3>3. w.step = "finish" /\ w.row = handlers[h].row /\ w.new = row
      BY <2>0, <3>1 DEF Busy
    <3> HIDE DEF w, row
    <3>4. QED
      BY <1>b, <3>1, <3>2, <3>3
  <2>4. CASE ChangeModule(h)
    <3> DEFINE row == [module |-> InputOf(h).module, active |-> NoQuiz, echo |-> "E"]
               w == [handlers[h] EXCEPT !.step = "finish", !.new = row]
    <3>1. ~At(h, "idle") /\ Become(h, w)
      BY <2>4 DEF ChangeModule, At
    <3>2. w.step = "finish" /\ w.row = handlers[h].row /\ w.new = row /\ row.active = NoQuiz
      BY <2>0, <3>1 DEF Busy
    <3> HIDE DEF w, row
    <3>3. QED
      BY <1>b, <3>1, <3>2
  <2>5. CASE GenerateQuiz(h)
    <3> DEFINE w == handlers[h]
               p == AskedPurpose(InputOf(h), w.row.module, w.row.active)
               v(q) == [w EXCEPT !.step = "finish", !.quiz = q, !.new.active = q,
                                 !.seen = ability[w.row.module]]
    <3>1. ~At(h, "idle")
      BY <2>5 DEF GenerateQuiz, At
    <3>2. CASE Goto(h, "finish")
      BY <3>1, <3>2, <1>c DEF Steps
    <3>3. ASSUME NEW q \in Candidates(Bank(w.row.module), history, p),
                 Permitted(p, w.row), Become(h, v(q))
          PROVE  Goal
      <4>1. q \in Quizzes /\ ModuleOf[q] = w.row.module /\ Purpose[q] = p
        BY CandidatesInBank DEF Bank
      <4>2. Offered(q, history)
        BY <3>3, <4>1, BankAssumption DEF Permitted, Offered, CanRequest, Bank
      <4>3. v(q).row = w.row /\ v(q).new.active = q /\ v(q).step = "finish"
        BY <2>0, <3>1 DEF Busy, SessionRow
      <4>4. Known(w.row.active)
        BY <3>1 DEF Known
      <4> HIDE DEF v
      <4>5. RowsFine(v(q))
        BY <4>2, <4>3, <4>4 DEF RowsFine
      <4>6. QED
        BY <3>3, <4>5, <1>a
    <3>4. QED
      BY <2>5, <3>2, <3>3 DEF GenerateQuiz
  <2>6. CASE GradeAnswer(h)
    <3> DEFINE w == handlers[h]
               q == w.row.active
               step == IF Recorded(w.req) THEN "finish" ELSE "record"
               v(s) == [w EXCEPT !.step = step, !.quiz = q, !.score = s,
                                 !.new.active = NoQuiz, !.seen = Seen(ModuleOf[q])]
    <3>1. ~At(h, "idle") /\ \E s \in Scores : Become(h, v(s))
      BY <2>6 DEF GradeAnswer, At
    <3>2. PICK s \in Scores : Become(h, v(s))
      BY <3>1
    <3>3. v(s).step = step /\ v(s).row = w.row /\ v(s).new.active = NoQuiz
      BY <2>0, <3>1 DEF Busy, SessionRow
    <3> HIDE DEF v
    <3>4. QED
      BY <1>b, <3>1, <3>2, <3>3
  <2>7. CASE RecordGrade(h) \/ EnterSubmission(h)
    <3> DEFINE v(next) == [handlers[h] EXCEPT !.step = next, !.updated = TRUE,
                                              !.seen = NoAbility]
    <3>1. ~At(h, "idle") /\ \E next \in {"finish", "check"} : Become(h, v(next))
      BY <2>7 DEF RecordGrade, EnterSubmission, RecordAttempt, At
    <3>2. PICK next \in {"finish", "check"} : Become(h, v(next))
      BY <3>1
    <3>3. v(next).step = next /\ v(next).row = handlers[h].row
            /\ v(next).new = handlers[h].new
      BY <2>0, <3>1 DEF Busy
    <3> HIDE DEF v
    <3>4. QED
      BY <1>b, <3>1, <3>2, <3>3
  <2>8. CASE GradeSubmission(h)
    <3> DEFINE w == handlers[h]
               step == IF Recorded(w.req) THEN "check" ELSE "enter"
               v(s) == [w EXCEPT !.step = step, !.score = s, !.seen = Seen(ModuleOf[w.quiz])]
    <3>1. ~At(h, "idle") /\ \E s \in Scores : Become(h, v(s))
      BY <2>8 DEF GradeSubmission, At
    <3>2. PICK s \in Scores : Become(h, v(s))
      BY <3>1
    <3>3. v(s).step = step /\ v(s).row = w.row /\ v(s).new = w.new
      BY <2>0, <3>1 DEF Busy
    <3> HIDE DEF v
    <3>4. QED
      BY <1>b, <3>1, <3>2, <3>3
  <2>9. CASE \/ StoreFeedback(h) \/ Fail(h) \/ ReleaseQuestion(h) \/ RejectSubmission(h)
             \/ ClearMessages(h)
    <3>1. Become(h, Idle)
      BY <2>9 DEF StoreFeedback, Fail, Abandon, ReleaseQuestion, RejectSubmission,
                  ClearMessages
    <3>2. QED
      BY <3>1, <1>a
  <2>10. QED
    BY <2>1, <2>2, <2>3, <2>4, <2>5, <2>6, <2>7, <2>8, <2>9 DEF Work
<1>3. ASSUME NEW h \in Handlers, RaiseError(h) \/ DropRequest(h)
      PROVE  Goal
  BY <1>3, <1>a DEF RaiseError, DropRequest, Abandon
<1>4. CASE Restart
  BY <1>4 DEF Restart, Idle
<1>5. CASE UNCHANGED vars
  BY <1>5 DEF vars
<1>6. QED
  BY <1>1, <1>2, <1>3, <1>4, <1>5 DEF Next

-----------------------------------------------------------------------------
(* The inductive invariant                                                  *)

\* The ladder offered q at some moment up to now.
Once(q) == Ledger!OnceOffered(q, history)

OnceOrNone(q) == q = NoQuiz \/ Once(q)

\* What a request in flight stands on.
Grounded(v) ==
    /\ OnceOrNone(v.row.active)
    /\ OnceOrNone(v.new.active)
    /\ v.step = "submit" => Recorded(v.req) \/ Once(v.quiz)
    /\ v.step \in Waiting => Once(v.quiz)

\* Entry i of the record was offered before it was made.
EntryOffered(i) ==
    \E j \in 0 .. i - 1 : Offered(history[i].quiz, SubSeq(history, 1, j))

\* Whatever a session waits for, and whatever a request in flight has read or
\* is about to store, was offered once: a stale row may name a question that is
\* no longer open, never one that was not open at all.
LadderInv ==
    /\ \A s \in Sessions : OnceOrNone(sessions[s].active)
    /\ \A h \in Handlers : ~At(h, "idle") => Grounded(handlers[h])
    /\ \A i \in DOMAIN history : EntryOffered(i)

LEMMA LadderInit == Init => LadderInv
  BY DEF Init, LadderInv, OnceOrNone, FreshSession, At, Idle

LEMMA HistoryGrows ==
  ASSUME TypeInv, [Next]_vars
  PROVE  \/ UNCHANGED history
         \/ \E h \in Handlers :
              /\ handlers[h].step \in Waiting
              /\ ~Recorded(handlers[h].req)
              /\ history' = Append(history, [id |-> handlers[h].req,
                                             quiz |-> handlers[h].quiz,
                                             score |-> handlers[h].score])
              /\ [id |-> handlers[h].req, quiz |-> handlers[h].quiz,
                  score |-> handlers[h].score] \in Attempt
  BY HistoryStep, WaitingType DEF RecordAttempt, AttemptConflict

LEMMA OnceGrows ==
  ASSUME TypeInv, [Next]_vars, NEW q, Once(q)
  PROVE  Ledger!OnceOffered(q, history')
<1>1. history \in Seq(Attempt)
  BY DEF TypeInv, Tables
<1>2. QED
  BY <1>1, HistoryGrows, OnceOfferedGrows DEF Once

LEMMA RecordedGrows ==
  ASSUME TypeInv, [Next]_vars, NEW r, Recorded(r)
  PROVE  \E i \in DOMAIN history' : history'[i].id = r
<1>1. history \in Seq(Attempt)
  BY DEF TypeInv, Tables
<1>2. CASE UNCHANGED history
  BY <1>2 DEF Recorded
<1>3. ASSUME NEW e \in Attempt, history' = Append(history, e)
      PROVE  \E i \in DOMAIN history' : history'[i].id = r
  <2>1. PICK i \in DOMAIN history : history[i].id = r
    BY DEF Recorded
  <2>2. i \in DOMAIN history' /\ history'[i] = history[i]
    BY <1>1, <1>3
  <2>3. QED
    BY <2>1, <2>2
<1>4. QED
  BY <1>2, <1>3, HistoryGrows

LEMMA KnownIsOnce ==
  ASSUME LadderInv, NEW q, Known(q)
  PROVE  OnceOrNone(q)
  BY DEF LadderInv, Known, OnceOrNone, Grounded

LEMMA LadderStep == TypeInv /\ LadderInv /\ [Next]_vars => LadderInv'
<1> SUFFICES ASSUME TypeInv, LadderInv, [Next]_vars
             PROVE  LadderInv'
  OBVIOUS
<1>h. history \in Seq(Attempt)
  BY DEF TypeInv, Tables
<1> DEFINE Later(q) == q = NoQuiz \/ Ledger!OnceOffered(q, history')
<1>a. ASSUME NEW q, OnceOrNone(q)
      PROVE  Later(q)
  BY <1>a, OnceGrows DEF OnceOrNone
<1>b. ASSUME NEW q, Offered(q, history)
      PROVE  Once(q)
  BY <1>b, <1>h, OfferedNow DEF Once
<1>1. ASSUME NEW s \in Sessions
      PROVE  Later(sessions'[s].active)
  BY <1>a, SessionStep, KnownIsOnce
\* The rows and the question of a handler, before the history moves on.
<1>2. ASSUME NEW k \in Handlers, handlers'[k].step # "idle"
      PROVE  /\ OnceOrNone(handlers'[k].row.active)
             /\ OnceOrNone(handlers'[k].new.active)
             /\ handlers'[k].step = "submit" =>
                  Recorded(handlers'[k].req) \/ Once(handlers'[k].quiz)
             /\ handlers'[k].step \in Waiting => Once(handlers'[k].quiz)
  <2>1. CASE handlers'[k] = handlers[k]
    BY <1>2, <2>1 DEF LadderInv, Grounded, At
  <2>2. CASE handlers'[k] # handlers[k]
    <3>1. RowsFine(handlers'[k])
      BY <1>2, <2>2, RowStep
    <3>2. OnceOrNone(handlers'[k].row.active) /\ OnceOrNone(handlers'[k].new.active)
      BY <1>b, <3>1, KnownIsOnce DEF RowsFine, OnceOrNone
    <3>3. handlers'[k].step = "submit" =>
            Recorded(handlers'[k].req) \/ Once(handlers'[k].quiz)
      BY <1>b, <3>1, KnownIsOnce DEF RowsFine, OnceOrNone
    <3>4. ASSUME handlers'[k].step \in Waiting
          PROVE  Once(handlers'[k].quiz)
      <4>1. /\ handlers[k].step \in {"ready", "submit"}
            /\ ~Recorded(handlers[k].req)
            /\ handlers'[k].quiz \in Quizzes
            /\ handlers'[k].quiz = IF At(k, "ready") THEN handlers[k].row.active
                                   ELSE handlers[k].quiz
        BY <2>2, <3>4, WaitingStep
      <4>2. Grounded(handlers[k])
        BY <4>1 DEF LadderInv, At
      <4>3. QED
        BY <4>1, <4>2, BankAssumption DEF Grounded, OnceOrNone, At
    <3>5. QED
      BY <3>2, <3>3, <3>4
  <2>3. QED
    BY <2>1, <2>2
<1>3. ASSUME NEW i \in DOMAIN history'
      PROVE  \E j \in 0 .. i - 1 : Offered(history'[i].quiz, SubSeq(history', 1, j))
  <2>1. CASE UNCHANGED history
    BY <2>1, <1>3 DEF LadderInv, EntryOffered
  <2>2. ASSUME NEW h \in Handlers, NEW e \in Attempt, handlers[h].step \in Waiting,
               e.quiz = handlers[h].quiz, history' = Append(history, e)
        PROVE  \E j \in 0 .. i - 1 : Offered(history'[i].quiz, SubSeq(history', 1, j))
    <3>1. /\ Len(history) \in Nat /\ DOMAIN history = 1 .. Len(history)
          /\ i \in 1 .. Len(history) + 1
      BY <1>h, <1>3, <2>2
    <3>2. CASE i \in DOMAIN history
      <4>1. PICK j \in 0 .. i - 1 : Offered(history[i].quiz, SubSeq(history, 1, j))
        BY <3>2 DEF LadderInv, EntryOffered
      <4>2. j \in 0 .. Len(history) /\ history'[i] = history[i]
        BY <1>h, <2>2, <3>1, <3>2, <4>1
      <4>3. SubSeq(history', 1, j) = SubSeq(history, 1, j)
        BY <1>h, <2>2, <4>2, PrefixKept
      <4>4. QED
        BY <4>1, <4>2, <4>3
    <3>3. CASE i = Len(history) + 1
      <4>1. Once(e.quiz)
        BY <2>2 DEF LadderInv, Grounded, At, Waiting
      <4>2. PICK j \in 0 .. Len(history) : Offered(e.quiz, SubSeq(history, 1, j))
        BY <4>1 DEF Once, Ledger!OnceOffered, Ledger!Prefix
      <4>3. history'[i] = e /\ j \in 0 .. i - 1
        BY <1>h, <2>2, <3>1, <3>3
      <4>4. SubSeq(history', 1, j) = SubSeq(history, 1, j)
        BY <1>h, <2>2, PrefixKept
      <4>5. QED
        BY <4>2, <4>3, <4>4
    <3>4. QED
      BY <3>1, <3>2, <3>3
  <2>3. QED
    BY <2>1, <2>2, HistoryGrows
<1>4. ASSUME NEW k \in Handlers, handlers'[k].step # "idle"
      PROVE  /\ Later(handlers'[k].row.active)
             /\ Later(handlers'[k].new.active)
             /\ handlers'[k].step = "submit" =>
                  \/ \E i \in DOMAIN history' : history'[i].id = handlers'[k].req
                  \/ Ledger!OnceOffered(handlers'[k].quiz, history')
             /\ handlers'[k].step \in Waiting =>
                  Ledger!OnceOffered(handlers'[k].quiz, history')
  BY <1>2, <1>4, <1>a, OnceGrows, RecordedGrows
<1>5. QED
  BY <1>1, <1>3, <1>4 DEF LadderInv, OnceOrNone, Once, Grounded, Recorded, EntryOffered, At

LEMMA LadderInvariant == Spec => []LadderInv
  BY LadderInit, LadderStep, TypeInvariant, PTL DEF Spec

-----------------------------------------------------------------------------
(* The record implements AttemptLedger                                      *)

LEMMA LedgerStep ==
  ASSUME TypeInv, LadderInv, [Next]_vars
  PROVE  [Ledger!Next]_history
<1>1. CASE UNCHANGED history
  BY <1>1
<1>2. ASSUME NEW h \in Handlers, handlers[h].step \in Waiting, ~Recorded(handlers[h].req),
             history' = Append(history, [id |-> handlers[h].req, quiz |-> handlers[h].quiz,
                                         score |-> handlers[h].score])
      PROVE  Ledger!Next
  <2>1. /\ handlers[h].req \in Requests /\ handlers[h].quiz \in Quizzes
        /\ handlers[h].score \in Scores
    BY <1>2, WaitingType
  <2>2. Ledger!OnceOffered(handlers[h].quiz, history)
    BY <1>2 DEF LadderInv, Grounded, Once, At, Waiting
  <2>3. Ledger!Enter(handlers[h].req, handlers[h].quiz, handlers[h].score)
    BY <1>2, <2>2 DEF Ledger!Enter, Recorded
  <2>4. QED
    BY <2>1, <2>3 DEF Ledger!Next
<1>3. QED
  BY <1>1, <1>2, HistoryGrows

\* Chat answers, submissions, retries and crashes together implement the
\* ledger: entries are only added, an attempt id is entered once, and every
\* entry answers a question the ladder had offered (update_student_state under
\* execute_turn and submit_quiz).
THEOREM ImplementsLedger == Spec => LedgerSpec
<1>1. Init => Ledger!Init
  BY DEF Init, Ledger!Init
<1>2. TypeInv /\ LadderInv /\ [Next]_vars => [Ledger!Next]_history
  BY LedgerStep
<1>3. QED
  BY <1>1, <1>2, TypeInvariant, LadderInvariant, PTL DEF Spec, LedgerSpec, Ledger!Spec

-----------------------------------------------------------------------------
(* The ladder                                                               *)

LEMMA PosttestNeedsStage ==
  ASSUME NEW q \in Quizzes, NEW hist, Purpose[q] = "posttest", Offered(q, hist)
  PROVE  Status(Bank(ModuleOf[q]), PointsIn[ModuleOf[q]], hist, "stage_test") = "completed"
<1> DEFINE bank == Bank(ModuleOf[q])
           points == PointsIn[ModuleOf[q]]
<1>1. PosttestStatus(bank, points, hist) \in {"available", "in_progress"}
  BY DEF Offered, CanRequest, Status, AllowedStatuses
<1>2. StageStatus(bank, points, hist) = "completed"
  BY <1>1 DEF PosttestStatus
<1>3. QED
  BY <1>2 DEF Status

LEMMA StageNeedsPretest ==
  ASSUME NEW q \in Quizzes, NEW hist, Purpose[q] = "stage_test", Offered(q, hist)
  PROVE  Status(Bank(ModuleOf[q]), PointsIn[ModuleOf[q]], hist, "pretest") = "completed"
<1> DEFINE bank == Bank(ModuleOf[q])
           points == PointsIn[ModuleOf[q]]
<1>1. StageStatus(bank, points, hist) \in {"available", "in_progress", "retake_ready"}
  BY DEF Offered, CanRequest, Status, AllowedStatuses
<1>2. BasicStatus(bank, hist, "pretest") = "completed"
  BY <1>1 DEF StageStatus
<1>3. QED
  BY <1>2 DEF Status

\* Every posttest answer came after a passed stage test and every stage answer
\* after a completed pretest, for every bank and every interleaving of turns
\* and submissions (assessment_flow.can_request under chat and submit_quiz).
THEOREM LadderHolds == Spec => []LadderRespected
<1>1. TypeInv /\ LadderInv => LadderRespected
  <2> SUFFICES ASSUME TypeInv, LadderInv, NEW i \in DOMAIN history
               PROVE  LET q == history[i].quiz IN
                      /\ Purpose[q] = "posttest" =>
                           Earlier(i, ModuleOf[q], "stage_test", {"completed"})
                      /\ Purpose[q] = "stage_test" =>
                           Earlier(i, ModuleOf[q], "pretest", {"completed"})
    BY DEF LadderRespected
  <2>1. history[i].quiz \in Quizzes
    BY TypeInvImplies, EntryType
  <2>2. PICK j \in 0 .. i - 1 : Offered(history[i].quiz, SubSeq(history, 1, j))
    BY DEF LadderInv, EntryOffered
  <2>3. QED
    BY <2>1, <2>2, PosttestNeedsStage, StageNeedsPretest DEF Earlier
<1>2. QED
  BY <1>1, TypeInvariant, LadderInvariant, PTL

-----------------------------------------------------------------------------
(* Requests one at a time, or delivered once.                              *)

\* Requests are handled one at a time.
Serial == \A g, h \in Handlers : g = h

-----------------------------------------------------------------------------
(* attempt_count is exact                                                   *)

LEMMA CountedExactly ==
  ASSUME TypeOK, NEW e \in Attempt, NEW m, history' = Append(history, e)
  PROVE  /\ CountedIn(m)' = IF e.quiz \in Counting /\ m = ModuleOf[e.quiz]
                            THEN CountedIn(m) \cup {Len(history) + 1} ELSE CountedIn(m)
         /\ Cardinality(CountedIn(m)') =
              IF e.quiz \in Counting /\ m = ModuleOf[e.quiz]
              THEN Cardinality(CountedIn(m)) + 1 ELSE Cardinality(CountedIn(m))
<1> DEFINE n == Len(history)
           S == CountedIn(m)
           T == CountedIn(m)'
<1>1. n \in Nat /\ DOMAIN history = 1 .. n /\ history \in Seq(Attempt)
  BY EntryType DEF TypeOK
<1>2. DOMAIN history' = 1 .. n + 1 /\ history'[n + 1] = e
        /\ \A i \in 1 .. n : history'[i] = history[i]
  BY <1>1
<1>3. T = IF e.quiz \in Counting /\ m = ModuleOf[e.quiz] THEN S \cup {n + 1} ELSE S
  BY <1>1, <1>2 DEF CountedIn
<1>4. n + 1 \notin S
  BY <1>1 DEF CountedIn
<1>5. IsFiniteSet(S)
  BY CountedFinite
<1> HIDE DEF S, T, n
<1>6. Cardinality(S \cup {n + 1}) = Cardinality(S) + 1
  BY <1>4, <1>5, FS_AddElement
<1>7. QED
  BY <1>3, <1>6 DEF S, T, n

\* The attempts of module m.
IdsIn(hist, m) == {hist[i].id : i \in {k \in DOMAIN hist : ModuleOf[hist[k].quiz] = m}}

\* Nobody else wrote since a handler read: what it saw is what there is.
TallyInv ==
    /\ ExactTally
    /\ \A h \in Handlers, m \in Modules :
         handlers[h].step \in Waiting /\ m = ModuleOf[handlers[h].quiz] =>
             /\ handlers[h].seen.count = ability[m].count
             /\ handlers[h].seen.basis = IdsIn(history, m)

LEMMA TallyInit == Init => TallyInv
<1> SUFFICES ASSUME Init
             PROVE  TallyInv
  OBVIOUS
<1>1. \A m \in Modules : CountedIn(m) = {} /\ ability[m] = NoAbility
  BY DEF Init, CountedIn
<1>2. \A m \in Modules : Cardinality(CountedIn(m)) = 0
  BY <1>1, FS_EmptySet
<1>3. \A h \in Handlers : handlers[h].step \notin Waiting
  BY DEF Init, Idle, Waiting
<1>4. QED
  BY <1>1, <1>2, <1>3 DEF TallyInv, ExactTally, NoAbility

LEMMA TallyStep == Serial /\ TypeInv /\ TallyInv /\ [Next]_vars => TallyInv'
<1> SUFFICES ASSUME Serial, TypeInv, TallyInv, [Next]_vars
             PROVE  TallyInv'
  OBVIOUS
<1>t. TypeOK
  BY TypeInvImplies
<1>1. CASE UNCHANGED history /\ SameTally(ability', ability)
  <2>1. \A m \in Modules : CountedIn(m)' = CountedIn(m)
    BY <1>1 DEF CountedIn
  <2>2. ExactTally'
    BY <1>1, <2>1 DEF TallyInv, ExactTally, SameTally
  <2>3. ASSUME NEW k \in Handlers, NEW m \in Modules, handlers'[k].step \in Waiting,
               m = ModuleOf[handlers'[k].quiz]
        PROVE  /\ handlers'[k].seen.count = ability'[m].count
               /\ handlers'[k].seen.basis = IdsIn(history', m)
    <3>1. CASE handlers'[k] = handlers[k]
      BY <1>1, <2>3, <3>1 DEF TallyInv, SameTally
    <3>2. CASE handlers'[k] # handlers[k]
      <4>1. handlers'[k].seen = Seen(m) /\ UNCHANGED <<history, ability>>
        BY <2>3, <3>2, WaitingStep
      <4>2. QED
        BY <1>t, <4>1, SeenType DEF IdsIn
    <3>3. QED
      BY <3>1, <3>2
  <2>4. QED
    BY <2>2, <2>3 DEF TallyInv
<1>2. ASSUME NEW h \in Handlers, handlers[h].step \in Waiting,
             handlers'[h].step \notin Waiting, \E next : RecordAttempt(h, next)
      PROVE  TallyInv'
  <2> DEFINE w == handlers[h]
             e == [id |-> w.req, quiz |-> w.quiz, score |-> w.score]
             n == Len(history)
  <2>1. /\ w.req \in Requests /\ w.quiz \in Quizzes /\ w.seen \in AbilityRow
        /\ e \in Attempt /\ e.quiz = w.quiz /\ e.id = w.req
    BY <1>2, WaitingType
  <2>2. history' = Append(history, e) /\ ability' = AbilityAfter(w.req, w.quiz, w.seen)
    BY <1>2 DEF RecordAttempt
  <2>3. ModuleOf[w.quiz] \in Modules
    BY <2>1, TurnAssumption
  <2>4. /\ w.seen.count = ability[ModuleOf[w.quiz]].count
        /\ w.seen.basis = IdsIn(history, ModuleOf[w.quiz])
    BY <1>2, <2>3 DEF TallyInv
  <2> HIDE DEF w, e
  <2>5. n \in Nat /\ DOMAIN history = 1 .. n /\ history \in Seq(Attempt)
    BY <1>t, EntryType DEF TypeOK
  <2>6. DOMAIN history' = 1 .. n + 1 /\ history'[n + 1] = e
          /\ \A i \in 1 .. n : history'[i] = history[i]
    BY <2>1, <2>2, <2>5
  <2>7. ASSUME NEW m \in Modules
        PROVE  ability'[m].count = Cardinality(CountedIn(m)')
    <3>1. ability'[m].count = IF w.quiz \in Counting /\ m = ModuleOf[w.quiz]
                              THEN w.seen.count + 1 ELSE ability[m].count
      BY <2>1, <2>2, AbilityAfterType
    <3>2. Cardinality(CountedIn(m)') =
            IF w.quiz \in Counting /\ m = ModuleOf[w.quiz]
            THEN Cardinality(CountedIn(m)) + 1 ELSE Cardinality(CountedIn(m))
      BY <1>t, <2>1, <2>2, CountedExactly
    <3>3. ability[m].count = Cardinality(CountedIn(m))
      BY DEF TallyInv, ExactTally
    <3>4. QED
      BY <2>4, <3>1, <3>2, <3>3
  <2>8. ASSUME NEW m \in Modules, NEW i \in CountedIn(m)'
        PROVE  history'[i].id \in ability'[m].basis
    <3>1. ability'[m].basis = IF w.quiz \in Counting /\ m = ModuleOf[w.quiz]
                              THEN w.seen.basis \cup {w.req} ELSE ability[m].basis
      BY <2>1, <2>2, AbilityAfterBasis
    <3>2. CASE i = n + 1
      <4>1. w.quiz \in Counting /\ m = ModuleOf[w.quiz]
        BY <2>1, <2>6, <2>8, <3>2 DEF CountedIn
      <4>2. QED
        BY <2>1, <2>6, <3>1, <3>2, <4>1
    <3>3. CASE i # n + 1
      <4>1. i \in 1 .. n /\ i \in CountedIn(m) /\ history'[i] = history[i]
        BY <2>5, <2>6, <2>8, <3>3 DEF CountedIn
      <4>2. history[i].id \in ability[m].basis
        BY <4>1 DEF TallyInv, ExactTally
      <4>3. history[i].id \in IdsIn(history, m)
        BY <4>1 DEF CountedIn, IdsIn
      <4>4. QED
        BY <2>4, <3>1, <4>1, <4>2, <4>3
    <3>4. QED
      BY <3>2, <3>3
  <2>9. ExactTally'
    BY <2>7, <2>8 DEF ExactTally
  <2>10. \A k \in Handlers : handlers'[k].step \notin Waiting
    BY <1>2 DEF Serial
  <2>11. QED
    BY <2>9, <2>10 DEF TallyInv
<1>3. QED
  BY <1>1, <1>2, HistoryStep DEF Waiting

\* When a learner's requests do not overlap, attempt_count is exact and the
\* estimate rests on every counted attempt, whatever errors, restarts and
\* redeliveries come between (update_student_state).
THEOREM TallyIsExact ==
  ASSUME Serial
  PROVE  Spec => []ExactTally
<1>1. TypeInv /\ TallyInv /\ [Next]_vars => TallyInv'
  BY TallyStep
<1>2. TallyInv => ExactTally
  BY DEF TallyInv
<1>3. QED
  BY <1>1, <1>2, TallyInit, TypeInvariant, PTL DEF Spec

-----------------------------------------------------------------------------
(* The question a session waits for                                         *)

\* The steps at which a request still relies on the row it has read.
Holding == {"insert", "load", "ready", "record", "finish", "wipe"}

\* What a request may want to store after reading row.
Fits(row, new) ==
    \/ new.active = NoQuiz
    \/ /\ new.module = row.module
       /\ \/ new.active = row.active
          \/ row.active = NoQuiz /\ ModuleOf[new.active] = row.module

RowHeld(w, rows, message) ==
    w.step \in Holding =>
        /\ w.row = rows[message.session]
        /\ Fits(w.row, w.new)
        /\ w.step = "ready" => w.new = w.row

\* The row a request has read is still the one in the table when it stores it.
RowInv ==
    /\ ActiveInModule
    /\ \A h \in Handlers : RowHeld(handlers[h], sessions, sent[handlers[h].req])

LEMMA RowInit == Init => RowInv
  BY DEF Init, RowInv, ActiveInModule, FreshSession, RowHeld, Idle, Holding

\* A step of h that leaves the sessions alone.
LEMMA RowKept ==
  ASSUME Serial, RowInv, UNCHANGED <<sessions, sent>>, NEW h \in Handlers,
         NEW w, TypeInv, Become(h, w), RowHeld(w, sessions, sent[w.req])
  PROVE  RowInv'
<1>1. \A k \in Handlers : handlers'[k] = w
  BY HandlerBecomes DEF Serial
<1>2. ActiveInModule'
  BY DEF RowInv, ActiveInModule
<1>3. QED
  BY <1>1, <1>2 DEF RowInv

\* A step of h that ends its reliance on the row.
LEMMA RowLeft ==
  ASSUME Serial, TypeInv, NEW h \in Handlers, NEW w, Become(h, w), w.step \notin Holding,
         ActiveInModule'
  PROVE  RowInv'
<1>1. \A k \in Handlers : handlers'[k] = w
  BY HandlerBecomes DEF Serial
<1>2. QED
  BY <1>1 DEF RowInv, RowHeld

LEMMA FitsSelf ==
  ASSUME NEW row
  PROVE  Fits(row, row)
  BY DEF Fits

\* Storing over the row that was read.
LEMMA MergeFresh ==
  ASSUME NEW row \in SessionRow, NEW new \in SessionRow
  PROVE  /\ Merge(row, row, new).active = new.active
         /\ Merge(row, row, new).module = new.module
  BY DEF Merge, SessionRow

LEMMA StoredFits ==
  ASSUME NEW row \in SessionRow, NEW new \in SessionRow, Fits(row, new),
         row.active # NoQuiz => ModuleOf[row.active] = row.module
  PROVE  /\ new.active # NoQuiz => ModuleOf[new.active] = new.module
         /\ row.active # NoQuiz => new.active \in {row.active, NoQuiz}
  BY DEF Fits

\* A session row changes for the better, or not at all.
LEMMA SessionFits ==
  ASSUME TypeInv, RowInv, [Next]_vars, NEW s \in Sessions
  PROVE  /\ sessions'[s].active # NoQuiz =>
              ModuleOf[sessions'[s].active] = sessions'[s].module
         /\ sessions[s].active # NoQuiz =>
              sessions'[s].active \in {sessions[s].active, NoQuiz}
<1> DEFINE Goal == /\ sessions'[s].active # NoQuiz =>
                        ModuleOf[sessions'[s].active] = sessions'[s].module
                   /\ sessions[s].active # NoQuiz =>
                        sessions'[s].active \in {sessions[s].active, NoQuiz}
<1>1. /\ sessions \in [Sessions -> SessionRow] /\ sessions[s] \in SessionRow
      /\ sessions[s].active # NoQuiz => ModuleOf[sessions[s].active] = sessions[s].module
  BY DEF TypeInv, Tables, RowInv, ActiveInModule
<1>a. ASSUME sessions'[s] = sessions[s] \/ sessions'[s].active = NoQuiz
      PROVE  Goal
  BY <1>1, <1>a
<1>b. ASSUME NEW h \in Handlers, At(h, "finish") \/ At(h, "wipe"), SessionOf(h) = s,
             sessions'[s] = Merge(sessions[s], handlers[h].row, handlers[h].new)
      PROVE  Goal
  <2> DEFINE w == handlers[h]
  <2>1. w \in Busy /\ w.row \in SessionRow /\ w.new \in SessionRow
    BY <1>b, BusyHandler DEF At, Busy
  <2>2. w.row = sessions[s] /\ Fits(w.row, w.new)
    BY <1>b DEF RowInv, RowHeld, Holding, At, SessionOf
  <2> HIDE DEF w
  <2>3. sessions'[s].active = w.new.active /\ sessions'[s].module = w.new.module
    BY <1>b, <2>1, <2>2, MergeFresh DEF w
  <2>4. QED
    BY <1>1, <2>1, <2>2, <2>3, StoredFits
<1>c. [sessions[s] EXCEPT !.active = NoQuiz].active = NoQuiz
  BY <1>1 DEF SessionRow
<1>2. ASSUME NEW h \in Handlers, FinishTurn(h)
      PROVE  Goal
  <2>1. CASE SessionOf(h) # s
    BY <1>1, <1>2, <1>a, <2>1 DEF FinishTurn
  <2>2. CASE SessionOf(h) = s
    <3>1. sessions'[s] = SessionAfter(handlers[h], sessions[s]) /\ At(h, "finish")
      BY <1>1, <1>2, <2>2 DEF FinishTurn
    <3>2. CASE handlers[h].action = "grade"
      BY <1>a, <1>c, <3>1, <3>2 DEF SessionAfter
    <3>3. CASE handlers[h].action # "grade"
      BY <1>b, <2>2, <3>1, <3>3 DEF SessionAfter
    <3>4. QED
      BY <3>2, <3>3
  <2>3. QED
    BY <2>1, <2>2
<1>3. ASSUME NEW h \in Handlers, ReleaseQuestion(h)
      PROVE  Goal
  <2>1. sessions'[s] \in {sessions[s], [sessions[s] EXCEPT !.active = NoQuiz]}
    BY <1>1, <1>3 DEF ReleaseQuestion
  <2>2. QED
    BY <1>a, <1>c, <2>1
<1>4. ASSUME NEW h \in Handlers, ClearMessages(h)
      PROVE  Goal
  <2>1. CASE SessionOf(h) # s
    BY <1>1, <1>4, <1>a, <2>1 DEF ClearMessages
  <2>2. CASE SessionOf(h) = s
    BY <1>1, <1>4, <1>b, <2>2 DEF ClearMessages
  <2>3. QED
    BY <2>1, <2>2
<1>5. ASSUME NEW h \in Handlers, Work(h), ~FinishTurn(h), ~ReleaseQuestion(h),
             ~ClearMessages(h)
      PROVE  UNCHANGED sessions
  BY <1>5 DEF Work, InsertTurn, LoadSession, Respond, Converse, ChangeModule, GenerateQuiz,
     GradeAnswer, RecordGrade, EnterSubmission, RecordAttempt, StoreFeedback, Fail, Abandon,
     GradeSubmission, CheckActive, RejectSubmission
<1>6. ASSUME NEW h \in Handlers, Receive(h)
      PROVE  UNCHANGED sessions
  BY <1>6 DEF Receive, ReceiveTurn, ReceiveSubmission, ReceiveClear
<1>7. ASSUME NEW h \in Handlers, RaiseError(h) \/ DropRequest(h)
      PROVE  UNCHANGED sessions
  BY <1>7 DEF RaiseError, DropRequest, Abandon
<1>8. ASSUME Restart \/ UNCHANGED vars
      PROVE  UNCHANGED sessions
  BY <1>8 DEF Restart, vars
<1>9. QED
  BY <1>a, <1>2, <1>3, <1>4, <1>5, <1>6, <1>7, <1>8 DEF Next

LEMMA ActiveFits ==
  ASSUME TypeInv, RowInv, [Next]_vars
  PROVE  ActiveInModule'
  BY SessionFits DEF ActiveInModule

LEMMA RowReceive ==
  ASSUME Serial, TypeInv, RowInv, NEW h \in Handlers, Receive(h)
  PROVE  RowInv'
<1>a. [Next]_vars /\ ActiveInModule'
  BY ActiveFits DEF Next
<1> PICK r \in Requests, in \in Inputs :
        \/ \E s \in Sessions : ReceiveTurn(h, r, s, in)
        \/ \E s \in Sessions \cup {NoSession} : ReceiveSubmission(h, r, s, in)
        \/ \E s \in Sessions : ReceiveClear(h, r, s, in)
  BY DEF Receive
\* A request that is refused or replayed leaves the only handler idle.
<1>b. ASSUME UNCHANGED handlers, At(h, "idle")
      PROVE  RowInv'
  <2>1. \A k \in Handlers : handlers'[k].step \notin Holding
    BY <1>b DEF Serial, At, Holding
  <2>2. QED
    BY <1>a, <2>1 DEF RowInv, RowHeld
<1>c. ASSUME NEW s \in Sessions, Deliver(r, s, in), NEW w, Become(h, w), UNCHANGED sessions,
             w.req = r, w.row = sessions[s], Fits(w.row, w.new),
             w.step # "ready" \/ w.new = w.row
      PROVE  RowInv'
  <2>1. sent'[r].session = s
    <3>1. s \in Sessions \cup {NoSession}
      OBVIOUS
    <3>2. sent'[r] = [session |-> s, input |-> in]
      BY <1>c, <3>1, DeliverType
    <3>3. QED
      BY <3>2
  <2>2. \A k \in Handlers : handlers'[k] = w
    BY <1>c, HandlerBecomes DEF Serial
  <2>3. QED
    BY <1>a, <1>c, <2>1, <2>2 DEF RowInv, RowHeld
<1>1. ASSUME NEW s \in Sessions, ReceiveTurn(h, r, s, in)
      PROVE  RowInv'
  <2> DEFINE step == IF turns[r].status = "none" THEN "insert" ELSE "ready"
             w == Begin(r, step, Plan(in, sessions[s]), sessions[s])
  <2>1. UNCHANGED handlers \/ Become(h, w)
    BY <1>1 DEF ReceiveTurn
  <2>2. w.req = r /\ w.row = sessions[s] /\ w.new = sessions[s]
    BY DEF Begin
  <2> HIDE DEF w
  <2>3. Fits(w.row, w.new)
    BY <2>2, FitsSelf
  <2>4. QED
    BY <1>1, <1>b, <1>c, <2>1, <2>2, <2>3 DEF ReceiveTurn
<1>2. ASSUME NEW s \in Sessions \cup {NoSession}, ReceiveSubmission(h, r, s, in)
      PROVE  RowInv'
  <2> DEFINE row == IF s = NoSession THEN FreshSession ELSE sessions[s]
             w == [Begin(r, "submit", "grade", row) EXCEPT !.quiz = in.quiz]
  <2>1. UNCHANGED handlers \/ Become(h, w)
    BY <1>2 DEF ReceiveSubmission
  <2>2. w.step \notin Holding
    BY DEF Begin, Holding
  <2> HIDE DEF w
  <2>3. QED
    BY <1>2, <1>a, <1>b, <2>1, <2>2, RowLeft DEF ReceiveSubmission
<1>3. ASSUME NEW s \in Sessions, ReceiveClear(h, r, s, in)
      PROVE  RowInv'
  <2> DEFINE w == [Begin(r, "wipe", "respond", sessions[s]) EXCEPT
                      !.new = [sessions[s] EXCEPT !.active = NoQuiz, !.echo = "E"]]
  <2>1. Become(h, w)
    BY <1>3 DEF ReceiveClear
  <2>2. w.req = r /\ w.row = sessions[s] /\ w.new.active = NoQuiz /\ w.step = "wipe"
    <3>1. sessions[s] \in SessionRow
      BY DEF TypeInv, Tables
    <3>2. QED
      BY <3>1 DEF Begin, SessionRow
  <2> HIDE DEF w
  <2>3. QED
    BY <1>3, <1>c, <2>1, <2>2 DEF ReceiveClear, Fits
<1>4. QED
  BY <1>1, <1>2, <1>3

LEMMA RowWork ==
  ASSUME Serial, TypeInv, RowInv, NEW h \in Handlers, Work(h)
  PROVE  RowInv'
<1> DEFINE w == handlers[h]
<1>a. ActiveInModule' /\ UNCHANGED sent
  <2>1. [Next]_vars
    BY DEF Next
  <2>2. UNCHANGED sent
    BY DEF Work, InsertTurn, LoadSession, Respond, Converse, ChangeModule, GenerateQuiz,
       GradeAnswer, RecordGrade, EnterSubmission, RecordAttempt, FinishTurn, StoreFeedback,
       Fail, Abandon, GradeSubmission, CheckActive, ReleaseQuestion, RejectSubmission,
       ClearMessages
  <2>3. QED
    BY <2>1, <2>2, ActiveFits
<1>b. ASSUME ~At(h, "idle")
      PROVE  /\ w \in Busy /\ w.row \in SessionRow /\ w.new \in SessionRow
             /\ w.step \in Holding => w.row = sessions[SessionOf(h)] /\ Fits(w.row, w.new)
             /\ w.step = "ready" => w.new = w.row
  BY <1>b, BusyHandler DEF RowInv, RowHeld, SessionOf, Busy, Holding
<1>i. ASSUME Become(h, Idle)
      PROVE  RowInv'
  BY <1>a, <1>i, RowLeft DEF Idle, Holding
<1> HIDE DEF w
\* The step keeps the row; what is to be stored fits it.
<1>c. ASSUME w.step \in Holding, UNCHANGED sessions, NEW v, Become(h, v), v.req = w.req,
             v.row = w.row \/ v.row = sessions[SessionOf(h)], Fits(w.row, v.new),
             v.step # "ready" \/ v.new = v.row
      PROVE  RowInv'
  <2>1. w.row = sessions[SessionOf(h)]
    BY <1>b, <1>c DEF Holding, At, w
  <2>2. RowHeld(v, sessions, sent[v.req])
    BY <1>c, <2>1 DEF RowHeld, SessionOf, w
  <2>3. QED
    BY <1>a, <1>c, <2>2, RowKept
<1>d. ASSUME w.step \in Holding, UNCHANGED sessions, NEW step \in Steps \ {"ready"},
             Goto(h, step)
      PROVE  RowInv'
  <2> DEFINE v == [w EXCEPT !.step = step]
  <2>1. Become(h, v)
    BY <1>d DEF Goto, Become, w
  <2>2. /\ v.req = w.req /\ v.row = w.row /\ v.new = w.new /\ v.step # "ready"
        /\ Fits(w.row, w.new)
    BY <1>b, <1>d DEF Holding, At, Busy, w
  <2> HIDE DEF v
  <2>3. QED
    BY <1>c, <1>d, <2>1, <2>2
<1>1. CASE InsertTurn(h) \/ Respond(h)
  BY <1>1, <1>d, <1>i DEF InsertTurn, Respond, At, Holding, Steps, w
<1>2. CASE LoadSession(h)
  <2> DEFINE row == sessions[SessionOf(h)]
             v == [w EXCEPT !.step = "ready", !.row = row, !.new = row]
  <2>1. w.step \in Holding /\ UNCHANGED sessions /\ Become(h, v)
    BY <1>2 DEF LoadSession, At, Holding, w
  <2>2. v.req = w.req /\ v.row = row /\ v.new = row /\ w.row = row
    BY <1>b, <2>1 DEF Holding, At, Busy, w
  <2> HIDE DEF v, row
  <2>3. Fits(w.row, v.new)
    BY <2>2, FitsSelf
  <2>4. QED
    BY <1>c, <2>1, <2>2, <2>3 DEF row
<1>3. CASE Converse(h)
  <2> DEFINE row == [w.row EXCEPT !.echo = NextEcho(Cue(InputOf(h)), w.row.echo)]
             v == [w EXCEPT !.step = "finish", !.new = row]
  <2>1. w.step \in Holding /\ UNCHANGED sessions /\ Become(h, v)
    BY <1>3 DEF Converse, At, Holding, w
  <2>2. v.req = w.req /\ v.row = w.row /\ v.new = row /\ v.step = "finish"
    BY <1>b, <2>1 DEF Holding, At, Busy, w
  <2>3. row.module = w.row.module /\ row.active = w.row.active
    BY <1>b, <2>1 DEF Holding, At, SessionRow, w
  <2> HIDE DEF v, row
  <2>4. Fits(w.row, v.new)
    BY <2>2, <2>3 DEF Fits
  <2>5. QED
    BY <1>c, <2>1, <2>2, <2>4
<1>4. CASE ChangeModule(h)
  <2> DEFINE row == [module |-> InputOf(h).module, active |-> NoQuiz, echo |-> "E"]
             v == [w EXCEPT !.step = "finish", !.new = row]
  <2>1. w.step \in Holding /\ UNCHANGED sessions /\ Become(h, v)
    BY <1>4 DEF ChangeModule, At, Holding, w
  <2>2. v.req = w.req /\ v.row = w.row /\ v.new = row /\ v.step = "finish"
    BY <1>b, <2>1 DEF Holding, At, Busy, w
  <2>3. row.active = NoQuiz
    OBVIOUS
  <2> HIDE DEF v, row
  <2>4. Fits(w.row, v.new)
    BY <2>2, <2>3 DEF Fits
  <2>5. QED
    BY <1>c, <2>1, <2>2, <2>4
<1>5. CASE GenerateQuiz(h)
  <2> DEFINE p == AskedPurpose(InputOf(h), w.row.module, w.row.active)
             v(q) == [w EXCEPT !.step = "finish", !.quiz = q, !.new.active = q,
                               !.seen = ability[w.row.module]]
  <2>1. w.step = "ready" /\ w.step \in Holding /\ UNCHANGED sessions
    BY <1>5 DEF GenerateQuiz, At, Holding, w
  <2>2. CASE Goto(h, "finish")
    BY <1>d, <2>1, <2>2 DEF Steps
  <2>3. ASSUME NEW q \in Candidates(Bank(w.row.module), history, p),
               Permitted(p, w.row), Become(h, v(q))
        PROVE  RowInv'
    <3>1. q \in Quizzes /\ ModuleOf[q] = w.row.module
      BY CandidatesInBank DEF Bank
    <3>2. w.row.active \notin Bank(w.row.module)
      BY <2>3 DEF Permitted, CanRequest
    <3>3. w.row = sessions[SessionOf(h)] /\ Fits(w.row, w.new) /\ w \in Busy
      BY <1>b, <2>1 DEF At, w
    <3>4. w.row \in SessionRow /\ SessionOf(h) \in Sessions
      BY <2>1, <3>3, BusyHandler DEF At, Busy, Coherent, ChatSteps, SessionOf, w
    <3>5. w.row.active = NoQuiz
      BY <3>2, <3>3, <3>4 DEF RowInv, ActiveInModule, Bank, SessionRow
    <3>6. w.new = w.row
      BY <1>b, <2>1 DEF At, w
    <3>7. /\ v(q).req = w.req /\ v(q).row = w.row /\ v(q).step = "finish"
          /\ v(q).new.active = q /\ v(q).new.module = w.row.module
      BY <3>3, <3>4, <3>6 DEF Busy, SessionRow
    <3> HIDE DEF v
    <3>8. Fits(w.row, v(q).new)
      BY <3>1, <3>5, <3>7 DEF Fits
    <3>9. QED
      BY <1>c, <2>1, <2>3, <3>7, <3>8
  <2>4. QED
    BY <1>5, <2>2, <2>3 DEF GenerateQuiz, w
<1>6. CASE GradeAnswer(h)
  <2> DEFINE q == w.row.active
             step == IF Recorded(w.req) THEN "finish" ELSE "record"
             v(s) == [w EXCEPT !.step = step, !.quiz = q, !.score = s, !.new.active = NoQuiz,
                               !.seen = Seen(ModuleOf[q])]
  <2>1. w.step \in Holding /\ UNCHANGED sessions /\ \E s \in Scores : Become(h, v(s))
    BY <1>6 DEF GradeAnswer, At, Holding, w
  <2>2. PICK s \in Scores : Become(h, v(s))
    BY <2>1
  <2>3. /\ v(s).req = w.req /\ v(s).row = w.row /\ v(s).step # "ready"
        /\ v(s).new.active = NoQuiz
    BY <1>b, <2>1 DEF Holding, At, Busy, SessionRow, w
  <2> HIDE DEF v
  <2>4. Fits(w.row, v(s).new)
    BY <2>3 DEF Fits
  <2>5. QED
    BY <1>c, <2>1, <2>2, <2>3, <2>4
<1>7. CASE RecordGrade(h)
  <2> DEFINE v == [w EXCEPT !.step = "finish", !.updated = TRUE, !.seen = NoAbility]
  <2>1. w.step \in Holding /\ UNCHANGED sessions /\ Become(h, v)
    BY <1>7 DEF RecordGrade, RecordAttempt, At, Holding, w
  <2>2. /\ v.req = w.req /\ v.row = w.row /\ v.new = w.new /\ v.step = "finish"
        /\ Fits(w.row, w.new)
    BY <1>b, <2>1 DEF Holding, At, Busy, w
  <2> HIDE DEF v
  <2>3. QED
    BY <1>c, <2>1, <2>2
\* The steps at which nothing is made of the row any more.
<1>e. ASSUME ~At(h, "idle"), NEW step \in Steps \ Holding, Goto(h, step)
      PROVE  RowInv'
  <2> DEFINE v == [w EXCEPT !.step = step]
  <2>1. Become(h, v) /\ v.step = step
    BY <1>b, <1>e DEF Goto, Become, Busy, w
  <2> HIDE DEF v
  <2>2. QED
    BY <1>a, <1>e, <2>1, RowLeft
<1>8. CASE FinishTurn(h) \/ CheckActive(h)
  BY <1>8, <1>e, <1>i DEF FinishTurn, CheckActive, At, Steps, Holding
<1>9. CASE GradeSubmission(h)
  <2> DEFINE step == IF Recorded(w.req) THEN "check" ELSE "enter"
             v(s) == [w EXCEPT !.step = step, !.score = s, !.seen = Seen(ModuleOf[w.quiz])]
  <2>1. ~At(h, "idle") /\ \E s \in Scores : Become(h, v(s))
    BY <1>9 DEF GradeSubmission, At, w
  <2>2. PICK s \in Scores : Become(h, v(s))
    BY <2>1
  <2>3. v(s).step = step
    BY <1>b, <2>1 DEF Busy
  <2> HIDE DEF v
  <2>4. QED
    BY <1>a, <2>2, <2>3, RowLeft DEF Holding
<1>10. CASE EnterSubmission(h)
  <2> DEFINE v == [w EXCEPT !.step = "check", !.updated = TRUE, !.seen = NoAbility]
  <2>1. ~At(h, "idle") /\ Become(h, v)
    BY <1>10 DEF EnterSubmission, RecordAttempt, At, w
  <2>2. v.step = "check"
    BY <1>b, <2>1 DEF Busy
  <2> HIDE DEF v
  <2>3. QED
    BY <1>a, <2>1, <2>2, RowLeft DEF Holding
<1>11. CASE \/ StoreFeedback(h) \/ Fail(h) \/ ReleaseQuestion(h) \/ RejectSubmission(h)
            \/ ClearMessages(h)
  BY <1>11, <1>i DEF StoreFeedback, Fail, Abandon, ReleaseQuestion, RejectSubmission,
     ClearMessages
<1>12. QED
  BY <1>1, <1>2, <1>3, <1>4, <1>5, <1>6, <1>7, <1>8, <1>9, <1>10, <1>11 DEF Work

LEMMA RowStays == Serial /\ TypeInv /\ RowInv /\ [Next]_vars => RowInv'
<1> SUFFICES ASSUME Serial, TypeInv, RowInv, [Next]_vars
             PROVE  RowInv'
  OBVIOUS
<1>a. ActiveInModule'
  BY ActiveFits
<1>1. ASSUME NEW h \in Handlers, Receive(h)
      PROVE  RowInv'
  BY <1>1, RowReceive
<1>2. ASSUME NEW h \in Handlers, Work(h)
      PROVE  RowInv'
  BY <1>2, RowWork
<1>3. ASSUME NEW h \in Handlers, RaiseError(h) \/ DropRequest(h)
      PROVE  RowInv'
  BY <1>a, <1>3, RowLeft DEF RaiseError, DropRequest, Abandon, Idle, Holding
<1>4. CASE Restart
  <2>1. \A k \in Handlers : handlers'[k].step \notin Holding
    BY <1>4 DEF Restart, Idle, Holding
  <2>2. QED
    BY <1>a, <2>1 DEF RowInv, RowHeld
<1>5. CASE UNCHANGED vars
  BY <1>5 DEF vars, RowInv, RowHeld, ActiveInModule
<1>6. QED
  BY <1>1, <1>2, <1>3, <1>4, <1>5 DEF Next

LEMMA RowInvariant ==
  ASSUME Serial
  PROVE  Spec => []RowInv
<1>1. TypeInv /\ RowInv /\ [Next]_vars => RowInv'
  BY RowStays
<1>2. QED
  BY <1>1, RowInit, TypeInvariant, PTL DEF Spec

\* When a learner's requests do not overlap, the question a session waits for is
\* one of the module the session is in (execute_turn, CHANGE_MODULE and
\* GENERATE_QUIZ), whatever errors and restarts come between.
THEOREM ActiveStaysInModule ==
  ASSUME Serial
  PROVE  Spec => []ActiveInModule
<1>1. RowInv => ActiveInModule
  BY DEF RowInv
<1>2. QED
  BY <1>1, RowInvariant, PTL

\* When a learner's requests do not overlap, a question is answered or withdrawn
\* before another one takes its place.
THEOREM QuestionStays ==
  ASSUME Serial
  PROVE  Spec => QuestionNotReplaced
<1>1. ASSUME TypeInv, RowInv, [Next]_vars
      PROVE  \A s \in Sessions :
               sessions[s].active # NoQuiz =>
                 sessions'[s].active \in {sessions[s].active, NoQuiz}
  BY <1>1, SessionFits
<1>2. QED
  BY <1>1, RowInvariant, TypeInvariant, PTL DEF Spec, QuestionNotReplaced

-----------------------------------------------------------------------------
(* Deliveries                                                               *)

Working(h) == ~At(h, "idle")

\* What may happen to the request of a handler: it goes on with the one it has,
\* or it starts on one that was just delivered.
LEMMA RequestStep ==
  ASSUME TypeInv, [Next]_vars, NEW k \in Handlers, handlers'[k].step # "idle"
  PROVE  \/ Working(k) /\ handlers'[k].req = handlers[k].req
         \/ /\ handlers'[k].req \in Requests
            /\ sends[handlers'[k].req] < MaxSends
            /\ sends'[handlers'[k].req] = sends[handlers'[k].req] + 1
            /\ \A g \in Handlers \ {k} : handlers'[g] = handlers[g]
<1> DEFINE Goal == \/ Working(k) /\ handlers'[k].req = handlers[k].req
                   \/ /\ handlers'[k].req \in Requests
                      /\ sends[handlers'[k].req] < MaxSends
                      /\ sends'[handlers'[k].req] = sends[handlers'[k].req] + 1
                      /\ \A g \in Handlers \ {k} : handlers'[g] = handlers[g]
<1>a. ASSUME handlers'[k] = handlers[k]
      PROVE  Goal
  BY <1>a DEF Working, At
<1>b. ASSUME NEW h \in Handlers, NEW w, Become(h, w),
             Working(h), w.req = handlers[h].req
      PROVE  Goal
  BY <1>a, <1>b, HandlerBecomes
<1>i. ASSUME NEW h \in Handlers, Become(h, Idle)
      PROVE  Goal
  BY <1>a, <1>i, HandlerBecomes, IdleStep
<1>c. ASSUME NEW h \in Handlers, Working(h), NEW step, Goto(h, step)
      PROVE  Goal
  <2>1. Become(h, [handlers[h] EXCEPT !.step = step])
    BY <1>c DEF Goto, Become
  <2>2. [handlers[h] EXCEPT !.step = step].req = handlers[h].req
    BY <1>c, BusyHandler DEF Working, Busy
  <2>3. QED
    BY <1>b, <1>c, <2>1, <2>2
<1>1. ASSUME NEW h \in Handlers, Receive(h)
      PROVE  Goal
  <2> PICK r \in Requests, in \in Inputs :
        \/ \E s \in Sessions : ReceiveTurn(h, r, s, in)
        \/ \E s \in Sessions \cup {NoSession} : ReceiveSubmission(h, r, s, in)
        \/ \E s \in Sessions : ReceiveClear(h, r, s, in)
    BY <1>1 DEF Receive
  <2>1. sends[r] < MaxSends /\ sends' = [sends EXCEPT ![r] = @ + 1]
    BY DEF ReceiveTurn, ReceiveSubmission, ReceiveClear, Deliver
  <2>2. sends'[r] = sends[r] + 1
    BY <2>1 DEF TypeInv, Wire
  <2>3. UNCHANGED handlers \/ \E w : Become(h, w) /\ w.req = r
    <3>1. ASSUME NEW s \in Sessions, ReceiveTurn(h, r, s, in)
          PROVE  UNCHANGED handlers \/ \E w : Become(h, w) /\ w.req = r
      BY <3>1 DEF ReceiveTurn, Begin
    <3>2. ASSUME NEW s \in Sessions \cup {NoSession}, ReceiveSubmission(h, r, s, in)
          PROVE  UNCHANGED handlers \/ \E w : Become(h, w) /\ w.req = r
      <4> DEFINE row == IF s = NoSession THEN FreshSession ELSE sessions[s]
                 w == [Begin(r, "submit", "grade", row) EXCEPT !.quiz = in.quiz]
      <4>1. UNCHANGED handlers \/ Become(h, w)
        BY <3>2 DEF ReceiveSubmission
      <4>2. w.req = r
        BY DEF Begin
      <4>3. QED
        BY <4>1, <4>2
    <3>3. ASSUME NEW s \in Sessions, ReceiveClear(h, r, s, in)
          PROVE  UNCHANGED handlers \/ \E w : Become(h, w) /\ w.req = r
      <4> DEFINE w == [Begin(r, "wipe", "respond", sessions[s]) EXCEPT
                          !.new = [sessions[s] EXCEPT !.active = NoQuiz, !.echo = "E"]]
      <4>1. Become(h, w)
        BY <3>3 DEF ReceiveClear
      <4>2. w.req = r
        BY DEF Begin
      <4>3. QED
        BY <4>1, <4>2
    <3>4. QED
      BY <3>1, <3>2, <3>3
  <2>4. CASE h = k /\ \E w : Become(h, w) /\ w.req = r
    BY <2>1, <2>2, <2>4, HandlerBecomes
  <2>5. CASE h # k \/ UNCHANGED handlers
    BY <1>a, <2>3, <2>5, HandlerBecomes
  <2>6. QED
    BY <2>3, <2>4, <2>5
<1>2. ASSUME NEW h \in Handlers, Work(h)
      PROVE  Goal
  <2> USE <1>2
  <2> DEFINE w == handlers[h]
  <2>0. ASSUME Working(h)
        PROVE  w \in Busy
    BY <2>0, BusyHandler DEF Working
  <2>w. Working(h)
    BY DEF Work, InsertTurn, LoadSession, Respond, Converse, ChangeModule, GenerateQuiz,
       GradeAnswer, RecordGrade, EnterSubmission, FinishTurn, StoreFeedback,
       Fail, GradeSubmission, CheckActive, ReleaseQuestion, RejectSubmission,
       ClearMessages, Working, At
  <2>1. CASE InsertTurn(h) \/ Respond(h) \/ CheckActive(h) \/ FinishTurn(h)
    BY <2>1, <2>w, <1>i, <1>c DEF InsertTurn, Respond, CheckActive, FinishTurn
  <2>2. CASE LoadSession(h) \/ Converse(h) \/ ChangeModule(h)
    BY <2>2, <2>w, <2>0, <1>b DEF LoadSession, Converse, ChangeModule, Busy
  <2>3. CASE GenerateQuiz(h)
    <3>1. CASE Goto(h, "finish")
      BY <2>w, <3>1, <1>c
    <3>2. CASE \E q : Become(h, [w EXCEPT !.step = "finish", !.quiz = q,
                      !.new.active = q, !.seen = ability[w.row.module]])
      BY <2>w, <2>0, <3>2, <1>b DEF Busy
    <3>3. QED
      BY <2>3, <3>1, <3>2 DEF GenerateQuiz
  <2>4. CASE GradeAnswer(h)
    <3> DEFINE q == w.row.active
               step == IF Recorded(w.req) THEN "finish" ELSE "record"
               v(s) == [w EXCEPT !.step = step, !.quiz = q, !.score = s,
                                 !.new.active = NoQuiz, !.seen = Seen(ModuleOf[q])]
    <3>1. PICK s \in Scores : Become(h, v(s))
      BY <2>4 DEF GradeAnswer
    <3>2. v(s).req = w.req
      BY <2>w, <2>0 DEF Busy
    <3> HIDE DEF v
    <3>3. QED
      BY <2>w, <3>1, <3>2, <1>b
  <2>5. CASE RecordGrade(h) \/ EnterSubmission(h)
    <3> DEFINE v(next) == [w EXCEPT !.step = next, !.updated = TRUE, !.seen = NoAbility]
    <3>1. PICK next \in {"finish", "check"} : Become(h, v(next))
      BY <2>5 DEF RecordGrade, EnterSubmission, RecordAttempt
    <3>2. v(next).req = w.req
      BY <2>w, <2>0 DEF Busy
    <3> HIDE DEF v
    <3>3. QED
      BY <2>w, <3>1, <3>2, <1>b
  <2>6. CASE GradeSubmission(h)
    <3> DEFINE step == IF Recorded(w.req) THEN "check" ELSE "enter"
               v(s) == [w EXCEPT !.step = step, !.score = s, !.seen = Seen(ModuleOf[w.quiz])]
    <3>1. PICK s \in Scores : Become(h, v(s))
      BY <2>6 DEF GradeSubmission
    <3>2. v(s).req = w.req
      BY <2>w, <2>0 DEF Busy
    <3> HIDE DEF v
    <3>3. QED
      BY <2>w, <3>1, <3>2, <1>b
  <2>7. CASE \/ StoreFeedback(h) \/ Fail(h) \/ ReleaseQuestion(h) \/ RejectSubmission(h)
             \/ ClearMessages(h)
    <3>1. Become(h, Idle)
      BY <2>7 DEF StoreFeedback, Fail, Abandon, ReleaseQuestion, RejectSubmission,
                  ClearMessages
    <3>2. QED
      BY <3>1, <1>i
  <2>8. QED
    BY <2>1, <2>2, <2>3, <2>4, <2>5, <2>6, <2>7 DEF Work
<1>3. ASSUME NEW h \in Handlers, RaiseError(h) \/ DropRequest(h)
      PROVE  Goal
  BY <1>3, <1>i DEF RaiseError, DropRequest, Abandon
<1>4. CASE Restart
  BY <1>4 DEF Restart, Idle
<1>5. CASE UNCHANGED vars
  BY <1>5, <1>a DEF vars
<1>6. QED
  BY <1>1, <1>2, <1>3, <1>4, <1>5 DEF Next

LEMMA SendsGrow ==
  ASSUME TypeInv, [Next]_vars, NEW r \in Requests
  PROVE  sends[r] \in Nat /\ sends'[r] \in Nat /\ sends'[r] >= sends[r]
<1>1. sends \in [Requests -> Nat]
  BY DEF TypeInv, Wire
<1>2. ASSUME NEW h \in Handlers, Receive(h)
      PROVE  \E k \in Requests : sends' = [sends EXCEPT ![k] = @ + 1]
  BY <1>2 DEF Receive, ReceiveTurn, ReceiveSubmission, ReceiveClear, Deliver
<1>3. ASSUME NEW h \in Handlers, Work(h)
      PROVE  UNCHANGED sends
  BY <1>3 DEF Work, InsertTurn, LoadSession, Respond, Converse, ChangeModule, GenerateQuiz,
     GradeAnswer, RecordGrade, EnterSubmission, RecordAttempt, FinishTurn, StoreFeedback,
     Fail, Abandon, GradeSubmission, CheckActive, ReleaseQuestion, RejectSubmission,
     ClearMessages
<1>4. ASSUME NEW h \in Handlers, RaiseError(h) \/ DropRequest(h)
      PROVE  UNCHANGED sends
  BY <1>4 DEF RaiseError, DropRequest, Abandon
<1>5. ASSUME Restart \/ UNCHANGED vars
      PROVE  UNCHANGED sends
  BY <1>5 DEF Restart, vars
<1>6. UNCHANGED sends \/ \E k \in Requests : sends' = [sends EXCEPT ![k] = @ + 1]
  BY <1>2, <1>3, <1>4, <1>5 DEF Next
<1>7. QED
  BY <1>1, <1>6

\* No two handlers work on one request.
NoTwins ==
    \A g, h \in Handlers :
        Working(g) /\ Working(h) /\ handlers[g].req = handlers[h].req => g = h

OnceEach == MaxSends <= 1

TwinInv ==
    /\ \A h \in Handlers : Working(h) => sends[handlers[h].req] >= 1
    /\ NoTwins

LEMMA TwinInit == Init => TwinInv
  BY DEF Init, TwinInv, NoTwins, Working, At, Idle

LEMMA TwinStep ==
  ASSUME Serial \/ OnceEach, TypeInv, TwinInv, [Next]_vars
  PROVE  TwinInv'
<1>1. ASSUME NEW k \in Handlers, handlers'[k].step # "idle"
      PROVE  sends'[handlers'[k].req] >= 1
  <2>1. CASE Working(k) /\ handlers'[k].req = handlers[k].req
    <3>1. handlers[k].req \in Requests /\ sends[handlers[k].req] >= 1
      BY <2>1, BusyHandler DEF TwinInv, Working
    <3>2. QED
      BY <2>1, <3>1, SendsGrow
  <2>2. CASE /\ handlers'[k].req \in Requests
             /\ sends'[handlers'[k].req] = sends[handlers'[k].req] + 1
    BY <2>2, SendsGrow
  <2>3. QED
    BY <1>1, <2>1, <2>2, RequestStep
<1>2. ASSUME NEW g \in Handlers, NEW h \in Handlers, handlers'[g].step # "idle",
             handlers'[h].step # "idle", handlers'[g].req = handlers'[h].req, g # h
      PROVE  FALSE
  <2>0. OnceEach
    BY <1>2 DEF Serial
  \* Who has just started holds a request nobody can have had before.
  <2>1. ASSUME NEW k \in Handlers, NEW o \in Handlers, k # o,
               handlers'[k].req \in Requests,
               sends[handlers'[k].req] < MaxSends,
               \A i \in Handlers \ {k} : handlers'[i] = handlers[i],
               handlers'[o].step # "idle", handlers'[o].req = handlers'[k].req
        PROVE  FALSE
    <3>1. handlers'[o] = handlers[o] /\ Working(o)
      BY <2>1 DEF Working, At
    <3>2. sends[handlers'[k].req] >= 1
      BY <2>1, <3>1 DEF TwinInv
    <3>3. sends[handlers'[k].req] \in Nat /\ MaxSends \in Nat
      BY <2>1, TurnAssumption DEF TypeInv, Wire
    <3>4. QED
      BY <2>0, <2>1, <3>2, <3>3 DEF OnceEach
  <2>2. Working(g) /\ handlers'[g].req = handlers[g].req
    BY <1>2, <2>1, RequestStep
  <2>3. Working(h) /\ handlers'[h].req = handlers[h].req
    BY <1>2, <2>1, RequestStep
  <2>4. QED
    BY <1>2, <2>2, <2>3 DEF TwinInv, NoTwins
<1>3. QED
  BY <1>1, <1>2 DEF TwinInv, NoTwins, Working, At

LEMMA TwinInvariant ==
  ASSUME Serial \/ OnceEach
  PROVE  Spec => []TwinInv
<1>1. TypeInv /\ TwinInv /\ [Next]_vars => TwinInv'
  BY TwinStep
<1>2. QED
  BY <1>1, TwinInit, TypeInvariant, PTL DEF Spec

-----------------------------------------------------------------------------
(* The stored turns                                                         *)

\* The steps before the turn is stored.
Pending == {"insert", "load", "ready", "record", "finish"}

\* The four ways in which the handler of a turn changes its row.
Plans(h) ==
    LET r == handlers[h].req IN
    /\ At(h, "insert")
    /\ turns[r].status = "none"
    /\ turns'[r] = [turns[r] EXCEPT !.status = "planned"]

Completes(h) ==
    LET r == handlers[h].req IN
    /\ At(h, "finish")
    /\ handlers'[h].step \notin Pending
    /\ turns'[r] = [status |-> "completed", verdict |-> Graded(handlers[h]),
                    commits |-> turns[r].commits + 1]

Rewrites(h) ==
    LET r == handlers[h].req IN
    /\ At(h, "feedback")
    /\ handlers'[h].step = "idle"
    /\ turns'[r] = [turns[r] EXCEPT !.verdict = handlers[h].quiz]

Fails(h) ==
    LET r == handlers[h].req IN
    /\ \/ handlers[h].step \in Pending
       \/ At(h, "feedback") /\ errors < MaxErrors /\ errors' = errors + 1
    /\ handlers'[h].step = "idle"
    /\ turns'[r] = [turns[r] EXCEPT !.status = "failed"]

LEMMA AbandonIs ==
  ASSUME TypeInv, NEW h \in Handlers, Working(h), Abandon(h)
  PROVE  /\ handlers'[h].step = "idle"
         /\ turns'[handlers[h].req] = [turns[handlers[h].req] EXCEPT !.status = "failed"]
         /\ \A r \in Requests \ {handlers[h].req} : turns'[r] = turns[r]
<1>1. handlers[h].req \in Requests /\ turns \in [Requests -> TurnRow]
  BY BusyHandler DEF Working, TypeInv, Tables
<1>2. handlers'[h] = Idle
  BY HandlerBecomes DEF Abandon
<1>3. QED
  BY <1>1, <1>2, IdleStep DEF Abandon

LEMMA TurnsChange ==
  ASSUME TypeInv, [Next]_vars
  PROVE  \/ UNCHANGED turns
         \/ \E h \in Handlers :
              /\ Working(h)
              /\ \A r \in Requests \ {handlers[h].req} : turns'[r] = turns[r]
              /\ Plans(h) \/ Completes(h) \/ Rewrites(h) \/ Fails(h)
<1> DEFINE Goal ==
      \/ UNCHANGED turns
      \/ \E h \in Handlers :
           /\ Working(h)
           /\ \A r \in Requests \ {handlers[h].req} : turns'[r] = turns[r]
           /\ Plans(h) \/ Completes(h) \/ Rewrites(h) \/ Fails(h)
<1>t. turns \in [Requests -> TurnRow]
  BY DEF TypeInv, Tables
<1>w. ASSUME NEW h \in Handlers, Working(h)
      PROVE  handlers[h] \in Busy /\ handlers[h].req \in Requests
  BY <1>w, BusyHandler DEF Working
<1>f. ASSUME NEW h \in Handlers, Working(h), Abandon(h),
             \/ handlers[h].step \in Pending
             \/ At(h, "feedback") /\ errors < MaxErrors /\ errors' = errors + 1
      PROVE  Goal
  BY <1>f, AbandonIs DEF Fails
<1>1. ASSUME NEW h \in Handlers, Receive(h)
      PROVE  Goal
  BY <1>1 DEF Receive, ReceiveTurn, ReceiveSubmission, ReceiveClear
<1>2. ASSUME NEW h \in Handlers, Work(h)
      PROVE  Goal
  <2> USE <1>2
  <2> DEFINE r == handlers[h].req
  <2>1. CASE InsertTurn(h)
    <3>1. Working(h)
      BY <2>1 DEF InsertTurn, Working, At
    <3>2. CASE turns[r].status = "none"
      <4>1. turns' = [turns EXCEPT ![r].status = "planned"] /\ At(h, "insert")
        BY <2>1, <3>2 DEF InsertTurn
      <4>2. /\ \A k \in Requests \ {r} : turns'[k] = turns[k]
            /\ turns'[r] = [turns[r] EXCEPT !.status = "planned"]
        BY <1>t, <1>w, <3>1, <4>1
      <4>3. QED
        BY <3>1, <3>2, <4>1, <4>2 DEF Plans
    <3>3. CASE turns[r].status # "none"
      BY <2>1, <3>3 DEF InsertTurn
    <3>4. QED
      BY <3>2, <3>3
  <2>2. CASE FinishTurn(h)
    <3> DEFINE t == [status |-> "completed", verdict |-> Graded(handlers[h]),
                     commits |-> turns[r].commits + 1]
    <3>1. Working(h) /\ At(h, "finish") /\ turns' = [turns EXCEPT ![r] = t]
      BY <2>2 DEF FinishTurn, Working, At
    <3>2. /\ \A k \in Requests \ {r} : turns'[k] = turns[k]
          /\ turns'[r] = t
      BY <1>t, <1>w, <3>1
    <3>3. handlers'[h].step \notin Pending
      <4>1. CASE Goto(h, "feedback")
        <5>1. Become(h, [handlers[h] EXCEPT !.step = "feedback"])
          BY <4>1 DEF Goto, Become
        <5>2. handlers'[h].step = "feedback"
          BY <1>w, <3>1, <5>1, HandlerBecomes DEF Busy
        <5>3. QED
          BY <5>2 DEF Pending
      <4>2. CASE Become(h, Idle)
        BY <4>2, HandlerBecomes DEF Idle, Pending
      <4>3. QED
        BY <2>2, <4>1, <4>2 DEF FinishTurn
    <3>4. QED
      BY <3>1, <3>2, <3>3 DEF Completes
  <2>3. CASE StoreFeedback(h)
    <3>1. /\ Working(h) /\ At(h, "feedback") /\ Become(h, Idle)
          /\ turns' = [turns EXCEPT ![r].verdict = handlers[h].quiz]
      BY <2>3 DEF StoreFeedback, Working, At
    <3>2. /\ \A k \in Requests \ {r} : turns'[k] = turns[k]
          /\ turns'[r] = [turns[r] EXCEPT !.verdict = handlers[h].quiz]
      BY <1>t, <1>w, <3>1
    <3>3. handlers'[h].step = "idle"
      BY <3>1, HandlerBecomes DEF Idle
    <3>4. QED
      BY <3>1, <3>2, <3>3 DEF Rewrites
  <2>4. CASE Fail(h)
    <3>1. handlers[h].step \in Pending
      BY <2>4 DEF Fail, At, Pending
    <3>2. Working(h)
      BY <3>1 DEF Working, At, Pending
    <3>3. Abandon(h)
      BY <2>4 DEF Fail
    <3>4. QED
      BY <3>1, <3>2, <3>3, <1>f
  <2>5. ASSUME ~InsertTurn(h), ~FinishTurn(h), ~StoreFeedback(h), ~Fail(h)
        PROVE  UNCHANGED turns
    BY <2>5 DEF Work, LoadSession, Respond, Converse, ChangeModule, GenerateQuiz,
       GradeAnswer, RecordGrade, EnterSubmission, RecordAttempt, GradeSubmission,
       CheckActive, ReleaseQuestion, RejectSubmission, ClearMessages
  <2>6. QED
    BY <2>1, <2>2, <2>3, <2>4, <2>5
<1>3. ASSUME NEW h \in Handlers, RaiseError(h)
      PROVE  Goal
  <2>1. /\ Working(h) /\ Abandon(h) /\ errors < MaxErrors /\ errors' = errors + 1
        /\ handlers[h].step \in Pending \/ At(h, "feedback")
    BY <1>3 DEF RaiseError, Working, At, Pending
  <2>2. QED
    BY <2>1, <1>f
<1>4. ASSUME NEW h \in Handlers, DropRequest(h)
      PROVE  Goal
  BY <1>4 DEF DropRequest
<1>5. ASSUME Restart \/ UNCHANGED vars
      PROVE  UNCHANGED turns
  BY <1>5 DEF Restart, vars
<1>6. QED
  BY <1>1, <1>2, <1>3, <1>4, <1>5 DEF Next

\* A handler that has yet to store its turn had to already, or was given the
\* turn just now, and not as a completed one; one that writes the feedback has
\* just stored the turn.
LEMMA PhaseStep ==
  ASSUME TypeInv, [Next]_vars, NEW k \in Handlers
  PROVE  /\ handlers'[k].step \in Pending =>
              \/ handlers[k].step \in Pending /\ handlers'[k].req = handlers[k].req
              \/ /\ handlers'[k].req \in Requests
                 /\ sends[handlers'[k].req] < MaxSends
                 /\ turns[handlers'[k].req].status # "completed"
                 /\ UNCHANGED turns
         /\ handlers'[k].step = "feedback" =>
              \/ handlers'[k] = handlers[k]
              \/ /\ At(k, "finish") /\ Completes(k)
                 /\ handlers'[k].req = handlers[k].req
                 /\ handlers'[k].quiz = handlers[k].quiz
                 /\ handlers[k].action = "grade"
<1> DEFINE Goal ==
      /\ handlers'[k].step \in Pending =>
              \/ handlers[k].step \in Pending /\ handlers'[k].req = handlers[k].req
              \/ /\ handlers'[k].req \in Requests
                 /\ sends[handlers'[k].req] < MaxSends
                 /\ turns[handlers'[k].req].status # "completed"
                 /\ UNCHANGED turns
      /\ handlers'[k].step = "feedback" =>
              \/ handlers'[k] = handlers[k]
              \/ /\ At(k, "finish") /\ Completes(k)
                 /\ handlers'[k].req = handlers[k].req
                 /\ handlers'[k].quiz = handlers[k].quiz
                 /\ handlers[k].action = "grade"
<1>a. ASSUME handlers'[k] = handlers[k]
      PROVE  Goal
  BY <1>a
\* What becomes of a handler that neither starts nor stores a turn.
<1>b. ASSUME NEW h \in Handlers, NEW w, Become(h, w), w.step # "feedback",
             w.step \in Pending => handlers[h].step \in Pending /\ w.req = handlers[h].req
      PROVE  Goal
  BY <1>a, <1>b, HandlerBecomes
<1>c. ASSUME NEW h \in Handlers, Working(h), NEW step, Goto(h, step), step # "feedback",
             step \in Pending => handlers[h].step \in Pending
      PROVE  Goal
  <2>1. Become(h, [handlers[h] EXCEPT !.step = step])
    BY <1>c DEF Goto, Become
  <2>2. /\ [handlers[h] EXCEPT !.step = step].req = handlers[h].req
        /\ [handlers[h] EXCEPT !.step = step].step = step
    BY <1>c, BusyHandler DEF Working, Busy
  <2>3. QED
    BY <1>b, <1>c, <2>1, <2>2
<1>i. ASSUME NEW h \in Handlers, Become(h, Idle)
      PROVE  Goal
  <2>1. Idle.step \notin Pending /\ Idle.step # "feedback"
    BY DEF Idle, Pending
  <2>2. QED
    BY <1>b, <1>i, <2>1
<1>1. ASSUME NEW h \in Handlers, Receive(h)
      PROVE  Goal
  <2> PICK r \in Requests, in \in Inputs :
        \/ \E s \in Sessions : ReceiveTurn(h, r, s, in)
        \/ \E s \in Sessions \cup {NoSession} : ReceiveSubmission(h, r, s, in)
        \/ \E s \in Sessions : ReceiveClear(h, r, s, in)
    BY <1>1 DEF Receive
  <2>1. ASSUME NEW s \in Sessions, ReceiveTurn(h, r, s, in)
        PROVE  Goal
    <3> DEFINE step == IF turns[r].status = "none" THEN "insert" ELSE "ready"
               w == Begin(r, step, Plan(in, sessions[s]), sessions[s])
    <3>1. CASE Replayable(r)
      BY <1>a, <2>1, <3>1 DEF ReceiveTurn
    <3>2. CASE ~Replayable(r)
      <4>1. /\ Become(h, w) /\ sends[r] < MaxSends /\ UNCHANGED turns
            /\ turns[r].status # "completed"
        BY <2>1, <3>2 DEF ReceiveTurn, Deliver, Replayable
      <4>2. w.req = r /\ w.step # "feedback"
        BY DEF Begin
      <4> HIDE DEF w
      <4>3. QED
        BY <1>a, <4>1, <4>2, HandlerBecomes
    <3>3. QED
      BY <3>1, <3>2
  <2>2. ASSUME NEW s \in Sessions \cup {NoSession}, ReceiveSubmission(h, r, s, in)
        PROVE  Goal
    <3> DEFINE row == IF s = NoSession THEN FreshSession ELSE sessions[s]
               w == [Begin(r, "submit", "grade", row) EXCEPT !.quiz = in.quiz]
    <3>1. w.step \notin Pending /\ w.step # "feedback"
      BY DEF Begin, Pending
    <3>2. UNCHANGED handlers \/ Become(h, w)
      BY <2>2 DEF ReceiveSubmission
    <3> HIDE DEF w
    <3>3. QED
      BY <1>a, <1>b, <3>1, <3>2
  <2>3. ASSUME NEW s \in Sessions, ReceiveClear(h, r, s, in)
        PROVE  Goal
    <3> DEFINE w == [Begin(r, "wipe", "respond", sessions[s]) EXCEPT
                        !.new = [sessions[s] EXCEPT !.active = NoQuiz, !.echo = "E"]]
    <3>1. w.step \notin Pending /\ w.step # "feedback"
      BY DEF Begin, Pending
    <3>2. Become(h, w)
      BY <2>3 DEF ReceiveClear
    <3> HIDE DEF w
    <3>3. QED
      BY <1>b, <3>1, <3>2
  <2>4. QED
    BY <2>1, <2>2, <2>3
<1>2. ASSUME NEW h \in Handlers, Work(h)
      PROVE  Goal
  <2> USE <1>2
  <2> DEFINE w == handlers[h]
  <2>0. ASSUME Working(h)
        PROVE  w \in Busy
    BY <2>0, BusyHandler DEF Working
  <2>w. Working(h)
    BY DEF Work, InsertTurn, LoadSession, Respond, Converse, ChangeModule, GenerateQuiz,
       GradeAnswer, RecordGrade, EnterSubmission, FinishTurn, StoreFeedback,
       Fail, GradeSubmission, CheckActive, ReleaseQuestion, RejectSubmission,
       ClearMessages, Working, At
  <2>1. CASE InsertTurn(h) \/ Respond(h) \/ CheckActive(h)
    BY <2>1, <2>w, <1>i, <1>c DEF InsertTurn, Respond, CheckActive, Pending, At
  <2>2. CASE LoadSession(h) \/ Converse(h) \/ ChangeModule(h)
    BY <2>2, <2>w, <2>0, <1>b DEF LoadSession, Converse, ChangeModule, Busy, Pending, At
  <2>3. CASE GenerateQuiz(h)
    <3>1. w.step \in Pending
      BY <2>3 DEF GenerateQuiz, Pending, At
    <3>2. CASE Goto(h, "finish")
      BY <2>w, <3>1, <3>2, <1>c
    <3>3. CASE \E q : Become(h, [w EXCEPT !.step = "finish", !.quiz = q,
                      !.new.active = q, !.seen = ability[w.row.module]])
      BY <2>w, <2>0, <3>1, <3>3, <1>b DEF Busy
    <3>4. QED
      BY <2>3, <3>2, <3>3 DEF GenerateQuiz
  <2>4. CASE GradeAnswer(h)
    <3> DEFINE q == w.row.active
               step == IF Recorded(w.req) THEN "finish" ELSE "record"
               v(s) == [w EXCEPT !.step = step, !.quiz = q, !.score = s,
                                 !.new.active = NoQuiz, !.seen = Seen(ModuleOf[q])]
    <3>1. PICK s \in Scores : Become(h, v(s))
      BY <2>4 DEF GradeAnswer
    <3>2. v(s).req = w.req /\ v(s).step # "feedback" /\ w.step \in Pending
      BY <2>4, <2>w, <2>0 DEF Busy, GradeAnswer, At, Pending
    <3> HIDE DEF v
    <3>3. QED
      BY <3>1, <3>2, <1>b
  <2>5. CASE RecordGrade(h)
    <3> DEFINE v == [w EXCEPT !.step = "finish", !.updated = TRUE, !.seen = NoAbility]
    <3>1. Become(h, v) /\ w.step \in Pending
      BY <2>5 DEF RecordGrade, RecordAttempt, At, Pending
    <3>2. v.req = w.req /\ v.step = "finish"
      BY <2>w, <2>0 DEF Busy
    <3> HIDE DEF v
    <3>3. QED
      BY <3>1, <3>2, <1>b
  <2>6. CASE EnterSubmission(h)
    <3> DEFINE v == [w EXCEPT !.step = "check", !.updated = TRUE, !.seen = NoAbility]
    <3>1. Become(h, v)
      BY <2>6 DEF EnterSubmission, RecordAttempt
    <3>2. v.step = "check"
      BY <2>w, <2>0 DEF Busy
    <3> HIDE DEF v
    <3>3. QED
      BY <3>1, <3>2, <1>b DEF Pending
  <2>7. CASE GradeSubmission(h)
    <3> DEFINE step == IF Recorded(w.req) THEN "check" ELSE "enter"
               v(s) == [w EXCEPT !.step = step, !.score = s, !.seen = Seen(ModuleOf[w.quiz])]
    <3>1. PICK s \in Scores : Become(h, v(s))
      BY <2>7 DEF GradeSubmission
    <3>2. v(s).step = step
      BY <2>w, <2>0 DEF Busy
    <3> HIDE DEF v
    <3>3. QED
      BY <3>1, <3>2, <1>b DEF Pending
  <2>8. CASE FinishTurn(h)
    <3>1. CASE Become(h, Idle)
      BY <3>1, <1>i
    <3>2. CASE WantsFeedback(w) /\ Goto(h, "feedback")
      <4> DEFINE v == [w EXCEPT !.step = "feedback"]
      <4>1. Become(h, v)
        BY <3>2 DEF Goto, Become
      <4>2. v.req = w.req /\ v.quiz = w.quiz /\ v.step = "feedback" /\ w.action = "grade"
        BY <2>w, <2>0, <3>2 DEF Busy, WantsFeedback
      <4> HIDE DEF v
      <4>3. v.step \notin Pending
        BY <4>2 DEF Pending
      <4>4. handlers'[h] = v
        BY <4>1, HandlerBecomes
      <4>5. Completes(h)
        <5>1. w.req \in Requests /\ turns \in [Requests -> TurnRow]
          BY <2>w, BusyHandler DEF Working, TypeInv, Tables
        <5>2. QED
          BY <2>8, <4>3, <4>4, <5>1 DEF FinishTurn, Completes
      <4>6. CASE h = k
        BY <2>8, <4>2, <4>3, <4>4, <4>5, <4>6 DEF FinishTurn
      <4>7. CASE h # k
        BY <1>a, <4>1, <4>7, HandlerBecomes
      <4>8. QED
        BY <4>6, <4>7
    <3>3. QED
      BY <2>8, <3>1, <3>2 DEF FinishTurn
  <2>9. CASE \/ StoreFeedback(h) \/ Fail(h) \/ ReleaseQuestion(h) \/ RejectSubmission(h)
             \/ ClearMessages(h)
    <3>1. Become(h, Idle)
      BY <2>9 DEF StoreFeedback, Fail, Abandon, ReleaseQuestion, RejectSubmission,
                  ClearMessages
    <3>2. QED
      BY <3>1, <1>i
  <2>10. QED
    BY <2>1, <2>2, <2>3, <2>4, <2>5, <2>6, <2>7, <2>8, <2>9 DEF Work
<1>3. ASSUME NEW h \in Handlers, RaiseError(h) \/ DropRequest(h)
      PROVE  Goal
  BY <1>3, <1>i DEF RaiseError, DropRequest, Abandon
<1>4. CASE Restart
  BY <1>4 DEF Restart, Idle, Pending
<1>5. CASE UNCHANGED vars
  BY <1>5, <1>a DEF vars
<1>6. QED
  BY <1>1, <1>2, <1>3, <1>4, <1>5 DEF Next

\* What is stored once stays stored; a turn that is not stored left nothing.
CommitInv ==
    /\ \A r \in Requests :
         /\ turns[r].commits <= 1
         /\ sends[r] < MaxSends /\ turns[r].status # "completed" => turns[r].commits = 0
    /\ \A h \in Handlers : handlers[h].step \in Pending =>
         /\ turns[handlers[h].req].status # "completed"
         /\ turns[handlers[h].req].commits = 0
    /\ \A h \in Handlers : At(h, "feedback") =>
         /\ turns[handlers[h].req].status = "completed"
         /\ turns[handlers[h].req].verdict = handlers[h].quiz

LEMMA CommitInit == Init => CommitInv
<1> SUFFICES ASSUME Init
             PROVE  CommitInv
  OBVIOUS
<1>1. \A r \in Requests : turns[r].commits = 0
  BY DEF Init
<1>2. \A h \in Handlers : handlers[h].step \notin Pending /\ ~At(h, "feedback")
  BY DEF Init, Idle, Pending, At
<1>3. QED
  BY <1>1, <1>2 DEF CommitInv

LEMMA PendingWorks ==
  ASSUME TypeInv, NEW h \in Handlers, handlers[h].step \in Pending \/ At(h, "feedback")
  PROVE  /\ Working(h) /\ handlers[h].req \in Requests
         /\ turns[handlers[h].req] \in TurnRow
<1>1. Working(h)
  BY DEF Working, At, Pending
<1>2. handlers[h].req \in Requests
  BY <1>1, BusyHandler DEF Working
<1>3. QED
  BY <1>1, <1>2 DEF TypeInv, Tables

\* The row of the turn that a handler works on is written by that handler alone.
LEMMA RowAfter ==
  ASSUME TypeInv, TwinInv, NEW h \in Handlers, Working(h),
         \A r \in Requests \ {handlers[h].req} : turns'[r] = turns[r],
         NEW k \in Handlers \ {h}, Working(k)
  PROVE  turns'[handlers[k].req] = turns[handlers[k].req]
<1>1. handlers[k].req # handlers[h].req
  BY DEF TwinInv, NoTwins
<1>2. handlers[k].req \in Requests
  BY BusyHandler DEF Working
<1>3. QED
  BY <1>1, <1>2

LEMMA CommitStep ==
  ASSUME OnceEach \/ (Serial /\ MaxErrors = 0), TypeInv, TwinInv, CommitInv, [Next]_vars
  PROVE  CommitInv'
<1>t. turns \in [Requests -> TurnRow] /\ errors \in Nat /\ MaxSends \in Nat
  BY TurnAssumption DEF TypeInv, Tables, Wire
\* What a handler does to its own turn.
<1>1. ASSUME NEW h \in Handlers, Working(h),
             Plans(h) \/ Completes(h) \/ Rewrites(h) \/ Fails(h)
      PROVE  LET r == handlers[h].req IN
             /\ turns'[r].commits <= 1
             /\ sends[r] < MaxSends /\ turns'[r].status # "completed" =>
                  turns'[r].commits = 0
             /\ handlers'[h].step \in Pending =>
                  turns'[r].status # "completed" /\ turns'[r].commits = 0
  <2> DEFINE r == handlers[h].req
  <2>0. r \in Requests /\ turns[r] \in TurnRow
    BY <1>t, <1>1, BusyHandler DEF Working
  <2>1. CASE Plans(h)
    <3>1. turns[r].status # "completed" /\ turns[r].commits = 0
      BY <2>1 DEF Plans, CommitInv, Pending, At
    <3>2. turns'[r].status = "planned" /\ turns'[r].commits = turns[r].commits
      BY <2>0, <2>1 DEF Plans, TurnRow
    <3>3. QED
      BY <3>1, <3>2
  <2>2. CASE Completes(h)
    <3>1. turns[r].commits = 0
      BY <2>2 DEF Completes, CommitInv, Pending, At
    <3>2. turns'[r].status = "completed" /\ turns'[r].commits = 1
      BY <2>2, <3>1 DEF Completes
    <3>3. handlers'[h].step \notin Pending
      BY <2>2 DEF Completes
    <3>4. QED
      BY <3>2, <3>3
  <2>3. CASE Rewrites(h)
    <3>1. turns'[r].status = turns[r].status /\ turns'[r].commits = turns[r].commits
      BY <2>0, <2>3 DEF Rewrites, TurnRow
    <3>2. handlers'[h].step \notin Pending
      BY <2>3 DEF Rewrites, Pending
    <3>3. QED
      BY <2>0, <3>1, <3>2 DEF CommitInv
  <2>4. CASE Fails(h)
    <3>1. turns'[r].status = "failed" /\ turns'[r].commits = turns[r].commits
      BY <2>0, <2>4 DEF Fails, TurnRow
    <3>2. handlers'[h].step \notin Pending
      BY <2>4 DEF Fails, Pending
    <3>3. CASE handlers[h].step \in Pending
      BY <3>1, <3>2, <3>3 DEF CommitInv
    <3>4. CASE At(h, "feedback") /\ errors < MaxErrors
      <4>1. MaxErrors # 0
        BY <1>t, <3>4
      <4>2. sends[r] >= 1 /\ sends[r] \in Nat
        BY <1>1, <2>0 DEF TwinInv, TypeInv, Wire
      <4>3. ~(sends[r] < MaxSends)
        BY <1>t, <4>1, <4>2 DEF OnceEach
      <4>4. QED
        BY <2>0, <3>1, <3>2, <4>3 DEF CommitInv
    <3>5. QED
      BY <2>4, <3>3, <3>4 DEF Fails
  <2>5. QED
    BY <1>1, <2>1, <2>2, <2>3, <2>4
<1>2. ASSUME NEW r \in Requests
      PROVE  /\ turns'[r].commits <= 1
             /\ sends'[r] < MaxSends /\ turns'[r].status # "completed" =>
                  turns'[r].commits = 0
  <2>1. sends'[r] < MaxSends => sends[r] < MaxSends
    BY <1>t, SendsGrow
  <2>2. CASE turns'[r] = turns[r]
    BY <2>1, <2>2 DEF CommitInv
  <2>3. CASE turns'[r] # turns[r]
    <3>1. PICK h \in Handlers : /\ Working(h) /\ r = handlers[h].req
                                /\ Plans(h) \/ Completes(h) \/ Rewrites(h) \/ Fails(h)
      BY <2>3, TurnsChange
    <3>2. QED
      BY <1>1, <2>1, <3>1
  <2>4. QED
    BY <2>2, <2>3
<1>3. ASSUME NEW k \in Handlers, handlers'[k].step \in Pending
      PROVE  /\ turns'[handlers'[k].req].status # "completed"
             /\ turns'[handlers'[k].req].commits = 0
  <2> DEFINE r == handlers'[k].req
  <2>1. CASE handlers[k].step \in Pending /\ r = handlers[k].req
    <3>1. Working(k) /\ turns[r].status # "completed" /\ turns[r].commits = 0
      BY <2>1, PendingWorks DEF CommitInv
    <3>2. CASE UNCHANGED turns
      BY <3>1, <3>2
    <3>3. ASSUME NEW h \in Handlers, Working(h),
                 \A q \in Requests \ {handlers[h].req} : turns'[q] = turns[q],
                 Plans(h) \/ Completes(h) \/ Rewrites(h) \/ Fails(h)
          PROVE  turns'[r].status # "completed" /\ turns'[r].commits = 0
      <4>1. CASE h = k
        BY <1>1, <1>3, <2>1, <3>3, <4>1
      <4>2. CASE h # k
        BY <2>1, <3>1, <3>3, <4>2, RowAfter
      <4>3. QED
        BY <4>1, <4>2
    <3>4. QED
      BY <3>2, <3>3, TurnsChange
  <2>2. CASE /\ r \in Requests /\ sends[r] < MaxSends
             /\ turns[r].status # "completed" /\ UNCHANGED turns
    BY <2>2 DEF CommitInv
  <2>3. QED
    BY <1>3, <2>1, <2>2, PhaseStep
<1>4. ASSUME NEW k \in Handlers, handlers'[k].step = "feedback"
      PROVE  /\ turns'[handlers'[k].req].status = "completed"
             /\ turns'[handlers'[k].req].verdict = handlers'[k].quiz
  <2> DEFINE r == handlers[k].req
  <2>1. CASE handlers'[k] = handlers[k]
    <3>1. At(k, "feedback") /\ Working(k)
      BY <1>4, <2>1 DEF At, Working
    <3>2. turns[r].status = "completed" /\ turns[r].verdict = handlers[k].quiz
      BY <3>1 DEF CommitInv
    <3>3. CASE UNCHANGED turns
      BY <2>1, <3>2, <3>3
    <3>4. ASSUME NEW h \in Handlers, Working(h),
                 \A q \in Requests \ {handlers[h].req} : turns'[q] = turns[q],
                 Plans(h) \/ Completes(h) \/ Rewrites(h) \/ Fails(h)
          PROVE  turns'[r] = turns[r]
      <4>1. h # k
        BY <1>4, <2>1, <3>1, <3>4 DEF Plans, Completes, Rewrites, Fails, At
      <4>2. QED
        BY <3>1, <3>4, <4>1, RowAfter
    <3>5. turns'[r] = turns[r]
      BY <3>4, TurnsChange
    <3>6. QED
      BY <2>1, <3>2, <3>5
  <2>2. CASE /\ Completes(k) /\ handlers'[k].req = r
             /\ handlers'[k].quiz = handlers[k].quiz
             /\ handlers[k].action = "grade"
    BY <2>2 DEF Completes, Graded
  <2>3. QED
    BY <1>4, <2>1, <2>2, PhaseStep
<1>5. QED
  BY <1>2, <1>3, <1>4 DEF CommitInv, At

LEMMA CommitInvariant ==
  ASSUME OnceEach \/ (Serial /\ MaxErrors = 0)
  PROVE  Spec => []CommitInv
<1>1. TypeInv /\ TwinInv /\ CommitInv /\ [Next]_vars => CommitInv'
  BY CommitStep
<1>2. Spec => []TwinInv
  BY TwinInvariant
<1>3. QED
  BY <1>1, <1>2, CommitInit, TypeInvariant, PTL DEF Spec

\* A request id leaves at most one pair of messages and one decision when no
\* request is delivered twice, or when requests do not overlap and none ends in
\* an exception from outside (chat, execute_turn).
THEOREM CommitsOnce ==
  ASSUME OnceEach \/ (Serial /\ MaxErrors = 0)
  PROVE  Spec => []OneCommitPerRequest
<1>1. CommitInv => OneCommitPerRequest
  BY DEF CommitInv, OneCommitPerRequest
<1>2. QED
  BY <1>1, CommitInvariant, PTL

-----------------------------------------------------------------------------
(* Verdicts                                                                 *)

\* The steps before the answer of a request is on record.
Unanswered == {"insert", "load", "ready", "record", "submit", "enter"}

Answers(hist, r, q) == \E i \in DOMAIN hist : hist[i].id = r /\ hist[i].quiz = q

\* Nobody takes up an answered request again, and who reports a verdict has
\* found the attempt on record or has just put it there.
LEMMA AnswerStep ==
  ASSUME TypeInv, [Next]_vars, NEW k \in Handlers
  PROVE  /\ handlers'[k].step \in Unanswered =>
              \/ handlers[k].step \in Unanswered /\ handlers'[k].req = handlers[k].req
              \/ /\ handlers'[k].req \in Requests
                 /\ sends[handlers'[k].req] < MaxSends
                 /\ UNCHANGED history
         /\ handlers'[k].step = "finish" /\ handlers'[k].action = "grade" =>
              \/ handlers'[k] = handlers[k]
              \/ At(k, "ready") /\ Recorded(handlers[k].req)
              \/ Answers(history', handlers'[k].req, handlers'[k].quiz)
<1> DEFINE Goal ==
      /\ handlers'[k].step \in Unanswered =>
              \/ handlers[k].step \in Unanswered /\ handlers'[k].req = handlers[k].req
              \/ /\ handlers'[k].req \in Requests
                 /\ sends[handlers'[k].req] < MaxSends
                 /\ UNCHANGED history
      /\ handlers'[k].step = "finish" /\ handlers'[k].action = "grade" =>
              \/ handlers'[k] = handlers[k]
              \/ At(k, "ready") /\ Recorded(handlers[k].req)
              \/ Answers(history', handlers'[k].req, handlers'[k].quiz)
<1>a. ASSUME handlers'[k] = handlers[k]
      PROVE  Goal
  BY <1>a
<1>b. ASSUME NEW h \in Handlers, NEW w, Become(h, w),
             w.step = "finish" => w.action # "grade",
             w.step \in Unanswered =>
               handlers[h].step \in Unanswered /\ w.req = handlers[h].req
      PROVE  Goal
  BY <1>a, <1>b, HandlerBecomes
<1>c. ASSUME NEW h \in Handlers, Working(h), NEW step, Goto(h, step),
             step = "finish" => handlers[h].action # "grade",
             step \in Unanswered => handlers[h].step \in Unanswered
      PROVE  Goal
  <2>1. Become(h, [handlers[h] EXCEPT !.step = step])
    BY <1>c DEF Goto, Become
  <2>2. /\ [handlers[h] EXCEPT !.step = step].req = handlers[h].req
        /\ [handlers[h] EXCEPT !.step = step].action = handlers[h].action
        /\ [handlers[h] EXCEPT !.step = step].step = step
    BY <1>c, BusyHandler DEF Working, Busy
  <2>3. QED
    BY <1>b, <1>c, <2>1, <2>2
<1>i. ASSUME NEW h \in Handlers, Become(h, Idle)
      PROVE  Goal
  <2>1. Idle.step \notin Unanswered /\ Idle.step # "finish"
    BY DEF Idle, Unanswered
  <2>2. QED
    BY <1>b, <1>i, <2>1
<1>1. ASSUME NEW h \in Handlers, Receive(h)
      PROVE  Goal
  <2> PICK r \in Requests, in \in Inputs :
        \/ \E s \in Sessions : ReceiveTurn(h, r, s, in)
        \/ \E s \in Sessions \cup {NoSession} : ReceiveSubmission(h, r, s, in)
        \/ \E s \in Sessions : ReceiveClear(h, r, s, in)
    BY <1>1 DEF Receive
  <2>1. sends[r] < MaxSends /\ UNCHANGED history
    BY DEF ReceiveTurn, ReceiveSubmission, ReceiveClear, Deliver
  <2>2. ASSUME NEW w, UNCHANGED handlers \/ Become(h, w), w.req = r, w.step # "finish"
        PROVE  Goal
    BY <1>a, <2>1, <2>2, HandlerBecomes
  <2>3. ASSUME NEW s \in Sessions, ReceiveTurn(h, r, s, in)
        PROVE  Goal
    <3> DEFINE step == IF turns[r].status = "none" THEN "insert" ELSE "ready"
               w == Begin(r, step, Plan(in, sessions[s]), sessions[s])
    <3>1. UNCHANGED handlers \/ Become(h, w)
      BY <2>3 DEF ReceiveTurn
    <3>2. w.req = r /\ w.step # "finish"
      BY DEF Begin
    <3> HIDE DEF w
    <3>3. QED
      BY <2>2, <3>1, <3>2
  <2>4. ASSUME NEW s \in Sessions \cup {NoSession}, ReceiveSubmission(h, r, s, in)
        PROVE  Goal
    <3> DEFINE row == IF s = NoSession THEN FreshSession ELSE sessions[s]
               w == [Begin(r, "submit", "grade", row) EXCEPT !.quiz = in.quiz]
    <3>1. UNCHANGED handlers \/ Become(h, w)
      BY <2>4 DEF ReceiveSubmission
    <3>2. w.req = r /\ w.step # "finish"
      BY DEF Begin
    <3> HIDE DEF w
    <3>3. QED
      BY <2>2, <3>1, <3>2
  <2>5. ASSUME NEW s \in Sessions, ReceiveClear(h, r, s, in)
        PROVE  Goal
    <3> DEFINE w == [Begin(r, "wipe", "respond", sessions[s]) EXCEPT
                        !.new = [sessions[s] EXCEPT !.active = NoQuiz, !.echo = "E"]]
    <3>1. Become(h, w)
      BY <2>5 DEF ReceiveClear
    <3>2. w.req = r /\ w.step # "finish"
      BY DEF Begin
    <3> HIDE DEF w
    <3>3. QED
      BY <2>2, <3>1, <3>2
  <2>6. QED
    BY <2>3, <2>4, <2>5
<1>2. ASSUME NEW h \in Handlers, Work(h)
      PROVE  Goal
  <2> USE <1>2
  <2> DEFINE w == handlers[h]
  <2>0. ASSUME Working(h)
        PROVE  w \in Busy
    BY <2>0, BusyHandler DEF Working
  <2>w. Working(h)
    BY DEF Work, InsertTurn, LoadSession, Respond, Converse, ChangeModule, GenerateQuiz,
       GradeAnswer, RecordGrade, EnterSubmission, FinishTurn, StoreFeedback,
       Fail, GradeSubmission, CheckActive, ReleaseQuestion, RejectSubmission,
       ClearMessages, Working, At
  <2>1. CASE InsertTurn(h) \/ Respond(h) \/ CheckActive(h) \/ FinishTurn(h)
    BY <2>1, <2>w, <1>i, <1>c
       DEF InsertTurn, Respond, CheckActive, FinishTurn, Unanswered, At
  <2>2. CASE LoadSession(h) \/ Converse(h) \/ ChangeModule(h)
    BY <2>2, <2>w, <2>0, <1>b DEF LoadSession, Converse, ChangeModule, Busy, Unanswered, At
  <2>3. CASE GenerateQuiz(h)
    <3>1. w.action = "generate"
      BY <2>3 DEF GenerateQuiz
    <3>2. CASE Goto(h, "finish")
      BY <2>w, <3>1, <3>2, <1>c DEF Unanswered
    <3>3. ASSUME NEW q, Become(h, [w EXCEPT !.step = "finish", !.quiz = q,
                      !.new.active = q, !.seen = ability[w.row.module]])
          PROVE  Goal
      <4> DEFINE v == [w EXCEPT !.step = "finish", !.quiz = q,
                      !.new.active = q, !.seen = ability[w.row.module]]
      <4>1. v.step = "finish" /\ v.action = "generate"
        BY <2>w, <2>0, <3>1 DEF Busy
      <4> HIDE DEF v
      <4>2. v.step \notin Unanswered /\ v.action # "grade"
        BY <4>1 DEF Unanswered
      <4>3. Become(h, v)
        BY <3>3 DEF v
      <4>4. QED
        BY <1>b, <4>2, <4>3
    <3>4. QED
      BY <2>3, <3>2, <3>3 DEF GenerateQuiz
  <2>4. CASE GradeAnswer(h)
    <3> DEFINE q == w.row.active
               step == IF Recorded(w.req) THEN "finish" ELSE "record"
               v(s) == [w EXCEPT !.step = step, !.quiz = q, !.score = s,
                                 !.new.active = NoQuiz, !.seen = Seen(ModuleOf[q])]
    <3>1. PICK s \in Scores : Become(h, v(s))
      BY <2>4 DEF GradeAnswer
    <3>2. v(s).req = w.req /\ v(s).step = step /\ At(h, "ready") /\ w.step \in Unanswered
      BY <2>4, <2>w, <2>0 DEF Busy, GradeAnswer, At, Unanswered
    <3> HIDE DEF v
    <3>3. v(s).step = "finish" => Recorded(w.req)
      BY <3>2
    <3>4. QED
      BY <1>a, <3>1, <3>2, <3>3, HandlerBecomes
  <2>5. CASE RecordGrade(h)
    <3> DEFINE v == [w EXCEPT !.step = "finish", !.updated = TRUE, !.seen = NoAbility]
               e == [id |-> w.req, quiz |-> w.quiz, score |-> w.score]
    <3>1. Become(h, v) /\ history' = Append(history, e) /\ w.step \in Waiting
      BY <2>5 DEF RecordGrade, RecordAttempt, At, Waiting
    <3>2. v.req = w.req /\ v.quiz = w.quiz /\ v.step = "finish"
      BY <2>w, <2>0 DEF Busy
    <3>3. e \in Attempt /\ history \in Seq(Attempt)
      BY <3>1, WaitingType DEF TypeInv, Tables
    <3>4. Len(history) + 1 \in DOMAIN history' /\ history'[Len(history) + 1] = e
      BY <3>1, <3>3
    <3>5. Answers(history', w.req, w.quiz)
      BY <3>4 DEF Answers
    <3> HIDE DEF v, e
    <3>6. v.step \notin Unanswered
      BY <3>2 DEF Unanswered
    <3>7. QED
      BY <1>a, <3>1, <3>2, <3>5, <3>6, HandlerBecomes
  <2>6. CASE EnterSubmission(h)
    <3> DEFINE v == [w EXCEPT !.step = "check", !.updated = TRUE, !.seen = NoAbility]
    <3>1. Become(h, v)
      BY <2>6 DEF EnterSubmission, RecordAttempt
    <3>2. v.step = "check"
      BY <2>w, <2>0 DEF Busy
    <3> HIDE DEF v
    <3>3. QED
      BY <3>1, <3>2, <1>b DEF Unanswered
  <2>7. CASE GradeSubmission(h)
    <3> DEFINE step == IF Recorded(w.req) THEN "check" ELSE "enter"
               v(s) == [w EXCEPT !.step = step, !.score = s, !.seen = Seen(ModuleOf[w.quiz])]
    <3>1. PICK s \in Scores : Become(h, v(s))
      BY <2>7 DEF GradeSubmission
    <3>2. v(s).step # "finish" /\ v(s).req = w.req /\ w.step \in Unanswered
      BY <2>7, <2>w, <2>0 DEF Busy, GradeSubmission, At, Unanswered
    <3> HIDE DEF v
    <3>3. QED
      BY <3>1, <3>2, <1>b
  <2>8. CASE \/ StoreFeedback(h) \/ Fail(h) \/ ReleaseQuestion(h) \/ RejectSubmission(h)
             \/ ClearMessages(h)
    <3>1. Become(h, Idle)
      BY <2>8 DEF StoreFeedback, Fail, Abandon, ReleaseQuestion, RejectSubmission,
                  ClearMessages
    <3>2. QED
      BY <3>1, <1>i
  <2>9. QED
    BY <2>1, <2>2, <2>3, <2>4, <2>5, <2>6, <2>7, <2>8 DEF Work
<1>3. ASSUME NEW h \in Handlers, RaiseError(h) \/ DropRequest(h)
      PROVE  Goal
  BY <1>3, <1>i DEF RaiseError, DropRequest, Abandon
<1>4. CASE Restart
  BY <1>4 DEF Restart, Idle, Unanswered
<1>5. CASE UNCHANGED vars
  BY <1>5, <1>a DEF vars
<1>6. QED
  BY <1>1, <1>2, <1>3, <1>4, <1>5 DEF Next

\* A request that is in flight has not been answered before it records its
\* answer, and reports a verdict only afterwards.
VerdictInv ==
    /\ \A r \in Requests : Recorded(r) => sends[r] >= 1
    /\ \A h \in Handlers :
         handlers[h].step \in Unanswered => ~Recorded(handlers[h].req)
    /\ \A h \in Handlers :
         At(h, "feedback") \/ (At(h, "finish") /\ handlers[h].action = "grade") =>
             Answers(history, handlers[h].req, handlers[h].quiz)
    /\ \A r \in Requests :
         turns[r].verdict # NoQuiz => Answers(history, r, turns[r].verdict)

LEMMA VerdictInit == Init => VerdictInv
<1> SUFFICES ASSUME Init
             PROVE  VerdictInv
  OBVIOUS
<1>1. \A r \in Requests : turns[r].verdict = NoQuiz /\ ~Recorded(r)
  BY DEF Init, Recorded
<1>2. \A h \in Handlers : /\ handlers[h].step \notin Unanswered
                          /\ ~At(h, "feedback") /\ ~At(h, "finish")
  BY DEF Init, Idle, Unanswered, At
<1>3. QED
  BY <1>1, <1>2 DEF VerdictInv

LEMMA AnswersKept ==
  ASSUME TypeInv, [Next]_vars, NEW r, NEW q, Answers(history, r, q)
  PROVE  Answers(history', r, q)
<1>1. history \in Seq(Attempt)
  BY DEF TypeInv, Tables
<1>2. CASE UNCHANGED history
  BY <1>2
<1>3. ASSUME NEW e \in Attempt, history' = Append(history, e)
      PROVE  Answers(history', r, q)
  <2>1. PICK i \in DOMAIN history : history[i].id = r /\ history[i].quiz = q
    BY DEF Answers
  <2>2. i \in DOMAIN history' /\ history'[i] = history[i]
    BY <1>1, <1>3
  <2>3. QED
    BY <2>1, <2>2 DEF Answers
<1>4. QED
  BY <1>2, <1>3, HistoryGrows

\* A request is put on record by the handler that works on it.
LEMMA NewlyRecorded ==
  ASSUME TypeInv, [Next]_vars, NEW r, ~Recorded(r),
         NEW i \in DOMAIN history', history'[i].id = r
  PROVE  \E h \in Handlers : /\ Working(h) /\ handlers[h].req = r
                             /\ handlers'[h].step \in {"finish", "check"}
                             /\ UNCHANGED sends
<1>1. history # history'
  BY DEF Recorded
<1>2. PICK h \in Handlers : /\ handlers[h].step \in Waiting
                            /\ handlers'[h].step \in {"finish", "check"}
                            /\ \E next : RecordAttempt(h, next)
  BY <1>1, HistoryStep
<1> DEFINE w == handlers[h]
           e == [id |-> w.req, quiz |-> w.quiz, score |-> w.score]
           n == Len(history)
<1>3. history' = Append(history, e) /\ e \in Attempt /\ e.id = w.req /\ UNCHANGED sends
  BY <1>2, WaitingType DEF RecordAttempt
<1>4. n \in Nat /\ DOMAIN history = 1 .. n /\ history \in Seq(Attempt)
  BY TypeInvImplies, EntryType DEF TypeOK
<1> HIDE DEF e
<1>5. history'[n + 1] = e /\ DOMAIN history' = 1 .. n + 1
        /\ \A j \in 1 .. n : history'[j] = history[j]
  BY <1>3, <1>4
<1>6. i = n + 1
  BY <1>4, <1>5 DEF Recorded
<1>7. w.req = r /\ Working(h)
  BY <1>2, <1>3, <1>5, <1>6 DEF Working, At, Waiting
<1>8. QED
  BY <1>2, <1>3, <1>7

LEMMA VerdictStep ==
  ASSUME OnceEach, TypeInv, TwinInv, VerdictInv, [Next]_vars
  PROVE  VerdictInv'
<1> DEFINE RecordedNow(r) == \E i \in DOMAIN history' : history'[i].id = r
<1>1. ASSUME NEW r \in Requests, RecordedNow(r)
      PROVE  sends'[r] >= 1
  <2>1. sends[r] >= 1
    <3>1. CASE Recorded(r)
      BY <3>1 DEF VerdictInv
    <3>2. CASE ~Recorded(r)
      BY <1>1, <3>2, NewlyRecorded DEF TwinInv
    <3>3. QED
      BY <3>1, <3>2
  <2>2. QED
    BY <2>1, SendsGrow
<1>2. ASSUME NEW k \in Handlers, handlers'[k].step \in Unanswered,
             RecordedNow(handlers'[k].req)
      PROVE  FALSE
  <2>1. CASE handlers[k].step \in Unanswered /\ handlers'[k].req = handlers[k].req
    <3>1. ~Recorded(handlers[k].req) /\ Working(k)
      BY <2>1 DEF VerdictInv, Working, At, Unanswered
    <3>2. PICK h \in Handlers : /\ Working(h) /\ handlers[h].req = handlers[k].req
                                /\ handlers'[h].step \in {"finish", "check"}
      BY <1>2, <2>1, <3>1, NewlyRecorded
    <3>3. h = k
      BY <3>1, <3>2 DEF TwinInv, NoTwins
    <3>4. QED
      BY <1>2, <3>2, <3>3 DEF Unanswered
  <2>2. CASE /\ handlers'[k].req \in Requests
             /\ sends[handlers'[k].req] < MaxSends
             /\ UNCHANGED history
    <3>1. sends[handlers'[k].req] \in Nat /\ MaxSends \in Nat
      BY <2>2, TurnAssumption DEF TypeInv, Wire
    <3>2. ~Recorded(handlers'[k].req)
      BY <2>2, <3>1 DEF VerdictInv, OnceEach
    <3>3. QED
      BY <1>2, <2>2, <3>2 DEF Recorded
  <2>3. QED
    BY <1>2, <2>1, <2>2, AnswerStep
<1>3. ASSUME NEW k \in Handlers, handlers'[k].step = "feedback"
      PROVE  Answers(history', handlers'[k].req, handlers'[k].quiz)
  <2>1. CASE handlers'[k] = handlers[k]
    BY <1>3, <2>1, AnswersKept DEF VerdictInv, At
  <2>2. CASE /\ At(k, "finish") /\ handlers'[k].req = handlers[k].req
             /\ handlers'[k].quiz = handlers[k].quiz /\ handlers[k].action = "grade"
    BY <2>2, AnswersKept DEF VerdictInv
  <2>3. QED
    BY <1>3, <2>1, <2>2, PhaseStep
<1>4. ASSUME NEW k \in Handlers, handlers'[k].step = "finish",
             handlers'[k].action = "grade"
      PROVE  Answers(history', handlers'[k].req, handlers'[k].quiz)
  <2>1. CASE handlers'[k] = handlers[k]
    BY <1>4, <2>1, AnswersKept DEF VerdictInv, At
  <2>2. CASE At(k, "ready") /\ Recorded(handlers[k].req)
    BY <2>2 DEF VerdictInv, At, Unanswered
  <2>3. QED
    BY <1>4, <2>1, <2>2, AnswerStep
<1>5. ASSUME NEW r \in Requests, turns'[r].verdict # NoQuiz
      PROVE  Answers(history', r, turns'[r].verdict)
  <2>1. CASE turns'[r].verdict = turns[r].verdict
    BY <1>5, <2>1, AnswersKept DEF VerdictInv
  <2>2. CASE turns'[r].verdict # turns[r].verdict
    <3>1. PICK h \in Handlers : /\ Working(h) /\ r = handlers[h].req
                                /\ Plans(h) \/ Completes(h) \/ Rewrites(h) \/ Fails(h)
      BY <2>2, TurnsChange
    <3>2. turns[r] \in TurnRow
      BY DEF TypeInv, Tables
    <3>3. ~Plans(h) /\ ~Fails(h)
      BY <2>2, <3>1, <3>2 DEF Plans, Fails, TurnRow
    <3>4. CASE Completes(h)
      <4>1. turns'[r].verdict = Graded(handlers[h]) /\ At(h, "finish")
        BY <3>1, <3>4 DEF Completes
      <4>2. handlers[h].action = "grade" /\ turns'[r].verdict = handlers[h].quiz
        BY <1>5, <4>1 DEF Graded
      <4>3. QED
        BY <3>1, <4>1, <4>2, AnswersKept DEF VerdictInv
    <3>5. CASE Rewrites(h)
      <4>1. turns'[r].verdict = handlers[h].quiz /\ At(h, "feedback")
        BY <3>1, <3>2, <3>5 DEF Rewrites, TurnRow
      <4>2. QED
        BY <3>1, <4>1, AnswersKept DEF VerdictInv
    <3>6. QED
      BY <3>1, <3>3, <3>4, <3>5
  <2>3. QED
    BY <2>1, <2>2
<1>6. QED
  BY <1>1, <1>2, <1>3, <1>4, <1>5 DEF VerdictInv, Recorded, At

\* When no request is delivered twice, a completed turn reports on the very
\* question its attempt id answered, however turns, submissions and exceptions
\* overlap (execute_turn, GRADE_ANSWER and the two commits that follow).
THEOREM VerdictsMatch ==
  ASSUME OnceEach
  PROVE  Spec => []VerdictMatchesAttempt
<1>1. TypeInv /\ TwinInv /\ VerdictInv /\ [Next]_vars => VerdictInv'
  BY VerdictStep
<1>2. VerdictInv => VerdictMatchesAttempt
  BY DEF VerdictInv, VerdictMatchesAttempt, Answers
<1>3. Spec => []TwinInv
  BY TwinInvariant
<1>4. QED
  BY <1>1, <1>2, <1>3, VerdictInit, TypeInvariant, PTL DEF Spec

\* When no request is delivered twice, nothing takes a completed turn back but an
\* exception in its own feedback, which marks it failed and changes neither its
\* verdict nor the attempt it rests on, however turns and submissions overlap
\* (chat's except clause, after the first of the two commits of a graded turn).
THEOREM CompletedTurnsStand ==
  ASSUME OnceEach
  PROVE  Spec => CompletedStands
<1>1. TypeInv /\ TwinInv /\ CommitInv /\ VerdictInv /\ [Next]_vars =>
        [\A r \in Requests :
           turns[r].status = "completed" /\ turns'[r] # turns[r] =>
              /\ turns'[r] = [turns[r] EXCEPT !.status = "failed"]
              /\ errors' = errors + 1
              /\ Recorded(r)'
              /\ \E h \in Handlers : handlers[h].step = "feedback" /\ handlers[h].req = r
        ]_vars
  <2>1. ASSUME TypeInv, CommitInv, VerdictInv, [Next]_vars, NEW r \in Requests,
               turns[r].status = "completed", turns'[r] # turns[r]
        PROVE  /\ turns'[r] = [turns[r] EXCEPT !.status = "failed"]
               /\ errors' = errors + 1
               /\ Recorded(r)'
               /\ \E h \in Handlers : handlers[h].step = "feedback" /\ handlers[h].req = r
    <3>1. PICK h \in Handlers : /\ Working(h) /\ r = handlers[h].req
                                /\ Plans(h) \/ Completes(h) \/ Rewrites(h) \/ Fails(h)
      BY <2>1, TurnsChange
    <3>2. handlers[h].step \notin Pending
      BY <2>1, <3>1 DEF CommitInv
    <3>3. ~Plans(h) /\ ~Completes(h)
      BY <3>2 DEF Plans, Completes, Pending, At
    <3>4. ~Rewrites(h)
      <4>1. SUFFICES ASSUME Rewrites(h)  PROVE FALSE
        OBVIOUS
      <4>2. turns[r].verdict = handlers[h].quiz
        BY <2>1, <3>1, <4>1 DEF CommitInv, Rewrites
      <4>3. turns[r] \in TurnRow
        BY <2>1 DEF TypeInv, Tables
      <4>4. [turns[r] EXCEPT !.verdict = turns[r].verdict] = turns[r]
        BY <4>3 DEF TurnRow
      <4>5. QED
        BY <2>1, <3>1, <4>1, <4>2, <4>4 DEF Rewrites
    <3>5. /\ At(h, "feedback") /\ errors' = errors + 1
          /\ turns'[r] = [turns[r] EXCEPT !.status = "failed"]
      BY <3>1, <3>2, <3>3, <3>4 DEF Fails
    <3>6. Recorded(r)
      BY <2>1, <3>1, <3>5 DEF VerdictInv, Answers, Recorded
    <3>7. Recorded(r)'
      <4>1. history \in Seq(Attempt)
        BY <2>1 DEF TypeInv, Tables
      <4>2. CASE UNCHANGED history
        BY <3>6, <4>2 DEF Recorded
      <4>3. CASE \E e \in Attempt : history' = Append(history, e)
        <5>1. \A i \in DOMAIN history : i \in DOMAIN history' /\ history'[i] = history[i]
          BY <4>1, <4>3
        <5>2. QED
          BY <3>6, <5>1 DEF Recorded
      <4>4. QED
        BY <2>1, <4>2, <4>3, HistoryGrows
    <3>8. QED
      BY <3>1, <3>5, <3>7 DEF At
  <2>2. QED
    BY <2>1
<1>2. TypeInv /\ TwinInv /\ VerdictInv /\ [Next]_vars => VerdictInv'
  BY VerdictStep
<1>3. Spec => []TwinInv /\ []CommitInv
  BY TwinInvariant, CommitInvariant, PTL
<1>4. QED
  BY <1>1, <1>2, <1>3, VerdictInit, TypeInvariant, PTL DEF Spec, CompletedStands

-----------------------------------------------------------------------------
(* A failed stage test                                                      *)

LEMMA MaxIsGreatest ==
  ASSUME NEW n \in Nat, NEW S \in SUBSET (0 .. n), S # {}
  PROVE  Max(S) \in S /\ \A x \in S : Max(S) >= x
<1> DEFINE above == {u \in Nat : \A x \in S : x <= u}
<1>1. above \in SUBSET Nat /\ n \in above
  OBVIOUS
<1>2. PICK u \in above : \A v \in above : u <= v
  <2>1. PICK u \in above : \A v \in above : ~(<<v, u>> \in OpToRel(<, Nat))
    BY <1>1, WFMin, NatLessThanWellFounded
  <2>2. \A v \in above : ~(v < u)
    BY <1>1, <2>1 DEF OpToRel
  <2>3. u \in Nat /\ \A v \in above : v \in Nat
    BY <1>1
  <2>4. \A v \in above : u <= v
    BY <2>2, <2>3
  <2>5. QED
    BY <2>4
<1>3. u \in Nat /\ \A x \in S : x \in Nat /\ x <= u
  BY <1>2
<1>4. u \in S
  <2>1. SUFFICES ASSUME u \notin S
                 PROVE  FALSE
    OBVIOUS
  <2>2. \A x \in S : x < u
    BY <1>3, <2>1
  <2>0. PICK x \in S : x \in Nat
    BY <1>3
  <2>3. u # 0
    BY <1>3, <2>2, <2>0
  <2>4. u - 1 \in above
    BY <1>3, <2>2, <2>3
  <2>5. QED
    BY <1>2, <1>3, <2>4
<1>5. \E x \in S : \A y \in S : x >= y
  BY <1>3, <1>4
<1>6. QED
  BY <1>5 DEF Max

\* Answers given at the moments at which the purpose of a question was tried.
Tries(bank, h, p) == {i \in DOMAIN h : h[i].quiz \in Phase(bank, p)}

LEMMA LatestBounds ==
  ASSUME NEW h \in Seq(Attempt), NEW bank, NEW p
  PROVE  /\ LatestAt(bank, h, p) \in Nat
         /\ LatestAt(bank, h, p) \in {0} \cup Tries(bank, h, p)
         /\ \A i \in Tries(bank, h, p) : LatestAt(bank, h, p) >= i
<1> DEFINE S == {0} \cup Tries(bank, h, p)
<1>1. Len(h) \in Nat /\ S \in SUBSET (0 .. Len(h)) /\ S # {}
  BY DEF Tries
<1>2. Max(S) \in S /\ \A x \in S : Max(S) >= x
  BY <1>1, MaxIsGreatest
<1>3. LatestAt(bank, h, p) = Max(S)
  BY DEF LatestAt, Tries
<1>4. Max(S) \in Nat
  BY <1>1, <1>2
<1>5. \A i \in Tries(bank, h, p) : Max(S) >= i
  BY <1>2
<1>6. QED
  BY <1>2, <1>3, <1>4, <1>5

\* Until the learner practises, a failed stage test stays closed.
LEMMA StaysClosed ==
  ASSUME NEW f \in Seq(Attempt), NEW g \in Seq(Attempt), Len(f) <= Len(g),
         \A i \in DOMAIN f : g[i] = f[i],
         NEW bank, NEW points, StageStatus(bank, points, f) = "review_required",
         \A j \in Len(f) + 1 .. Len(g) : g[j].quiz \notin Phase(bank, "practice")
  PROVE  StageStatus(bank, points, g) \notin {"available", "in_progress", "retake_ready"}
<1>1. /\ Len(f) \in Nat /\ Len(g) \in Nat /\ DOMAIN f = 1 .. Len(f) /\ DOMAIN g = 1 .. Len(g)
      /\ DOMAIN f \subseteq DOMAIN g
  OBVIOUS
<1>2. /\ Phase(bank, "stage_test") # {}
      /\ Answered(bank, f, "stage_test") = Phase(bank, "stage_test")
      /\ ~(LatestAt(bank, f, "practice") > LatestAt(bank, f, "stage_test"))
  BY DEF StageStatus, BasicStatus
<1>3. Answered(bank, g, "stage_test") = Phase(bank, "stage_test")
  <2>1. Answered(bank, f, "stage_test") \subseteq Answered(bank, g, "stage_test")
    BY <1>1 DEF Answered, Attempted
  <2>2. Answered(bank, g, "stage_test") \subseteq Phase(bank, "stage_test")
    BY DEF Answered
  <2>3. QED
    BY <1>2, <2>1, <2>2
<1>4. BasicStatus(bank, g, "stage_test") = "completed"
  BY <1>2, <1>3 DEF BasicStatus
<1>5. Tries(bank, g, "practice") = Tries(bank, f, "practice")
  <2>1. ASSUME NEW i \in DOMAIN g, g[i].quiz \in Phase(bank, "practice")
        PROVE  i \in DOMAIN f
    BY <1>1, <2>1
  <2>2. QED
    BY <1>1, <2>1 DEF Tries
<1>6. LatestAt(bank, g, "practice") = LatestAt(bank, f, "practice")
  <2>1. \A x \in Seq(Attempt) :
          LatestAt(bank, x, "practice") = Max({0} \cup Tries(bank, x, "practice"))
    BY DEF LatestAt, Tries
  <2>2. QED
    BY <1>5, <2>1
<1>7. LatestAt(bank, g, "stage_test") >= LatestAt(bank, f, "stage_test")
  <2>1. Tries(bank, f, "stage_test") \subseteq Tries(bank, g, "stage_test")
    BY <1>1 DEF Tries
  <2>2. /\ LatestAt(bank, f, "stage_test") \in {0} \cup Tries(bank, f, "stage_test")
        /\ LatestAt(bank, g, "stage_test") \in Nat
        /\ \A i \in Tries(bank, g, "stage_test") : LatestAt(bank, g, "stage_test") >= i
    BY LatestBounds
  <2>3. QED
    BY <2>1, <2>2
<1>8. /\ LatestAt(bank, f, "practice") \in Nat
      /\ LatestAt(bank, f, "stage_test") \in Nat
      /\ LatestAt(bank, g, "stage_test") \in Nat
  BY LatestBounds
<1>9. ~(LatestAt(bank, g, "practice") > LatestAt(bank, g, "stage_test"))
  BY <1>2, <1>6, <1>7, <1>8
<1>10. QED
  BY <1>4, <1>9 DEF StageStatus

\* Every answer on record was given when the ladder offered its question.
FairlyEntered == \A k \in DOMAIN history : Offered(history[k].quiz, SubSeq(history, 1, k - 1))

LEMMA RetakeFollows ==
  ASSUME TypeOK, FairlyEntered
  PROVE  RetakeAfterPractice
<1> SUFFICES ASSUME NEW i \in DOMAIN history, NEW k \in DOMAIN history,
                    NEW m, m = ModuleOf[history[k].quiz],
                    i < k, Purpose[history[k].quiz] = "stage_test",
                    Status(Bank(m), PointsIn[m], SubSeq(history, 1, i), "stage_test")
                      = "review_required",
                    \A j \in i + 1 .. k - 1 : ~(/\ ModuleOf[history[j].quiz] = m
                                                /\ Purpose[history[j].quiz] = "practice")
             PROVE  FALSE
  BY DEF RetakeAfterPractice
<1> DEFINE f == SubSeq(history, 1, i)
           g == SubSeq(history, 1, k - 1)
<1>1. /\ history \in Seq(Attempt) /\ DOMAIN history = 1 .. Len(history) /\ Len(history) \in Nat
      /\ i \in Nat /\ k \in Nat /\ i <= k - 1 /\ k - 1 <= Len(history) /\ 1 <= i
  BY DEF TypeOK
<1>2. /\ f \in Seq(Attempt) /\ Len(f) = i /\ DOMAIN f = 1 .. i
      /\ \A j \in 1 .. i : f[j] = history[j]
  BY <1>1
<1>3. /\ g \in Seq(Attempt) /\ Len(g) = k - 1
      /\ \A j \in 1 .. k - 1 : g[j] = history[j]
  BY <1>1
<1>4. Offered(history[k].quiz, g)
  BY DEF FairlyEntered
<1>5. StageStatus(Bank(m), PointsIn[m], f) = "review_required"
  BY DEF Status
<1>6. StageStatus(Bank(m), PointsIn[m], g) \in {"available", "in_progress", "retake_ready"}
  BY <1>4 DEF Offered, CanRequest, Status, AllowedStatuses
<1>7. ASSUME NEW j \in Len(f) + 1 .. Len(g)
      PROVE  g[j].quiz \notin Phase(Bank(m), "practice")
  <2>1. j \in i + 1 .. k - 1 /\ g[j] = history[j]
    BY <1>1, <1>2, <1>3, <1>7
  <2>2. QED
    BY <2>1 DEF Phase, Bank
<1>8. Len(f) <= Len(g) /\ \A j \in DOMAIN f : g[j] = f[j]
  BY <1>1, <1>2, <1>3
<1> HIDE DEF f, g
<1>9. QED
  BY <1>2, <1>3, <1>5, <1>6, <1>7, <1>8, StaysClosed

\* Between the check of the ladder and the commit nothing is recorded: what a
\* submission is about to enter is still offered.
OnOffer(w, hist) ==
    /\ w.step \in {"idle", "submit", "enter", "check"}
    /\ w.step = "submit" => \/ \E i \in DOMAIN hist : hist[i].id = w.req
                            \/ Offered(w.quiz, hist)
    /\ w.step = "enter" => Offered(w.quiz, hist)

RetakeInv ==
    /\ FairlyEntered
    /\ \A h \in Handlers : OnOffer(handlers[h], history)

LEMMA RetakeInit == Init => RetakeInv
  BY DEF Init, RetakeInv, FairlyEntered, OnOffer, Idle

LEMMA RetakeKept ==
  ASSUME Serial, TypeInv, RetakeInv, NEW h \in Handlers, NEW w, Become(h, w),
         OnOffer(w, history), UNCHANGED history
  PROVE  RetakeInv'
<1>1. \A k \in Handlers : handlers'[k] = w
  BY HandlerBecomes DEF Serial
<1>2. FairlyEntered'
  BY DEF RetakeInv, FairlyEntered
<1>3. QED
  BY <1>1, <1>2 DEF RetakeInv

LEMMA RetakeEnter ==
  ASSUME Serial, TypeInv, RetakeInv, NEW h \in Handlers, EnterSubmission(h)
  PROVE  RetakeInv'
<1> DEFINE w == handlers[h]
           e == [id |-> w.req, quiz |-> w.quiz, score |-> w.score]
           v == [w EXCEPT !.step = "check", !.updated = TRUE, !.seen = NoAbility]
<1>1. At(h, "enter") /\ history' = Append(history, e) /\ Become(h, v)
  BY DEF EnterSubmission, RecordAttempt
<1>2. w \in Busy
  BY <1>1, BusyHandler DEF At
<1>3. history \in Seq(Attempt) /\ e \in Attempt /\ e.quiz = w.quiz
  BY <1>1, WaitingType DEF TypeInv, Tables, At, Waiting
<1>4. v.step = "check"
  BY <1>2 DEF Busy
<1>5. Offered(w.quiz, history)
  BY <1>1 DEF RetakeInv, OnOffer, At
<1> HIDE DEF w, e, v
<1>6. \A k \in Handlers : handlers'[k] = v
  BY <1>1, HandlerBecomes DEF Serial
<1>7. ASSUME NEW k \in DOMAIN history'
      PROVE  Offered(history'[k].quiz, SubSeq(history', 1, k - 1))
  <2>1. /\ Len(history) \in Nat /\ DOMAIN history = 1 .. Len(history)
        /\ k \in 1 .. Len(history) + 1 /\ k - 1 \in 0 .. Len(history)
    BY <1>1, <1>3, <1>7
  <2>2. SubSeq(history', 1, k - 1) = SubSeq(history, 1, k - 1)
    BY <1>1, <1>3, <2>1, PrefixKept
  <2>3. CASE k \in DOMAIN history
    <3>1. history'[k] = history[k]
      BY <1>1, <1>3, <2>3
    <3>2. QED
      BY <2>2, <2>3, <3>1 DEF RetakeInv, FairlyEntered
  <2>4. CASE k = Len(history) + 1
    <3>1. history'[k] = e /\ SubSeq(history, 1, k - 1) = history
      BY <1>1, <1>3, <2>1, <2>4, WholePrefix
    <3>2. QED
      BY <1>3, <1>5, <2>2, <3>1
  <2>5. QED
    BY <2>1, <2>3, <2>4
<1>8. QED
  BY <1>4, <1>6, <1>7 DEF RetakeInv, FairlyEntered, OnOffer

LEMMA RetakeStep ==
  ASSUME Serial, Sessions = {}, TypeInv, RetakeInv, [Next]_vars
  PROVE  RetakeInv'
<1>i. ASSUME NEW h \in Handlers, Become(h, Idle), UNCHANGED history
      PROVE  RetakeInv'
  <2>1. OnOffer(Idle, history)
    BY DEF OnOffer, Idle
  <2>2. QED
    BY <1>i, <2>1, RetakeKept
<1>u. ASSUME UNCHANGED <<handlers, history>>
      PROVE  RetakeInv'
  BY <1>u DEF RetakeInv, FairlyEntered
<1>1. ASSUME NEW h \in Handlers, Receive(h)
      PROVE  RetakeInv'
  <2>1. PICK r \in Requests, in \in Inputs : ReceiveSubmission(h, r, NoSession, in)
    BY <1>1 DEF Receive
  <2> DEFINE w == [Begin(r, "submit", "grade", FreshSession) EXCEPT !.quiz = in.quiz]
  <2>2. in.quiz \in Quizzes
    BY <2>1, SubmitInput DEF ReceiveSubmission
  <2>3. \/ UNCHANGED <<handlers, history>>
        \/ MaySubmit(r, in.quiz, FreshSession) /\ Become(h, w) /\ UNCHANGED history
    BY <2>1 DEF ReceiveSubmission
  <2>4. w.step = "submit" /\ w.req = r /\ w.quiz = in.quiz
    BY DEF Begin
  <2> HIDE DEF w
  <2>5. CASE MaySubmit(r, in.quiz, FreshSession) /\ Become(h, w) /\ UNCHANGED history
    <3>1. FreshSession.active # in.quiz
      BY <2>2, BankAssumption DEF FreshSession
    <3>2. OnOffer(w, history)
      BY <2>4, <2>5, <3>1 DEF MaySubmit, OnOffer, Recorded
    <3>3. QED
      BY <2>5, <3>2, RetakeKept
  <2>6. QED
    BY <1>u, <2>3, <2>5
<1>2. ASSUME NEW h \in Handlers, GradeSubmission(h)
      PROVE  RetakeInv'
  <2>1. PICK s \in Scores :
          Become(h, [handlers[h] EXCEPT
                       !.step = IF Recorded(handlers[h].req) THEN "check" ELSE "enter",
                       !.score = s, !.seen = Seen(ModuleOf[handlers[h].quiz])])
    BY <1>2 DEF GradeSubmission
  <2> DEFINE w == handlers[h]
             v == [w EXCEPT !.step = IF Recorded(w.req) THEN "check" ELSE "enter",
                            !.score = s, !.seen = Seen(ModuleOf[w.quiz])]
  <2>2. w \in Busy
    BY <1>2, BusyHandler DEF GradeSubmission, At
  <2>3. /\ v.step = IF Recorded(w.req) THEN "check" ELSE "enter"
        /\ v.quiz = w.quiz
    BY <2>2 DEF Busy
  <2>4. Recorded(w.req) \/ Offered(w.quiz, history)
    BY <1>2 DEF GradeSubmission, At, RetakeInv, OnOffer, Recorded
  <2>5. Become(h, v) /\ UNCHANGED history
    BY <1>2, <2>1 DEF GradeSubmission
  <2> HIDE DEF w, v
  <2>6. OnOffer(v, history)
    BY <2>3, <2>4 DEF OnOffer
  <2>7. QED
    BY <2>5, <2>6, RetakeKept
<1>3. ASSUME NEW h \in Handlers, CheckActive(h)
      PROVE  RetakeInv'
  <2>1. SessionOf(h) = NoSession
    BY <1>3, BusyHandler DEF CheckActive, At
  <2>2. QED
    BY <1>3, <1>i, <2>1 DEF CheckActive
<1>4. ASSUME NEW h \in Handlers, RejectSubmission(h) \/ DropRequest(h)
      PROVE  RetakeInv'
  BY <1>4, <1>i DEF RejectSubmission, DropRequest
<1>5. ASSUME NEW h \in Handlers, Work(h)
      PROVE  \/ GradeSubmission(h) \/ EnterSubmission(h) \/ CheckActive(h)
             \/ RejectSubmission(h)
  <2>1. handlers[h].step \in {"idle", "submit", "enter", "check"}
    BY DEF RetakeInv, OnOffer
  <2>2. QED
    BY <1>5, <2>1 DEF Work, At, InsertTurn, LoadSession, Respond, Converse, ChangeModule,
       GenerateQuiz, GradeAnswer, RecordGrade, FinishTurn, StoreFeedback, Fail,
       ReleaseQuestion, ClearMessages
<1>6. ASSUME NEW h \in Handlers, RaiseError(h)
      PROVE  FALSE
  BY <1>6 DEF RaiseError, RetakeInv, OnOffer
<1>7. CASE Restart
  BY <1>7 DEF Restart, RetakeInv, FairlyEntered, OnOffer, Idle
<1>8. CASE UNCHANGED vars
  BY <1>8, <1>u DEF vars
<1>9. QED
  BY <1>1, <1>2, <1>3, <1>4, <1>5, <1>6, <1>7, <1>8, RetakeEnter DEF Next

\* When submissions follow one another outside any session, nothing but a
\* practice answer opens a failed stage test again, for every bank, every score
\* and whatever restarts and redeliveries come between (submit_quiz asks the
\* ladder before it grades and commits).
THEOREM RetakesFollowPractice ==
  ASSUME Serial, Sessions = {}
  PROVE  Spec => []RetakeAfterPractice
<1>1. TypeInv /\ RetakeInv /\ [Next]_vars => RetakeInv'
  BY RetakeStep
<1>2. TypeInv /\ RetakeInv => RetakeAfterPractice
  BY TypeInvImplies, RetakeFollows DEF RetakeInv
<1>3. QED
  BY <1>1, <1>2, RetakeInit, TypeInvariant, PTL DEF Spec
=============================================================================
