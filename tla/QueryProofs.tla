----------------------------- MODULE QueryProofs -----------------------------
(***************************************************************************)
(* Proofs about Query: its types, that a search of ECHO says why it found  *)
(* nothing, and that a removal takes no message of a run it could see.     *)
(***************************************************************************)
EXTENDS Query, TLAPS

\* Between two calls of a search another one is due; while it waits, a run
\* answers it.
SearchGoesOn ==
    /\ search.pc \in {"call", "wait"} => MoreCalls(search) /\ search.left > 0
    /\ search.pc = "wait" => search.run \in Runs

\* A run is on the list of its session from its registration to its end.
RunsListed ==
    \A r \in Runs : runs[r].pc \notin {"none", "ended"} => r \in active[runs[r].session]

\* What a removal saw when it asked belongs to other sessions.
SeenElsewhere ==
    \A x \in Removers : removers[x].pc = "remove" =>
        \A r \in removers[x].seen :
            runs[r].pc # "none" /\ runs[r].session # removers[x].session

IInv == TypeOK /\ SearchGoesOn /\ NoSilentLoss /\ RunsListed /\ SeenElsewhere

-----------------------------------------------------------------------------
(* Types.                                                                  *)

LEMMA FailsTyped ==
    ASSUME TypeOK, Fails
    PROVE  failures' \in 0..MaxFailures
  BY QueryAssumption DEF TypeOK, Fails

\* A query takes a run id that is not in use, whatever ids there are.
LEMMA RegisterEffect ==
    ASSUME TypeOK, NEW s \in Sessions, NEW stream \in BOOLEAN, Register(s, stream)
    PROVE  /\ NextRun \in Runs /\ runs[NextRun].pc = "none"
           /\ active' = [active EXCEPT ![s] = @ \union {NextRun}]
           /\ runs' = [runs EXCEPT ![NextRun] = [NewRun EXCEPT !.pc = "begin", !.session = s,
                                                              !.stream = stream]]
           /\ runs'[NextRun].pc = "begin" /\ runs'[NextRun].session = s
           /\ runs' \in [Runs -> Run] /\ active' \in [Sessions -> SUBSET Runs]
           /\ loop' \in Runs \union {NoRun}
  <1>1. NextRun \in UnusedRuns
    BY DEF Register, NextRun
  <1>2. NextRun \in Runs /\ runs[NextRun].pc = "none"
    BY <1>1 DEF UnusedRuns
  <1> DEFINE new == [NewRun EXCEPT !.pc = "begin", !.session = s, !.stream = stream]
  <1>3. new \in Run /\ new.pc = "begin" /\ new.session = s
    BY QueryAssumption DEF NewRun, Run, Hits
  <1>4. runs' = [runs EXCEPT ![NextRun] = new] /\ active' = [active EXCEPT ![s] = @ \union {NextRun}]
    BY DEF Register
  <1>5. loop' \in Runs \union {NoRun}
    BY <1>2 DEF Register, TypeOK
  <1> HIDE DEF new
  <1>6. /\ runs'[NextRun] = new /\ runs' \in [Runs -> Run]
        /\ active' \in [Sessions -> SUBSET Runs]
    BY <1>2, <1>3, <1>4 DEF TypeOK
  <1> QED
    BY <1>2, <1>3, <1>4, <1>5, <1>6 DEF new

\* A search that goes on after a call, or ends.
LEMMA ConcludedTyped ==
    ASSUME NEW s \in Search
    PROVE  Concluded(s) \in Search
  BY DEF Concluded, Search

LEMMA BestTyped ==
    ASSUME NEW h \in Hits, NEW k \in Hits
    PROVE  Best(h, k) \in Hits
  BY DEF Best, Hits

LEMMA RefusedTyped == Refused(search) \in Search
  <1>1. 0 \in 0..(MaxVariants + 1)
    BY QueryAssumption
  <1> QED
    BY <1>1 DEF Refused, NoSearch, Search, Hits

\* The call that is answered, or not, before the search is concluded.
Counted(transient, found) ==
    [search EXCEPT !.left = @ - 1, !.run = NoRun, !.transient = transient, !.found = found]

LEMMA CountedTyped ==
    ASSUME TypeOK, search.left > 0, NEW t \in BOOLEAN, NEW f \in Hits
    PROVE  /\ Counted(t, f) \in Search
           /\ Counted(t, f).transient = t /\ Counted(t, f).found = f
           /\ Counted(t, f).left = search.left - 1
  <1>1. search \in Search /\ search.left - 1 \in 0..(MaxVariants + 1)
    BY QueryAssumption DEF TypeOK, Search
  <1> QED
    BY <1>1 DEF Counted, Search

LEMMA SearchStep ==
    ASSUME TypeOK, SearchGoesOn, Answered \/ TimeOut
    PROVE  \E t \in BOOLEAN, f \in Hits : search' = Concluded(Counted(t, f))
  <1>1. search \in Search /\ search.transient \in BOOLEAN /\ search.found \in Hits
    BY DEF TypeOK, Search
  <1>2. CASE Answered
    <2> DEFINE t == search.transient \/ ~runs[search.run].ok
               f == IF runs[search.run].ok THEN Best(search.found, runs[search.run].hits)
                    ELSE search.found
    <2>1. search.run \in Runs /\ runs[search.run].hits \in Hits
      BY <1>2 DEF Answered, SearchGoesOn, TypeOK, Run
    <2>2. t \in BOOLEAN /\ f \in Hits
      BY <1>1, <2>1, BestTyped
    <2>3. search' = Concluded(Counted(t, f))
      BY <1>1, <1>2 DEF Answered, Counted, Search
    <2> QED
      BY <2>2, <2>3
  <1>3. CASE TimeOut
    <2>1. search' = Concluded(Counted(TRUE, search.found))
      BY <1>1, <1>3 DEF TimeOut, Counted, Search
    <2> QED
      BY <1>1, <2>1
  <1> QED
    BY <1>2, <1>3

LEMMA RunTyped ==
    ASSUME TypeOK, NEW r \in Runs, Work(r)
    PROVE  TypeOK'
  <1>1. runs[r] \in Run /\ runs[r].session \in Sessions
    BY DEF TypeOK, Run
  <1>2. CASE Begin(r)
    BY <1>1, <1>2 DEF Begin, TypeOK, Run
  <1>3. CASE Ask(r)
    <2>1. runs' \in [Runs -> Run]
      <3>1. PICK hits \in Hits :
               runs' = [runs EXCEPT ![r] = [runs[r] EXCEPT !.pc = "answer", !.hits = hits]]
        BY <1>3 DEF Ask, Hits
      <3>2. [runs[r] EXCEPT !.pc = "answer", !.hits = hits] \in Run
        BY <1>1 DEF Run
      <3> QED
        BY <3>1, <3>2 DEF TypeOK
    <2>2. messages' \in SUBSET Message
      BY <1>3 DEF Ask, TypeOK, Message
    <2> QED
      BY <1>3, <2>1, <2>2 DEF Ask, TypeOK
  <1>4. CASE Answer(r)
    <2>1. messages' \in SUBSET Message
      BY <1>4 DEF Answer, TypeOK, Message
    <2>2. runs' \in [Runs -> Run]
      BY <1>1, <1>4 DEF Answer, TypeOK, Run
    <2> QED
      BY <1>4, <2>1, <2>2 DEF Answer, TypeOK
  <1>5. CASE Break(r)
    <2>1. runs' = [runs EXCEPT ![r] = [runs[r] EXCEPT !.pc = "end", !.ok = FALSE]]
      BY <1>5 DEF Break
    <2>2. [runs[r] EXCEPT !.pc = "end", !.ok = FALSE] \in Run
      BY <1>1 DEF Run
    <2>3. runs' \in [Runs -> Run]
      BY <2>1, <2>2 DEF TypeOK
    <2> QED
      BY <1>5, <2>3, FailsTyped DEF Break, TypeOK
  <1>6. CASE End(r)
    BY <1>1, <1>6 DEF End, TypeOK, Run
  <1>7. CASE Finish(r)
    <2>1. runs' \in [Runs -> Run] /\ active' \in [Sessions -> SUBSET Runs]
      BY <1>1, <1>7 DEF Finish, TypeOK, Run
    <2> QED
      BY <1>7, <2>1 DEF Finish, TypeOK
  <1> QED
    BY <1>2, <1>3, <1>4, <1>5, <1>6, <1>7 DEF Work

LEMMA StreamTyped ==
    ASSUME TypeOK,
           \/ \E s \in Sessions : AskStreaming(s)
           \/ \E c \in Clients, r \in Runs : Connect(c, r)
           \/ \E c \in Clients : Deliver(c) \/ Disconnect(c)
    PROVE  TypeOK'
  <1>1. ASSUME NEW s \in Sessions, AskStreaming(s)
        PROVE  TypeOK'
    <2>1. Register(s, TRUE)
      BY <1>1 DEF AskStreaming
    <2>2. /\ NextRun \in Runs /\ runs' \in [Runs -> Run]
          /\ active' \in [Sessions -> SUBSET Runs] /\ loop' \in Runs \union {NoRun}
      BY <2>1, RegisterEffect
    <2>3. queues' \in [Runs -> {"none", "open", "last"}]
      BY <1>1, <2>2 DEF AskStreaming, TypeOK
    <2> QED
      BY <1>1, <2>2, <2>3 DEF AskStreaming, TypeOK
  <1>2. ASSUME NEW c \in Clients, NEW r \in Runs, Connect(c, r)
        PROVE  TypeOK'
    <2>1. streams' \in [Clients -> Stream]
      BY <1>2 DEF Connect, TypeOK, Stream
    <2> QED
      BY <1>2, <2>1 DEF Connect, TypeOK
  <1>3. ASSUME NEW c \in Clients, Deliver(c)
        PROVE  TypeOK'
    <2>1. streams' \in [Clients -> Stream] /\ queues' \in [Runs -> {"none", "open", "last"}]
      BY <1>3 DEF Deliver, TypeOK, Stream
    <2> QED
      BY <1>3, <2>1 DEF Deliver, TypeOK
  <1>4. ASSUME NEW c \in Clients, Disconnect(c)
        PROVE  TypeOK'
    <2>1. streams' \in [Clients -> Stream] /\ queues' \in [Runs -> {"none", "open", "last"}]
      BY <1>4 DEF Disconnect, TypeOK, Stream, Closed
    <2>2. failures' \in 0..MaxFailures
      BY <1>4, FailsTyped DEF Disconnect, TypeOK
    <2> QED
      BY <1>4, <2>1, <2>2 DEF Disconnect, TypeOK
  <1> QED
    BY <1>1, <1>2, <1>3, <1>4

LEMMA RemovalTyped ==
    ASSUME TypeOK, NEW x \in Removers,
           \/ \E s \in Sessions, whole \in BOOLEAN : StartRemoval(x, s, whole)
           \/ CheckRemoval(x) \/ Remove(x)
    PROVE  TypeOK'
  <1>0. IdleRemover \in Remover
    BY QueryAssumption DEF IdleRemover, Remover
  <1>1. ASSUME NEW s \in Sessions, NEW whole \in BOOLEAN, StartRemoval(x, s, whole)
        PROVE  TypeOK'
    <2>1. [pc |-> "check", session |-> s, whole |-> whole, seen |-> {}] \in Remover
      BY DEF Remover
    <2>2. removers' \in [Removers -> Remover]
      BY <1>1, <2>1 DEF StartRemoval, TypeOK
    <2> QED
      BY <1>1, <2>2 DEF StartRemoval, TypeOK
  <1>2. CASE CheckRemoval(x)
    <2> DEFINE seen == {r \in Runs : runs[r].pc \notin {"none", "ended"}}
    <2>1. [removers[x] EXCEPT !.pc = "remove", !.seen = seen] \in Remover
      BY DEF TypeOK, Remover
    <2>2. removers' \in {[removers EXCEPT ![x] = IdleRemover],
                         [removers EXCEPT ![x] = [removers[x] EXCEPT !.pc = "remove", !.seen = seen]]}
      BY <1>2 DEF CheckRemoval
    <2>3. removers' \in [Removers -> Remover]
      BY <1>0, <2>1, <2>2 DEF TypeOK
    <2> QED
      BY <1>2, <2>3 DEF CheckRemoval, TypeOK
  <1>3. CASE Remove(x)
    <2>1. removers' \in [Removers -> Remover]
      BY <1>0, <1>3 DEF Remove, TypeOK
    <2> QED
      BY <1>3, <2>1 DEF Remove, TypeOK
  <1> QED
    BY <1>1, <1>2, <1>3

LEMMA SearchTyped ==
    ASSUME TypeOK, SearchGoesOn, StartSearch \/ Searching
    PROVE  TypeOK'
  <1>1. CASE StartSearch
    <2>1. PICK n \in 1..MaxVariants, wide \in BOOLEAN :
             search' = [NoSearch EXCEPT !.pc = "call", !.left = n + 1, !.wide = wide]
      BY <1>1 DEF StartSearch
    <2>2. n + 1 \in 0..(MaxVariants + 1)
      BY QueryAssumption
    <2>3. search' \in Search
      BY <2>1, <2>2 DEF NoSearch, Search, Hits
    <2> QED
      BY <1>1, <2>3 DEF StartSearch, TypeOK
  <1>2. CASE Call
    <2>1. CASE intact
      <3>1. Register(Trace, FALSE) /\ search' = [search EXCEPT !.pc = "wait", !.run = NextRun]
        BY <1>2, <2>1 DEF Call
      <3>2. /\ NextRun \in Runs /\ runs' \in [Runs -> Run]
            /\ active' \in [Sessions -> SUBSET Runs] /\ loop' \in Runs \union {NoRun}
        BY <3>1, RegisterEffect, QueryAssumption
      <3>3. search' \in Search
        BY <3>1, <3>2 DEF TypeOK, Search
      <3> QED
        BY <1>2, <3>2, <3>3 DEF Call, TypeOK
    <2>2. CASE ~intact
      BY <1>2, <2>2, RefusedTyped DEF Call, TypeOK
    <2> QED
      BY <2>1, <2>2
  <1>3. CASE Answered \/ TimeOut
    <2>1. search.left > 0
      BY <1>3 DEF Answered, TimeOut, SearchGoesOn
    <2>2. search' \in Search
      BY <1>3, <2>1, SearchStep, CountedTyped, ConcludedTyped
    <2>3. failures' \in 0..MaxFailures
      BY <1>3, FailsTyped DEF Answered, TimeOut, TypeOK
    <2> QED
      BY <1>3, <2>2, <2>3 DEF Answered, TimeOut, TypeOK
  <1>4. CASE Malformed
    BY <1>4, RefusedTyped, FailsTyped DEF Malformed, TypeOK
  <1> QED
    BY <1>1, <1>2, <1>3, <1>4 DEF Searching

LEMMA InitTyped == Init => TypeOK
  <1> SUFFICES ASSUME Init
               PROVE  TypeOK
    OBVIOUS
  <1>1. 0 \in 0..(MaxVariants + 1) /\ 0 \in 0..MaxFailures
    BY QueryAssumption
  <1>2. NewRun \in Run /\ Closed \in Stream /\ IdleRemover \in Remover
    BY QueryAssumption DEF NewRun, Run, Hits, Closed, Stream, IdleRemover, Remover
  <1>3. NoSearch \in Search
    BY <1>1 DEF NoSearch, Search, Hits
  <1>4. /\ runs \in [Runs -> Run] /\ streams \in [Clients -> Stream]
        /\ removers \in [Removers -> Remover] /\ search \in Search
    BY <1>2, <1>3 DEF Init
  <1>5. /\ active \in [Sessions -> SUBSET Runs] /\ queues \in [Runs -> {"none", "open", "last"}]
        /\ sessions \in SUBSET Sessions /\ messages \in SUBSET Message
        /\ loop \in Runs \union {NoRun} /\ intact \in BOOLEAN /\ failures \in 0..MaxFailures
    BY <1>1 DEF Init
  <1> QED
    BY <1>4, <1>5 DEF TypeOK

LEMMA TypesKept ==
    ASSUME IInv, [Next]_vars
    PROVE  TypeOK'
  <1> USE DEF IInv
  <1>1. CASE RemoveDocument \/ UNCHANGED vars
    BY <1>1 DEF RemoveDocument, vars, TypeOK
  <1> QED
    BY <1>1, RunTyped, StreamTyped, RemovalTyped, SearchTyped DEF Next

-----------------------------------------------------------------------------
(* A search that ends says why.                                            *)

LEMMA SearchKept ==
    ASSUME IInv, [Next]_vars
    PROVE  SearchGoesOn' /\ NoSilentLoss'
  <1> USE DEF IInv
  <1>1. CASE UNCHANGED search
    BY <1>1 DEF SearchGoesOn, NoSilentLoss, MoreCalls
  <1>2. CASE StartSearch
    <2>1. PICK n \in 1..MaxVariants, wide \in BOOLEAN :
             search' = [NoSearch EXCEPT !.pc = "call", !.left = n + 1, !.wide = wide]
      BY <1>2 DEF StartSearch
    <2>2. search'.pc = "call" /\ search'.left = n + 1 /\ search'.found = "none"
      BY <2>1 DEF NoSearch
    <2> QED
      BY <2>2 DEF SearchGoesOn, NoSilentLoss, MoreCalls
  <1>3. CASE Call
    <2>1. CASE intact
      <3>1. Register(Trace, FALSE) /\ search' = [search EXCEPT !.pc = "wait", !.run = NextRun]
        BY <1>3, <2>1 DEF Call
      <3>2. NextRun \in Runs
        BY <3>1, RegisterEffect, QueryAssumption
      <3>3. /\ search'.pc = "wait" /\ search'.run = NextRun /\ search'.left = search.left
            /\ search'.found = search.found /\ search'.wide = search.wide
        BY <3>1 DEF TypeOK, Search
      <3> QED
        BY <1>3, <3>2, <3>3 DEF Call, SearchGoesOn, NoSilentLoss, MoreCalls
    <2>2. CASE ~intact
      <3>1. search' = Refused(search)
        BY <1>3, <2>2 DEF Call
      <3> QED
        BY <3>1 DEF Refused, NoSearch, SearchGoesOn, NoSilentLoss
    <2> QED
      BY <2>1, <2>2
  <1>4. CASE Answered \/ TimeOut
    <2>1. search.left > 0
      BY <1>4 DEF Answered, TimeOut, SearchGoesOn
    <2>2. PICK t \in BOOLEAN, f \in Hits : search' = Concluded(Counted(t, f))
      BY <1>4, SearchStep
    <2> DEFINE s == Counted(t, f)
    <2>3. s \in Search /\ s.found \in Hits /\ s.left \in Nat
      BY <2>1, CountedTyped DEF Search
    <2> HIDE DEF s
    <2>4. CASE MoreCalls(s)
      <3>1. search' = [s EXCEPT !.pc = "call"]
        BY <2>2, <2>4 DEF Concluded, s
      <3>2. /\ search'.pc = "call" /\ search'.left = s.left /\ search'.found = s.found
            /\ search'.wide = s.wide
        BY <2>3, <3>1 DEF Search
      <3> QED
        BY <2>3, <2>4, <3>2 DEF SearchGoesOn, NoSilentLoss, MoreCalls
    <2>5. CASE ~MoreCalls(s)
      <3> DEFINE reason == s.found = "untraceable" \/ (s.found = "none" /\ s.transient)
      <3>1. search' = [s EXCEPT !.pc = "done", !.wide = FALSE, !.reason = reason]
        BY <2>2, <2>5 DEF Concluded, s
      <3>2. /\ search'.pc = "done" /\ search'.left = s.left /\ search'.found = s.found
            /\ search'.transient = s.transient /\ search'.reason = reason
        BY <2>3, <3>1 DEF Search
      <3>3. s.found = "none" => s.left = 0
        BY <2>3, <2>5 DEF MoreCalls
      <3>4. s.found # "official" /\ ~reason => s.found = "none" /\ ~s.transient
        BY <2>3 DEF Hits
      <3> HIDE DEF reason
      <3> QED
        BY <3>2, <3>3, <3>4 DEF SearchGoesOn, NoSilentLoss
    <2> QED
      BY <2>4, <2>5
  <1>5. CASE Malformed
    <2>1. search' = Refused(search)
      BY <1>5 DEF Malformed
    <2> QED
      BY <2>1 DEF Refused, NoSearch, SearchGoesOn, NoSilentLoss
  <1>6. CASE \E r \in Runs : Work(r) \/ \E c \in Clients : Connect(c, r)
    BY <1>1, <1>6 DEF Work, Begin, Ask, Answer, Break, End, Finish, Connect
  <1>7. CASE \/ \E s \in Sessions : AskStreaming(s)
             \/ \E c \in Clients : Deliver(c) \/ Disconnect(c)
             \/ \E x \in Removers :
                   \/ \E s \in Sessions, whole \in BOOLEAN : StartRemoval(x, s, whole)
                   \/ CheckRemoval(x) \/ Remove(x)
             \/ RemoveDocument \/ UNCHANGED vars
    BY <1>1, <1>7 DEF AskStreaming, Deliver, Disconnect, StartRemoval, CheckRemoval, Remove,
                      RemoveDocument, vars
  <1> QED
    BY <1>2, <1>3, <1>4, <1>5, <1>6, <1>7 DEF Next, Searching

-----------------------------------------------------------------------------
(* A removal spares the runs it can see.                                   *)

\* Runs keep their session, and never become unused again.
LEMMA RunsForward ==
    ASSUME IInv, [Next]_vars, NEW r \in Runs, runs[r].pc # "none"
    PROVE  runs'[r].session = runs[r].session /\ runs'[r].pc # "none"
  <1> USE DEF IInv
  <1>1. ASSUME NEW q \in Runs, Work(q)
        PROVE  runs'[r].session = runs[r].session /\ runs'[r].pc # "none"
    <2>1. CASE Ask(q)
      <3>1. PICK hits : runs' = [runs EXCEPT ![q] = [runs[q] EXCEPT !.pc = "answer", !.hits = hits]]
        BY <2>1 DEF Ask
      <3> QED
        BY <3>1 DEF TypeOK, Run
    <2>2. CASE Begin(q) \/ Answer(q) \/ End(q) \/ Finish(q)
      BY <2>2 DEF Begin, Answer, End, Finish, TypeOK, Run
    <2>3. CASE Break(q)
      BY <2>3 DEF Break, TypeOK, Run
    <2> QED
      BY <1>1, <2>1, <2>2, <2>3 DEF Work
  <1>2. ASSUME NEW s \in Sessions, NEW stream \in BOOLEAN, Register(s, stream)
        PROVE  runs'[r].session = runs[r].session /\ runs'[r].pc # "none"
    <2>1. NextRun # r /\ runs' = [runs EXCEPT ![NextRun] = runs'[NextRun]]
      BY <1>2, RegisterEffect DEF TypeOK
    <2> QED
      BY <2>1 DEF TypeOK
  <1>3. CASE \E s \in Sessions : AskStreaming(s)
    BY <1>2, <1>3 DEF AskStreaming
  <1>4. CASE Searching
    BY <1>2, <1>4, QueryAssumption DEF Searching, Call, Answered, TimeOut, Malformed
  <1>5. CASE UNCHANGED runs
    BY <1>5
  <1>6. CASE \/ \E q \in Runs : \E c \in Clients : Connect(c, q)
             \/ \E c \in Clients : Deliver(c) \/ Disconnect(c)
             \/ \E x \in Removers :
                   \/ \E s \in Sessions, whole \in BOOLEAN : StartRemoval(x, s, whole)
                   \/ CheckRemoval(x) \/ Remove(x)
             \/ RemoveDocument \/ StartSearch \/ UNCHANGED vars
    BY <1>5, <1>6 DEF Connect, Deliver, Disconnect, StartRemoval, CheckRemoval, Remove,
                      RemoveDocument, StartSearch, vars
  <1> QED
    BY <1>1, <1>3, <1>4, <1>6 DEF Next

LEMMA ListedKept ==
    ASSUME IInv, [Next]_vars
    PROVE  RunsListed'
  <1> USE DEF IInv
  <1> SUFFICES ASSUME NEW r \in Runs, runs'[r].pc \notin {"none", "ended"}
               PROVE  r \in active'[runs'[r].session]
    BY DEF RunsListed
  <1>0. runs[r].session \in Sessions
    BY DEF TypeOK, Run
  <1>1. ASSUME NEW q \in Runs, Work(q)
        PROVE  r \in active'[runs'[r].session]
    <2>1. runs[r].pc \notin {"none", "ended"} /\ runs'[r].session = runs[r].session
      <3>1. CASE Ask(q)
        <4>1. PICK hits : runs' = [runs EXCEPT ![q] = [runs[q] EXCEPT !.pc = "answer", !.hits = hits]]
          BY <3>1 DEF Ask
        <4> QED
          BY <3>1, <4>1 DEF Ask, TypeOK, Run
      <3>2. CASE Begin(q) \/ Answer(q) \/ End(q) \/ Finish(q)
        BY <3>2 DEF Begin, Answer, End, Finish, TypeOK, Run
      <3>3. CASE Break(q)
        BY <3>3 DEF Break, TypeOK, Run
      <3> QED
        BY <1>1, <3>1, <3>2, <3>3 DEF Work
    <2>2. r \in active[runs[r].session]
      BY <2>1 DEF RunsListed
    <2>3. CASE Finish(q)
      <3>1. q # r
        BY <2>3 DEF Finish, TypeOK, Run
      <3> QED
        BY <1>0, <2>1, <2>2, <2>3, <3>1 DEF Finish, TypeOK
    <2>4. CASE ~Finish(q)
      <3>1. UNCHANGED active
        BY <1>1, <2>4 DEF Work, Begin, Ask, Answer, Break, End
      <3> QED
        BY <2>1, <2>2, <3>1
    <2> QED
      BY <2>3, <2>4
  <1>2. ASSUME NEW s \in Sessions, NEW stream \in BOOLEAN, Register(s, stream)
        PROVE  r \in active'[runs'[r].session]
    <2>0. /\ NextRun \in Runs /\ runs'[NextRun].session = s
          /\ active' = [active EXCEPT ![s] = @ \union {NextRun}]
          /\ runs' = [runs EXCEPT ![NextRun] = runs'[NextRun]]
      BY <1>2, RegisterEffect DEF TypeOK
    <2>1. CASE r = NextRun
      BY <2>0, <2>1 DEF TypeOK
    <2>2. CASE r # NextRun
      <3>1. runs'[r] = runs[r]
        BY <1>2, <2>2, RegisterEffect DEF TypeOK
      <3>2. r \in active[runs[r].session]
        BY <3>1 DEF RunsListed
      <3> QED
        BY <1>0, <2>0, <3>1, <3>2 DEF TypeOK
    <2> QED
      BY <2>1, <2>2
  <1>3. CASE UNCHANGED <<runs, active>>
    BY <1>3 DEF RunsListed
  <1>4. CASE \E s \in Sessions : AskStreaming(s)
    BY <1>2, <1>4 DEF AskStreaming
  <1>5. CASE Searching
    BY <1>2, <1>3, <1>5, QueryAssumption DEF Searching, Call, Answered, TimeOut, Malformed
  <1>6. CASE \/ \E q \in Runs : \E c \in Clients : Connect(c, q)
             \/ \E c \in Clients : Deliver(c) \/ Disconnect(c)
             \/ \E x \in Removers :
                   \/ \E s \in Sessions, whole \in BOOLEAN : StartRemoval(x, s, whole)
                   \/ CheckRemoval(x) \/ Remove(x)
             \/ RemoveDocument \/ StartSearch \/ UNCHANGED vars
    BY <1>3, <1>6 DEF Connect, Deliver, Disconnect, StartRemoval, CheckRemoval, Remove,
                      RemoveDocument, StartSearch, vars
  <1> QED
    BY <1>1, <1>4, <1>5, <1>6 DEF Next

LEMMA SeenKept ==
    ASSUME IInv, [Next]_vars
    PROVE  SeenElsewhere'
  <1> USE DEF IInv
  <1> SUFFICES ASSUME NEW x \in Removers, removers'[x].pc = "remove", NEW r \in removers'[x].seen
               PROVE  runs'[r].pc # "none" /\ runs'[r].session # removers'[x].session
    BY DEF SeenElsewhere
  <1>1. CASE removers'[x] = removers[x]
    <2>1. /\ r \in Runs /\ runs[r].pc # "none" /\ runs[r].session # removers[x].session
      BY <1>1 DEF SeenElsewhere, TypeOK, Remover
    <2> QED
      BY <1>1, <2>1, RunsForward
  <1>2. CASE removers'[x] # removers[x]
    <2>1. PICK y \in Removers :
             \/ \E s \in Sessions, whole \in BOOLEAN : StartRemoval(y, s, whole)
             \/ CheckRemoval(y) \/ Remove(y)
      BY <1>2 DEF Next, AskStreaming, Work, Begin, Ask, Answer, Break, End, Finish, Connect,
                  Deliver, Disconnect, RemoveDocument, StartSearch, Searching, Call, Answered,
                  TimeOut, Malformed, vars
    <2>2. removers[x] \in Remover
      BY DEF TypeOK
    <2>3. CheckRemoval(x)
      <3>1. y = x
        BY <1>2, <2>1 DEF StartRemoval, CheckRemoval, Remove, TypeOK
      <3>2. ASSUME NEW s \in Sessions, NEW whole \in BOOLEAN, StartRemoval(x, s, whole)
            PROVE  FALSE
        BY <3>2 DEF StartRemoval, TypeOK
      <3>3. ~Remove(x)
        BY DEF Remove, IdleRemover, TypeOK
      <3> QED
        BY <2>1, <3>1, <3>2, <3>3
    <2> DEFINE seen == {q \in Runs : runs[q].pc \notin {"none", "ended"}}
    <2>4. removers'[x] = [removers[x] EXCEPT !.pc = "remove", !.seen = seen]
          /\ active[removers[x].session] = {} /\ UNCHANGED runs
      BY <2>3 DEF CheckRemoval, IdleRemover, TypeOK
    <2>5. r \in seen /\ removers'[x].session = removers[x].session
      BY <2>2, <2>4 DEF Remover
    <2> QED
      BY <2>4, <2>5 DEF RunsListed
  <1> QED
    BY <1>1, <1>2

-----------------------------------------------------------------------------
(* The theorems.                                                           *)

LEMMA Inductive ==
    /\ Init => IInv
    /\ IInv /\ [Next]_vars => IInv'
  <1>1. Init => IInv
    <2> SUFFICES ASSUME Init
                 PROVE  IInv
      OBVIOUS
    <2>1. SearchGoesOn /\ NoSilentLoss
      BY DEF Init, NoSearch, SearchGoesOn, NoSilentLoss
    <2>2. RunsListed /\ SeenElsewhere
      BY DEF Init, NewRun, IdleRemover, RunsListed, SeenElsewhere
    <2> QED
      BY <2>1, <2>2, InitTyped DEF IInv
  <1>2. ASSUME IInv, [Next]_vars
        PROVE  IInv'
    BY <1>2, TypesKept, SearchKept, ListedKept, SeenKept DEF IInv
  <1> QED
    BY <1>1, <1>2

\* The invariant of this module holds at every step of the runs, the streams,
\* the removals and the search.
THEOREM Invariant == Spec => []IInv
  BY Inductive, PTL DEF Spec

\* The variables keep their types: in particular a search never makes more
\* calls than it planned.
THEOREM Typed == Spec => []TypeOK
  <1>1. IInv => TypeOK
    BY DEF IInv
  <1> QED
    BY <1>1, Invariant, PTL

\* A search of ECHO that ends without evidence and without a reason had every
\* call answered, and none with a hit (search_official_evidence).
THEOREM EmptyHanded == Spec => []NoSilentLoss
  <1>1. IInv => NoSilentLoss
    BY DEF IInv
  <1> QED
    BY <1>1, Invariant, PTL

SparesActive ==
    \A x \in Removers : removers[x].pc = "remove" /\ removers'[x].pc = "idle" =>
        \A m \in messages \ messages' : m[1] \notin removers[x].seen

LEMMA RemovalStep ==
    ASSUME IInv, [Next]_vars
    PROVE  SparesActive
  <1> USE DEF IInv
  <1> SUFFICES ASSUME NEW x \in Removers, removers[x].pc = "remove", removers'[x].pc = "idle",
                      NEW m \in messages \ messages'
               PROVE  m[1] \notin removers[x].seen
    BY DEF SparesActive
  <1>1. removers'[x] # removers[x]
    OBVIOUS
  <1>2. PICK y \in Removers :
           \/ \E s \in Sessions, whole \in BOOLEAN : StartRemoval(y, s, whole)
           \/ CheckRemoval(y) \/ Remove(y)
    BY <1>1 DEF Next, AskStreaming, Work, Begin, Ask, Answer, Break, End, Finish, Connect,
                Deliver, Disconnect, RemoveDocument, StartSearch, Searching, Call, Answered,
                TimeOut, Malformed, vars
  <1>3. Remove(x)
    BY <1>1, <1>2 DEF StartRemoval, CheckRemoval, Remove, IdleRemover, TypeOK
  <1>4. m \in MessagesOf(removers[x].session)
    BY <1>3 DEF Remove
  <1>5. runs[m[1]].session = removers[x].session
    BY <1>4 DEF MessagesOf
  <1> QED
    BY <1>5 DEF SeenElsewhere

\* A removal of a session takes no message of a run that was under way when it
\* looked for active runs (remove_session and clear_session_history, with
\* _active_runs).
THEOREM ActiveSpared == Spec => RemovalSparesActive
  <1>1. IInv /\ [Next]_vars => SparesActive
    BY RemovalStep
  <1>2. []IInv /\ [][Next]_vars => [][SparesActive]_vars
    BY <1>1, PTL
  <1>3. [][SparesActive]_vars <=> RemovalSparesActive
    BY DEF SparesActive, RemovalSparesActive
  <1> QED
    BY <1>2, <1>3, Invariant, PTL DEF Spec

=============================================================================
