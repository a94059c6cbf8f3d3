------------------------------- MODULE Query -------------------------------
(***************************************************************************)
(* PunditRAG's query service and ECHO's search for evidence.  A query runs *)
(* in a session, saves the question and the answer as messages and, when   *)
(* it streams, tells its client over an event queue; sessions are cleared  *)
(* and deleted meanwhile.  ECHO asks up to MaxVariants forms of a question *)
(* and, without any hit, the first one again.                              *)
(*                                                                         *)
(* POST /query is a coroutine: a run that does not stream occupies the     *)
(* event loop until it ends, and no request begins nor any event is sent   *)
(* meanwhile.  Streaming runs and the other endpoints have threads.        *)
(***************************************************************************)
EXTENDS Naturals, FiniteSets

CONSTANTS
    Sessions,
    Trace,       \* the session ECHO names: its trace id
    Runs,        \* run ids, each for one query
    NoRun,
    Clients,     \* connections that read events
    Removers,    \* requests that delete or clear a session
    MaxVariants, \* MAX_PUNDITRAG_QUERY_VARIANTS
    MaxFailures  \* bound: exceptions, timeouts and disconnections

ASSUME QueryAssumption ==
    /\ Trace \in Sessions /\ NoRun \notin Runs
    /\ MaxVariants \in Nat \ {0} /\ MaxFailures \in Nat

VARIABLES
    sessions,  \* Mongo: chat_session
    messages,  \* Mongo: chat_message
    active,    \* _active_runs
    runs,
    loop,      \* the run that occupies the event loop
    queues,    \* _session_stream: terminal events waiting, by run
    streams,   \* generators
    removers,
    intact,    \* no document of the module's completed uploads is removed
    search,    \* a call of search_official_evidence
    failures

vars == <<sessions, messages, active, runs, loop, queues, streams, removers, intact,
          search, failures>>

-----------------------------------------------------------------------------
\* Hits without a complete official source are not registered evidence.
Hits == {"none", "untraceable", "official"}
Best(h, k) == IF "official" \in {h, k} THEN "official" ELSE IF h = "none" THEN k ELSE h

Run == [pc : {"none", "begin", "ask", "answer", "end", "finish", "ended"},
        session : Sessions, stream : BOOLEAN, ok : BOOLEAN, hits : Hits]
NewRun == [pc |-> "none", session |-> Trace, stream |-> FALSE, ok |-> TRUE, hits |-> "none"]

Message == Runs \X {"user", "assistant"}
MessagesOf(s) == {m \in messages : runs[m[1]].session = s}

\* queue: the generator holds the queue it found when it began, even when the
\* dictionary has forgotten it since.
Stream == [run : Runs \union {NoRun}, got : BOOLEAN]
Closed == [run |-> NoRun, got |-> FALSE]

Remover == [pc : {"idle", "check", "remove"}, session : Sessions,
            whole : BOOLEAN, seen : SUBSET Runs]
IdleRemover == [pc |-> "idle", session |-> Trace, whole |-> FALSE, seen |-> {}]

\* left: calls that may follow, the repetition of the first form included.
Search == [pc : {"idle", "call", "wait", "done"}, left : 0..(MaxVariants + 1),
           wide : BOOLEAN, run : Runs \union {NoRun}, found : Hits,
           transient : BOOLEAN, reason : BOOLEAN]
NoSearch == [pc |-> "idle", left |-> 0, wide |-> FALSE, run |-> NoRun, found |-> "none",
             transient |-> FALSE, reason |-> FALSE]

Fails == failures < MaxFailures /\ failures' = failures + 1
Free == loop = NoRun
UnusedRuns == {r \in Runs : runs[r].pc = "none"}
NextRun == CHOOSE r \in UnusedRuns : TRUE

-----------------------------------------------------------------------------
(* The runs.                                                               *)

\* POST /query registers the run before anything can be awaited.
Register(s, stream) ==
    /\ Free /\ UnusedRuns # {}
    /\ active' = [active EXCEPT ![s] = @ \union {NextRun}]
    /\ runs' = [runs EXCEPT ![NextRun] = [NewRun EXCEPT !.pc = "begin", !.session = s,
                                                        !.stream = stream]]
    /\ loop' = IF stream THEN loop ELSE NextRun

AskStreaming(s) ==
    /\ Register(s, TRUE)
    /\ queues' = [queues EXCEPT ![NextRun] = "open"]
    /\ UNCHANGED <<sessions, messages, streams, removers, intact, search, failures>>

\* ensure_chat_session: an upsert.
Begin(r) ==
    /\ runs[r].pc = "begin"
    /\ sessions' = sessions \union {runs[r].session}
    /\ runs' = [runs EXCEPT ![r].pc = "ask"]
    /\ UNCHANGED <<messages, active, loop, queues, streams, removers, intact, search, failures>>

\* node_item_name_confirm saves the question, whether or not the session is
\* still there; the nodes that follow find what is in the scope by now (what a stream
\* cites, nothing here reads).
Ask(r) ==
    /\ runs[r].pc = "ask"
    /\ messages' = messages \union {<<r, "user">>}
    /\ \E hits \in IF runs[r].stream THEN {"none"} ELSE Hits :
        runs' = [runs EXCEPT ![r].pc = "answer", ![r].hits = hits]
    /\ UNCHANGED <<sessions, active, loop, queues, streams, removers, intact, search, failures>>

\* node_answer_output.
Answer(r) ==
    /\ runs[r].pc = "answer"
    /\ messages' = messages \union {<<r, "assistant">>}
    /\ runs' = [runs EXCEPT ![r].pc = "end"]
    /\ UNCHANGED <<sessions, active, loop, queues, streams, removers, intact, search, failures>>

Break(r) ==
    /\ runs[r].pc \in {"begin", "ask", "answer"} /\ Fails
    /\ runs' = [runs EXCEPT ![r].pc = "end", ![r].ok = FALSE]
    /\ UNCHANGED <<sessions, messages, active, loop, queues, streams, removers, intact, search>>

\* Mutant of End: only a run that succeeded says so.
End_OnlyOk(r) ==
    /\ runs[r].pc = "end"
    /\ queues' = IF queues[r] = "open" /\ runs[r].ok THEN [queues EXCEPT ![r] = "last"] ELSE queues
    /\ runs' = [runs EXCEPT ![r].pc = "finish"]
    /\ UNCHANGED <<sessions, messages, active, loop, streams, removers, intact, search, failures>>

\* FINAL or ERROR, if the queue is still known.
End(r) ==
    /\ runs[r].pc = "end"
    /\ queues' = IF queues[r] = "open" THEN [queues EXCEPT ![r] = "last"] ELSE queues
    /\ runs' = [runs EXCEPT ![r].pc = "finish"]
    /\ UNCHANGED <<sessions, messages, active, loop, streams, removers, intact, search, failures>>

\* Mutant of Finish: only a run that succeeded is taken off the list.
Finish_OnlyOk(r) ==
    /\ runs[r].pc = "finish"
    /\ active' = IF runs[r].ok THEN [active EXCEPT ![runs[r].session] = @ \ {r}] ELSE active
    /\ runs' = [runs EXCEPT ![r].pc = "ended"]
    /\ loop' = IF loop = r THEN NoRun ELSE loop
    /\ UNCHANGED <<sessions, messages, queues, streams, removers, intact, search, failures>>

\* The finally of run_query_graph.
Finish(r) ==
    /\ runs[r].pc = "finish"
    /\ active' = [active EXCEPT ![runs[r].session] = @ \ {r}]
    /\ runs' = [runs EXCEPT ![r].pc = "ended"]
    /\ loop' = IF loop = r THEN NoRun ELSE loop
    /\ UNCHANGED <<sessions, messages, queues, streams, removers, intact, search, failures>>

-----------------------------------------------------------------------------
(* The event stream.                                                       *)

\* Without a queue the stream ends at once.
Connect(c, r) ==
    /\ Free /\ streams[c] = Closed
    /\ runs[r].stream /\ queues[r] # "none"
    /\ streams' = [streams EXCEPT ![c].run = r]
    /\ UNCHANGED <<sessions, messages, active, runs, loop, queues, removers, intact,
                   search, failures>>

Deliver(c) ==
    /\ Free /\ streams[c].run # NoRun
    /\ queues[streams[c].run] = "last"
    /\ streams' = [streams EXCEPT ![c].got = TRUE]
    /\ queues' = [queues EXCEPT ![streams[c].run] = "open"]
    /\ UNCHANGED <<sessions, messages, active, runs, loop, removers, intact, search, failures>>

\* A generator ends only when its client has left; it takes the queue along.
Disconnect(c) ==
    /\ Free /\ streams[c].run # NoRun
    /\ IF streams[c].got THEN UNCHANGED failures ELSE Fails
    /\ queues' = [queues EXCEPT ![streams[c].run] = "none"]
    /\ streams' = [streams EXCEPT ![c] = Closed]
    /\ UNCHANGED <<sessions, messages, active, runs, loop, removers, intact, search>>

-----------------------------------------------------------------------------
(* remove_session (whole) and clear_session_history.                       *)

StartRemoval(x, s, whole) ==
    /\ Free /\ removers[x] = IdleRemover
    /\ removers' = [removers EXCEPT ![x] = [pc |-> "check", session |-> s, whole |-> whole,
                                            seen |-> {}]]
    /\ UNCHANGED <<sessions, messages, active, runs, loop, queues, streams, intact,
                   search, failures>>

\* Mutant of CheckRemoval: active runs are not looked up.
CheckRemoval_Unlocked(x) ==
    LET self == removers[x]
    IN /\ self.pc = "check"
       /\ removers' = [removers EXCEPT ![x] =
             IF ~self.whole /\ self.session \notin sessions THEN IdleRemover
             ELSE [@ EXCEPT !.pc = "remove",
                            !.seen = {r \in Runs : runs[r].pc \notin {"none", "ended"}}]]
       /\ UNCHANGED <<sessions, messages, active, runs, loop, queues, streams, intact,
                      search, failures>>

\* 409 while a run is active; clearing also needs the session.
CheckRemoval(x) ==
    LET self == removers[x]
    IN /\ self.pc = "check"
       /\ removers' = [removers EXCEPT ![x] =
             IF active[self.session] # {} \/ (~self.whole /\ self.session \notin sessions)
             THEN IdleRemover
             ELSE [@ EXCEPT !.pc = "remove",
                            !.seen = {r \in Runs : runs[r].pc \notin {"none", "ended"}}]]
       /\ UNCHANGED <<sessions, messages, active, runs, loop, queues, streams, intact,
                      search, failures>>

Remove(x) ==
    LET self == removers[x]
    IN /\ self.pc = "remove"
       /\ messages' = messages \ MessagesOf(self.session)
       /\ sessions' = IF self.whole THEN sessions \ {self.session} ELSE sessions
       /\ removers' = [removers EXCEPT ![x] = IdleRemover]
       /\ UNCHANGED <<active, runs, loop, queues, streams, intact, search, failures>>

RemoveDocument ==
    /\ intact /\ intact' = FALSE
    /\ UNCHANGED <<sessions, messages, active, runs, loop, queues, streams, removers,
                   search, failures>>

-----------------------------------------------------------------------------
(* ECHO: search_official_evidence.                                         *)

\* _punditrag_search_queries: wide when there are additional queries.
StartSearch ==
    /\ search.pc = "idle"
    /\ \E n \in 1..MaxVariants, wide \in BOOLEAN :
        search' = [NoSearch EXCEPT !.pc = "call", !.left = n + 1, !.wide = wide]
    /\ UNCHANGED <<sessions, messages, active, runs, loop, queues, streams, removers,
                   intact, failures>>

\* A narrow search stops at its first hit; the last call follows only when
\* nothing was found.
MoreCalls(s) ==
    \/ s.left > 1 /\ (s.found = "none" \/ s.wide)
    \/ s.left = 1 /\ s.found = "none"

\* Mutant of Concluded: outages are forgotten.
Concluded_NoOutage(s) ==
    IF MoreCalls(s) THEN [s EXCEPT !.pc = "call"]
    ELSE [s EXCEPT !.pc = "done", !.wide = FALSE, !.reason = s.found = "untraceable"]

\* An outage is a reason when nothing was found, and so are hits that cannot be
\* traced.
Concluded(s) ==
    IF MoreCalls(s) THEN [s EXCEPT !.pc = "call"]
    ELSE [s EXCEPT !.pc = "done", !.wide = FALSE,
                   !.reason = s.found = "untraceable" \/ (s.found = "none" /\ s.transient)]

Refused(s) == [NoSearch EXCEPT !.pc = "done", !.reason = TRUE]

\* One document of the scope that is gone is 404 for all of them.
Call ==
    /\ search.pc = "call"
    /\ IF intact
       THEN /\ Register(Trace, FALSE)
            /\ search' = [search EXCEPT !.pc = "wait", !.run = NextRun]
       ELSE /\ Free /\ search' = Refused(search)
            /\ UNCHANGED <<active, runs, loop>>
    /\ UNCHANGED <<sessions, messages, queues, streams, removers, intact, failures>>

\* The answer of the run, or 500 when it failed.
Answered ==
    /\ search.pc = "wait" /\ runs[search.run].pc = "ended"
    /\ search' = Concluded([search EXCEPT !.left = @ - 1, !.run = NoRun,
                              !.transient = @ \/ ~runs[search.run].ok,
                              !.found = IF runs[search.run].ok
                                        THEN Best(@, runs[search.run].hits) ELSE @])
    /\ UNCHANGED <<sessions, messages, active, runs, loop, queues, streams, removers,
                   intact, failures>>

\* The call times out, or never gets through; a run that began goes on.
TimeOut ==
    /\ search.pc \in {"call", "wait"} /\ Fails
    /\ search' = Concluded([search EXCEPT !.left = @ - 1, !.run = NoRun, !.transient = TRUE])
    /\ UNCHANGED <<sessions, messages, active, runs, loop, queues, streams, removers, intact>>

\* A malformed answer ends the search.
Malformed ==
    /\ search.pc = "wait" /\ runs[search.run].pc = "ended" /\ Fails
    /\ search' = Refused(search)
    /\ UNCHANGED <<sessions, messages, active, runs, loop, queues, streams, removers, intact>>

-----------------------------------------------------------------------------
Init ==
    /\ sessions = {} /\ messages = {}
    /\ active = [s \in Sessions |-> {}]
    /\ runs = [r \in Runs |-> NewRun]
    /\ loop = NoRun
    /\ queues = [r \in Runs |-> "none"]
    /\ streams = [c \in Clients |-> Closed]
    /\ removers = [x \in Removers |-> IdleRemover]
    /\ intact = TRUE
    /\ search = NoSearch
    /\ failures = 0

Work(r) == Begin(r) \/ Ask(r) \/ Answer(r) \/ Break(r) \/ End(r) \/ Finish(r)
Searching == Call \/ Answered \/ TimeOut \/ Malformed

Next ==
    \/ \E s \in Sessions : AskStreaming(s)
    \/ \E r \in Runs : Work(r) \/ \E c \in Clients : Connect(c, r)
    \/ \E c \in Clients : Deliver(c) \/ Disconnect(c)
    \/ \E x \in Removers :
        \/ \E s \in Sessions, whole \in BOOLEAN : StartRemoval(x, s, whole)
        \/ CheckRemoval(x) \/ Remove(x)
    \/ RemoveDocument
    \/ StartSearch \/ Searching

Spec == Init /\ [][Next]_vars

\* Threads run, and the event loop reaches every generator between two runs.
FairSpec ==
    /\ Spec
    /\ \A r \in Runs : WF_vars(Work(r))
    /\ \A c \in Clients : SF_vars(Deliver(c))

-----------------------------------------------------------------------------
(* Properties.                                                             *)

TypeOK ==
    /\ sessions \in SUBSET Sessions /\ messages \in SUBSET Message
    /\ active \in [Sessions -> SUBSET Runs] /\ runs \in [Runs -> Run]
    /\ loop \in Runs \union {NoRun}
    /\ queues \in [Runs -> {"none", "open", "last"}]
    /\ streams \in [Clients -> Stream] /\ removers \in [Removers -> Remover]
    /\ intact \in BOOLEAN /\ search \in Search /\ failures \in 0..MaxFailures

\* The turn is told why there is no evidence: a search that ends empty and
\* without a reason had every one of its calls answered, and none with a hit.
NoSilentLoss ==
    search.pc = "done" /\ search.found # "official" /\ ~search.reason =>
        ~search.transient /\ search.found = "none" /\ search.left = 0

\* A removal takes no message of a run that was under way when it asked; only
\* runs that began since can lose theirs.
RemovalSparesActive ==
    [][\A x \in Removers : removers[x].pc = "remove" /\ removers'[x].pc = "idle" =>
        \A m \in messages \ messages' : m[1] \notin removers[x].seen]_vars

\* A session does not stay locked: its runs end, failed ones too.
SessionFreed == \A s \in Sessions : active[s] # {} ~> active[s] = {}

\* A client that stays connected learns how the run ended.
StreamEnds ==
    \A c \in Clients : streams[c].run # NoRun ~> streams[c].got \/ streams[c].run = NoRun
=============================================================================
