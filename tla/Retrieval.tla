----------------------------- MODULE Retrieval -----------------------------
(***************************************************************************)
(* One run of PunditRAG's query graph, node by node: the plan, the complete *)
(* document when it fits, the searches side by side, fusion, reranking,    *)
(* neighbours, the numbered prompt, and the citations of the answer.  The  *)
(* selected document may be removed meanwhile (the sessions, the messages  *)
(* and the event stream around a run are in Query).                        *)
(*                                                                         *)
(* A passage is a chunk of the document, numbered by its part of the one   *)
(* section, or a page of the web; texts matter as far as two of them are   *)
(* near duplicates, a relation that need not be transitive.                *)
(***************************************************************************)
EXTENDS Naturals, Sequences, FiniteSets, SequencesExt

CONSTANTS
    Chunks,       \* number of chunks of the document
    Pages,        \* bound: pages of a web search
    MaxHits,      \* RETRIEVAL_TOP_K
    FusedTopK,    \* RRF_TOP_K and RERANK_INPUT_TOP_K
    MaxTopK, MinTopK, FallbackTopK,     \* RERANK_..._TOP_K
    Window,       \* NEIGHBOR_EXPAND_PARTS
    MaxCitations, \* bound: citations in an answer
    Twins,        \* bound: pairs of passages that may be near duplicates
    MaxFailures   \* bound: services that fail a run

ASSUME RetrievalAssumption ==
    /\ {Chunks, Pages, Window, MaxCitations, MaxFailures} \subseteq Nat
    /\ {MaxHits, FusedTopK, MaxTopK, MinTopK, FallbackTopK} \subseteq Nat \ {0}

Passage == ({TRUE} \X (1..Pages)) \union ({FALSE} \X (1..Chunks))     \* from the web?
Web(p) == p[1]
Part(p) == p[2]
Chunk(n) == <<FALSE, n>>
Page(n) == <<TRUE, n>>

VARIABLES
    pc,
    scope,      \* documents: some are selected; web: search is on; twins: texts
                \* that are near duplicates; titled: every page has the same title
    removal,    \* of the selected document
    indexed,    \* its chunks in Milvus
    plan,       \* what the planner found
    branches,   \* searches that have not ended
    hits,
    docs,       \* candidates, then reranked_docs
    quality,    \* evidence_quality
    shown,      \* sources of the prompt, in the order of their numbers
    cited,      \* history: numbers the model wrote
    answer,     \* numbers in the answer that is stored
    sources,    \* and its sources
    basis,      \* answer_basis
    failures

fixed == <<scope, failures>>
result == <<shown, cited, answer, sources, basis>>
vars == <<pc, removal, indexed, plan, branches, hits, docs, quality, result, fixed>>

Fails == failures < MaxFailures /\ failures' = failures + 1

-----------------------------------------------------------------------------
(* Lists of passages.                                                      *)

\* Those of S, in their order.
Only(ps, S) == FoldLeft(LAMBDA kept, p : IF p \in S THEN Append(kept, p) ELSE kept, << >>, ps)

Locals(ps) == Only(ps, {Chunk(n) : n \in 1..Chunks})
FirstOf(ps, n) == SubSeq(ps, 1, IF Len(ps) < n THEN Len(ps) ELSE n)
Sequences(S, n) == UNION {[1..k -> S] : k \in 0..n}
Distinct(S, n) == {s \in Sequences(S, n) : Cardinality(ToSet(s)) = Len(s)}

\* Largest weight first; the sort is stable.
Ahead(ps, weight, i) ==
    {j \in DOMAIN ps : weight[j] > weight[i] \/ (weight[j] = weight[i] /\ j < i)}
Sorted(ps, weight) ==
    [k \in DOMAIN ps |->
        ps[CHOOSE i \in DOMAIN ps : Cardinality(Ahead(ps, weight, i)) = k - 1]]

\* _near_duplicate.
Alike(p, q) == p = q \/ {p, q} \in scope.twins

\* Mutant of Keep: only the one kept last is compared.
Keep_ChecksLast(kept, x) ==
    LET last == kept[Len(kept)]
    IN IF kept = << >> \/ ~Alike(last[1], x[1]) THEN Append(kept, x)
       ELSE IF Web(last[1]) /\ ~Web(x[1]) THEN [kept EXCEPT ![Len(kept)] = x]
       ELSE kept

\* Of passages with their scores.  A chunk takes the place of the first page it
\* repeats, and the larger score.
Keep(kept, x) ==
    LET same == {i \in DOMAIN kept : Alike(kept[i][1], x[1])}
        twin == CHOOSE i \in same : \A j \in same : i <= j
    IN IF same = {} THEN Append(kept, x)
       ELSE IF Web(kept[twin][1]) /\ ~Web(x[1])
       THEN [kept EXCEPT ![twin] = <<x[1], IF @[2] > x[2] THEN @[2] ELSE x[2]>>]
       ELSE kept

\* deduplicate_documents.
Merged(scored) == FoldLeft(Keep, << >>, scored)
Passages(scored) == [i \in DOMAIN scored |-> scored[i][1]]
Deduplicated(ps) == Passages(Merged([i \in DOMAIN ps |-> <<ps[i], 0>>]))

-----------------------------------------------------------------------------
(* The plan, and the complete document.                                    *)

\* Full: the planner wants all of the selection read.
Plans == {"greeting", "full", "normal"}

\* A greeting is answered at once; a planner that fails means a normal search.
ConfirmItem ==
    /\ pc = "confirm"
    /\ \E p \in Plans :
        /\ plan' = p
        /\ pc' = IF p = "greeting" THEN "done" ELSE "context"
    /\ UNCHANGED <<removal, indexed, branches, hits, docs, quality, result, fixed>>

StartSearch ==
    /\ pc' = "search"
    /\ branches' = {"embedding", "hyde"} \union (IF scope.web THEN {"web"} ELSE {})

\* Only a selected document that is completely imported may be read as a whole,
\* and only when its recorded size fits.
PrepareContext ==
    /\ pc = "context"
    /\ IF plan = "full" THEN pc' = "summary" /\ UNCHANGED branches
       ELSE \/ StartSearch
            \/ /\ ~scope.web /\ scope.documents /\ removal = "none"
               /\ pc' = "rows" /\ UNCHANGED branches
    /\ UNCHANGED <<removal, indexed, plan, hits, docs, quality, result, fixed>>

\* The chunks of a set, in the order of the document.
InOrder(rows) == Only([n \in 1..Chunks |-> Chunk(n)], {Chunk(n) : n \in rows})

\* Mutant of Whole: what was read is taken for the document.
Whole_AnyRows(rows) == rows # {}

\* No row may be missing.
Whole(rows) == Cardinality(rows) >= Chunks

\* What Milvus shows by then; the text that was read may be too long after all.
ReadRows ==
    /\ pc = "rows"
    /\ \/ StartSearch /\ UNCHANGED <<docs, quality>>
       \/ \E rows \in SUBSET indexed :
            /\ Whole(rows)
            /\ docs' = InOrder(rows)
            /\ quality' = "full_context"
            /\ pc' = "answer" /\ UNCHANGED branches
    /\ UNCHANGED <<removal, indexed, plan, hits, result, fixed>>

-----------------------------------------------------------------------------
(* The searches, which run side by side.                                   *)

EndBranch(b, found) ==
    /\ pc = "search" /\ b \in branches
    /\ branches' = branches \ {b}
    /\ hits' = [hits EXCEPT ![b] = found]
    /\ UNCHANGED <<pc, removal, indexed, plan, docs, quality, result, fixed>>

\* search_chunks: the hits in the scope with those of the topic, each once;
\* none while the embedding model is not there.
SearchEmbedding == \E found \in Distinct(indexed, MaxHits) : EndBranch("embedding", found)

\* The same with the made up answer; without one there are no hits.
SearchHyde == \E found \in Distinct(indexed, MaxHits) : EndBranch("hyde", found)

\* A search that fails is one that finds nothing.
SearchWeb == \E n \in 0..Pages : EndBranch("web", [i \in 1..n |-> i])

\* step_2_rrf_list, in millionths: a hit of both lists has both shares.
Share(list, n) ==
    IF n \in ToSet(list) THEN 1000000 \div (60 + CHOOSE i \in DOMAIN list : list[i] = n) ELSE 0

Fused(first, second) ==
    LET all == first \o Only(second, (1..Chunks) \ ToSet(first))
    IN FirstOf(Sorted(all, [i \in DOMAIN all |-> Share(first, all[i]) + Share(second, all[i])]),
               FusedTopK)

Fuse ==
    /\ pc = "search" /\ branches = {}
    /\ LET local == Fused(hits.embedding, hits.hyde)
       IN docs' = [i \in DOMAIN local |-> Chunk(local[i])]
                     \o [i \in DOMAIN hits.web |-> Page(hits.web[i])]
    /\ hits' = [hits EXCEPT !.embedding = << >>, !.hyde = << >>, !.web = << >>]
    /\ pc' = "rerank"
    /\ UNCHANGED <<removal, indexed, plan, branches, quality, result, fixed>>

-----------------------------------------------------------------------------
(* Reranking and neighbours.                                               *)

\* 0: irrelevant; 1: below RERANK_MIN_SCORE; from 3 to 2 it may be steep enough
\* to cut the list off.
Scores == 0..3
Relevant == {2, 3}

\* step_4_chunk_topk: cut at the first gap, but not below the minimum.
TopK(scored, steep) ==
    LET most == IF Len(scored) < MaxTopK THEN Len(scored) ELSE MaxTopK
        gaps == {i \in 1..most - 1 : steep /\ scored[i][2] > scored[i + 1][2]}
        cut == CHOOSE i \in gaps : \A j \in gaps : i <= j
    IN FirstOf(scored, IF most <= MinTopK \/ gaps = {} THEN most
                       ELSE IF cut < MinTopK THEN MinTopK ELSE cut)

\* step_5_low_confidence_fallback.
LowConfidence(scored) ==
    Only(FirstOf(scored, FallbackTopK), Passage \X (Scores \ {0}))

\* Without a reranker pages alone go on in the order of the search, under
\* the scores the search gave them.
Reranked(reranker) ==
    {IF reranker THEN Sorted(scored, [i \in DOMAIN scored |-> scored[i][2]]) ELSE scored :
        scored \in {[i \in DOMAIN docs |-> <<docs[i], score[i]>>] : score \in [DOMAIN docs -> Scores]}}

\* "unscored" is for candidates without a score, and every candidate has one.
Quality(relevant, low) ==
    IF relevant # << >> THEN "qualified" ELSE IF low # << >> THEN "low" ELSE "none"

Rerank ==
    /\ pc = "rerank"
    /\ \E reranker \in {TRUE} \union {Locals(docs) # << >>}, steep \in BOOLEAN :
        \E scored \in Reranked(reranker) :
            LET all == Merged(scored)
                relevant == TopK(Only(all, Passage \X Relevant), steep)
                low == LowConfidence(all)
            IN /\ docs' = Passages(IF relevant # << >> THEN relevant ELSE low)
               /\ quality' = Quality(relevant, low)
               /\ pc' = IF scope.documents /\ docs' # << >> THEN "expand" ELSE "answer"
    /\ UNCHANGED <<removal, indexed, plan, branches, hits, result, fixed>>

\* The chunks of a set of parts around one of them, in order.
Around(n, parts) == InOrder({m \in parts : m + Window >= n /\ m <= n + Window})

\* Pages of one title are one to the expansion.
PageSeen(p, ps) == p \in ToSet(ps) \/ (scope.titled /\ \E q \in ToSet(ps) : Web(q))

\* Mutant of Expanded: an anchor is looked up among the rows only.
Expanded_RowsOnly(rows) ==
    FoldLeft(LAMBDA ps, p :
        IF Web(p) THEN IF PageSeen(p, ps) THEN ps ELSE Append(ps, p)
        ELSE ps \o Only(Around(Part(p), rows), Passage \ ToSet(ps)), << >>, docs)

\* expand_reranked_neighbors: every anchor with what is found around it.  A
\* chunk that is an anchor itself is there whether or not Milvus still has it.
Expanded(rows) ==
    LET anchors == {Part(p) : p \in ToSet(Locals(docs))}
    IN FoldLeft(LAMBDA ps, p :
          IF Web(p) THEN IF PageSeen(p, ps) THEN ps ELSE Append(ps, p)
          ELSE ps \o Only(Around(Part(p), anchors \union rows), Passage \ ToSet(ps)),
          << >>, docs)

\* Without anchors, or when Milvus does not answer, the list stays.
Expand ==
    /\ pc = "expand"
    /\ \/ docs' = Deduplicated(docs)
       \/ /\ Locals(docs) # << >>
          /\ \E rows \in SUBSET indexed : docs' = Deduplicated(Expanded(rows))
    /\ pc' = "answer"
    /\ UNCHANGED <<removal, indexed, plan, branches, hits, quality, result, fixed>>

-----------------------------------------------------------------------------
(* The answer and its citations.                                           *)

\* extract_citation_numbers: in the order of their first use.
Numbers(written) ==
    FoldLeft(LAMBDA ns, n : IF n \in ToSet(ns) THEN ns ELSE Append(ns, n), << >>, written)

\* compact_citations.
Renumbered(written) ==
    LET numbers == Numbers(written)
    IN [i \in DOMAIN written |-> CHOOSE k \in DOMAIN numbers : numbers[k] = written[i]]

\* The model writes any numbers; one that leads nowhere refuses the answer.
Cite(candidates) ==
    \E written \in Sequences(1..Len(shown') + 1, MaxCitations) :
        /\ cited' = written
        /\ IF ToSet(written) \subseteq DOMAIN candidates
           THEN /\ answer' = Renumbered(written)
                /\ sources' = [k \in DOMAIN Numbers(written) |-> candidates[Numbers(written)[k]]]
                /\ basis' = IF written = << >> THEN "general" ELSE "sources"
           ELSE answer' = << >> /\ sources' = << >> /\ basis' = "refused"
        /\ pc' = "done"

\* Mutant of Prompt: the sources are numbered as they were ranked.
Prompt_AsRanked(ps) == ps

\* step_2_data_validates.
Prompt(ps) == Deduplicated(ps)

\* build_source_records removes what repeats once more.
GenerateAnswer ==
    /\ pc = "answer"
    /\ shown' = Prompt(docs)
    /\ Cite(Deduplicated(shown'))
    /\ UNCHANGED <<removal, indexed, plan, branches, hits, docs, quality, fixed>>

\* node_document_summary: all that Milvus shows of the scope; with nothing
\* there the answer says so.
Summarize ==
    /\ pc = "summary"
    /\ \E rows \in SUBSET indexed :
        /\ shown' = Deduplicated(InOrder(rows))
        /\ IF rows # {} THEN Cite(shown')
           ELSE pc' = "done" /\ UNCHANGED <<cited, answer, sources, basis>>
    /\ UNCHANGED <<removal, indexed, plan, branches, hits, docs, quality, fixed>>

\* An exception in a node, other than those it catches, ends the run.
Break ==
    /\ pc \in {"search", "rerank", "answer", "summary"} /\ Fails
    /\ pc' = "failed"
    /\ UNCHANGED <<scope, removal, indexed, plan, branches, hits, docs, quality, result>>

-----------------------------------------------------------------------------
(* The removal of the selected document: a mark, then the chunks.          *)

MarkRemoval ==
    /\ removal = "none" /\ removal' = "marked"
    /\ UNCHANGED <<pc, indexed, plan, branches, hits, docs, quality, result, fixed>>

RemoveChunks ==
    /\ removal = "marked" /\ removal' = "gone"
    /\ indexed' = {}
    /\ UNCHANGED <<pc, plan, branches, hits, docs, quality, result, fixed>>

-----------------------------------------------------------------------------
Init ==
    /\ pc = "confirm"
    /\ scope \in [documents : BOOLEAN, web : BOOLEAN, twins : SUBSET Twins, titled : BOOLEAN]
    /\ removal = "none" /\ indexed = 1..Chunks
    /\ plan = "normal" /\ branches = {}
    /\ hits = [embedding |-> << >>, hyde |-> << >>, web |-> << >>]
    /\ docs = << >> /\ quality = "none"
    /\ shown = << >> /\ cited = << >> /\ answer = << >> /\ sources = << >> /\ basis = ""
    /\ failures = 0

Node ==
    \/ ConfirmItem \/ PrepareContext \/ ReadRows
    \/ SearchEmbedding \/ SearchHyde \/ SearchWeb
    \/ Fuse \/ Rerank \/ Expand \/ GenerateAnswer \/ Summarize \/ Break

Next == Node \/ MarkRemoval \/ RemoveChunks

Spec == Init /\ [][Next]_vars

-----------------------------------------------------------------------------
(* Properties.                                                             *)

TypeOK ==
    /\ pc \in {"confirm", "context", "rows", "search", "rerank", "expand", "summary", "answer",
               "done", "failed"}
    /\ removal \in {"none", "marked", "gone"} /\ indexed \subseteq 1..Chunks
    /\ plan \in Plans /\ branches \subseteq {"embedding", "hyde", "web"}
    /\ docs \in Seq(Passage) /\ shown \in Seq(Passage) /\ sources \in Seq(Passage)
    /\ quality \in {"full_context", "qualified", "low", "none"}
    /\ cited \in Seq(Nat) /\ answer \in Seq(DOMAIN sources)
    /\ basis \in {"", "sources", "general", "refused"}

\* A citation of the stored answer leads to the text the model had before it
\* under the number it wrote, although the list of candidates is made unique
\* in several places; every source is cited, and an answer is refused, without
\* sources, only for a number that was not before the model.
CitationsFaithful ==
    pc = "done" =>
        /\ basis \in {"sources", "general"} =>
              /\ DOMAIN answer = DOMAIN cited
              /\ \A i \in DOMAIN answer : sources[answer[i]] = shown[cited[i]]
        /\ basis = "refused" => ~(ToSet(cited) \subseteq DOMAIN shown)
        /\ DOMAIN sources = ToSet(answer)

\* No text is put before the model under two numbers, in particular not as a
\* chunk and as a page.
ShownOnce == \A i, j \in DOMAIN shown : Alike(shown[i], shown[j]) => i = j

\* The neighbours of a chunk never take the place of one that was ranked: it
\* stays, or a chunk with the same text does, also when it is removed from
\* Milvus meanwhile.
AnchorsKept ==
    [][pc = "expand" /\ pc' = "answer" =>
        \A p \in ToSet(Locals(docs)) : \E q \in ToSet(Locals(docs')) : Alike(p, q)]_vars

\* "The complete text of the selection has been read" is said of the complete
\* text only, however much of it Milvus has by then.
FullContextComplete ==
    pc = "done" /\ quality = "full_context" =>
        \A n \in 1..Chunks : \E q \in ToSet(shown) : Alike(Chunk(n), q)

=============================================================================
