------------------------------- MODULE Resources -------------------------------
(***************************************************************************)
(* A request for a personal resource: evidence is searched, one draft is   *)
(* generated, verified, regenerated once and repaired once, and everything *)
(* is committed together at the end.  A text is what the verifier can find *)
(* wrong with it (its flaws).                                              *)
(***************************************************************************)
EXTENDS Naturals, Sequences, FiniteSets, SequencesExt

CONSTANTS
    Types,      \* RESOURCE_TYPES
    MaxChecks   \* verifications of one resource: the first, the retry, the repair

ASSUME ResourceAssumption ==
    /\ Types # {} /\ Types \subseteq {"custom_note", "practice_guide", "staged_test"}
    /\ MaxChecks = 3

VARIABLES
    configured,  \* AIConfig names a model
    pc,
    request,     \* what was asked, found and degraded on the way
    item,        \* the draft in hand: final_item
    row,         \* the generated_resources row of the open transaction
    checks,      \* its verification_results
    execution    \* status of the committed turn execution

vars == <<configured, pc, request, item, row, checks, execution>>

-----------------------------------------------------------------------------
(* Texts.                                                                  *)

\* repair_failed_resource mends a text that is short, cites nothing or has no
\* claim.  "bad_reference": a citation, claim or name the evidence does not bear
\* out.  "missing_parts": a staged test without all its questions, dimensions and
\* scoring rule, a practice guide without three whole steps.
Mendable == {"short", "uncited", "no_claims"}
Flaws == Mendable \union {"bad_reference", "missing_parts"}
Item == [flaws : SUBSET Flaws, made : {"model", "retry", "fallback", "repair"}]

\* "unofficial" has a link outside the official hosts, or no document id;
\* "bracketed" is official and its first excerpt has a number in brackets that no
\* source bears.
Evidence == {"none", "unofficial", "bracketed", "official"}

\* evaluate_semantic_coverage: a service that is not configured, fails or answers
\* without the required structure is no judge.
Verdicts == {"covered", "uncovered", "unavailable"}
Judge == IF configured THEN Verdicts ELSE {"unavailable"}

\* ContentVerificationAgent.verify.
Ignored(type, evidence) ==
    (IF evidence = "none" THEN {"uncited"} ELSE {})
    \union (IF type = "custom_note" THEN {"missing_parts"} ELSE {})

\* Mutant of Issues: a judge that cannot be asked has no objection.
Issues_NoJudge(i, type, evidence, verdict) ==
    (i.flaws \ Ignored(type, evidence))
    \union (IF evidence \in {"none", "unofficial"} THEN {evidence} ELSE {})
    \union (IF verdict = "uncovered" THEN {verdict} ELSE {})

Issues(i, type, evidence, verdict) ==
    (i.flaws \ Ignored(type, evidence))
    \union (IF evidence \in {"none", "unofficial"} THEN {evidence} ELSE {})
    \union (IF verdict # "covered" THEN {verdict} ELSE {})

AllIssues == Flaws \union Evidence \union Verdicts

\* _fallback: cites [1] only with evidence; a note quotes the first excerpt,
\* brackets included.
Fallback(type, evidence) ==
    [made |-> "fallback",
     flaws |-> CASE evidence = "none" -> {"uncited", "no_claims"}
                 [] evidence = "bracketed" /\ type = "custom_note" -> {"bad_reference"}
                 [] OTHER -> {}]

\* repair_failed_resource: a staged test that lacks parts is replaced.
Repair(i, type, evidence, issues) ==
    IF type = "staged_test" /\ "missing_parts" \in issues
    THEN Fallback(type, evidence)
    ELSE [flaws |-> i.flaws \ (IF evidence = "none" THEN {"short"} ELSE Mendable),
          made |-> "repair"]

\* _generate_with_model: the marks of the claims are added to a text without any.
Drafts(made) ==
    {i \in Item : i.made = made /\ ("uncited" \in i.flaws => "no_claims" \in i.flaws)}

-----------------------------------------------------------------------------
NoItem == [flaws |-> {}, made |-> "fallback"]

Init ==
    /\ configured \in BOOLEAN
    /\ pc = "begin"
    /\ request = [type |-> CHOOSE t \in Types : TRUE, evidence |-> "none", degraded |-> FALSE]
    /\ item = NoItem
    /\ row = [content |-> NoItem, questions |-> NoItem, status |-> "draft"]
    /\ checks = <<>>
    /\ execution = "none"

\* Memories, profile and evidence; each search may be degraded, that of evidence
\* with hits too.
Search ==
    /\ pc = "begin"
    /\ \E t \in Types, e \in Evidence, d \in BOOLEAN :
        request' = [type |-> t, evidence |-> e, degraded |-> d]
    /\ pc' = "generate"
    /\ UNCHANGED <<configured, item, row, checks, execution>>

\* ResourceGenerationAgent.generate: two calls of the model; that both failed is
\* a degradation, that none was made is not.
Generate ==
    /\ pc = "generate"
    /\ \E failed \in BOOLEAN :
        LET asked == request.evidence # "none" /\ configured
            drafts == IF asked /\ ~failed THEN Drafts("model")
                      ELSE {Fallback(request.type, request.evidence)}
        IN  /\ failed => asked
            /\ \E i \in drafts :
                 /\ item' = i
                 /\ row' = [content |-> i, questions |-> i, status |-> "draft"]
            /\ request' = [request EXCEPT !.degraded = @ \/ failed]
    /\ pc' = "verify"
    /\ UNCHANGED <<configured, checks, execution>>

\* One verification; the failed text goes on to its retry, then to its repair.
Verify ==
    /\ pc = "verify"
    /\ \E v \in Judge :
        LET issues == Issues(item, request.type, request.evidence, v)
        IN  /\ checks' = Append(checks, [of |-> item, verdict |-> v, issues |-> issues])
            /\ pc' = IF issues # {} /\ request.evidence # "none" /\ Len(checks') < MaxChecks
                     THEN IF Len(checks) = 0 THEN "retry" ELSE "repair"
                     ELSE "finish"
    /\ UNCHANGED <<configured, request, item, row, execution>>

Replace(i) ==
    /\ item' = i
    /\ row' = [row EXCEPT !.content = i]
    /\ pc' = "verify"
    /\ UNCHANGED <<configured, request, checks, execution>>

Repaired == Repair(item, request.type, request.evidence, Last(checks).issues)

\* regenerate_after_verification_failure: without a model, or when it fails, the
\* first text is repaired instead.
Regenerate ==
    /\ pc = "retry"
    /\ \E i \in (IF configured THEN Drafts("retry") ELSE {}) \union {Repaired} : Replace(i)

Mend == pc = "repair" /\ Replace(Repaired)

Passed == Last(checks).issues = {}

\* Mutant of Finish: the questions of the first text stay.
Finish_FirstQuestions ==
    /\ pc = "finish"
    /\ row' = [row EXCEPT !.status = IF Passed THEN "verified" ELSE @]
    /\ execution' = IF request.degraded \/ ~Passed THEN "completed_with_degradation"
                    ELSE "completed"
    /\ pc' = "saved"
    /\ UNCHANGED <<configured, request, item, checks>>

\* The rows, the execution and the decision are committed together.
Finish ==
    /\ pc = "finish"
    /\ row' = [row EXCEPT !.questions = item, !.status = IF Passed THEN "verified" ELSE @]
    /\ execution' = IF request.degraded \/ ~Passed THEN "completed_with_degradation"
                    ELSE "completed"
    /\ pc' = "saved"
    /\ UNCHANGED <<configured, request, item, checks>>

\* An exception nobody catches (a title too long for its column, an answer that is
\* no object) or a crash: the transaction is gone.
Fail ==
    /\ pc \notin {"saved", "lost"}
    /\ pc' = "lost"
    /\ UNCHANGED <<configured, request, item, row, checks, execution>>

Next == Search \/ Generate \/ Verify \/ Regenerate \/ Mend \/ Finish \/ Fail

Spec == Init /\ [][Next]_vars

-----------------------------------------------------------------------------
(* Properties.                                                             *)

TypeOK ==
    /\ configured \in BOOLEAN
    /\ pc \in {"begin", "generate", "verify", "retry", "repair", "finish", "saved", "lost"}
    /\ request \in [type : Types, evidence : Evidence, degraded : BOOLEAN]
    /\ item \in Item
    /\ row \in [content : Item, questions : Item, status : {"draft", "verified"}]
    /\ checks \in Seq([of : Item, verdict : Verdicts, issues : SUBSET AllIssues]) /\ Len(checks) <= MaxChecks
    /\ execution \in {"none", "completed", "completed_with_degradation"}

Saved == pc = "saved"

\* The learner reads the text, and answers the questions, that were verified last,
\* and "verified" is what that verification said.
StoredIsVerified ==
    Saved => /\ row.content = Last(checks).of /\ row.questions = Last(checks).of
             /\ (row.status = "verified" <=> Last(checks).issues = {})

\* An execution that ended without degradation has official evidence, and of the
\* very text that is stored the judge answered that it covers the request: a judge
\* that is not configured, fails or answers nonsense completes nothing.
CompletedMeansReviewed ==
    execution = "completed" =>
        /\ Last(checks).verdict = "covered" /\ Last(checks).of = row.content
        /\ configured /\ request.evidence \in {"bracketed", "official"}
        /\ row.status = "verified" /\ row.content.flaws \cap Mendable = {}

=============================================================================
