--------------------------- MODULE ResourcesProofs ---------------------------
(***************************************************************************)
(* Proofs about Resources: what is stored passed a verification of its own *)
(* final text, on every path of retries and repairs.                       *)
(***************************************************************************)
EXTENDS Resources, TLAPS

Check == [of : Item, verdict : Verdicts, issues : SUBSET AllIssues]

\* The last verification is one of the text it names, with the verdict of a judge
\* that could be asked.
LastIsTrue ==
    Len(checks) > 0 =>
        LET last == Last(checks)
        IN  /\ last.verdict \in Judge
            /\ last.issues = Issues(last.of, request.type, request.evidence, last.verdict)

\* From the draft on the open row holds the text in hand; a text that was
\* verified is the text in hand until another takes its place.
InHand ==
    /\ pc \in {"verify", "retry", "repair", "finish"} => row.content = item /\ row.status = "draft"
    /\ pc \in {"retry", "repair", "finish"} => Len(checks) > 0 /\ Last(checks).of = item
    /\ pc \in {"begin", "generate", "verify", "retry", "repair"} => Len(checks) < MaxChecks
    /\ pc \in {"begin", "generate"} => checks = << >>
    /\ pc \notin {"saved", "lost"} => execution = "none"

Outcome ==
    /\ StoredIsVerified
    /\ CompletedMeansReviewed

IInv == TypeOK /\ LastIsTrue /\ InHand /\ Outcome

LEMMA CheckedType == TypeOK => checks \in Seq(Check) /\ Len(checks) \in Nat
  BY DEF TypeOK, Check

LEMMA IssuesType ==
  ASSUME NEW i \in Item, NEW type, NEW evidence \in Evidence, NEW v \in Verdicts
  PROVE  Issues(i, type, evidence, v) \subseteq AllIssues
  BY DEF Issues, AllIssues, Item, Flaws, Evidence, Verdicts

LEMMA JudgeType == Judge \subseteq Verdicts
  BY DEF Judge, Verdicts

LEMMA FallbackType ==
  ASSUME NEW type, NEW evidence
  PROVE  Fallback(type, evidence) \in Item
  BY DEF Fallback, Item, Flaws, Mendable

LEMMA RepairType ==
  ASSUME NEW i \in Item, NEW type, NEW evidence, NEW issues
  PROVE  Repair(i, type, evidence, issues) \in Item
  BY FallbackType DEF Repair, Item, Flaws, Mendable

\* What a verification without any issue says.
LEMMA NoIssues ==
  ASSUME NEW i \in Item, NEW type \in Types, NEW evidence \in Evidence, NEW v \in Judge,
         Issues(i, type, evidence, v) = {}
  PROVE  /\ configured /\ v = "covered"
         /\ evidence \in {"bracketed", "official"}
         /\ i.flaws \cap Mendable = {}
<1>1. v = "covered" /\ evidence \notin {"none", "unofficial"}
  BY DEF Issues
<1>2. configured
  BY <1>1 DEF Judge
<1>3. i.flaws \subseteq Ignored(type, evidence)
  BY DEF Issues
<1>4. Ignored(type, evidence) \subseteq {"missing_parts"}
  BY <1>1 DEF Ignored
<1>5. QED
  BY <1>1, <1>2, <1>3, <1>4 DEF Evidence, Mendable

-----------------------------------------------------------------------------
LEMMA IInvInit == Init => IInv
<1> SUFFICES ASSUME Init  PROVE IInv
  OBVIOUS
<1>1. NoItem \in Item
  BY DEF NoItem, Item
<1>2. (CHOOSE t \in Types : TRUE) \in Types
  BY ResourceAssumption
<1>3. TypeOK
  BY <1>1, <1>2, ResourceAssumption DEF Init, TypeOK, Evidence
<1>4. LastIsTrue /\ InHand /\ Outcome
  BY ResourceAssumption DEF Init, LastIsTrue, InHand, Outcome, StoredIsVerified, Saved,
     CompletedMeansReviewed
<1>5. QED
  BY <1>3, <1>4 DEF IInv

LEMMA VerifyKeeps ==
  ASSUME IInv, Verify
  PROVE  IInv'
<1>1. PICK v \in Judge :
        LET issues == Issues(item, request.type, request.evidence, v)
        IN  /\ checks' = Append(checks, [of |-> item, verdict |-> v, issues |-> issues])
            /\ pc' = IF issues # {} /\ request.evidence # "none" /\ Len(checks') < MaxChecks
                     THEN IF Len(checks) = 0 THEN "retry" ELSE "repair"
                     ELSE "finish"
  BY DEF Verify
<1> DEFINE issues == Issues(item, request.type, request.evidence, v)
           c == [of |-> item, verdict |-> v, issues |-> issues]
<1>2. item \in Item /\ request.evidence \in Evidence /\ request.type \in Types
  BY DEF IInv, TypeOK
<1>3. c \in Check
  BY <1>2, IssuesType, JudgeType DEF Check
<1> HIDE DEF issues
<1>4. checks' = Append(checks, c)
  BY <1>1 DEF issues
<1>5. /\ checks \in Seq(Check) /\ Len(checks) \in Nat
      /\ Len(checks) < MaxChecks
      /\ pc = "verify" /\ row.content = item /\ row.status = "draft" /\ execution = "none"
  BY CheckedType DEF IInv, InHand, Verify
<1>6. /\ checks' \in Seq(Check) /\ Len(checks') = Len(checks) + 1 /\ Last(checks') = c
  BY <1>3, <1>4, <1>5 DEF Last
<1>7. pc' \in {"retry", "repair", "finish"} /\ (pc' # "finish" => Len(checks') < MaxChecks)
  BY <1>1
<1>8. UNCHANGED <<configured, request, item, row, execution>>
  BY DEF Verify
<1>9. TypeOK'
  BY <1>5, <1>6, <1>7, <1>8, ResourceAssumption DEF IInv, TypeOK, Check
<1>10. LastIsTrue'
  BY <1>6, <1>8 DEF LastIsTrue, issues, Judge
<1>11. InHand'
  BY <1>5, <1>6, <1>7, <1>8 DEF InHand
<1>12. Outcome'
  BY <1>5, <1>7, <1>8 DEF Outcome, StoredIsVerified, Saved, CompletedMeansReviewed
<1>13. QED
  BY <1>9, <1>10, <1>11, <1>12 DEF IInv

\* A text that takes the place of another goes to its verification.
LEMMA ReplaceKeeps ==
  ASSUME IInv, NEW i \in Item, pc \in {"retry", "repair"}, Replace(i)
  PROVE  IInv'
<1>1. TypeOK'
  BY DEF Replace, IInv, TypeOK
<1>2. LastIsTrue'
  BY DEF Replace, IInv, LastIsTrue, Judge
<1>3. InHand'
  <2>1. row \in [content : Item, questions : Item, status : {"draft", "verified"}]
    BY DEF IInv, TypeOK
  <2>2. row'.content = i /\ row'.status = row.status
    BY <2>1 DEF Replace
  <2>3. QED
    BY <2>2 DEF Replace, IInv, InHand
<1>4. Outcome'
  BY DEF Replace, IInv, InHand, Outcome, StoredIsVerified, Saved, CompletedMeansReviewed
<1>5. QED
  BY <1>1, <1>2, <1>3, <1>4 DEF IInv

LEMMA FinishKeeps ==
  ASSUME IInv, Finish
  PROVE  IInv'
<1>1. /\ row \in [content : Item, questions : Item, status : {"draft", "verified"}]
      /\ item \in Item /\ request.evidence \in Evidence /\ request.type \in Types
  BY DEF IInv, TypeOK
<1>2. /\ pc = "finish" /\ row.content = item /\ row.status = "draft"
      /\ Len(checks) > 0 /\ Last(checks).of = item
  BY DEF Finish, IInv, InHand
<1>3. /\ row'.content = item /\ row'.questions = item
      /\ row'.status = IF Passed THEN "verified" ELSE "draft"
      /\ row' \in [content : Item, questions : Item, status : {"draft", "verified"}]
  BY <1>1, <1>2 DEF Finish
<1>4. UNCHANGED <<configured, request, item, checks>> /\ pc' = "saved"
  BY DEF Finish
<1>5. TypeOK'
  BY <1>3, <1>4 DEF Finish, IInv, TypeOK
<1>6. LastIsTrue'
  BY <1>4 DEF IInv, LastIsTrue, Judge
<1>7. InHand'
  BY <1>4 DEF InHand
<1>8. StoredIsVerified'
  BY <1>2, <1>3, <1>4 DEF StoredIsVerified, Saved, Passed
<1>9. CompletedMeansReviewed'
  <2> SUFFICES ASSUME execution' = "completed"
               PROVE  /\ Last(checks').verdict = "covered" /\ Last(checks').of = row'.content
                      /\ configured' /\ request'.evidence \in {"bracketed", "official"}
                      /\ row'.status = "verified" /\ row'.content.flaws \cap Mendable = {}
    BY DEF CompletedMeansReviewed
  <2>1. Passed
    BY DEF Finish
  <2>2. /\ Last(checks).verdict \in Judge
        /\ Last(checks).issues
               = Issues(item, request.type, request.evidence, Last(checks).verdict)
    BY <1>2 DEF IInv, LastIsTrue
  <2>3. /\ configured /\ Last(checks).verdict = "covered" /\ request.evidence \in {"bracketed", "official"}
        /\ item.flaws \cap Mendable = {}
    BY <1>1, <2>1, <2>2, NoIssues DEF Passed
  <2>4. QED
    BY <1>2, <1>3, <1>4, <2>1, <2>3
<1>10. QED
  BY <1>5, <1>6, <1>7, <1>8, <1>9 DEF IInv, Outcome

LEMMA GenerateKeeps ==
  ASSUME IInv, Generate
  PROVE  IInv'
<1>1. PICK failed \in BOOLEAN, i \in Drafts("model") \cup {Fallback(request.type, request.evidence)} :
        /\ item' = i
        /\ row' = [content |-> i, questions |-> i, status |-> "draft"]
        /\ request' = [request EXCEPT !.degraded = @ \/ failed]
        /\ pc' = "verify"
        /\ UNCHANGED <<configured, checks, execution>>
  BY DEF Generate
<1>2. i \in Item
  BY FallbackType DEF Drafts
<1>3. TypeOK'
  BY <1>1, <1>2 DEF IInv, TypeOK
<1>4. checks = << >> /\ execution = "none" /\ Len(checks) < MaxChecks
  BY DEF Generate, IInv, InHand
<1>5. LastIsTrue'
  BY <1>1, <1>4 DEF LastIsTrue
<1>6. InHand' /\ Outcome'
  BY <1>1, <1>4 DEF InHand, Outcome, StoredIsVerified, Saved, CompletedMeansReviewed
<1>7. QED
  BY <1>3, <1>5, <1>6 DEF IInv

LEMMA IInvNext == IInv /\ [Next]_vars => IInv'
<1> SUFFICES ASSUME IInv, [Next]_vars  PROVE IInv'
  OBVIOUS
<1>1. CASE Search
  <2>1. checks = << >>
    BY <1>1 DEF Search, IInv, InHand
  <2>2. QED
    BY <1>1, <2>1 DEF Search, IInv, TypeOK, LastIsTrue, InHand, Outcome, StoredIsVerified, Saved,
       CompletedMeansReviewed
<1>2. CASE Regenerate
  <2>1. Repaired \in Item
    BY RepairType DEF Repaired, IInv, TypeOK
  <2>2. Drafts("retry") \subseteq Item
    BY DEF Drafts
  <2>3. PICK i \in Item : Replace(i)
    BY <1>2, <2>1, <2>2 DEF Regenerate
  <2>4. QED
    BY <1>2, <2>3, ReplaceKeeps DEF Regenerate
<1>3. CASE Mend
  <2>1. Repaired \in Item
    BY RepairType DEF Repaired, IInv, TypeOK
  <2>2. QED
    BY <1>3, <2>1, ReplaceKeeps DEF Mend
<1>4. CASE Fail
  BY <1>4 DEF Fail, IInv, TypeOK, LastIsTrue, InHand, Outcome, StoredIsVerified, Saved,
     CompletedMeansReviewed, Judge
<1>5. CASE UNCHANGED vars
  BY <1>5 DEF vars, IInv, TypeOK, LastIsTrue, InHand, Outcome, StoredIsVerified, Saved,
     CompletedMeansReviewed, Judge
<1>6. QED
  BY <1>1, <1>2, <1>3, <1>4, <1>5, GenerateKeeps, VerifyKeeps, FinishKeeps DEF Next

\* The rows and the list of verifications keep their types; no resource is
\* verified more than three times.
THEOREM ResourceTypes == Spec => []TypeOK
<1>1. IInv => TypeOK
  BY DEF IInv
<1>2. QED
  BY <1>1, IInvInit, IInvNext, PTL DEF Spec

\* Text and questions that are stored are those verified last, and "verified" is
\* what that verification said, whatever model, judge and repair did before.
THEOREM StoredVerified == Spec => []StoredIsVerified
<1>1. IInv => StoredIsVerified
  BY DEF IInv, Outcome
<1>2. QED
  BY <1>1, IInvInit, IInvNext, PTL DEF Spec

\* An execution without degradation stands for official evidence and a judge
\* that was asked about the stored text and found it covered.
THEOREM CompletedReviewed == Spec => []CompletedMeansReviewed
<1>1. IInv => CompletedMeansReviewed
  BY DEF IInv, Outcome
<1>2. QED
  BY <1>1, IInvInit, IInvNext, PTL DEF Spec
=============================================================================
