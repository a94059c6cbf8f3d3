---------------------------- MODULE AttemptLedger ----------------------------
(***************************************************************************)
(* What the grading service promises about StudentQuestionHistory,         *)
(* whatever the interleaving of the requests that write it: the ledger only *)
(* grows at its end, an attempt id is entered once, and every entry answers *)
(* a question that the assessment ladder offered at some moment before the  *)
(* entry was made.                                                          *)
(***************************************************************************)
EXTENDS Integers, Sequences

CONSTANTS
    AttemptIds,       \* StudentQuestionHistory.attempt_id
    Questions,
    ScoreRange,
    Offered(_, _)     \* Offered(q, h): the ladder offers q after history h

VARIABLE history

Prefix(h, j) == SubSeq(h, 1, j)

\* Some moment of the past at which the ladder offered q.
OnceOffered(q, h) == \E j \in 0 .. Len(h) : Offered(q, Prefix(h, j))

Enter(id, q, s) ==
    /\ \A i \in DOMAIN history : history[i].id # id
    /\ OnceOffered(q, history)
    /\ history' = Append(history, [id |-> id, quiz |-> q, score |-> s])

Init == history = << >>

Next == \E id \in AttemptIds, q \in Questions, s \in ScoreRange : Enter(id, q, s)

Spec == Init /\ [][Next]_history
==============================================================================
