-------------------------- MODULE MCLearnerData --------------------------
(* Values for TLC: one question, two preferences, feedback that is stable   *)
(* or unconfirmed.                                                         *)
EXTENDS LearnerData, TLC

CONSTANTS q, p1, p2, c1, f1, f2, g1, g2

MCGroupOf == (q :> g1) @@ (p1 :> g2) @@ (p2 :> g2)

Item(f, p, confirmed) ==
    [ref |-> f, domain |-> p, outcome |-> c1, confirmed |-> confirmed, sure |-> TRUE]
MCItems == {Item(f1, p1, TRUE), Item(f2, p1, TRUE), Item(f2, p2, FALSE)}

Symmetry == Permutations(Handlers)
=============================================================================
