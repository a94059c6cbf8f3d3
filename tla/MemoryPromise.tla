--------------------------- MODULE MemoryPromise ---------------------------
(***************************************************************************)
(* What the long-term memory of a learner promises, without its tables: a  *)
(* conclusion is learned, may be withdrawn, and is never believed again    *)
(* once it has been withdrawn.                                             *)
(***************************************************************************)
CONSTANT Conclusions

VARIABLES believed, withdrawn

Learn(k) ==
    /\ k \notin withdrawn
    /\ believed' = believed \union {k}
    /\ UNCHANGED withdrawn

\* Withdrawing may come with the conclusion that replaces the old ones.
Replace(K, L) ==
    /\ L \intersect withdrawn = {}
    /\ believed' = (believed \ K) \union L
    /\ withdrawn' = withdrawn \union (K \ L)

Init == believed = {} /\ withdrawn = {}

Next ==
    \/ \E k \in Conclusions : Learn(k)
    \/ \E K \in SUBSET believed, L \in SUBSET Conclusions : Replace(K, L)

Spec == Init /\ [][Next]_<<believed, withdrawn>>
=============================================================================
