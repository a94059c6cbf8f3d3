--------------------------- MODULE RetrievalProofs ---------------------------
(***************************************************************************)
(* What a run of the query graph puts before the model and what it stores, *)
(* for documents, searches and near duplicates of any number.  The folds   *)
(* and sorts of the graph are followed by induction on the set of the      *)
(* positions they have reached.                                            *)
(***************************************************************************)
EXTENDS Retrieval, FiniteSetTheorems, WellFoundedInduction, TLAPS

-----------------------------------------------------------------------------
(* Numbers.                                                                *)

LEMMA LeastExists ==
  ASSUME NEW S \in SUBSET Nat, S # {}
  PROVE  \E u \in S : \A v \in S : u <= v
<1>1. PICK u \in S : \A v \in S : ~(<<v, u>> \in OpToRel(<, Nat))
  BY WFMin, NatLessThanWellFounded
<1>2. \A v \in S : ~(v < u)
  BY <1>1 DEF OpToRel
<1>3. \A v \in S : u <= v
  BY <1>2
<1>4. QED
  BY <1>3

\* A set of positions that is never left at the next position holds them all.
LEMMA StepByStep ==
  ASSUME NEW n \in Nat, NEW S, 0 \in S, \A k \in 0 .. n : k \in S /\ k < n => k + 1 \in S
  PROVE  \A k \in 0 .. n : k \in S
<1> SUFFICES ASSUME NEW b \in 0 .. n, b \notin S
             PROVE  FALSE
  OBVIOUS
<1> DEFINE out == {k \in 0 .. n : k \notin S}
<1>1. out \in SUBSET Nat /\ out # {}
  OBVIOUS
<1>2. PICK u \in out : \A v \in out : u <= v
  BY <1>1, LeastExists
<1>3. u \in Nat /\ u <= n /\ u \notin S /\ u # 0
  BY <1>2
<1>4. u - 1 \in 0 .. n /\ u - 1 < n /\ u - 1 \notin out
  BY <1>2, <1>3
<1>5. u - 1 \in S /\ u = (u - 1) + 1
  BY <1>3, <1>4
<1>6. QED
  BY <1>3, <1>4, <1>5

LEMMA MaxIsGreatest ==
  ASSUME NEW n \in Nat, NEW S \in SUBSET (0 .. n), S # {}
  PROVE  Max(S) \in S /\ \A x \in S : Max(S) >= x
<1> DEFINE above == {u \in Nat : \A x \in S : x <= u}
<1>1. above \in SUBSET Nat /\ n \in above
  OBVIOUS
<1>2. PICK u \in above : \A v \in above : u <= v
  BY <1>1, LeastExists
<1>3. u \in Nat /\ \A x \in S : x \in Nat /\ x <= u
  BY <1>2
<1>4. u \in S
  <2>1. SUFFICES ASSUME u \notin S
                 PROVE  FALSE
    OBVIOUS
  <2>2. \A x \in S : x < u
    BY <1>3, <2>1
  <2>3. PICK x \in S : x \in Nat
    BY <1>3
  <2>4. u # 0
    BY <1>3, <2>2, <2>3
  <2>5. u - 1 \in above
    BY <1>3, <2>2, <2>4
  <2>6. u <= u - 1
    BY <1>2, <2>5
  <2>7. QED
    BY <1>3, <2>6
<1>5. \E m \in S : \A x \in S : m >= x
  BY <1>3, <1>4
<1>6. QED
  BY <1>5 DEF Max

LEMMA MaxUpTo ==
  ASSUME NEW k \in Nat, k > 0
  PROVE  Max(1 .. k) = k /\ (1 .. k) \ {k} = 1 .. (k - 1)
<1>1. 1 .. k \in SUBSET (0 .. k) /\ 1 .. k # {} /\ k \in 1 .. k
  OBVIOUS
<1>2. Max(1 .. k) \in 1 .. k /\ Max(1 .. k) >= k
  BY <1>1, MaxIsGreatest
<1>3. QED
  BY <1>2

-----------------------------------------------------------------------------
(* A fold is a sequence of steps, one for each position.                   *)

\* The equation that defines MapThenFoldSet has a solution.
Solves(it, T, n, b, G) ==
    /\ it \in [SUBSET (1 .. n) -> T]
    /\ it = [S \in SUBSET (1 .. n) |->
               IF S = {} THEN b ELSE G[<<it[S \ {Max(S)}], Max(S)>>]]

LEMMA FoldExists ==
  ASSUME NEW T, NEW n \in Nat, NEW b \in T, NEW G \in [T \X (1 .. n) -> T]
  PROVE  \E it : Solves(it, T, n, b, G)
<1> DEFINE good == {k \in 0 .. n : \E it : Solves(it, T, k, b, G)}
<1>1. 0 \in good
  <2> DEFINE it == [S \in SUBSET (1 .. 0) |-> b]
  <2>1. \A S \in SUBSET (1 .. 0) : S = {}
    OBVIOUS
  <2>2. it \in [SUBSET (1 .. 0) -> T]
    OBVIOUS
  <2>3. it = [S \in SUBSET (1 .. 0) |->
                IF S = {} THEN b ELSE G[<<it[S \ {Max(S)}], Max(S)>>]]
    BY <2>1
  <2>4. QED
    BY <2>2, <2>3 DEF Solves
<1>2. ASSUME NEW k \in 0 .. n, k \in good, k < n
      PROVE  k + 1 \in good
  <2>0. k \in Nat /\ k + 1 \in 1 .. n /\ k + 1 \in 0 .. n
    BY <1>2
  <2>1. PICK f : Solves(f, T, k, b, G)
    BY <1>2
  <2> DEFINE it == [S \in SUBSET (1 .. (k + 1)) |->
                      IF k + 1 \in S THEN G[<<f[S \ {k + 1}], k + 1>>] ELSE f[S]]
  <2>2. \A S \in SUBSET (1 .. (k + 1)) :
          /\ k + 1 \in S => S \ {k + 1} \in SUBSET (1 .. k)
          /\ k + 1 \notin S => S \in SUBSET (1 .. k)
    OBVIOUS
  <2>3. f \in [SUBSET (1 .. k) -> T]
        /\ \A S \in SUBSET (1 .. k) :
             f[S] = IF S = {} THEN b ELSE G[<<f[S \ {Max(S)}], Max(S)>>]
    <3>1. f = [S \in SUBSET (1 .. k) |->
                 IF S = {} THEN b ELSE G[<<f[S \ {Max(S)}], Max(S)>>]]
      BY <2>1 DEF Solves
    <3>2. QED
      BY <2>1, <3>1 DEF Solves
  <2>4. it \in [SUBSET (1 .. (k + 1)) -> T]
    BY <2>0, <2>2, <2>3
  <2>5. ASSUME NEW S \in SUBSET (1 .. (k + 1))
        PROVE  it[S] = IF S = {} THEN b ELSE G[<<it[S \ {Max(S)}], Max(S)>>]
    <3>1. CASE k + 1 \in S
      <4>1. S \in SUBSET (0 .. (k + 1)) /\ k + 1 \in Nat
        OBVIOUS
      <4>2. Max(S) \in S /\ Max(S) >= k + 1
        BY <3>1, <4>1, MaxIsGreatest
      <4>3. Max(S) = k + 1
        <5>1. Max(S) \in 1 .. (k + 1)
          BY <4>2
        <5>2. QED
          BY <2>0, <4>2, <5>1
      <4>4. it[S \ {k + 1}] = f[S \ {k + 1}]
        OBVIOUS
      <4>5. QED
        BY <3>1, <4>3, <4>4
    <3>2. CASE k + 1 \notin S /\ S # {}
      <4>1. S \in SUBSET (1 .. k) /\ S \in SUBSET (0 .. k)
        BY <2>2, <3>2
      <4>2. Max(S) \in S
        BY <2>0, <3>2, <4>1, MaxIsGreatest
      <4>3. it[S \ {Max(S)}] = f[S \ {Max(S)}] /\ it[S] = f[S]
        BY <3>2
      <4>4. QED
        BY <2>3, <3>2, <4>1, <4>3
    <3>3. CASE S = {}
      <4>1. it[S] = f[S] /\ f[S] = b
        BY <2>3, <3>3
      <4>2. QED
        BY <3>3, <4>1
    <3>4. QED
      BY <3>1, <3>2, <3>3
  <2>6. it = [S \in SUBSET (1 .. (k + 1)) |->
                IF S = {} THEN b ELSE G[<<it[S \ {Max(S)}], Max(S)>>]]
    BY <2>5
  <2>7. Solves(it, T, k + 1, b, G)
    <3> HIDE DEF it
    <3> QED
      BY <2>4, <2>6 DEF Solves
  <2>8. QED
    BY <2>0, <2>7
<1>3. n \in good
  <2> HIDE DEF good
  <2>1. \A k \in 0 .. n : k \in good /\ k < n => k + 1 \in good
    BY <1>2
  <2>2. QED
    BY <1>1, <2>1, StepByStep
<1>4. QED
  BY <1>3

\* What a solution says of one set of positions.
Solution(it, T, n, b, G) ==
    /\ it \in [SUBSET (1 .. n) -> T] /\ it[{}] = b
    /\ \A s \in SUBSET (1 .. n) : s # {} =>
         /\ Max(s) \in 1 .. n /\ it[s \ {Max(s)}] \in T
         /\ it[s] = G[<<it[s \ {Max(s)}], Max(s)>>]

LEMMA FoldSolved ==
  ASSUME NEW T, NEW n \in Nat, NEW b \in T, NEW G \in [T \X (1 .. n) -> T]
  PROVE  \E it : Solution(it, T, n, b, G)
<1>1. PICK it : Solves(it, T, n, b, G)
  BY FoldExists
<1>2. it \in [SUBSET (1 .. n) -> T]
  BY <1>1 DEF Solves
<1>3. \A s \in SUBSET (1 .. n) :
        it[s] = IF s = {} THEN b ELSE G[<<it[s \ {Max(s)}], Max(s)>>]
  <2>1. it = [s \in SUBSET (1 .. n) |->
                IF s = {} THEN b ELSE G[<<it[s \ {Max(s)}], Max(s)>>]]
    BY <1>1 DEF Solves
  <2>2. QED
    BY <2>1
<1>4. \A s \in SUBSET (1 .. n) : s # {} => Max(s) \in 1 .. n
  <2> SUFFICES ASSUME NEW s \in SUBSET (1 .. n), s # {}
               PROVE  Max(s) \in 1 .. n
    OBVIOUS
  <2>1. s \in SUBSET (0 .. n)
    OBVIOUS
  <2>2. Max(s) \in s
    BY <2>1, MaxIsGreatest
  <2>3. QED
    BY <2>2
<1>5. it[{}] = b
  BY <1>3
<1>6. \A s \in SUBSET (1 .. n) : s # {} =>
        it[s \ {Max(s)}] \in T /\ it[s] = G[<<it[s \ {Max(s)}], Max(s)>>]
  BY <1>2, <1>3
<1>7. Solution(it, T, n, b, G)
  BY <1>2, <1>4, <1>5, <1>6 DEF Solution
<1>8. QED
  BY <1>7

\* From the sets of positions to the sequence of the results.
Steps(f, T, n, b, G, last) ==
    /\ f \in [0 .. n -> T] /\ f[0] = b /\ f[n] = last
    /\ \A i \in 1 .. n : f[i] = G[<<f[i - 1], i>>]

LEMMA FoldSteps ==
  ASSUME NEW T, NEW n \in Nat, NEW b \in T, NEW G \in [T \X (1 .. n) -> T], NEW g,
         g[{}] = b,
         \A s \in SUBSET (1 .. n) : s # {} /\ g[s \ {Max(s)}] \in T =>
           g[s] = G[<<g[s \ {Max(s)}], Max(s)>>]
  PROVE  \E f : Steps(f, T, n, b, G, g[1 .. n])
<1> DEFINE typed == {i \in 0 .. n : g[1 .. i] \in T}
           f == [i \in 0 .. n |-> g[1 .. i]]
<1>1. g[1 .. 0] = b
  <2>1. 1 .. 0 = {}
    OBVIOUS
  <2>2. QED
    BY <2>1
<1>2. ASSUME NEW i \in 1 .. n, g[1 .. (i - 1)] \in T
      PROVE  g[1 .. i] = G[<<g[1 .. (i - 1)], i>>]
  <2>1. i \in Nat /\ i > 0
    OBVIOUS
  <2>2. 1 .. i \in SUBSET (1 .. n) /\ 1 .. i # {}
    BY <2>1
  <2>3. Max(1 .. i) = i /\ (1 .. i) \ {i} = 1 .. (i - 1)
    BY <2>1, MaxUpTo
  <2>4. (1 .. i) \ {Max(1 .. i)} = 1 .. (i - 1)
    BY <2>3
  <2>5. g[1 .. i] = G[<<g[(1 .. i) \ {Max(1 .. i)}], Max(1 .. i)>>]
    BY <1>2, <2>2, <2>4
  <2>6. QED
    BY <2>3, <2>4, <2>5
<1>3. \A i \in 0 .. n : i \in typed
  <2>1. 0 \in typed
    BY <1>1
  <2>2. ASSUME NEW i \in 0 .. n, i \in typed, i < n
        PROVE  i + 1 \in typed
    <3>1. i + 1 \in 1 .. n /\ (i + 1) - 1 = i /\ i + 1 \in 0 .. n
      BY <2>2
    <3>2. g[1 .. (i + 1)] = G[<<g[1 .. i], i + 1>>]
      BY <1>2, <2>2, <3>1
    <3>3. QED
      BY <2>2, <3>1, <3>2
  <2> HIDE DEF typed
  <2>3. QED
    BY <2>1, <2>2, StepByStep
<1>4. \A i \in 0 .. n : g[1 .. i] \in T
  BY <1>3
<1>5. f \in [0 .. n -> T]
  BY <1>4
<1>6. \A i \in 1 .. n : f[i] = G[<<f[i - 1], i>>]
  <2> SUFFICES ASSUME NEW i \in 1 .. n
               PROVE  f[i] = G[<<f[i - 1], i>>]
    OBVIOUS
  <2>1. i \in 0 .. n /\ i - 1 \in 0 .. n
    OBVIOUS
  <2>2. QED
    BY <1>2, <1>4, <2>1
<1>7. f[0] = b /\ f[n] = g[1 .. n]
  BY <1>1
<1>8. Steps(f, T, n, b, G, g[1 .. n])
  <2> HIDE DEF f
  <2> QED
    BY <1>5, <1>6, <1>7 DEF Steps
<1>9. QED
  BY <1>8

-----------------------------------------------------------------------------
(* The passages of a set, in their order.                                  *)

\* f[i] are those of S among the first i of ps.
Filters(f, E, ps, S) ==
    /\ f \in [0 .. Len(ps) -> Seq(E)]
    /\ f[0] = << >> /\ f[Len(ps)] = Only(ps, S)
    /\ \A i \in 1 .. Len(ps) :
         f[i] = IF ps[i] \in S THEN Append(f[i - 1], ps[i]) ELSE f[i - 1]

LEMMA OnlySteps ==
  ASSUME NEW E, NEW ps \in Seq(E), NEW S
  PROVE  \E f : Filters(f, E, ps, S)
<1> DEFINE n == Len(ps)
           T == Seq(E)
           Take(kept, p) == IF p \in S THEN Append(kept, p) ELSE kept
           Fits(it) == it = [s \in SUBSET DOMAIN ps |->
                               IF s = {} THEN << >> ELSE Take(it[s \ {Max(s)}], ps[Max(s)])]
           g == CHOOSE it : Fits(it)
           G == [x \in T \X (1 .. n) |-> Take(x[1], ps[x[2]])]
<1>1. Only(ps, S) = g[1 .. n]
  BY DEF Only, FoldLeft, MapThenFoldSet
<1>2. n \in Nat /\ DOMAIN ps = 1 .. n /\ << >> \in T
  OBVIOUS
<1>3. \A kept \in T, i \in 1 .. n : Take(kept, ps[i]) \in T
  OBVIOUS
<1> HIDE DEF n, T, Take
<1>4. G \in [T \X (1 .. n) -> T]
  BY <1>3
<1>5. \A kept \in T, i \in 1 .. n : G[<<kept, i>>] = Take(kept, ps[i])
  OBVIOUS
<1> HIDE DEF G
<1>6. Fits(g)
  <2>1. PICK it : Solution(it, T, n, << >>, G)
    BY <1>2, <1>4, FoldSolved
  <2>2. Fits(it)
    BY <1>2, <1>5, <2>1 DEF Solution
  <2>3. QED
    <3> HIDE DEF Fits
    <3> QED
      BY <2>2
<1>7. /\ g[{}] = << >>
      /\ \A s \in SUBSET (1 .. n) : s # {} => g[s] = Take(g[s \ {Max(s)}], ps[Max(s)])
  <2> HIDE DEF g
  <2> QED
    BY <1>2, <1>6
<1>8. \A s \in SUBSET (1 .. n) : s # {} => Max(s) \in 1 .. n
  BY <1>2, <1>4, FoldSolved DEF Solution
<1>9. \A s \in SUBSET (1 .. n) : s # {} /\ g[s \ {Max(s)}] \in T =>
        g[s] = G[<<g[s \ {Max(s)}], Max(s)>>]
  <2> HIDE DEF g, Fits
  <2> QED
    BY <1>5, <1>7, <1>8
<1>10. PICK f : Steps(f, T, n, << >>, G, g[1 .. n])
  <2> HIDE DEF g, Fits
  <2> QED
    BY <1>2, <1>4, <1>7, <1>9, FoldSteps
<1>11. \A i \in 1 .. n : f[i] = Take(f[i - 1], ps[i])
  <2> SUFFICES ASSUME NEW i \in 1 .. n
               PROVE  f[i] = Take(f[i - 1], ps[i])
    OBVIOUS
  <2>1. i - 1 \in 0 .. n
    BY <1>2
  <2>2. QED
    BY <1>5, <1>10, <2>1 DEF Steps
<1>12. Filters(f, E, ps, S)
  BY <1>1, <1>10, <1>11 DEF n, T, Take, Steps, Filters
<1>13. QED
  BY <1>12

-----------------------------------------------------------------------------
(* Near duplicates.                                                        *)

Scored == Passage \X Scores

LEMMA ScoredParts ==
  /\ \A x \in Scored : x[1] \in Passage /\ x[2] \in 0 .. 3 /\ x = <<x[1], x[2]>>
  /\ \A p \in Passage, k \in 0 .. 3 : <<p, k>> \in Scored
  BY DEF Scored, Scores

LEMMA AlikeSymmetric ==
  ASSUME NEW p, NEW q
  PROVE  (Alike(p, q) <=> Alike(q, p)) /\ Alike(p, p)
<1>1. {p, q} = {q, p}
  OBVIOUS
<1>2. QED
  BY <1>1 DEF Alike

\* t is the first of the kept passages that x repeats.
FirstAlike(kept, x, t) ==
    /\ t \in DOMAIN kept /\ Alike(kept[t][1], x[1])
    /\ \A i \in DOMAIN kept : Alike(kept[i][1], x[1]) => t <= i

\* Keep appends, replaces a page by a chunk, or leaves the list.
LEMMA KeepCases ==
  ASSUME NEW kept \in Seq(Scored), NEW x \in Scored
  PROVE  \/ /\ \A i \in DOMAIN kept : ~Alike(kept[i][1], x[1])
            /\ Keep(kept, x) = Append(kept, x)
         \/ \E t \in DOMAIN kept : 
              /\ FirstAlike(kept, x, t) /\ Web(kept[t][1]) /\ ~Web(x[1])
              /\ \E k \in Scores : Keep(kept, x) = [kept EXCEPT ![t] = <<x[1], k>>]
         \/ \E t \in DOMAIN kept : 
              /\ FirstAlike(kept, x, t) /\ ~(Web(kept[t][1]) /\ ~Web(x[1]))
              /\ Keep(kept, x) = kept
<1> DEFINE same == {i \in DOMAIN kept : Alike(kept[i][1], x[1])}
           t == CHOOSE i \in same : \A j \in same : i <= j
           k == IF kept[t][2] > x[2] THEN kept[t][2] ELSE x[2]
<1>1. Keep(kept, x) =
        IF same = {} THEN Append(kept, x)
        ELSE IF Web(kept[t][1]) /\ ~Web(x[1])
        THEN [kept EXCEPT ![t] = <<x[1], k>>]
        ELSE kept
  <2>1. Keep(kept, x) =
        IF same = {} THEN Append(kept, x)
        ELSE IF Web(kept[t][1]) /\ ~Web(x[1])
        THEN [kept EXCEPT ![t] = <<x[1], IF @[2] > x[2] THEN @[2] ELSE x[2]>>]
        ELSE kept
    BY DEF Keep
  <2>2. QED
    BY <2>1
<1>2. CASE same = {}
  <2>1. Keep(kept, x) = Append(kept, x)
    BY <1>1, <1>2
  <2>2. \A i \in DOMAIN kept : ~Alike(kept[i][1], x[1])
    BY <1>2
  <2>3. QED
    BY <2>1, <2>2
<1>3. CASE same # {}
  <2>1. same \in SUBSET Nat
    OBVIOUS
  <2>2. \E u \in same : \A v \in same : u <= v
    <3> HIDE DEF same
    <3> QED
      BY <1>3, <2>1, LeastExists
  <2>3. t \in same /\ \A j \in same : t <= j
    <3> HIDE DEF same
    <3> QED
      BY <2>2
  <2>4. t \in DOMAIN kept /\ FirstAlike(kept, x, t)
    <3> HIDE DEF t
    <3> QED
      BY <2>3 DEF FirstAlike
  <2>5. kept[t] \in Scored
    <3> HIDE DEF t
    <3> QED
      BY <2>4
  <2>6. k \in Scores
    <3> HIDE DEF t
    <3> QED
      BY <2>5, ScoredParts DEF Scores
  <2> HIDE DEF t, k, same
  <2>7. CASE Web(kept[t][1]) /\ ~Web(x[1])
    BY <1>1, <1>3, <2>4, <2>6, <2>7
  <2>8. CASE ~(Web(kept[t][1]) /\ ~Web(x[1]))
    BY <1>1, <1>3, <2>4, <2>8
  <2>9. QED
    BY <2>7, <2>8
<1>4. QED
  BY <1>2, <1>3

LEMMA KeepType ==
  ASSUME NEW kept \in Seq(Scored), NEW x \in Scored
  PROVE  Keep(kept, x) \in Seq(Scored)
<1>1. CASE Keep(kept, x) = Append(kept, x) \/ Keep(kept, x) = kept
  BY <1>1
<1>2. ASSUME NEW t \in DOMAIN kept, NEW k \in Scores,
             Keep(kept, x) = [kept EXCEPT ![t] = <<x[1], k>>]
      PROVE  Keep(kept, x) \in Seq(Scored)
  <2>1. <<x[1], k>> \in Scored
    BY ScoredParts DEF Scores
  <2> HIDE DEF Scored
  <2>2. [kept EXCEPT ![t] = <<x[1], k>>] \in Seq(Scored)
    BY <2>1
  <2>3. QED
    BY <1>2, <2>2
<1>3. QED
  BY <1>1, <1>2, KeepCases

\* Merged, step by step.
LEMMA MergedSteps ==
  ASSUME NEW ps \in Seq(Scored)
  PROVE  \E f \in [0 .. Len(ps) -> Seq(Scored)] :
           /\ f[0] = << >> /\ f[Len(ps)] = Merged(ps)
           /\ \A i \in 1 .. Len(ps) : f[i] = Keep(f[i - 1], ps[i])
<1> DEFINE n == Len(ps)
           T == Seq(Scored)
           Take(kept, x) == Keep(kept, x)
           Fits(it) == it = [s \in SUBSET DOMAIN ps |->
                               IF s = {} THEN << >> ELSE Take(it[s \ {Max(s)}], ps[Max(s)])]
           g == CHOOSE it : Fits(it)
           G == [x \in T \X (1 .. n) |-> Take(x[1], ps[x[2]])]
<1>1. Merged(ps) = g[1 .. n]
  BY DEF Merged, FoldLeft, MapThenFoldSet
<1>2. n \in Nat /\ DOMAIN ps = 1 .. n /\ << >> \in T
  OBVIOUS
<1>3. \A kept \in T, i \in 1 .. n : Take(kept, ps[i]) \in T
  BY KeepType
<1> HIDE DEF n, T, Take
<1>4. G \in [T \X (1 .. n) -> T]
  BY <1>3
<1>5. \A kept \in T, i \in 1 .. n : G[<<kept, i>>] = Take(kept, ps[i])
  OBVIOUS
<1> HIDE DEF G
<1>6. Fits(g)
  <2>1. PICK it : Solution(it, T, n, << >>, G)
    BY <1>2, <1>4, FoldSolved
  <2>2. Fits(it)
    BY <1>2, <1>5, <2>1 DEF Solution
  <2>3. QED
    <3> HIDE DEF Fits
    <3> QED
      BY <2>2
<1>7. /\ g[{}] = << >>
      /\ \A s \in SUBSET (1 .. n) : s # {} => g[s] = Take(g[s \ {Max(s)}], ps[Max(s)])
  <2> HIDE DEF g
  <2> QED
    BY <1>2, <1>6
<1>8. \A s \in SUBSET (1 .. n) : s # {} => Max(s) \in 1 .. n
  BY <1>2, <1>4, FoldSolved DEF Solution
<1>9. \A s \in SUBSET (1 .. n) : s # {} /\ g[s \ {Max(s)}] \in T =>
        g[s] = G[<<g[s \ {Max(s)}], Max(s)>>]
  <2> HIDE DEF g, Fits
  <2> QED
    BY <1>5, <1>7, <1>8
<1>10. PICK f : Steps(f, T, n, << >>, G, g[1 .. n])
  <2> HIDE DEF g, Fits
  <2> QED
    BY <1>2, <1>4, <1>7, <1>9, FoldSteps
<1>11. \A i \in 1 .. n : f[i] = Take(f[i - 1], ps[i])
  <2> SUFFICES ASSUME NEW i \in 1 .. n
               PROVE  f[i] = Take(f[i - 1], ps[i])
    OBVIOUS
  <2>1. i - 1 \in 0 .. n
    BY <1>2
  <2>2. QED
    BY <1>5, <1>10, <2>1 DEF Steps
<1>12. QED
  BY <1>1, <1>10, <1>11 DEF n, T, Take, Steps

\* No page stands before a chunk that repeats it.
PagesLast(ps) ==
    \A i, j \in DOMAIN ps : i < j /\ Alike(ps[i], ps[j]) => ~(Web(ps[i]) /\ ~Web(ps[j]))

Unique(ps) == \A i, j \in DOMAIN ps : Alike(ps[i], ps[j]) => i = j

\* A chunk has a chunk of the same text in the list.
Covered(p, ps) == \E j \in DOMAIN ps : ~Web(ps[j]) /\ Alike(p, ps[j])

LEMMA PassagesType ==
  ASSUME NEW kept \in Seq(Scored)
  PROVE  /\ Passages(kept) \in Seq(Passage) /\ Len(Passages(kept)) = Len(kept)
         /\ DOMAIN Passages(kept) = DOMAIN kept /\ DOMAIN kept = 1 .. Len(kept)
         /\ Len(kept) \in Nat
         /\ \A i \in DOMAIN kept : Passages(kept)[i] = kept[i][1]
<1>1. \A i \in 1 .. Len(kept) : kept[i][1] \in Passage
  BY ScoredParts
<1>2. QED
  BY <1>1 DEF Passages

LEMMA KeepPagesLast ==
  ASSUME NEW kept \in Seq(Scored), NEW x \in Scored, PagesLast(Passages(kept))
  PROVE  PagesLast(Passages(Keep(kept, x)))
<1> DEFINE next == Keep(kept, x)
<1>1. next \in Seq(Scored)
  BY KeepType
<1>2. \A i, j \in DOMAIN kept :
        i < j /\ Alike(kept[i][1], kept[j][1]) => ~(Web(kept[i][1]) /\ ~Web(kept[j][1]))
  BY PassagesType DEF PagesLast
<1>3. SUFFICES ASSUME NEW i \in DOMAIN next, NEW j \in DOMAIN next, i < j,
                      Alike(next[i][1], next[j][1]), Web(next[i][1]), ~Web(next[j][1])
               PROVE  FALSE
  <2> HIDE DEF next
  <2>1. /\ DOMAIN Passages(next) = DOMAIN next
        /\ \A i \in DOMAIN next : Passages(next)[i] = next[i][1]
    BY <1>1, PassagesType
  <2>2. QED
    BY <2>1 DEF PagesLast, next
<1>4. DOMAIN kept = 1 .. Len(kept) /\ Len(kept) \in Nat
  OBVIOUS
<1>5. CASE /\ \A k \in DOMAIN kept : ~Alike(kept[k][1], x[1])
           /\ next = Append(kept, x)
  <2>1. /\ DOMAIN next = 1 .. Len(kept) + 1 /\ next[Len(kept) + 1] = x
        /\ \A k \in 1 .. Len(kept) : next[k] = kept[k]
    BY <1>5
  <2>2. i \in DOMAIN kept
    BY <1>3, <1>4, <2>1
  <2>3. CASE j = Len(kept) + 1
    BY <1>3, <1>5, <2>1, <2>2, <2>3
  <2>4. CASE j \in DOMAIN kept
    BY <1>2, <1>3, <1>4, <2>1, <2>2, <2>4
  <2>5. QED
    BY <1>4, <2>1, <2>3, <2>4
<1>6. ASSUME NEW t \in DOMAIN kept, NEW k \in Scores, FirstAlike(kept, x, t),
             Web(kept[t][1]), ~Web(x[1]), next = [kept EXCEPT ![t] = <<x[1], k>>]
      PROVE  FALSE
  <2>1. /\ DOMAIN next = DOMAIN kept /\ next[t][1] = x[1]
        /\ \A m \in DOMAIN kept \ {t} : next[m] = kept[m]
    BY <1>6
  <2>2. i # t
    BY <1>3, <1>6, <2>1
  <2>3. CASE j = t
    <3>1. Alike(kept[i][1], x[1]) /\ i \in DOMAIN kept
      BY <1>3, <2>1, <2>2, <2>3
    <3>2. t <= i
      BY <1>6, <3>1 DEF FirstAlike
    <3>3. QED
      BY <1>3, <1>4, <2>1, <2>3, <3>2
  <2>4. CASE j # t
    BY <1>2, <1>3, <2>1, <2>2, <2>4
  <2>5. QED
    BY <2>3, <2>4
<1>7. CASE next = kept
  BY <1>2, <1>3, <1>7
<1>8. QED
  <2> HIDE DEF next
  <2> QED
    BY <1>5, <1>6, <1>7, KeepCases DEF next

\* A chunk that is kept stays, and one that comes is kept or repeats a chunk.
LEMMA KeepCovers ==
  ASSUME NEW kept \in Seq(Scored), NEW x \in Scored
  PROVE  /\ \A p : Covered(p, Passages(kept)) => Covered(p, Passages(Keep(kept, x)))
         /\ ~Web(x[1]) => Covered(x[1], Passages(Keep(kept, x)))
<1> DEFINE next == Keep(kept, x)
           In(p, ps) == \E j \in DOMAIN ps : ~Web(ps[j][1]) /\ Alike(p, ps[j][1])
<1>1. next \in Seq(Scored)
  BY KeepType
<1>2. \A ps \in Seq(Scored) : \A p : Covered(p, Passages(ps)) <=> In(p, ps)
  BY PassagesType DEF Covered
<1>3. DOMAIN kept = 1 .. Len(kept) /\ Len(kept) \in Nat
  OBVIOUS
<1>4. /\ \A p : In(p, kept) => In(p, next)
      /\ ~Web(x[1]) => In(x[1], next)
  <2>1. CASE next = Append(kept, x)
    <3>1. /\ DOMAIN next = 1 .. Len(kept) + 1 /\ next[Len(kept) + 1] = x
          /\ \A k \in 1 .. Len(kept) : next[k] = kept[k]
      BY <2>1
    <3> HIDE DEF next
    <3>2. QED
      BY <1>3, <3>1, AlikeSymmetric
  <2>2. ASSUME NEW t \in DOMAIN kept, NEW k \in Scores, FirstAlike(kept, x, t),
               Web(kept[t][1]), ~Web(x[1]), next = [kept EXCEPT ![t] = <<x[1], k>>]
        PROVE  <1>4!1 /\ <1>4!2
    <3>1. /\ DOMAIN next = DOMAIN kept /\ next[t][1] = x[1]
          /\ \A m \in DOMAIN kept \ {t} : next[m] = kept[m]
      BY <2>2
    <3> HIDE DEF next
    <3>2. QED
      BY <2>2, <3>1, AlikeSymmetric
  <2>3. ASSUME NEW t \in DOMAIN kept, FirstAlike(kept, x, t),
               ~(Web(kept[t][1]) /\ ~Web(x[1])), next = kept
        PROVE  <1>4!1 /\ <1>4!2
    <3> HIDE DEF next
    <3> QED
      BY <2>3, AlikeSymmetric DEF FirstAlike
  <2>4. QED
    <3> HIDE DEF next, In
    <3> QED
      BY <2>1, <2>2, <2>3, KeepCases DEF next
<1>5. QED
  <2> HIDE DEF In
  <2> QED
    BY <1>1, <1>2, <1>4

\* Unless a chunk repeats a page, passages are only added, and those that
\* repeat nothing.
LEMMA KeepUnique ==
  ASSUME NEW kept \in Seq(Scored), NEW x \in Scored, Unique(Passages(kept)),
         \A i \in DOMAIN kept : Alike(kept[i][1], x[1]) => ~(Web(kept[i][1]) /\ ~Web(x[1]))
  PROVE  /\ Unique(Passages(Keep(kept, x)))
         /\ \/ /\ Keep(kept, x) = Append(kept, x)
               /\ \A i \in DOMAIN kept : ~Alike(kept[i][1], x[1])
            \/ /\ Keep(kept, x) = kept
               /\ \E i \in DOMAIN kept : Alike(kept[i][1], x[1])
<1> DEFINE next == Keep(kept, x)
<1>1. next \in Seq(Scored)
  BY KeepType
<1>2. \A ps \in Seq(Scored) : Unique(Passages(ps)) <=>
        \A i, j \in DOMAIN ps : Alike(ps[i][1], ps[j][1]) => i = j
  BY PassagesType DEF Unique
<1>3. DOMAIN kept = 1 .. Len(kept) /\ Len(kept) \in Nat
  OBVIOUS
<1>4. CASE /\ next = Append(kept, x)
           /\ \A i \in DOMAIN kept : ~Alike(kept[i][1], x[1])
  <2>1. /\ DOMAIN next = 1 .. Len(kept) + 1 /\ next[Len(kept) + 1] = x
        /\ \A k \in 1 .. Len(kept) : next[k] = kept[k]
    BY <1>4
  <2> HIDE DEF next
  <2>2. \A i, j \in DOMAIN next : Alike(next[i][1], next[j][1]) => i = j
    BY <1>2, <1>3, <1>4, <2>1, AlikeSymmetric
  <2>3. QED
    BY <1>1, <1>2, <1>4, <2>2 DEF next
<1>5. CASE /\ next = kept
           /\ \E i \in DOMAIN kept : Alike(kept[i][1], x[1])
  BY <1>5
<1>6. QED
  <2> HIDE DEF next
  <2> QED
    BY <1>4, <1>5, KeepCases DEF next, FirstAlike

\* A merged list has no page before a chunk that repeats it, and for every
\* chunk one of the same text.
LEMMA MergedResult ==
  ASSUME NEW ps \in Seq(Scored)
  PROVE  /\ Merged(ps) \in Seq(Scored)
         /\ PagesLast(Passages(Merged(ps)))
         /\ \A k \in DOMAIN ps : ~Web(ps[k][1]) => Covered(ps[k][1], Passages(Merged(ps)))
<1> DEFINE n == Len(ps)
<1>1. n \in Nat /\ DOMAIN ps = 1 .. n /\ \A i \in 1 .. n : ps[i] \in Scored
  OBVIOUS
<1> HIDE DEF n
<1>2. PICK f \in [0 .. n -> Seq(Scored)] :
        /\ f[0] = << >> /\ f[n] = Merged(ps)
        /\ \A i \in 1 .. n : f[i] = Keep(f[i - 1], ps[i])
  BY MergedSteps DEF n
<1> DEFINE Fine(i) == /\ PagesLast(Passages(f[i]))
                      /\ \A k \in 1 .. i : ~Web(ps[k][1]) => Covered(ps[k][1], Passages(f[i]))
           fine == {i \in 0 .. n : Fine(i)}
<1>3. 0 \in fine
  <2>1. 0 \in 0 .. n
    BY <1>1
  <2>2. Passages(f[0]) = << >>
    BY <1>2 DEF Passages
  <2>3. Fine(0)
    BY <2>2 DEF PagesLast
  <2>4. QED
    BY <2>1, <2>3
<1>4. ASSUME NEW i \in 0 .. n, i \in fine, i < n
      PROVE  i + 1 \in fine
  <2>1. i \in Nat /\ i + 1 \in 0 .. n /\ i + 1 \in 1 .. n /\ (i + 1) - 1 = i
    BY <1>1, <1>4
  <2>2. f[i] \in Seq(Scored) /\ ps[i + 1] \in Scored /\ f[i + 1] = Keep(f[i], ps[i + 1])
    BY <1>1, <1>2, <2>1
  <2>3. Fine(i)
    BY <1>4
  <2>4. PagesLast(Passages(f[i + 1]))
    BY <2>2, <2>3, KeepPagesLast
  <2>5. ASSUME NEW k \in 1 .. (i + 1), ~Web(ps[k][1])
        PROVE  Covered(ps[k][1], Passages(f[i + 1]))
    <3>1. CASE k = i + 1
      BY <2>2, <2>5, <3>1, KeepCovers
    <3>2. CASE k # i + 1
      <4>1. k \in 1 .. i
        BY <2>1, <3>2
      <4>2. Covered(ps[k][1], Passages(f[i]))
        BY <2>3, <2>5, <4>1
      <4>3. QED
        BY <2>2, <4>2, KeepCovers
    <3>3. QED
      BY <3>1, <3>2
  <2>6. Fine(i + 1)
    BY <2>4, <2>5
  <2> HIDE DEF Fine
  <2>7. QED
    BY <2>1, <2>6
<1>5. n \in fine
  <2> HIDE DEF fine
  <2>1. \A i \in 0 .. n : i \in fine /\ i < n => i + 1 \in fine
    BY <1>4
  <2>2. n \in 0 .. n
    BY <1>1
  <2>3. QED
    BY <1>1, <1>3, <2>1, <2>2, StepByStep
<1>6. Fine(n)
  <2> HIDE DEF Fine
  <2> QED
    BY <1>5
<1>7. f[n] = Merged(ps) /\ f[n] \in Seq(Scored)
  BY <1>1, <1>2
<1>8. QED
  BY <1>1, <1>6, <1>7

\* Merging a list without a page before a chunk that repeats it leaves no
\* repetition.
LEMMA MergedUnique ==
  ASSUME NEW ps \in Seq(Scored), PagesLast(Passages(ps))
  PROVE  Unique(Passages(Merged(ps)))
<1> DEFINE n == Len(ps)
<1>1. n \in Nat /\ DOMAIN ps = 1 .. n /\ \A i \in 1 .. n : ps[i] \in Scored
  OBVIOUS
<1>0. \A i, j \in 1 .. n :
        i < j /\ Alike(ps[i][1], ps[j][1]) => ~(Web(ps[i][1]) /\ ~Web(ps[j][1]))
  BY PassagesType DEF PagesLast
<1> HIDE DEF n
<1>2. PICK f \in [0 .. n -> Seq(Scored)] :
        /\ f[0] = << >> /\ f[n] = Merged(ps)
        /\ \A i \in 1 .. n : f[i] = Keep(f[i - 1], ps[i])
  BY MergedSteps DEF n
<1> DEFINE Fine(i) == /\ Unique(Passages(f[i]))
                      /\ \A j \in DOMAIN f[i] : \E k \in 1 .. i : f[i][j] = ps[k]
           fine == {i \in 0 .. n : Fine(i)}
<1>3. 0 \in fine
  <2>1. 0 \in 0 .. n
    BY <1>1
  <2>2. Passages(f[0]) = << >>
    BY <1>2 DEF Passages
  <2>3. Fine(0)
    BY <1>2, <2>2 DEF Unique
  <2>4. QED
    BY <2>1, <2>3
<1>4. ASSUME NEW i \in 0 .. n, i \in fine, i < n
      PROVE  i + 1 \in fine
  <2>1. i \in Nat /\ i + 1 \in 0 .. n /\ i + 1 \in 1 .. n /\ (i + 1) - 1 = i
    BY <1>1, <1>4
  <2>2. f[i] \in Seq(Scored) /\ ps[i + 1] \in Scored /\ f[i + 1] = Keep(f[i], ps[i + 1])
    BY <1>1, <1>2, <2>1
  <2>3. Fine(i)
    BY <1>4
  <2>4. ASSUME NEW j \in DOMAIN f[i], Alike(f[i][j][1], ps[i + 1][1])
        PROVE  ~(Web(f[i][j][1]) /\ ~Web(ps[i + 1][1]))
    <3>1. PICK k \in 1 .. i : f[i][j] = ps[k]
      BY <2>3
    <3>2. k \in 1 .. n /\ k < i + 1
      BY <1>1, <1>4, <2>1
    <3>3. QED
      BY <1>0, <2>1, <2>4, <3>1, <3>2
  <2>5. /\ Unique(Passages(f[i + 1]))
        /\ f[i + 1] = Append(f[i], ps[i + 1]) \/ f[i + 1] = f[i]
    BY <2>2, <2>3, <2>4, KeepUnique
  <2>6. ASSUME NEW j \in DOMAIN f[i + 1]
        PROVE  \E k \in 1 .. (i + 1) : f[i + 1][j] = ps[k]
    <3>1. \A k \in 1 .. i : k \in 1 .. (i + 1)
      BY <2>1
    <3>2. CASE f[i + 1] = f[i]
      BY <2>3, <3>1, <3>2
    <3>3. CASE f[i + 1] = Append(f[i], ps[i + 1])
      <4>1. \/ j \in DOMAIN f[i] /\ f[i + 1][j] = f[i][j]
            \/ f[i + 1][j] = ps[i + 1]
        BY <2>2, <3>3
      <4>2. QED
        BY <2>1, <2>3, <3>1, <4>1
    <3>4. QED
      BY <2>5, <3>2, <3>3
  <2>7. Fine(i + 1)
    BY <2>5, <2>6
  <2> HIDE DEF Fine
  <2>8. QED
    BY <2>1, <2>7
<1>5. n \in fine
  <2> HIDE DEF fine
  <2>1. \A i \in 0 .. n : i \in fine /\ i < n => i + 1 \in fine
    BY <1>4
  <2>2. n \in 0 .. n
    BY <1>1
  <2>3. QED
    BY <1>1, <1>3, <2>1, <2>2, StepByStep
<1>6. Fine(n)
  <2> HIDE DEF Fine
  <2> QED
    BY <1>5
<1>7. QED
  BY <1>2, <1>6

\* Merging a list without repetition changes nothing.
LEMMA MergedSame ==
  ASSUME NEW ps \in Seq(Scored), Unique(Passages(ps))
  PROVE  Merged(ps) = ps
<1> DEFINE n == Len(ps)
<1>1. n \in Nat /\ DOMAIN ps = 1 .. n /\ \A i \in 1 .. n : ps[i] \in Scored
  OBVIOUS
<1>0. \A i, j \in 1 .. n : Alike(ps[i][1], ps[j][1]) => i = j
  BY PassagesType DEF Unique
<1> HIDE DEF n
<1>2. PICK f \in [0 .. n -> Seq(Scored)] :
        /\ f[0] = << >> /\ f[n] = Merged(ps)
        /\ \A i \in 1 .. n : f[i] = Keep(f[i - 1], ps[i])
  BY MergedSteps DEF n
<1> DEFINE Fine(i) == Len(f[i]) = i /\ \A j \in 1 .. i : f[i][j] = ps[j]
           fine == {i \in 0 .. n : Fine(i)}
<1>3. 0 \in fine
  BY <1>1, <1>2
<1>4. ASSUME NEW i \in 0 .. n, i \in fine, i < n
      PROVE  i + 1 \in fine
  <2>1. i \in Nat /\ i + 1 \in 0 .. n /\ i + 1 \in 1 .. n /\ (i + 1) - 1 = i
    BY <1>1, <1>4
  <2>2. f[i] \in Seq(Scored) /\ ps[i + 1] \in Scored /\ f[i + 1] = Keep(f[i], ps[i + 1])
    BY <1>1, <1>2, <2>1
  <2>3. Fine(i)
    BY <1>4
  <2>4. DOMAIN f[i] = 1 .. i
    BY <2>2, <2>3
  <2>5. \A j \in DOMAIN f[i] : ~Alike(f[i][j][1], ps[i + 1][1])
    <3> SUFFICES ASSUME NEW j \in 1 .. i, Alike(ps[j][1], ps[i + 1][1])
                 PROVE  FALSE
      BY <2>3, <2>4
    <3>1. j \in 1 .. n /\ j # i + 1
      BY <1>1, <1>4, <2>1
    <3>2. QED
      BY <1>0, <2>1, <3>1
  <2>6. f[i + 1] = Append(f[i], ps[i + 1])
    BY <2>2, <2>5, KeepCases DEF FirstAlike
  <2>7. Fine(i + 1)
    <3> HIDE DEF Scored
    <3>1. Len(f[i + 1]) = i + 1 /\ f[i + 1][i + 1] = ps[i + 1]
          /\ \A j \in 1 .. i : f[i + 1][j] = f[i][j]
      BY <2>1, <2>2, <2>3, <2>6
    <3>2. QED
      BY <2>1, <2>3, <3>1
  <2> HIDE DEF Fine
  <2>8. QED
    BY <2>1, <2>7
<1>5. n \in fine
  <2> HIDE DEF fine
  <2>1. \A i \in 0 .. n : i \in fine /\ i < n => i + 1 \in fine
    BY <1>4
  <2>2. n \in 0 .. n
    BY <1>1
  <2>3. QED
    BY <1>1, <1>3, <2>1, <2>2, StepByStep
<1>6. Fine(n)
  <2> HIDE DEF Fine
  <2> QED
    BY <1>5
<1>7. f[n] \in Seq(Scored)
  BY <1>1, <1>2
<1>8. QED
  <2> HIDE DEF Scored
  <2> QED
    BY <1>1, <1>2, <1>6, <1>7 DEF n

-----------------------------------------------------------------------------
(* deduplicate_documents.                                                  *)

LEMMA DeduplicatedResult ==
  ASSUME NEW ps \in Seq(Passage)
  PROVE  /\ Deduplicated(ps) \in Seq(Passage)
         /\ PagesLast(Deduplicated(ps))
         /\ \A k \in DOMAIN ps : ~Web(ps[k]) => Covered(ps[k], Deduplicated(ps))
         /\ PagesLast(ps) => Unique(Deduplicated(ps))
         /\ Unique(ps) => Deduplicated(ps) = ps
<1> DEFINE scored == [i \in DOMAIN ps |-> <<ps[i], 0>>]
<1>1. /\ scored \in Seq(Scored) /\ DOMAIN scored = DOMAIN ps
      /\ \A i \in DOMAIN ps : scored[i][1] = ps[i]
  <2>1. \A i \in DOMAIN ps : <<ps[i], 0>> \in Scored
    <3>1. 0 \in 0 .. 3 /\ \A i \in DOMAIN ps : ps[i] \in Passage
      OBVIOUS
    <3> HIDE DEF Scored
    <3>2. QED
      BY <3>1, ScoredParts
  <2> HIDE DEF Scored
  <2>2. QED
    BY <2>1
<1>2. Passages(scored) = ps
  BY <1>1 DEF Passages
<1>3. Deduplicated(ps) = Passages(Merged(scored))
  BY DEF Deduplicated
<1> HIDE DEF scored
<1>4. Merged(scored) \in Seq(Scored) /\ PagesLast(Deduplicated(ps))
      /\ \A k \in DOMAIN ps : ~Web(ps[k]) => Covered(ps[k], Deduplicated(ps))
  BY <1>1, <1>3, MergedResult
<1>5. PagesLast(ps) => Unique(Deduplicated(ps))
  BY <1>1, <1>2, <1>3, MergedUnique
<1>6. Unique(ps) => Deduplicated(ps) = ps
  BY <1>1, <1>2, <1>3, MergedSame
<1>7. QED
  BY <1>3, <1>4, <1>5, <1>6, PassagesType

-----------------------------------------------------------------------------
(* Parts of lists.                                                         *)

\* r is made of ps at growing positions.
PartOf(r, ps) ==
    \E g \in [DOMAIN r -> DOMAIN ps] :
        /\ \A i \in DOMAIN r : r[i] = ps[g[i]]
        /\ \A i, j \in DOMAIN r : i < j => g[i] < g[j]

LEMMA OnlyResult ==
  ASSUME NEW E, NEW ps \in Seq(E), NEW S
  PROVE  /\ Only(ps, S) \in Seq(E)
         /\ \A x : x \in ToSet(Only(ps, S)) <=> x \in ToSet(ps) /\ x \in S
         /\ PartOf(Only(ps, S), ps)
<1> DEFINE n == Len(ps)
<1>1. n \in Nat /\ DOMAIN ps = 1 .. n /\ \A i \in 1 .. n : ps[i] \in E
  OBVIOUS
<1> HIDE DEF n
<1>a. PICK f : Filters(f, E, ps, S)
  BY OnlySteps
<1>2. /\ f \in [0 .. n -> Seq(E)]
      /\ f[0] = << >> /\ f[n] = Only(ps, S)
      /\ \A i \in 1 .. n :
           f[i] = IF ps[i] \in S THEN Append(f[i - 1], ps[i]) ELSE f[i - 1]
  BY <1>a DEF n, Filters
<1> DEFINE Chosen(g, i) ==
             /\ g \in [DOMAIN f[i] -> 1 .. i]
             /\ \A j \in DOMAIN f[i] : f[i][j] = ps[g[j]] /\ ps[g[j]] \in S
             /\ \A j, k \in DOMAIN f[i] : j < k => g[j] < g[k]
           Whole0(i) == \A k \in 1 .. i : ps[k] \in S => \E j \in DOMAIN f[i] : f[i][j] = ps[k]
           fine == {i \in 0 .. n : Whole0(i) /\ \E g : Chosen(g, i)}
<1>3. 0 \in fine
  <2>1. 0 \in 0 .. n /\ DOMAIN f[0] = {}
    BY <1>1, <1>2
  <2>2. Whole0(0)
    OBVIOUS
  <2>3. Chosen([j \in {} |-> 1], 0)
    BY <2>1
  <2>4. QED
    BY <2>1, <2>2, <2>3
<1>4. ASSUME NEW i \in 0 .. n, i \in fine, i < n
      PROVE  i + 1 \in fine
  <2>1. i \in Nat /\ i + 1 \in 0 .. n /\ i + 1 \in 1 .. n /\ (i + 1) - 1 = i
    BY <1>1, <1>4
  <2>2. /\ f[i] \in Seq(E) /\ f[i + 1] \in Seq(E) /\ ps[i + 1] \in E
        /\ f[i + 1] = IF ps[i + 1] \in S THEN Append(f[i], ps[i + 1]) ELSE f[i]
    BY <1>1, <1>2, <2>1
  <2>3. PICK g : Chosen(g, i)
    BY <1>4
  <2>4. Whole0(i)
    BY <1>4
  <2>5. CASE ps[i + 1] \notin S
    <3>1. f[i + 1] = f[i]
      BY <2>2, <2>5
    <3>2. Whole0(i + 1)
      BY <2>1, <2>4, <2>5, <3>1
    <3>3. Chosen(g, i + 1)
      BY <2>1, <2>3, <3>1
    <3> HIDE DEF Whole0, Chosen
    <3>4. QED
      BY <2>1, <3>2, <3>3
  <2>6. CASE ps[i + 1] \in S
    <3> DEFINE m == Len(f[i])
               h == [j \in 1 .. (m + 1) |-> IF j = m + 1 THEN i + 1 ELSE g[j]]
    <3>1. m \in Nat /\ DOMAIN f[i] = 1 .. m
      BY <2>2
    <3>2. /\ f[i + 1] = Append(f[i], ps[i + 1])
          /\ DOMAIN f[i + 1] = 1 .. (m + 1) /\ f[i + 1][m + 1] = ps[i + 1]
          /\ \A j \in 1 .. m : f[i + 1][j] = f[i][j]
      BY <2>2, <2>6
    <3> HIDE DEF m
    <3>3. \A j \in 1 .. m : j \in 1 .. (m + 1) /\ j # m + 1 /\ h[j] = g[j] /\ g[j] \in 1 .. i
      BY <2>3, <3>1
    <3>4. m + 1 \in 1 .. (m + 1) /\ h[m + 1] = i + 1
      BY <3>1
    <3>5. \A j \in 1 .. (m + 1) : j = m + 1 \/ j \in 1 .. m
      BY <3>1
    <3>6. Whole0(i + 1)
      <4> SUFFICES ASSUME NEW k \in 1 .. (i + 1), ps[k] \in S
                   PROVE  \E j \in DOMAIN f[i + 1] : f[i + 1][j] = ps[k]
        OBVIOUS
      <4>1. CASE k = i + 1
        BY <3>2, <3>4, <4>1
      <4>2. CASE k # i + 1
        <5>1. k \in 1 .. i
          BY <2>1, <4>2
        <5>2. PICK j \in 1 .. m : f[i][j] = ps[k]
          BY <2>4, <3>1, <5>1
        <5>3. QED
          BY <3>2, <3>3, <5>2
      <4>3. QED
        BY <4>1, <4>2
    <3>7. h \in [DOMAIN f[i + 1] -> 1 .. (i + 1)]
      <4>1. \A j \in 1 .. (m + 1) : h[j] \in 1 .. (i + 1)
        <5> SUFFICES ASSUME NEW j \in 1 .. (m + 1)
                     PROVE  h[j] \in 1 .. (i + 1)
          OBVIOUS
        <5> HIDE DEF h
        <5>1. CASE j = m + 1
          BY <2>1, <3>4, <5>1
        <5>2. CASE j \in 1 .. m
          BY <2>1, <3>3, <5>2
        <5>3. QED
          BY <3>5, <5>1, <5>2
      <4>2. QED
        BY <3>2, <4>1
    <3>8. \A j \in DOMAIN f[i + 1] : f[i + 1][j] = ps[h[j]] /\ ps[h[j]] \in S
      <4>1. \A j \in 1 .. m : f[i][j] = ps[g[j]] /\ ps[g[j]] \in S
        BY <2>3, <3>1
      <4> HIDE DEF h
      <4>2. QED
        BY <2>6, <3>2, <3>3, <3>4, <3>5, <4>1
    <3>9. \A j, k \in DOMAIN f[i + 1] : j < k => h[j] < h[k]
      <4> SUFFICES ASSUME NEW j \in 1 .. (m + 1), NEW k \in 1 .. (m + 1), j < k
                   PROVE  h[j] < h[k]
        BY <3>2
      <4>1. j \in 1 .. m
        BY <3>1, <3>5
      <4>2. CASE k = m + 1
        <5>1. h[j] \in 1 .. i /\ h[k] = i + 1
          BY <3>3, <3>4, <4>1, <4>2
        <5> HIDE DEF h
        <5>2. QED
          BY <2>1, <5>1
      <4>3. CASE k \in 1 .. m
        BY <2>3, <3>1, <3>3, <4>1, <4>3
      <4>4. QED
        BY <3>5, <4>2, <4>3
    <3>10. Chosen(h, i + 1)
      BY <3>7, <3>8, <3>9
    <3> HIDE DEF Whole0, Chosen, h
    <3>11. QED
      BY <2>1, <3>6, <3>10
  <2>7. QED
    BY <2>5, <2>6
<1>5. n \in fine
  <2> HIDE DEF fine
  <2>1. \A i \in 0 .. n : i \in fine /\ i < n => i + 1 \in fine
    BY <1>4
  <2>2. n \in 0 .. n
    BY <1>1
  <2>3. QED
    BY <1>1, <1>3, <2>1, <2>2, StepByStep
<1>6. PICK g : Chosen(g, n)
  BY <1>5
<1>7. Whole0(n)
  BY <1>5
<1>8. f[n] = Only(ps, S) /\ f[n] \in Seq(E)
  BY <1>1, <1>2
<1>9. PartOf(Only(ps, S), ps)
  BY <1>1, <1>6, <1>8 DEF PartOf
<1>10. ASSUME NEW x
       PROVE  x \in ToSet(Only(ps, S)) <=> x \in ToSet(ps) /\ x \in S
  BY <1>1, <1>6, <1>7, <1>8 DEF ToSet
<1>11. QED
  BY <1>8, <1>9, <1>10

LEMMA FirstOfResult ==
  ASSUME NEW E, NEW ps \in Seq(E), NEW n \in Nat
  PROVE  FirstOf(ps, n) \in Seq(E) /\ PartOf(FirstOf(ps, n), ps)
<1> DEFINE m == IF Len(ps) < n THEN Len(ps) ELSE n
           r == SubSeq(ps, 1, m)
           g == [i \in 1 .. m |-> i]
<1>1. m \in Nat /\ m <= Len(ps) /\ DOMAIN ps = 1 .. Len(ps)
  OBVIOUS
<1>2. r \in Seq(E) /\ DOMAIN r = 1 .. m /\ \A i \in 1 .. m : r[i] = ps[i]
  BY <1>1
<1>3. FirstOf(ps, n) = r
  BY DEF FirstOf
<1>4. PartOf(r, ps)
  <2>1. g \in [DOMAIN r -> DOMAIN ps]
    BY <1>1, <1>2
  <2>2. /\ \A i \in DOMAIN r : r[i] = ps[g[i]]
        /\ \A i, j \in DOMAIN r : i < j => g[i] < g[j]
    BY <1>2
  <2> HIDE DEF g, r
  <2>3. QED
    BY <2>1, <2>2 DEF PartOf
<1>5. QED
  BY <1>2, <1>3, <1>4

LEMMA PartOfPart ==
  ASSUME NEW E, NEW a \in Seq(E), NEW b \in Seq(E), NEW c \in Seq(E), PartOf(a, b), PartOf(b, c)
  PROVE  PartOf(a, c)
<1>1. PICK g \in [DOMAIN a -> DOMAIN b] :
        /\ \A i \in DOMAIN a : a[i] = b[g[i]]
        /\ \A i, j \in DOMAIN a : i < j => g[i] < g[j]
  BY DEF PartOf
<1>2. PICK h \in [DOMAIN b -> DOMAIN c] :
        /\ \A i \in DOMAIN b : b[i] = c[h[i]]
        /\ \A i, j \in DOMAIN b : i < j => h[i] < h[j]
  BY DEF PartOf
<1> DEFINE k == [i \in DOMAIN a |-> h[g[i]]]
<1>3. k \in [DOMAIN a -> DOMAIN c]
  BY <1>1, <1>2
<1>4. /\ \A i \in DOMAIN a : a[i] = c[k[i]]
      /\ \A i, j \in DOMAIN a : i < j => k[i] < k[j]
  BY <1>1, <1>2
<1> HIDE DEF k
<1>5. QED
  BY <1>3, <1>4 DEF PartOf

\* What a list keeps it keeps in each of its parts.
LEMMA PartKeepsPagesLast ==
  ASSUME NEW a \in Seq(Scored), NEW b \in Seq(Scored), PartOf(a, b), PagesLast(Passages(b))
  PROVE  PagesLast(Passages(a))
<1>1. PICK g \in [DOMAIN a -> DOMAIN b] :
        /\ \A i \in DOMAIN a : a[i] = b[g[i]]
        /\ \A i, j \in DOMAIN a : i < j => g[i] < g[j]
  BY DEF PartOf
<1>2. /\ DOMAIN Passages(a) = DOMAIN a /\ \A i \in DOMAIN a : Passages(a)[i] = a[i][1]
      /\ DOMAIN Passages(b) = DOMAIN b /\ \A i \in DOMAIN b : Passages(b)[i] = b[i][1]
  BY PassagesType
<1>3. \A i, j \in DOMAIN b :
        i < j /\ Alike(b[i][1], b[j][1]) => ~(Web(b[i][1]) /\ ~Web(b[j][1]))
  BY <1>2 DEF PagesLast
<1>4. \A i, j \in DOMAIN a :
        i < j /\ Alike(a[i][1], a[j][1]) => ~(Web(a[i][1]) /\ ~Web(a[j][1]))
  BY <1>1, <1>3
<1>5. QED
  BY <1>2, <1>4 DEF PagesLast

-----------------------------------------------------------------------------
(* Sorting.                                                                *)

\* Whatever the weights, each place of the sorted list has one passage.
LEMMA SortedType ==
  ASSUME NEW E, NEW ps \in Seq(E), NEW weight \in [DOMAIN ps -> Int]
  PROVE  Sorted(ps, weight) \in Seq(E)
<1> DEFINE n == Len(ps)
           A(i) == Ahead(ps, weight, i)
           rank == [i \in 1 .. n |-> Cardinality(A(i))]
           at(k) == CHOOSE i \in DOMAIN ps : Cardinality(A(i)) = k - 1
<1>1. n \in Nat /\ DOMAIN ps = 1 .. n /\ \A i \in 1 .. n : ps[i] \in E /\ weight[i] \in Int
  OBVIOUS
<1>2. Sorted(ps, weight) = [k \in DOMAIN ps |-> ps[at(k)]]
  BY DEF Sorted
<1> HIDE DEF n
<1>3. IsFiniteSet(1 .. n) /\ Cardinality(1 .. n) = n
  BY <1>1, FS_Interval
<1>4. ASSUME NEW i \in 1 .. n
      PROVE  /\ IsFiniteSet(A(i)) /\ Cardinality(A(i)) \in Nat
             /\ Cardinality(A(i)) \in 0 .. (n - 1)
             /\ IsFiniteSet(A(i) \cup {i}) /\ i \notin A(i)
             /\ Cardinality(A(i) \cup {i}) = Cardinality(A(i)) + 1
  <2>1. i \notin A(i)
    BY <1>1 DEF Ahead
  <2>2. A(i) \in SUBSET (1 .. n) /\ A(i) \cup {i} \in SUBSET (1 .. n)
    BY <1>1 DEF Ahead
  <2> HIDE DEF A
  <2>3. IsFiniteSet(A(i))
    BY <1>3, <2>2, FS_Subset
  <2>4. IsFiniteSet(A(i) \cup {i}) /\ Cardinality(A(i) \cup {i}) <= n
    BY <1>3, <2>2, FS_Subset
  <2>5. Cardinality(A(i) \cup {i}) = Cardinality(A(i)) + 1
    BY <2>1, <2>3, FS_AddElement
  <2>6. Cardinality(A(i)) \in Nat
    BY <2>3, FS_CardinalityType
  <2>7. QED
    BY <1>1, <2>1, <2>3, <2>4, <2>5, <2>6
<1>5. ASSUME NEW i \in 1 .. n, NEW j \in 1 .. n, i \in A(j)
      PROVE  Cardinality(A(i)) < Cardinality(A(j))
  <2>1. A(i) \cup {i} \in SUBSET A(j)
    BY <1>1, <1>5 DEF Ahead
  <2> HIDE DEF A
  <2>2. Cardinality(A(i) \cup {i}) <= Cardinality(A(j))
    BY <1>4, <2>1, FS_Subset
  <2>3. Cardinality(A(i)) \in Nat /\ Cardinality(A(j)) \in Nat
        /\ Cardinality(A(i) \cup {i}) = Cardinality(A(i)) + 1
    BY <1>4
  <2>4. QED
    BY <2>2, <2>3
<1>6. ASSUME NEW i \in 1 .. n, NEW j \in 1 .. n, i # j
      PROVE  i \in A(j) \/ j \in A(i)
  <2>1. weight[i] \in Int /\ weight[j] \in Int /\ i \in Int /\ j \in Int
        /\ i \in DOMAIN ps /\ j \in DOMAIN ps
    BY <1>1
  <2>2. QED
    BY <1>6, <2>1 DEF Ahead
<1>7. \A i, j \in 1 .. n : rank[i] = rank[j] => i = j
  <2> SUFFICES ASSUME NEW i \in 1 .. n, NEW j \in 1 .. n, rank[i] = rank[j], i # j
               PROVE  FALSE
    OBVIOUS
  <2>1. Cardinality(A(i)) = Cardinality(A(j))
    <3> HIDE DEF A
    <3> QED
      OBVIOUS
  <2>0. Cardinality(A(i)) \in Nat
    <3> HIDE DEF A, rank
    <3> QED
      BY <1>4
  <2>2. Cardinality(A(i)) < Cardinality(A(j)) \/ Cardinality(A(j)) < Cardinality(A(i))
    <3> HIDE DEF A, rank
    <3> QED
      BY <1>5, <1>6
  <2> HIDE DEF A, rank
  <2>3. QED
    BY <2>0, <2>1, <2>2
<1>8. rank \in [1 .. n -> 0 .. (n - 1)]
  <2> HIDE DEF A
  <2> QED
    BY <1>4
<1>9. rank \in Injection(1 .. n, 0 .. (n - 1))
  <2> HIDE DEF rank
  <2> QED
    BY <1>7, <1>8 DEF Injection, IsInjective
<1>10. IsFiniteSet(0 .. (n - 1)) /\ Cardinality(0 .. (n - 1)) = n
  BY <1>1, FS_Interval
<1>11. rank \in Surjection(1 .. n, 0 .. (n - 1))
  <2> HIDE DEF rank
  <2> QED
    BY <1>3, <1>9, <1>10, FS_Injection
<1>12. ASSUME NEW k \in 1 .. n
       PROVE  ps[at(k)] \in E
  <2>1. k - 1 \in 0 .. (n - 1)
    BY <1>1
  <2>2. PICK i \in 1 .. n : rank[i] = k - 1
    <3> HIDE DEF rank
    <3> QED
      BY <1>11, <2>1 DEF Surjection
  <2>3. i \in DOMAIN ps /\ Cardinality(A(i)) = k - 1
    BY <1>1, <2>2
  <2>4. at(k) \in DOMAIN ps
    <3> HIDE DEF A
    <3> QED
      BY <2>3
  <2> HIDE DEF at
  <2>5. QED
    BY <1>1, <2>4
<1>13. QED
  <2> HIDE DEF at
  <2> QED
    BY <1>1, <1>2, <1>12

-----------------------------------------------------------------------------
(* Passages.                                                               *)

LEMMA PassageKinds ==
  /\ \A n \in 1 .. Chunks : Chunk(n) \in Passage /\ ~Web(Chunk(n)) /\ Part(Chunk(n)) = n
  /\ \A n \in 1 .. Pages : Page(n) \in Passage /\ Web(Page(n))
  /\ \A p \in Passage : ~Web(p) => Part(p) \in 1 .. Chunks /\ p = Chunk(Part(p))
<1>1. \A n \in 1 .. Chunks : Chunk(n) \in Passage /\ ~Web(Chunk(n)) /\ Part(Chunk(n)) = n
  BY DEF Passage, Chunk, Web, Part
<1>2. \A n \in 1 .. Pages : Page(n) \in Passage /\ Web(Page(n))
  BY DEF Passage, Page, Web
<1>3. ASSUME NEW p \in Passage, ~Web(p)
      PROVE  Part(p) \in 1 .. Chunks /\ p = Chunk(Part(p))
  <2>1. p \in {TRUE} \X (1 .. Pages) \/ p \in {FALSE} \X (1 .. Chunks)
    BY DEF Passage
  <2>2. ASSUME p \in {TRUE} \X (1 .. Pages)
        PROVE  FALSE
    <3>1. p[1] = TRUE
      BY <2>2
    <3>2. QED
      BY <1>3, <3>1 DEF Web
  <2>3. p \in {FALSE} \X (1 .. Chunks)
    BY <2>1, <2>2
  <2>4. p[1] = FALSE /\ p[2] \in 1 .. Chunks /\ p = <<p[1], p[2]>>
    <3>1. p = <<p[1], p[2]>>
      BY <2>3
    <3>2. p[1] \in {FALSE}
      BY <2>3
    <3>3. p[2] \in 1 .. Chunks
      BY <2>3
    <3>4. QED
      BY <3>1, <3>2, <3>3
  <2>5. QED
    BY <2>4 DEF Chunk, Part
<1>4. QED
  BY <1>1, <1>2, <1>3

LEMMA LocalsResult ==
  ASSUME NEW ps \in Seq(Passage)
  PROVE  /\ Locals(ps) \in Seq(Passage)
         /\ \A p : p \in ToSet(Locals(ps)) <=> p \in ToSet(ps) /\ ~Web(p)
<1> DEFINE S == {Chunk(n) : n \in 1 .. Chunks}
<1>1. \A p \in Passage : ~Web(p) <=> p \in S
  BY PassageKinds
<1>2. \A p \in ToSet(ps) : p \in Passage
  BY DEF ToSet
<1>3. Locals(ps) = Only(ps, S)
  BY DEF Locals
<1> HIDE DEF S
<1>4. /\ Only(ps, S) \in Seq(Passage)
      /\ \A x : x \in ToSet(Only(ps, S)) <=> x \in ToSet(ps) /\ x \in S
  BY OnlyResult
<1>5. QED
  BY <1>1, <1>2, <1>3, <1>4

\* The chunks of a set: those and no others, each once.
LEMMA InOrderResult ==
  ASSUME NEW rows \in SUBSET (1 .. Chunks)
  PROVE  /\ InOrder(rows) \in Seq(Passage)
         /\ ToSet(InOrder(rows)) = {Chunk(n) : n \in rows}
         /\ \A p \in ToSet(InOrder(rows)) : ~Web(p)
         /\ PagesLast(InOrder(rows))
<1> DEFINE all == [n \in 1 .. Chunks |-> Chunk(n)]
           S == {Chunk(n) : n \in rows}
<1>0. Chunks \in Nat
  BY RetrievalAssumption
<1>1. all \in Seq(Passage) /\ \A n \in 1 .. Chunks : Chunk(n) \in ToSet(all)
  <2>1. \A n \in 1 .. Chunks : Chunk(n) \in Passage
    BY PassageKinds
  <2> HIDE DEF Passage
  <2>2. DOMAIN all = 1 .. Chunks
    OBVIOUS
  <2>3. all \in Seq(Passage)
    BY <1>0, <2>1
  <2>4. QED
    BY <2>2, <2>3 DEF ToSet
<1>2. InOrder(rows) = Only(all, S)
  BY DEF InOrder
<1>3. S \subseteq ToSet(all)
  BY <1>1
<1>4. \A p \in S : ~Web(p)
  BY PassageKinds
<1> HIDE DEF all, S
<1>5. /\ Only(all, S) \in Seq(Passage)
      /\ \A x : x \in ToSet(Only(all, S)) <=> x \in ToSet(all) /\ x \in S
  BY <1>1, OnlyResult
<1>6. ToSet(InOrder(rows)) = S
  BY <1>2, <1>3, <1>5
<1>7. PagesLast(InOrder(rows))
  BY <1>4, <1>6 DEF PagesLast, ToSet
<1>8. QED
  BY <1>2, <1>4, <1>5, <1>6, <1>7 DEF S

-----------------------------------------------------------------------------
(* Reranking.                                                              *)

LEMMA TopKResult ==
  ASSUME NEW E, NEW scored \in Seq(E), NEW steep
  PROVE  TopK(scored, steep) \in Seq(E) /\ PartOf(TopK(scored, steep), scored)
<1> DEFINE most == IF Len(scored) < MaxTopK THEN Len(scored) ELSE MaxTopK
           gaps == {i \in 1 .. most - 1 : steep /\ scored[i][2] > scored[i + 1][2]}
           cut == CHOOSE i \in gaps : \A j \in gaps : i <= j
           size == IF most <= MinTopK \/ gaps = {} THEN most
                   ELSE IF cut < MinTopK THEN MinTopK ELSE cut
<1>1. TopK(scored, steep) = FirstOf(scored, size)
  BY DEF TopK
<1>2. most \in Nat /\ MinTopK \in Nat
  BY RetrievalAssumption
<1>3. gaps \in SUBSET Nat
  <2> HIDE DEF most
  <2> QED
    BY <1>2
<1>4. gaps # {} => cut \in Nat
  <2> HIDE DEF gaps
  <2>1. gaps # {} => \E u \in gaps : \A v \in gaps : u <= v
    BY <1>3, LeastExists
  <2>2. QED
    BY <1>3, <2>1
<1>5. size \in Nat
  <2> HIDE DEF most, gaps, cut
  <2> QED
    BY <1>2, <1>4
<1> HIDE DEF size
<1>6. QED
  BY <1>1, <1>5, FirstOfResult

\* A part of a merged list is free of pages before chunks that repeat them.
LEMMA RelevantResult ==
  ASSUME NEW all \in Seq(Scored), PagesLast(Passages(all)), NEW steep
  PROVE  LET relevant == TopK(Only(all, Passage \X Relevant), steep)
             low == LowConfidence(all)
         IN /\ Passages(relevant) \in Seq(Passage) /\ PagesLast(Passages(relevant))
            /\ Passages(low) \in Seq(Passage) /\ PagesLast(Passages(low))
<1> DEFINE picked == Only(all, Passage \X Relevant)
           relevant == TopK(picked, steep)
           first == FirstOf(all, FallbackTopK)
           low == Only(first, Passage \X (Scores \ {0}))
<1>1. picked \in Seq(Scored) /\ PartOf(picked, all)
  BY OnlyResult
<1>2. relevant \in Seq(Scored) /\ PartOf(relevant, picked)
  <2> HIDE DEF picked
  <2> QED
    BY <1>1, TopKResult
<1>3. FallbackTopK \in Nat
  BY RetrievalAssumption
<1>4. first \in Seq(Scored) /\ PartOf(first, all)
  BY <1>3, FirstOfResult
<1>5. low \in Seq(Scored) /\ PartOf(low, first)
  <2> HIDE DEF first
  <2> QED
    BY <1>4, OnlyResult
<1>6. LowConfidence(all) = low
  BY DEF LowConfidence
<1> HIDE DEF picked, relevant, first, low
<1>7. PartOf(relevant, all) /\ PartOf(low, all)
  BY <1>1, <1>2, <1>4, <1>5, PartOfPart
<1>8. PagesLast(Passages(relevant)) /\ PagesLast(Passages(low))
  BY <1>2, <1>5, <1>7, PartKeepsPagesLast
<1>9. Passages(relevant) \in Seq(Passage) /\ Passages(low) \in Seq(Passage)
  BY <1>2, <1>5, PassagesType
<1>10. QED
  BY <1>6, <1>8, <1>9 DEF relevant, picked

LEMMA RerankedType ==
  ASSUME docs \in Seq(Passage), NEW reranker, NEW scored \in Reranked(reranker)
  PROVE  scored \in Seq(Scored)
<1> DEFINE Given(score) == [i \in DOMAIN docs |-> <<docs[i], score[i]>>]
<1>1. ASSUME NEW score \in [DOMAIN docs -> Scores]
      PROVE  /\ Given(score) \in Seq(Scored)
             /\ [i \in DOMAIN Given(score) |-> Given(score)[i][2]] \in [DOMAIN Given(score) -> Int]
  <2>1. \A i \in DOMAIN docs : docs[i] \in Passage /\ score[i] \in 0 .. 3
    BY DEF Scores
  <2>2. \A i \in DOMAIN docs : <<docs[i], score[i]>> \in Scored
    BY <2>1, ScoredParts
  <2> HIDE DEF Scored
  <2>3. Given(score) \in Seq(Scored)
    BY <2>2
  <2>4. \A i \in DOMAIN docs : Given(score)[i][2] = score[i] /\ score[i] \in Int
    BY <2>1
  <2>5. QED
    BY <2>3, <2>4
<1>2. PICK score \in [DOMAIN docs -> Scores] :
        scored = IF reranker
                 THEN Sorted(Given(score), [i \in DOMAIN Given(score) |-> Given(score)[i][2]])
                 ELSE Given(score)
  BY DEF Reranked
<1>3. QED
  <2> HIDE DEF Given
  <2> QED
    BY <1>1, <1>2, SortedType

-----------------------------------------------------------------------------
(* Neighbours.                                                             *)

LEMMA AroundResult ==
  ASSUME NEW n \in 1 .. Chunks, NEW parts \in SUBSET (1 .. Chunks)
  PROVE  /\ Around(n, parts) \in Seq(Passage)
         /\ n \in parts => Chunk(n) \in ToSet(Around(n, parts))
<1> DEFINE S == {m \in parts : m + Window >= n /\ m <= n + Window}
<1>1. S \in SUBSET (1 .. Chunks) /\ Around(n, parts) = InOrder(S)
  BY DEF Around
<1>2. n \in parts => n \in S
  BY RetrievalAssumption
<1> HIDE DEF S
<1>3. QED
  BY <1>1, <1>2, InOrderResult

\* What Expanded adds for p.
Beside(ps, p, parts) ==
    IF Web(p) THEN IF PageSeen(p, ps) THEN ps ELSE Append(ps, p)
    ELSE ps \o Only(Around(Part(p), parts), Passage \ ToSet(ps))

LEMMA BesideResult ==
  ASSUME NEW ps \in Seq(Passage), NEW p \in Passage, NEW parts \in SUBSET (1 .. Chunks)
  PROVE  /\ Beside(ps, p, parts) \in Seq(Passage)
         /\ \A q \in ToSet(ps) : q \in ToSet(Beside(ps, p, parts))
         /\ ~Web(p) /\ Part(p) \in parts => p \in ToSet(Beside(ps, p, parts))
<1>1. CASE Web(p)
  <2>1. Beside(ps, p, parts) = ps \/ Beside(ps, p, parts) = Append(ps, p)
    BY <1>1 DEF Beside
  <2> HIDE DEF Passage
  <2>2. CASE Beside(ps, p, parts) = ps
    BY <1>1, <2>2
  <2>3. CASE Beside(ps, p, parts) = Append(ps, p)
    <3>1. Append(ps, p) \in Seq(Passage) /\ DOMAIN ps \subseteq DOMAIN Append(ps, p)
          /\ \A i \in DOMAIN ps : Append(ps, p)[i] = ps[i]
      OBVIOUS
    <3>2. QED
      BY <1>1, <2>3, <3>1 DEF ToSet
  <2>4. QED
    BY <2>1, <2>2, <2>3
<1>2. CASE ~Web(p)
  <2> DEFINE near == Around(Part(p), parts)
             new == Only(near, Passage \ ToSet(ps))
  <2>1. Beside(ps, p, parts) = ps \o new
    BY <1>2 DEF Beside
  <2>2. Part(p) \in 1 .. Chunks /\ p = Chunk(Part(p))
    BY <1>2, PassageKinds
  <2>3. near \in Seq(Passage) /\ (Part(p) \in parts => p \in ToSet(near))
    BY <2>2, AroundResult
  <2> HIDE DEF near
  <2>4. new \in Seq(Passage) /\ \A x : x \in ToSet(new) <=> x \in ToSet(near) /\ x \in Passage \ ToSet(ps)
    BY <2>3, OnlyResult
  <2> HIDE DEF new, Passage
  <2>5. ps \o new \in Seq(Passage)
    BY <2>4
  <2>6. \A x : x \in ToSet(ps \o new) <=> x \in ToSet(ps) \/ x \in ToSet(new)
    <3> DEFINE both == ps \o new
    <3>1. /\ Len(ps) \in Nat /\ Len(new) \in Nat /\ DOMAIN both = 1 .. (Len(ps) + Len(new))
          /\ \A i \in 1 .. Len(ps) : both[i] = ps[i]
          /\ \A i \in 1 .. Len(new) : both[Len(ps) + i] = new[i]
          /\ DOMAIN ps = 1 .. Len(ps) /\ DOMAIN new = 1 .. Len(new)
      BY <2>4
    <3> HIDE DEF both
    <3>2. \A i \in 1 .. (Len(ps) + Len(new)) :
            i \in 1 .. Len(ps) \/ (i - Len(ps) \in 1 .. Len(new) /\ i = Len(ps) + (i - Len(ps)))
      BY <3>1
    <3>3. \A i \in 1 .. Len(new) : Len(ps) + i \in 1 .. (Len(ps) + Len(new))
      BY <3>1
    <3>4. \A i \in 1 .. Len(ps) : i \in 1 .. (Len(ps) + Len(new))
      BY <3>1
    <3>5. \A x : x \in ToSet(both) => x \in ToSet(ps) \/ x \in ToSet(new)
      <4> SUFFICES ASSUME NEW i \in 1 .. (Len(ps) + Len(new))
                   PROVE  both[i] \in ToSet(ps) \/ both[i] \in ToSet(new)
        BY <3>1 DEF ToSet
      <4>1. CASE i \in 1 .. Len(ps)
        BY <3>1, <4>1 DEF ToSet
      <4>2. CASE i - Len(ps) \in 1 .. Len(new) /\ i = Len(ps) + (i - Len(ps))
        <5>1. both[i] = new[i - Len(ps)]
          BY <3>1, <4>2
        <5>2. QED
          BY <3>1, <4>2, <5>1 DEF ToSet
      <4>3. QED
        BY <3>2, <4>1, <4>2
    <3>6. \A x : x \in ToSet(ps) => x \in ToSet(both)
      BY <3>1, <3>4 DEF ToSet
    <3>7. \A x : x \in ToSet(new) => x \in ToSet(both)
      BY <3>1, <3>3 DEF ToSet
    <3>8. QED
      BY <3>5, <3>6, <3>7 DEF both
  <2>7. QED
    BY <1>2, <2>1, <2>3, <2>4, <2>5, <2>6
<1>3. QED
  BY <1>1, <1>2

Anchors == {Part(p) : p \in ToSet(Locals(docs))}

LEMMA ExpandedSteps ==
  ASSUME docs \in Seq(Passage), NEW rows \in SUBSET (1 .. Chunks),
         Anchors \in SUBSET (1 .. Chunks)
  PROVE  \E f \in [0 .. Len(docs) -> Seq(Passage)] :
           /\ f[0] = << >> /\ f[Len(docs)] = Expanded(rows)
           /\ \A i \in 1 .. Len(docs) : f[i] = Beside(f[i - 1], docs[i], Anchors \union rows)
<1> DEFINE n == Len(docs)
           T == Seq(Passage)
           Take(ps, p) == Beside(ps, p, Anchors \union rows)
           Fits(it) == it = [s \in SUBSET DOMAIN docs |->
                               IF s = {} THEN << >> ELSE Take(it[s \ {Max(s)}], docs[Max(s)])]
           g == CHOOSE it : Fits(it)
           G == [x \in T \X (1 .. n) |-> Take(x[1], docs[x[2]])]
<1>1. Expanded(rows) = g[1 .. n]
  BY DEF Expanded, FoldLeft, MapThenFoldSet, Beside, Anchors
<1>2. n \in Nat /\ DOMAIN docs = 1 .. n /\ << >> \in T
  OBVIOUS
<1>3. \A kept \in T, i \in 1 .. n : Take(kept, docs[i]) \in T
  BY BesideResult
<1> HIDE DEF n, T, Take
<1>4. G \in [T \X (1 .. n) -> T]
  BY <1>3
<1>5. \A kept \in T, i \in 1 .. n : G[<<kept, i>>] = Take(kept, docs[i])
  OBVIOUS
<1> HIDE DEF G
<1>6. Fits(g)
  <2>1. PICK it : Solution(it, T, n, << >>, G)
    BY <1>2, <1>4, FoldSolved
  <2>2. Fits(it)
    BY <1>2, <1>5, <2>1 DEF Solution
  <2>3. QED
    <3> HIDE DEF Fits
    <3> QED
      BY <2>2
<1>7. /\ g[{}] = << >>
      /\ \A s \in SUBSET (1 .. n) : s # {} => g[s] = Take(g[s \ {Max(s)}], docs[Max(s)])
  <2> HIDE DEF g
  <2> QED
    BY <1>2, <1>6
<1>8. \A s \in SUBSET (1 .. n) : s # {} => Max(s) \in 1 .. n
  BY <1>2, <1>4, FoldSolved DEF Solution
<1>9. \A s \in SUBSET (1 .. n) : s # {} /\ g[s \ {Max(s)}] \in T =>
        g[s] = G[<<g[s \ {Max(s)}], Max(s)>>]
  <2> HIDE DEF g, Fits
  <2> QED
    BY <1>5, <1>7, <1>8
<1>10. PICK f : Steps(f, T, n, << >>, G, g[1 .. n])
  <2> HIDE DEF g, Fits
  <2> QED
    BY <1>2, <1>4, <1>7, <1>9, FoldSteps
<1>11. \A i \in 1 .. n : f[i] = Take(f[i - 1], docs[i])
  <2> SUFFICES ASSUME NEW i \in 1 .. n
               PROVE  f[i] = Take(f[i - 1], docs[i])
    OBVIOUS
  <2>1. i - 1 \in 0 .. n
    BY <1>2
  <2>2. QED
    BY <1>5, <1>10, <2>1 DEF Steps
<1>12. QED
  BY <1>1, <1>10, <1>11 DEF n, T, Take, Steps

\* The expansion keeps every chunk that was ranked.
LEMMA ExpandedResult ==
  ASSUME docs \in Seq(Passage), NEW rows \in SUBSET (1 .. Chunks)
  PROVE  /\ Expanded(rows) \in Seq(Passage)
         /\ \A p \in ToSet(docs) : ~Web(p) => p \in ToSet(Expanded(rows))
<1> DEFINE n == Len(docs)
<1>1. n \in Nat /\ DOMAIN docs = 1 .. n /\ \A i \in 1 .. n : docs[i] \in Passage
  OBVIOUS
<1>2. /\ Anchors \in SUBSET (1 .. Chunks)
      /\ \A i \in 1 .. n : ~Web(docs[i]) => Part(docs[i]) \in Anchors
  <2>1. \A p : p \in ToSet(Locals(docs)) <=> p \in ToSet(docs) /\ ~Web(p)
    BY LocalsResult
  <2>2. \A p \in ToSet(docs) : p \in Passage
    BY DEF ToSet
  <2>3. Anchors \in SUBSET (1 .. Chunks)
    BY <2>1, <2>2, PassageKinds DEF Anchors
  <2>4. \A i \in 1 .. n : docs[i] \in ToSet(docs)
    BY <1>1 DEF ToSet
  <2>5. QED
    BY <2>1, <2>3, <2>4 DEF Anchors
<1> DEFINE parts == Anchors \union rows
<1>3. parts \in SUBSET (1 .. Chunks) /\ \A i \in 1 .. n : ~Web(docs[i]) => Part(docs[i]) \in parts
  BY <1>2
<1>4. PICK f \in [0 .. n -> Seq(Passage)] :
        /\ f[0] = << >> /\ f[n] = Expanded(rows)
        /\ \A i \in 1 .. n : f[i] = Beside(f[i - 1], docs[i], parts)
  BY <1>2, ExpandedSteps
<1> HIDE DEF n, parts
<1> DEFINE Fine(i) == \A k \in 1 .. i : ~Web(docs[k]) => docs[k] \in ToSet(f[i])
           fine == {i \in 0 .. n : Fine(i)}
<1>5. 0 \in fine
  BY <1>1
<1>6. ASSUME NEW i \in 0 .. n, i \in fine, i < n
      PROVE  i + 1 \in fine
  <2>1. i \in Nat /\ i + 1 \in 0 .. n /\ i + 1 \in 1 .. n /\ (i + 1) - 1 = i
    BY <1>1, <1>6
  <2>2. /\ f[i] \in Seq(Passage) /\ docs[i + 1] \in Passage
        /\ f[i + 1] = Beside(f[i], docs[i + 1], parts)
    BY <1>1, <1>4, <2>1
  <2>3. Fine(i)
    BY <1>6
  <2>4. /\ \A q \in ToSet(f[i]) : q \in ToSet(f[i + 1])
        /\ ~Web(docs[i + 1]) => docs[i + 1] \in ToSet(f[i + 1])
    BY <1>3, <2>1, <2>2, BesideResult
  <2>5. Fine(i + 1)
    BY <2>1, <2>3, <2>4
  <2> HIDE DEF Fine
  <2>6. QED
    BY <2>1, <2>5
<1>7. n \in fine
  <2> HIDE DEF fine
  <2>1. \A i \in 0 .. n : i \in fine /\ i < n => i + 1 \in fine
    BY <1>6
  <2>2. n \in 0 .. n
    BY <1>1
  <2>3. QED
    BY <1>1, <1>5, <2>1, <2>2, StepByStep
<1>8. Fine(n)
  <2> HIDE DEF Fine
  <2> QED
    BY <1>7
<1>9. QED
  BY <1>1, <1>4, <1>8 DEF ToSet

-----------------------------------------------------------------------------
(* Numbers of citations.                                                   *)

LEMMA NumbersSteps ==
  ASSUME NEW ps \in Seq(Nat)
  PROVE  \E f \in [0 .. Len(ps) -> Seq(Nat)] :
           /\ f[0] = << >> /\ f[Len(ps)] = Numbers(ps)
           /\ \A i \in 1 .. Len(ps) : f[i] = IF ps[i] \in ToSet(f[i - 1]) THEN f[i - 1] ELSE Append(f[i - 1], ps[i])
<1> DEFINE n == Len(ps)
           T == Seq(Nat)
           Take(ns, m) == IF m \in ToSet(ns) THEN ns ELSE Append(ns, m)
           Fits(it) == it = [s \in SUBSET DOMAIN ps |->
                               IF s = {} THEN << >> ELSE Take(it[s \ {Max(s)}], ps[Max(s)])]
           g == CHOOSE it : Fits(it)
           G == [x \in T \X (1 .. n) |-> Take(x[1], ps[x[2]])]
<1>1. Numbers(ps) = g[1 .. n]
  BY DEF Numbers, FoldLeft, MapThenFoldSet
<1>2. n \in Nat /\ DOMAIN ps = 1 .. n /\ << >> \in T
  OBVIOUS
<1>3. \A kept \in T, i \in 1 .. n : Take(kept, ps[i]) \in T
  OBVIOUS
<1> HIDE DEF n, T, Take
<1>4. G \in [T \X (1 .. n) -> T]
  BY <1>3
<1>5. \A kept \in T, i \in 1 .. n : G[<<kept, i>>] = Take(kept, ps[i])
  OBVIOUS
<1> HIDE DEF G
<1>6. Fits(g)
  <2>1. PICK it : Solution(it, T, n, << >>, G)
    BY <1>2, <1>4, FoldSolved
  <2>2. Fits(it)
    BY <1>2, <1>5, <2>1 DEF Solution
  <2>3. QED
    <3> HIDE DEF Fits
    <3> QED
      BY <2>2
<1>7. /\ g[{}] = << >>
      /\ \A s \in SUBSET (1 .. n) : s # {} => g[s] = Take(g[s \ {Max(s)}], ps[Max(s)])
  <2> HIDE DEF g
  <2> QED
    BY <1>2, <1>6
<1>8. \A s \in SUBSET (1 .. n) : s # {} => Max(s) \in 1 .. n
  BY <1>2, <1>4, FoldSolved DEF Solution
<1>9. \A s \in SUBSET (1 .. n) : s # {} /\ g[s \ {Max(s)}] \in T =>
        g[s] = G[<<g[s \ {Max(s)}], Max(s)>>]
  <2> HIDE DEF g, Fits
  <2> QED
    BY <1>5, <1>7, <1>8
<1>10. PICK f : Steps(f, T, n, << >>, G, g[1 .. n])
  <2> HIDE DEF g, Fits
  <2> QED
    BY <1>2, <1>4, <1>7, <1>9, FoldSteps
<1>11. \A i \in 1 .. n : f[i] = Take(f[i - 1], ps[i])
  <2> SUFFICES ASSUME NEW i \in 1 .. n
               PROVE  f[i] = Take(f[i - 1], ps[i])
    OBVIOUS
  <2>1. i - 1 \in 0 .. n
    BY <1>2
  <2>2. QED
    BY <1>5, <1>10, <2>1 DEF Steps
<1>12. QED
  BY <1>1, <1>10, <1>11 DEF n, T, Take, Steps


\* Every number that was written once, and no other.
LEMMA NumbersResult ==
  ASSUME NEW ps \in Seq(Nat)
  PROVE  /\ Numbers(ps) \in Seq(Nat) /\ ToSet(Numbers(ps)) = ToSet(ps)
         /\ \A i, j \in DOMAIN Numbers(ps) : Numbers(ps)[i] = Numbers(ps)[j] => i = j
<1> DEFINE n == Len(ps)
<1>1. n \in Nat /\ DOMAIN ps = 1 .. n /\ \A i \in 1 .. n : ps[i] \in Nat
  OBVIOUS
<1>2. PICK f \in [0 .. n -> Seq(Nat)] :
        /\ f[0] = << >> /\ f[n] = Numbers(ps)
        /\ \A i \in 1 .. n :
             f[i] = IF ps[i] \in ToSet(f[i - 1]) THEN f[i - 1] ELSE Append(f[i - 1], ps[i])
  BY NumbersSteps
<1> HIDE DEF n
<1> DEFINE Once(i) == \A j, k \in DOMAIN f[i] : f[i][j] = f[i][k] => j = k
           All(i) == /\ \A j \in DOMAIN f[i] : \E k \in 1 .. i : f[i][j] = ps[k]
                     /\ \A k \in 1 .. i : \E j \in DOMAIN f[i] : f[i][j] = ps[k]
           fine == {i \in 0 .. n : Once(i) /\ All(i)}
<1>3. 0 \in fine
  BY <1>1, <1>2
<1>4. ASSUME NEW i \in 0 .. n, i \in fine, i < n
      PROVE  i + 1 \in fine
  <2>1. i \in Nat /\ i + 1 \in 0 .. n /\ i + 1 \in 1 .. n /\ (i + 1) - 1 = i
    BY <1>1, <1>4
  <2>2. /\ f[i] \in Seq(Nat) /\ ps[i + 1] \in Nat
        /\ f[i + 1] = IF ps[i + 1] \in ToSet(f[i]) THEN f[i] ELSE Append(f[i], ps[i + 1])
    BY <1>1, <1>2, <2>1
  <2>3. Once(i) /\ All(i)
    BY <1>4
  <2>4. CASE ps[i + 1] \in ToSet(f[i])
    <3>1. f[i + 1] = f[i]
      BY <2>2, <2>4
    <3>2. Once(i + 1)
      BY <2>3, <3>1
    <3>3. All(i + 1)
      <4>1. \A k \in 1 .. (i + 1) : k = i + 1 \/ k \in 1 .. i
        BY <2>1
      <4>2. \A k \in 1 .. i : k \in 1 .. (i + 1)
        BY <2>1
      <4>3. \E j \in DOMAIN f[i] : f[i][j] = ps[i + 1]
        BY <2>4 DEF ToSet
      <4>4. \A j \in DOMAIN f[i] : \E k \in 1 .. (i + 1) : f[i][j] = ps[k]
        BY <2>3, <4>2
      <4>5. \A k \in 1 .. (i + 1) : \E j \in DOMAIN f[i] : f[i][j] = ps[k]
        BY <2>3, <4>1, <4>3
      <4>6. QED
        BY <3>1, <4>4, <4>5
    <3> HIDE DEF Once, All
    <3>4. QED
      BY <2>1, <3>2, <3>3
  <2>5. CASE ps[i + 1] \notin ToSet(f[i])
    <3> DEFINE m == Len(f[i])
    <3>1. /\ m \in Nat /\ DOMAIN f[i] = 1 .. m /\ DOMAIN f[i + 1] = 1 .. (m + 1)
          /\ f[i + 1][m + 1] = ps[i + 1] /\ \A j \in 1 .. m : f[i + 1][j] = f[i][j]
      BY <2>2, <2>5
    <3> HIDE DEF m
    <3>2. \A j \in 1 .. (m + 1) : j = m + 1 \/ j \in 1 .. m
      BY <3>1
    <3>3. \A j \in 1 .. m : f[i][j] # ps[i + 1]
      BY <2>5, <3>1 DEF ToSet
    <3>4. Once(i + 1)
      BY <2>3, <3>1, <3>2, <3>3
    <3>5. \A j \in DOMAIN f[i + 1] : \E k \in 1 .. (i + 1) : f[i + 1][j] = ps[k]
      <4>1. i + 1 \in 1 .. (i + 1) /\ \A k \in 1 .. i : k \in 1 .. (i + 1)
        BY <2>1
      <4>2. QED
        <5> SUFFICES ASSUME NEW j \in 1 .. (m + 1)
                     PROVE  \E k \in 1 .. (i + 1) : f[i + 1][j] = ps[k]
          BY <3>1
        <5>1. CASE j = m + 1
          BY <3>1, <4>1, <5>1
        <5>2. CASE j \in 1 .. m
          <6>1. j \in DOMAIN f[i] /\ f[i + 1][j] = f[i][j]
            BY <3>1, <5>2
          <6>2. PICK k \in 1 .. i : f[i][j] = ps[k]
            BY <2>3, <6>1
          <6>3. QED
            BY <4>1, <6>1, <6>2
        <5>3. QED
          BY <3>2, <5>1, <5>2
    <3>6. \A k \in 1 .. (i + 1) : \E j \in DOMAIN f[i + 1] : f[i + 1][j] = ps[k]
      <4>1. \A k \in 1 .. (i + 1) : k = i + 1 \/ k \in 1 .. i
        BY <2>1
      <4>2. m + 1 \in 1 .. (m + 1) /\ \A j \in 1 .. m : j \in 1 .. (m + 1)
        BY <3>1
      <4>3. QED
        <5> SUFFICES ASSUME NEW k \in 1 .. (i + 1)
                     PROVE  \E j \in 1 .. (m + 1) : f[i + 1][j] = ps[k]
          BY <3>1
        <5>1. CASE k = i + 1
          BY <3>1, <4>2, <5>1
        <5>2. CASE k \in 1 .. i
          <6>1. PICK j \in 1 .. m : f[i][j] = ps[k]
            BY <2>3, <3>1, <5>2
          <6>2. QED
            BY <3>1, <4>2, <6>1
        <5>3. QED
          BY <4>1, <5>1, <5>2
    <3>7. All(i + 1)
      BY <3>5, <3>6
    <3> HIDE DEF Once, All
    <3>8. QED
      BY <2>1, <3>4, <3>7
  <2>6. QED
    BY <2>4, <2>5
<1>5. n \in fine
  <2> HIDE DEF fine
  <2>1. \A i \in 0 .. n : i \in fine /\ i < n => i + 1 \in fine
    BY <1>4
  <2>2. n \in 0 .. n
    BY <1>1
  <2>3. QED
    BY <1>1, <1>3, <2>1, <2>2, StepByStep
<1>6. Once(n) /\ All(n)
  <2> HIDE DEF Once, All
  <2> QED
    BY <1>5
<1>7. f[n] \in Seq(Nat) /\ f[n] = Numbers(ps)
  BY <1>1, <1>2
<1>8. ToSet(f[n]) = ToSet(ps)
  <2>1. \A j \in DOMAIN f[n] : f[n][j] \in ToSet(ps)
    BY <1>1, <1>6 DEF ToSet
  <2>2. \A k \in DOMAIN ps : ps[k] \in ToSet(f[n])
    BY <1>1, <1>6 DEF ToSet
  <2> HIDE DEF Once, All
  <2>3. QED
    BY <2>1, <2>2 DEF ToSet
<1>9. QED
  BY <1>6, <1>7, <1>8

\* Numbers that all lead somewhere are renumbered in the order of their use,
\* and lead to the same passages.
LEMMA RenumberedResult ==
  ASSUME NEW written \in Seq(Nat)
  PROVE  /\ DOMAIN Renumbered(written) = DOMAIN written
         /\ \A i \in DOMAIN written :
              /\ Renumbered(written)[i] \in DOMAIN Numbers(written)
              /\ Numbers(written)[Renumbered(written)[i]] = written[i]
         /\ Renumbered(written) \in Seq(DOMAIN Numbers(written))
         /\ ToSet(Renumbered(written)) = DOMAIN Numbers(written)
<1> DEFINE numbers == Numbers(written)
           new == Renumbered(written)
<1>1. /\ numbers \in Seq(Nat) /\ ToSet(numbers) = ToSet(written)
      /\ \A i, j \in DOMAIN numbers : numbers[i] = numbers[j] => i = j
  BY NumbersResult
<1>2. new = [i \in DOMAIN written |-> CHOOSE k \in DOMAIN numbers : numbers[k] = written[i]]
  BY DEF Renumbered
<1> HIDE DEF numbers, new
<1>3. ASSUME NEW i \in DOMAIN written
      PROVE  new[i] \in DOMAIN numbers /\ numbers[new[i]] = written[i]
  <2>1. written[i] \in ToSet(numbers)
    BY <1>1 DEF ToSet
  <2>2. \E k \in DOMAIN numbers : numbers[k] = written[i]
    BY <2>1 DEF ToSet
  <2>3. QED
    BY <1>2, <2>2
<1>4. DOMAIN new = DOMAIN written /\ DOMAIN written = 1 .. Len(written) /\ Len(written) \in Nat
  BY <1>2
<1>5. new \in Seq(DOMAIN numbers)
  <2>1. new = [i \in 1 .. Len(written) |-> CHOOSE k \in DOMAIN numbers : numbers[k] = written[i]]
    BY <1>2, <1>4
  <2>2. new \in [1 .. Len(written) -> DOMAIN numbers]
    BY <1>3, <1>4, <2>1
  <2>3. QED
    BY <1>4, <2>2
<1>6. ToSet(new) = DOMAIN numbers
  <2>1. \A i \in DOMAIN new : new[i] \in DOMAIN numbers
    BY <1>3, <1>4
  <2>2. ASSUME NEW k \in DOMAIN numbers
        PROVE  \E i \in DOMAIN new : new[i] = k
    <3>1. numbers[k] \in ToSet(written)
      BY <1>1 DEF ToSet
    <3>2. PICK i \in DOMAIN written : written[i] = numbers[k]
      BY <3>1 DEF ToSet
    <3>3. new[i] \in DOMAIN numbers /\ numbers[new[i]] = numbers[k]
      BY <1>3, <3>2
    <3>4. QED
      BY <1>1, <1>4, <3>3
  <2>3. QED
    BY <2>1, <2>2 DEF ToSet
<1>7. QED
  BY <1>3, <1>4, <1>5, <1>6 DEF numbers, new

LEMMA ElementsOf ==
  ASSUME NEW S, NEW T, S \subseteq T, NEW s \in Seq(S)
  PROVE  s \in Seq(T) /\ \A i \in DOMAIN s : s[i] \in S
<1>1. s \in [1 .. Len(s) -> S] /\ Len(s) \in Nat
  OBVIOUS
<1>2. s \in [1 .. Len(s) -> T]
  BY <1>1
<1>3. QED
  BY <1>1, <1>2

LEMMA SequencesType ==
  ASSUME NEW S, NEW n \in Nat, NEW s \in Sequences(S, n)
  PROVE  s \in Seq(S)
<1>1. PICK k \in 0 .. n : s \in [1 .. k -> S]
  BY DEF Sequences
<1>2. QED
  BY <1>1

\* What an answer stores when the candidates are what the model had before it.
LEMMA CiteResult ==
  ASSUME shown' \in Seq(Passage), Cite(shown')
  PROVE  /\ pc' = "done" /\ cited' \in Seq(Nat) /\ sources' \in Seq(Passage)
         /\ answer' \in Seq(DOMAIN sources') /\ basis' \in {"sources", "general", "refused"}
         /\ CitationsFaithful'
<1>1. PICK written \in Sequences(1 .. Len(shown') + 1, MaxCitations) :
        /\ cited' = written
        /\ IF ToSet(written) \subseteq DOMAIN shown'
           THEN /\ answer' = Renumbered(written)
                /\ sources' = [k \in DOMAIN Numbers(written) |-> shown'[Numbers(written)[k]]]
                /\ basis' = IF written = << >> THEN "general" ELSE "sources"
           ELSE answer' = << >> /\ sources' = << >> /\ basis' = "refused"
        /\ pc' = "done"
  BY DEF Cite
<1>2. written \in Seq(Nat)
  <2>1. MaxCitations \in Nat
    BY RetrievalAssumption
  <2>2. written \in Seq(1 .. Len(shown') + 1)
    BY <2>1, SequencesType
  <2>3. QED
    BY <2>2
<1> DEFINE numbers == Numbers(written)
<1>3. CASE ToSet(written) \subseteq DOMAIN shown'
  <2>1. /\ answer' = Renumbered(written)
        /\ sources' = [k \in DOMAIN numbers |-> shown'[numbers[k]]]
        /\ basis' \in {"sources", "general"}
    BY <1>1, <1>3
  <2>2. numbers \in Seq(Nat) /\ ToSet(numbers) = ToSet(written)
    BY <1>2, NumbersResult
  <2>3. /\ DOMAIN answer' = DOMAIN written
        /\ \A i \in DOMAIN written :
             answer'[i] \in DOMAIN numbers /\ numbers[answer'[i]] = written[i]
        /\ answer' \in Seq(DOMAIN numbers) /\ ToSet(answer') = DOMAIN numbers
    BY <1>2, <2>1, RenumberedResult
  <2> HIDE DEF numbers
  <2>4. \A k \in DOMAIN numbers : numbers[k] \in DOMAIN shown'
    BY <1>3, <2>2 DEF ToSet
  <2>5. DOMAIN numbers = 1 .. Len(numbers) /\ Len(numbers) \in Nat
    BY <2>2
  <2>6. sources' \in Seq(Passage) /\ DOMAIN sources' = DOMAIN numbers
    <3>1. \A k \in DOMAIN numbers : shown'[numbers[k]] \in Passage
      BY <2>4
    <3> HIDE DEF Passage
    <3>2. QED
      BY <2>1, <2>5, <3>1
  <2>7. \A i \in DOMAIN answer' : sources'[answer'[i]] = shown'[cited'[i]]
    BY <1>1, <2>1, <2>3
  <2>8. CitationsFaithful'
    <3>1. basis' # "refused"
      BY <2>1
    <3>2. DOMAIN sources' = ToSet(answer') /\ DOMAIN answer' = DOMAIN cited'
      BY <1>1, <2>3, <2>6
    <3>3. QED
      BY <2>7, <3>1, <3>2 DEF CitationsFaithful, ToSet
  <2>9. QED
    BY <1>1, <1>2, <2>1, <2>3, <2>6, <2>8
<1>4. CASE ~(ToSet(written) \subseteq DOMAIN shown')
  <2>1. answer' = << >> /\ sources' = << >> /\ basis' = "refused"
    BY <1>1, <1>4
  <2>2. DOMAIN sources' = {} /\ ToSet(answer') = {}
    BY <2>1 DEF ToSet
  <2>3. CitationsFaithful'
    BY <1>1, <1>4, <2>1, <2>2 DEF CitationsFaithful, ToSet
  <2>4. sources' \in Seq(Passage) /\ answer' \in Seq(DOMAIN sources')
    BY <2>1
  <2>5. QED
    BY <1>1, <1>2, <2>1, <2>3, <2>4
<1>5. QED
  BY <1>3, <1>4

-----------------------------------------------------------------------------
(* Fusion.                                                                 *)

LEMMA ShareType ==
  ASSUME NEW list \in Seq(1 .. Chunks), NEW n
  PROVE  Share(list, n) \in Int
<1>1. CASE n \in ToSet(list)
  <2> DEFINE i == CHOOSE i \in DOMAIN list : list[i] = n
  <2>1. \E k \in DOMAIN list : list[k] = n
    BY <1>1 DEF ToSet
  <2>2. i \in DOMAIN list
    BY <2>1
  <2>3. i \in Nat
    <3> HIDE DEF i
    <3> QED
      BY <2>2
  <2>4. Share(list, n) = 1000000 \div (60 + i)
    BY <1>1 DEF Share
  <2> HIDE DEF i
  <2>5. QED
    BY <2>3, <2>4
<1>2. CASE n \notin ToSet(list)
  BY <1>2 DEF Share
<1>3. QED
  BY <1>1, <1>2

LEMMA FusedType ==
  ASSUME NEW first \in Seq(1 .. Chunks), NEW second \in Seq(1 .. Chunks)
  PROVE  Fused(first, second) \in Seq(1 .. Chunks)
<1> DEFINE new == Only(second, (1 .. Chunks) \ ToSet(first))
           all == first \o new
           weight == [i \in DOMAIN all |-> Share(first, all[i]) + Share(second, all[i])]
<1>1. new \in Seq(1 .. Chunks)
  BY OnlyResult
<1>2. all \in Seq(1 .. Chunks)
  <2> HIDE DEF new
  <2> QED
    BY <1>1
<1>3. weight \in [DOMAIN all -> Int]
  <2> HIDE DEF all
  <2>1. \A i \in DOMAIN all : Share(first, all[i]) \in Int /\ Share(second, all[i]) \in Int
    BY ShareType
  <2>2. QED
    BY <2>1
<1>4. FusedTopK \in Nat
  BY RetrievalAssumption
<1>5. Fused(first, second) = FirstOf(Sorted(all, weight), FusedTopK)
  BY DEF Fused
<1> HIDE DEF all, weight
<1>6. Sorted(all, weight) \in Seq(1 .. Chunks)
  BY <1>2, <1>3, SortedType
<1>7. QED
  BY <1>4, <1>5, <1>6, FirstOfResult

-----------------------------------------------------------------------------
(* The invariant.                                                          *)

HitsTyped ==
    hits \in [embedding : Seq(1 .. Chunks), hyde : Seq(1 .. Chunks), web : Seq(1 .. Pages)]

\* Nothing is stored or shown before the run is done.
Unanswered ==
    pc # "done" =>
        shown = << >> /\ cited = << >> /\ answer = << >> /\ sources = << >> /\ basis = ""

\* No page of the list an answer is written from repeats a chunk behind it.
Settled == pc = "answer" => PagesLast(docs)

\* The complete text is in the list as soon as it is said to be.
FullText ==
    /\ quality = "full_context" => pc \in {"answer", "done", "failed"}
    /\ pc = "answer" /\ quality = "full_context" =>
         \A n \in 1 .. Chunks : Chunk(n) \in ToSet(docs)

IInv ==
    /\ TypeOK /\ HitsTyped /\ Unanswered /\ Settled /\ FullText
    /\ ShownOnce /\ CitationsFaithful /\ FullContextComplete

LEMMA EmptyList == DOMAIN << >> = {} /\ ToSet(<< >>) = {}
<1>1. << >> \in Seq({}) /\ Len(<< >>) = 0
  OBVIOUS
<1>2. DOMAIN << >> = 1 .. 0
  BY <1>1
<1>3. DOMAIN << >> = {}
  BY <1>2
<1>4. QED
  BY <1>3 DEF ToSet

LEMMA InvariantInit == Init => IInv
<1> SUFFICES ASSUME Init
             PROVE  IInv
  OBVIOUS
<1>1. /\ pc = "confirm" /\ removal = "none" /\ indexed = 1 .. Chunks
      /\ plan = "normal" /\ branches = {} /\ quality = "none" /\ basis = ""
      /\ docs = << >> /\ shown = << >> /\ cited = << >> /\ answer = << >> /\ sources = << >>
      /\ hits = [embedding |-> << >>, hyde |-> << >>, web |-> << >>]
  BY DEF Init
<1>2. \A S : << >> \in Seq(S)
  OBVIOUS
<1>3. TypeOK
  BY <1>1, <1>2 DEF TypeOK, Plans
<1>4. HitsTyped
  BY <1>1, <1>2 DEF HitsTyped
<1>5. Unanswered /\ Settled /\ FullText
  BY <1>1 DEF Unanswered, Settled, FullText
<1>6. ShownOnce
  BY <1>1, EmptyList DEF ShownOnce
<1>7. CitationsFaithful /\ FullContextComplete
  BY <1>1 DEF CitationsFaithful, FullContextComplete
<1>8. QED
  BY <1>3, <1>4, <1>5, <1>6, <1>7 DEF IInv

\* A step before the answer, which leaves the scope alone.
LEMMA BeforeAnswer ==
  ASSUME IInv, TypeOK', HitsTyped', UNCHANGED <<scope, result>>,
         pc \notin {"answer", "done"}, pc' # "done",
         pc' = "answer" => PagesLast(docs'),
         FullText'
  PROVE  IInv'
<1>1. shown' = shown /\ scope' = scope
  BY DEF result
<1>2. Unanswered' /\ ShownOnce'
  <2>1. Unanswered'
    BY DEF IInv, Unanswered, result
  <2>2. ShownOnce /\ \A p, q : Alike(p, q)' <=> Alike(p, q)
    BY <1>1 DEF IInv, Alike
  <2>3. ShownOnce'
    BY <1>1, <2>2 DEF ShownOnce, Alike
  <2>4. QED
    BY <2>1, <2>3
<1>3. Settled'
  BY DEF Settled, PagesLast, Alike
<1>4. CitationsFaithful' /\ FullContextComplete'
  BY DEF CitationsFaithful, FullContextComplete
<1>5. QED
  BY <1>2, <1>3, <1>4 DEF IInv

\* Without sources and numbers there is nothing to be wrong about.
LEMMA NothingCited ==
  ASSUME shown' = << >>, cited' = << >>, answer' = << >>, sources' = << >>, basis' = ""
  PROVE  ShownOnce' /\ CitationsFaithful'
<1>1. DOMAIN shown' = {} /\ DOMAIN answer' = {} /\ DOMAIN cited' = {}
      /\ DOMAIN sources' = {} /\ ToSet(answer') = {}
  BY EmptyList
<1>2. ShownOnce'
  BY <1>1 DEF ShownOnce
<1>3. CitationsFaithful'
  BY <1>1 DEF CitationsFaithful
<1>4. QED
  BY <1>2, <1>3

LEMMA ConfirmKeeps == IInv /\ ConfirmItem => IInv'
<1> SUFFICES ASSUME IInv, ConfirmItem
             PROVE  IInv'
  OBVIOUS
<1>1. /\ pc = "confirm" /\ pc' \in {"done", "context"} /\ plan' \in Plans
      /\ UNCHANGED <<removal, indexed, branches, hits, docs, quality, shown, cited, answer,
                     sources, basis, scope, failures>>
  BY DEF ConfirmItem, result, fixed
<1>2. TypeOK' /\ HitsTyped'
  BY <1>1 DEF IInv, TypeOK, HitsTyped
<1>3. /\ shown = << >> /\ cited = << >> /\ answer = << >> /\ sources = << >> /\ basis = ""
      /\ quality # "full_context"
  BY <1>1 DEF IInv, Unanswered, FullText
<1>4. Unanswered' /\ Settled' /\ FullText' /\ FullContextComplete'
  BY <1>1, <1>3 DEF Unanswered, Settled, FullText, FullContextComplete
<1>5. ShownOnce' /\ CitationsFaithful'
  <2>1. /\ shown' = << >> /\ cited' = << >> /\ answer' = << >> /\ sources' = << >>
        /\ basis' = ""
    BY <1>1, <1>3
  <2>2. QED
    BY <2>1, NothingCited
<1>6. QED
  BY <1>2, <1>4, <1>5 DEF IInv

LEMMA PrepareKeeps == IInv /\ PrepareContext => IInv'
<1> SUFFICES ASSUME IInv, PrepareContext
             PROVE  IInv'
  OBVIOUS
<1>1. /\ pc = "context" /\ pc' \in {"summary", "search", "rows"}
      /\ branches' = branches \/ branches' \in SUBSET {"embedding", "hyde", "web"}
      /\ UNCHANGED <<removal, indexed, plan, hits, docs, quality, shown, cited, answer,
                     sources, basis, scope, failures>>
  BY DEF PrepareContext, StartSearch, result, fixed
<1>2. TypeOK' /\ HitsTyped'
  BY <1>1 DEF IInv, TypeOK, HitsTyped
<1>3. FullText'
  BY <1>1 DEF IInv, FullText
<1>4. QED
  BY <1>1, <1>2, <1>3, BeforeAnswer DEF result

\* Rows enough are all of them.
LEMMA WholeIsAll ==
  ASSUME NEW rows \in SUBSET (1 .. Chunks), Whole(rows)
  PROVE  rows = 1 .. Chunks
<1>1. Chunks \in Nat
  BY RetrievalAssumption
<1>2. IsFiniteSet(1 .. Chunks) /\ Cardinality(1 .. Chunks) = Chunks
  BY <1>1, FS_Interval
<1>3. Cardinality(rows) <= Chunks /\ (Cardinality(rows) = Chunks => rows = 1 .. Chunks)
      /\ IsFiniteSet(rows)
  <2> DEFINE all == 1 .. Chunks
  <2>1. IsFiniteSet(all) /\ rows \in SUBSET all /\ Cardinality(all) = Chunks
    BY <1>2
  <2> HIDE DEF all
  <2>2. /\ IsFiniteSet(rows) /\ Cardinality(rows) <= Cardinality(all)
        /\ Cardinality(all) = Cardinality(rows) => all = rows
    BY <2>1, FS_Subset
  <2>3. QED
    BY <2>1, <2>2 DEF all
<1>4. Cardinality(rows) \in Nat
  BY <1>3, FS_CardinalityType
<1>5. QED
  BY <1>1, <1>3, <1>4 DEF Whole

LEMMA ReadKeeps == IInv /\ ReadRows => IInv'
<1> SUFFICES ASSUME IInv, ReadRows
             PROVE  IInv'
  OBVIOUS
<1>1. /\ pc = "rows"
      /\ UNCHANGED <<removal, indexed, plan, hits, shown, cited, answer, sources, basis, scope,
                     failures>>
  BY DEF ReadRows, result, fixed
<1>2. CASE StartSearch /\ UNCHANGED <<docs, quality>>
  <2>1. pc' = "search" /\ branches' \in SUBSET {"embedding", "hyde", "web"}
    BY <1>2 DEF StartSearch
  <2>2. TypeOK' /\ HitsTyped'
    BY <1>1, <1>2, <2>1 DEF IInv, TypeOK, HitsTyped
  <2>3. FullText'
    BY <1>1, <1>2, <2>1 DEF IInv, FullText
  <2>4. QED
    BY <1>1, <2>1, <2>2, <2>3, BeforeAnswer DEF result
<1>3. ASSUME NEW rows \in SUBSET indexed, Whole(rows), docs' = InOrder(rows),
             quality' = "full_context", pc' = "answer", UNCHANGED branches
      PROVE  IInv'
  <2>1. rows \in SUBSET (1 .. Chunks)
    BY DEF IInv, TypeOK
  <2>2. rows = 1 .. Chunks
    BY <1>3, <2>1, WholeIsAll
  <2>3. /\ docs' \in Seq(Passage) /\ PagesLast(docs')
        /\ \A n \in 1 .. Chunks : Chunk(n) \in ToSet(docs')
    BY <1>3, <2>1, <2>2, InOrderResult
  <2>4. TypeOK' /\ HitsTyped'
    BY <1>1, <1>3, <2>3 DEF IInv, TypeOK, HitsTyped
  <2>5. FullText'
    BY <1>3, <2>3 DEF FullText
  <2>6. QED
    BY <1>1, <1>3, <2>3, <2>4, <2>5, BeforeAnswer DEF result
<1>4. QED
  BY <1>2, <1>3 DEF ReadRows

LEMMA BranchKeeps ==
  ASSUME IInv, NEW b \in {"embedding", "hyde", "web"}, NEW found, EndBranch(b, found),
         b \in {"embedding", "hyde"} => found \in Seq(1 .. Chunks),
         b = "web" => found \in Seq(1 .. Pages)
  PROVE  IInv'
<1>1. /\ pc = "search" /\ branches' = branches \ {b} /\ hits' = [hits EXCEPT ![b] = found]
      /\ UNCHANGED <<pc, removal, indexed, plan, docs, quality, shown, cited, answer, sources,
                     basis, scope, failures>>
  BY DEF EndBranch, result, fixed
<1>2. TypeOK'
  BY <1>1 DEF IInv, TypeOK
<1>3. HitsTyped'
  BY <1>1 DEF IInv, HitsTyped
<1>4. FullText'
  BY <1>1 DEF IInv, FullText
<1>5. QED
  BY <1>1, <1>2, <1>3, <1>4, BeforeAnswer DEF result

LEMMA SearchesKeep == IInv /\ (SearchEmbedding \/ SearchHyde \/ SearchWeb) => IInv'
<1> SUFFICES ASSUME IInv, SearchEmbedding \/ SearchHyde \/ SearchWeb
             PROVE  IInv'
  OBVIOUS
<1>1. ASSUME NEW found \in Distinct(indexed, MaxHits)
      PROVE  found \in Seq(1 .. Chunks)
  <2>1. found \in Sequences(indexed, MaxHits) /\ MaxHits \in Nat
    BY RetrievalAssumption DEF Distinct
  <2>2. found \in Seq(indexed) /\ indexed \subseteq 1 .. Chunks
    BY <2>1, SequencesType DEF IInv, TypeOK
  <2>3. QED
    BY <2>2, ElementsOf
<1>2. CASE SearchEmbedding
  BY <1>1, <1>2, BranchKeeps DEF SearchEmbedding
<1>3. CASE SearchHyde
  BY <1>1, <1>3, BranchKeeps DEF SearchHyde
<1>4. CASE SearchWeb
  <2>1. PICK n \in 0 .. Pages : EndBranch("web", [i \in 1 .. n |-> i])
    BY <1>4 DEF SearchWeb
  <2>2. [i \in 1 .. n |-> i] \in Seq(1 .. Pages)
    BY RetrievalAssumption
  <2>3. QED
    BY <2>1, <2>2, BranchKeeps
<1>5. QED
  BY <1>2, <1>3, <1>4

LEMMA FuseKeeps == IInv /\ Fuse => IInv'
<1> SUFFICES ASSUME IInv, Fuse
             PROVE  IInv'
  OBVIOUS
<1> DEFINE local == Fused(hits.embedding, hits.hyde)
           chunks == [i \in DOMAIN local |-> Chunk(local[i])]
           pages == [i \in DOMAIN hits.web |-> Page(hits.web[i])]
<1>1. /\ pc = "search" /\ pc' = "rerank" /\ docs' = chunks \o pages
      /\ hits' = [hits EXCEPT !.embedding = << >>, !.hyde = << >>, !.web = << >>]
      /\ UNCHANGED <<removal, indexed, plan, branches, quality, shown, cited, answer, sources,
                     basis, scope, failures>>
  BY DEF Fuse, result, fixed
<1>2. /\ hits.embedding \in Seq(1 .. Chunks) /\ hits.hyde \in Seq(1 .. Chunks)
      /\ hits.web \in Seq(1 .. Pages)
  BY DEF IInv, HitsTyped
<1>3. local \in Seq(1 .. Chunks)
  BY <1>2, FusedType
<1>4. chunks \in Seq(Passage)
  <2> HIDE DEF local
  <2>1. \A i \in DOMAIN local : local[i] \in 1 .. Chunks
    BY <1>3, ElementsOf
  <2>2. \A i \in DOMAIN local : Chunk(local[i]) \in Passage
    BY <2>1, PassageKinds
  <2>3. QED
    BY <1>3, <2>2
<1>5. pages \in Seq(Passage)
  <2>1. \A i \in DOMAIN hits.web : hits.web[i] \in 1 .. Pages
    BY <1>2, ElementsOf
  <2>2. \A i \in DOMAIN hits.web : Page(hits.web[i]) \in Passage
    BY <2>1, PassageKinds
  <2>3. QED
    BY <1>2, <2>2
<1>6. docs' \in Seq(Passage)
  <2> HIDE DEF chunks, pages, Passage
  <2> QED
    BY <1>1, <1>4, <1>5
<1>7. TypeOK'
  <2> HIDE DEF chunks, pages
  <2> QED
    BY <1>1, <1>6 DEF IInv, TypeOK
<1>8. HitsTyped'
  <2>1. hits' = [embedding |-> << >>, hyde |-> << >>, web |-> << >>]
    BY <1>1 DEF IInv, HitsTyped
  <2>2. \A S : << >> \in Seq(S)
    OBVIOUS
  <2>3. QED
    BY <2>1, <2>2 DEF HitsTyped
<1>9. FullText'
  BY <1>1 DEF IInv, FullText
<1>10. QED
  BY <1>1, <1>7, <1>8, <1>9, BeforeAnswer DEF result

LEMMA RerankKeeps == IInv /\ Rerank => IInv'
<1> SUFFICES ASSUME IInv, Rerank
             PROVE  IInv'
  OBVIOUS
<1>1. PICK reranker \in {TRUE} \union {Locals(docs) # << >>} : \E steep \in BOOLEAN :
        \E scored \in Reranked(reranker) :
            LET all == Merged(scored)
                relevant == TopK(Only(all, Passage \X Relevant), steep)
                low == LowConfidence(all)
            IN /\ docs' = Passages(IF relevant # << >> THEN relevant ELSE low)
               /\ quality' = Quality(relevant, low)
               /\ pc' = IF scope.documents /\ docs' # << >> THEN "expand" ELSE "answer"
  BY DEF Rerank
<1>2. PICK steep \in BOOLEAN : \E scored \in Reranked(reranker) :
        LET all == Merged(scored)
            relevant == TopK(Only(all, Passage \X Relevant), steep)
            low == LowConfidence(all)
        IN /\ docs' = Passages(IF relevant # << >> THEN relevant ELSE low)
           /\ quality' = Quality(relevant, low)
           /\ pc' = IF scope.documents /\ docs' # << >> THEN "expand" ELSE "answer"
  BY <1>1
<1>3. PICK scored \in Reranked(reranker) :
        LET all == Merged(scored)
            relevant == TopK(Only(all, Passage \X Relevant), steep)
            low == LowConfidence(all)
        IN /\ docs' = Passages(IF relevant # << >> THEN relevant ELSE low)
           /\ quality' = Quality(relevant, low)
           /\ pc' = IF scope.documents /\ docs' # << >> THEN "expand" ELSE "answer"
  BY <1>2
<1>4. /\ pc = "rerank"
      /\ UNCHANGED <<removal, indexed, plan, branches, hits, shown, cited, answer, sources,
                     basis, scope, failures>>
  BY DEF Rerank, result, fixed
<1> DEFINE all == Merged(scored)
           relevant == TopK(Only(all, Passage \X Relevant), steep)
           low == LowConfidence(all)
<1>5. /\ docs' = Passages(IF relevant # << >> THEN relevant ELSE low)
      /\ quality' = Quality(relevant, low)
      /\ pc' \in {"expand", "answer"}
  BY <1>3
<1>6. scored \in Seq(Scored)
  BY RerankedType DEF IInv, TypeOK
<1>7. all \in Seq(Scored) /\ PagesLast(Passages(all))
  BY <1>6, MergedResult
<1> HIDE DEF all
<1>8. /\ Passages(relevant) \in Seq(Passage) /\ PagesLast(Passages(relevant))
      /\ Passages(low) \in Seq(Passage) /\ PagesLast(Passages(low))
  BY <1>7, RelevantResult
<1> HIDE DEF relevant, low
<1>9. docs' \in Seq(Passage) /\ PagesLast(docs')
  BY <1>5, <1>8
<1>10. quality' \in {"qualified", "low", "none"}
  BY <1>5 DEF Quality
<1>11. TypeOK' /\ HitsTyped'
  BY <1>4, <1>5, <1>9, <1>10 DEF IInv, TypeOK, HitsTyped
<1>12. FullText'
  BY <1>10 DEF FullText
<1>13. QED
  BY <1>4, <1>5, <1>9, <1>11, <1>12, BeforeAnswer DEF result

\* What Expand does to the list.
LEMMA ExpandResult ==
  ASSUME IInv, Expand
  PROVE  /\ docs' \in Seq(Passage) /\ PagesLast(docs')
         /\ \A p \in ToSet(docs) : ~Web(p) => Covered(p, docs')
<1>1. docs \in Seq(Passage) /\ indexed \in SUBSET (1 .. Chunks)
  BY DEF IInv, TypeOK
<1>2. CASE docs' = Deduplicated(docs)
  BY <1>1, <1>2, DeduplicatedResult DEF ToSet
<1>3. ASSUME NEW rows \in SUBSET indexed, docs' = Deduplicated(Expanded(rows))
      PROVE  /\ docs' \in Seq(Passage) /\ PagesLast(docs')
             /\ \A p \in ToSet(docs) : ~Web(p) => Covered(p, docs')
  <2> DEFINE wide == Expanded(rows)
  <2>1. rows \in SUBSET (1 .. Chunks)
    BY <1>1
  <2>2. wide \in Seq(Passage) /\ \A p \in ToSet(docs) : ~Web(p) => p \in ToSet(wide)
    BY <1>1, <2>1, ExpandedResult
  <2> HIDE DEF wide
  <2>3. /\ Deduplicated(wide) \in Seq(Passage) /\ PagesLast(Deduplicated(wide))
        /\ \A k \in DOMAIN wide : ~Web(wide[k]) => Covered(wide[k], Deduplicated(wide))
    BY <2>2, DeduplicatedResult
  <2>4. docs' = Deduplicated(wide)
    BY <1>3 DEF wide
  <2>5. QED
    BY <2>2, <2>3, <2>4 DEF ToSet
<1>4. QED
  BY <1>2, <1>3 DEF Expand

LEMMA ExpandKeeps == IInv /\ Expand => IInv'
<1> SUFFICES ASSUME IInv, Expand
             PROVE  IInv'
  OBVIOUS
<1>1. /\ pc = "expand" /\ pc' = "answer"
      /\ UNCHANGED <<removal, indexed, plan, branches, hits, quality, shown, cited, answer,
                     sources, basis, scope, failures>>
  BY DEF Expand, result, fixed
<1>2. docs' \in Seq(Passage) /\ PagesLast(docs')
  BY ExpandResult
<1>3. TypeOK' /\ HitsTyped'
  BY <1>1, <1>2 DEF IInv, TypeOK, HitsTyped
<1>4. FullText'
  BY <1>1 DEF IInv, FullText
<1>5. QED
  BY <1>1, <1>2, <1>3, <1>4, BeforeAnswer DEF result

LEMMA AnswerKeeps == IInv /\ GenerateAnswer => IInv'
<1> SUFFICES ASSUME IInv, GenerateAnswer
             PROVE  IInv'
  OBVIOUS
<1>1. /\ pc = "answer" /\ shown' = Deduplicated(docs) /\ Cite(Deduplicated(shown'))
      /\ UNCHANGED <<removal, indexed, plan, branches, hits, docs, quality, scope, failures>>
  BY DEF GenerateAnswer, Prompt, fixed
<1>2. /\ shown' \in Seq(Passage) /\ Unique(shown')
      /\ \A k \in DOMAIN docs : ~Web(docs[k]) => Covered(docs[k], shown')
  BY <1>1, DeduplicatedResult DEF IInv, TypeOK, Settled
<1>3. Deduplicated(shown') = shown'
  BY <1>2, DeduplicatedResult
<1>4. /\ pc' = "done" /\ cited' \in Seq(Nat) /\ sources' \in Seq(Passage)
      /\ answer' \in Seq(DOMAIN sources') /\ basis' \in {"sources", "general", "refused"}
      /\ CitationsFaithful'
  BY <1>1, <1>2, <1>3, CiteResult
<1>5. TypeOK' /\ HitsTyped'
  BY <1>1, <1>2, <1>4 DEF IInv, TypeOK, HitsTyped
<1>6. ShownOnce'
  BY <1>1, <1>2 DEF Unique, ShownOnce, Alike
<1>7. FullContextComplete'
  <2> SUFFICES ASSUME quality = "full_context", NEW n \in 1 .. Chunks
               PROVE  \E q \in ToSet(shown') : Alike(Chunk(n), q)
    BY <1>1 DEF FullContextComplete, Alike
  <2>1. PICK k \in DOMAIN docs : docs[k] = Chunk(n)
    BY <1>1 DEF IInv, FullText, ToSet
  <2>2. Covered(Chunk(n), shown')
    BY <1>2, <2>1, PassageKinds
  <2>3. QED
    BY <2>2 DEF Covered, ToSet
<1>8. Unanswered' /\ Settled' /\ FullText'
  BY <1>4 DEF Unanswered, Settled, FullText
<1>9. QED
  BY <1>4, <1>5, <1>6, <1>7, <1>8 DEF IInv

LEMMA SummarizeKeeps == IInv /\ Summarize => IInv'
<1> SUFFICES ASSUME IInv, Summarize
             PROVE  IInv'
  OBVIOUS
<1>1. PICK rows \in SUBSET indexed :
        /\ shown' = Deduplicated(InOrder(rows))
        /\ IF rows # {} THEN Cite(shown')
           ELSE pc' = "done" /\ UNCHANGED <<cited, answer, sources, basis>>
  BY DEF Summarize
<1>2. /\ pc = "summary"
      /\ UNCHANGED <<removal, indexed, plan, branches, hits, docs, quality, scope, failures>>
  BY DEF Summarize, fixed
<1>3. rows \in SUBSET (1 .. Chunks)
  BY DEF IInv, TypeOK
<1>4. InOrder(rows) \in Seq(Passage) /\ PagesLast(InOrder(rows))
      /\ ToSet(InOrder(rows)) = {Chunk(n) : n \in rows}
  BY <1>3, InOrderResult
<1>5. shown' \in Seq(Passage) /\ Unique(shown')
  BY <1>1, <1>4, DeduplicatedResult
<1>6. /\ shown = << >> /\ cited = << >> /\ answer = << >> /\ sources = << >> /\ basis = ""
      /\ quality # "full_context"
  BY <1>2 DEF IInv, Unanswered, FullText
<1>7. /\ pc' = "done" /\ cited' \in Seq(Nat) /\ sources' \in Seq(Passage)
      /\ answer' \in Seq(DOMAIN sources') /\ basis' \in {"", "sources", "general", "refused"}
      /\ CitationsFaithful'
  <2>1. CASE rows # {}
    BY <1>1, <1>5, <2>1, CiteResult
  <2>2. CASE rows = {}
    <3>1. /\ pc' = "done" /\ cited' = << >> /\ answer' = << >> /\ sources' = << >> /\ basis' = ""
      BY <1>1, <1>6, <2>2
    <3>2. CitationsFaithful'
      BY <3>1, EmptyList DEF CitationsFaithful
    <3>3. \A S : << >> \in Seq(S)
      OBVIOUS
    <3>4. QED
      BY <3>1, <3>2, <3>3
  <2>3. QED
    BY <2>1, <2>2
<1>8. TypeOK' /\ HitsTyped'
  BY <1>2, <1>5, <1>7 DEF IInv, TypeOK, HitsTyped
<1>9. ShownOnce'
  BY <1>2, <1>5 DEF Unique, ShownOnce, Alike
<1>10. Unanswered' /\ Settled' /\ FullText' /\ FullContextComplete'
  BY <1>2, <1>6, <1>7 DEF Unanswered, Settled, FullText, FullContextComplete
<1>11. QED
  BY <1>7, <1>8, <1>9, <1>10 DEF IInv

LEMMA BreakKeeps == IInv /\ Break => IInv'
<1> SUFFICES ASSUME IInv, Break
             PROVE  IInv'
  OBVIOUS
<1>1. /\ pc # "done" /\ pc' = "failed"
      /\ UNCHANGED <<removal, indexed, plan, branches, hits, docs, quality, shown, cited, answer,
                     sources, basis, scope>>
  BY DEF Break, result
<1>2. TypeOK' /\ HitsTyped'
  BY <1>1 DEF IInv, TypeOK, HitsTyped
<1>3. Unanswered' /\ ShownOnce'
  BY <1>1 DEF IInv, Unanswered, ShownOnce, Alike
<1>4. Settled' /\ FullText' /\ CitationsFaithful' /\ FullContextComplete'
  BY <1>1 DEF Settled, FullText, CitationsFaithful, FullContextComplete
<1>5. QED
  BY <1>2, <1>3, <1>4 DEF IInv

\* The removal changes what Milvus has and nothing of the run.
LEMMA RemovalKeeps == IInv /\ (MarkRemoval \/ RemoveChunks \/ UNCHANGED vars) => IInv'
<1> SUFFICES ASSUME IInv, MarkRemoval \/ RemoveChunks \/ UNCHANGED vars
             PROVE  IInv'
  OBVIOUS
<1>1. /\ UNCHANGED <<pc, plan, branches, hits, docs, quality, shown, cited, answer, sources,
                     basis, scope>>
      /\ removal' \in {"none", "marked", "gone"} /\ indexed' \subseteq 1 .. Chunks
  BY DEF IInv, TypeOK, MarkRemoval, RemoveChunks, vars, result, fixed
<1>2. TypeOK' /\ HitsTyped'
  BY <1>1 DEF IInv, TypeOK, HitsTyped
<1>3. Unanswered' /\ FullText' /\ CitationsFaithful'
  BY <1>1 DEF IInv, Unanswered, FullText, CitationsFaithful
<1>4. Settled' /\ ShownOnce' /\ FullContextComplete'
  BY <1>1 DEF IInv, Settled, PagesLast, ShownOnce, FullContextComplete, Alike
<1>5. QED
  BY <1>2, <1>3, <1>4 DEF IInv

LEMMA InvariantStep == IInv /\ [Next]_vars => IInv'
  BY ConfirmKeeps, PrepareKeeps, ReadKeeps, SearchesKeep, FuseKeeps, RerankKeeps, ExpandKeeps,
     AnswerKeeps, SummarizeKeeps, BreakKeeps, RemovalKeeps
     DEF Next, Node

LEMMA InvariantHolds == Spec => []IInv
  BY InvariantInit, InvariantStep, PTL DEF Spec

-----------------------------------------------------------------------------
(* The theorems.                                                           *)

\* Every variable of a run keeps its type; in particular every number in a
\* stored answer is that of a stored source.
THEOREM RetrievalTypes == Spec => []TypeOK
<1>1. IInv => TypeOK
  BY DEF IInv
<1>2. QED
  BY <1>1, InvariantHolds, PTL

\* A citation of a stored answer leads to the very text the model had before it
\* under the number it wrote, every source is cited, and an answer is refused
\* only for a number that was not there (step_2_data_validates,
\* build_source_records, compact_citations).
THEOREM CitationsLead == Spec => []CitationsFaithful
<1>1. IInv => CitationsFaithful
  BY DEF IInv
<1>2. QED
  BY <1>1, InvariantHolds, PTL

\* No text is put before the model twice, although near duplication is not
\* transitive and one pass of deduplicate_documents may leave two that repeat
\* each other.
THEOREM TextsShownOnce == Spec => []ShownOnce
<1>1. IInv => ShownOnce
  BY DEF IInv
<1>2. QED
  BY <1>1, InvariantHolds, PTL

\* Where the answer says that the complete text was read, the model had every
\* chunk before it, or one of the same text, also when the document is removed
\* meanwhile (prepare_document_context).
THEOREM FullContextIsFull == Spec => []FullContextComplete
<1>1. IInv => FullContextComplete
  BY DEF IInv
<1>2. QED
  BY <1>1, InvariantHolds, PTL

\* The expansion by neighbours keeps every ranked chunk, or one of its text,
\* whatever Milvus still has (expand_reranked_neighbors).
THEOREM RankedChunksStay == Spec => AnchorsKept
<1>1. ASSUME IInv, [Next]_vars, pc = "expand", pc' = "answer"
      PROVE  \A p \in ToSet(Locals(docs)) : \E q \in ToSet(Locals(docs')) : Alike(p, q)
  <2>1. Expand
    BY <1>1 DEF Next, Node, ConfirmItem, PrepareContext, ReadRows, StartSearch, SearchEmbedding,
       SearchHyde, SearchWeb, EndBranch, Fuse, Rerank, GenerateAnswer, Summarize, Break,
       MarkRemoval, RemoveChunks, vars
  <2>2. docs' \in Seq(Passage) /\ \A p \in ToSet(docs) : ~Web(p) => Covered(p, docs')
    BY <1>1, <2>1, ExpandResult
  <2>3. SUFFICES ASSUME NEW p \in ToSet(Locals(docs))
                 PROVE  \E q \in ToSet(Locals(docs')) : Alike(p, q)
    OBVIOUS
  <2>4. p \in ToSet(docs) /\ ~Web(p)
    BY <1>1, LocalsResult DEF IInv, TypeOK
  <2>5. PICK j \in DOMAIN docs' : ~Web(docs'[j]) /\ Alike(p, docs'[j])
    BY <2>2, <2>4 DEF Covered
  <2>6. docs'[j] \in ToSet(docs')
    BY DEF ToSet
  <2>7. docs'[j] \in ToSet(Locals(docs'))
    BY <2>2, <2>5, <2>6, LocalsResult
  <2>8. QED
    BY <2>5, <2>7
<1>2. IInv /\ [Next]_vars =>
        [pc = "expand" /\ pc' = "answer" =>
           \A p \in ToSet(Locals(docs)) : \E q \in ToSet(Locals(docs')) : Alike(p, q)]_vars
  BY <1>1
<1>3. QED
  BY <1>2, InvariantHolds, PTL DEF Spec, AnchorsKept

=============================================================================
