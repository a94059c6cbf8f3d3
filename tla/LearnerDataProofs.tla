-------------------------- MODULE LearnerDataProofs --------------------------
(***************************************************************************)
(* Proofs about LearnerData, for any number of learner's modules, answers, *)
(* uploads, deletions and handlers, and any number of outages and          *)
(* restarts.                                                               *)
(***************************************************************************)
EXTENDS LearnerData, FiniteSetTheorems, TLAPS

-----------------------------------------------------------------------------
(* The memory store: what was merged stays traceable, and the store         *)
(* implements MemoryPromise.                                                *)

\* The conclusions that ever had a memory.
Owned == {k \in Conclusions : keyOwner[k] # NoId}

BelievedOwned == Believed \subseteq Owned

\* An id that is drawn is a new one.
LEMMA NewIdUnused ==
  ASSUME Unused # {}
  PROVE  NewId \in Ids /\ ~Stored(NewId)
  BY DEF NewId, Unused

\* A row is active, merged or deleted, NoRow is none of them.
LEMMA RowStates ==
  ASSUME StoreTypeOK, NEW id \in Ids
  PROVE  /\ Stored(id) <=> memories[id] \in Row
         /\ memories[id].state \in {"active", "merged", "deleted"} <=> Stored(id)
  BY DEF StoreTypeOK, Row, NoRow, Stored

LEMMA RowOfType ==
  ASSUME NEW record \in Record
  PROVE  /\ RowOf(record) \in Row
         /\ Key(record) \in Conclusions
         /\ RowOf(record).state = "active"
         /\ RowOf(record).merged = {}
         /\ RowOf(record).says = {Key(record)}
  BY SimpleMemAssumption DEF RowOf, Row, Record, Key, Conclusions

-----------------------------------------------------------------------------
(* Types.                                                                  *)

LEMMA UpsertTypes ==
  ASSUME StoreTypeOK, NEW record \in Record, Upsert(record)
  PROVE  StoreTypeOK'
<1>1. CASE UpsertCreates(record)
  BY <1>1, NewIdUnused, RowOfType DEF UpsertCreates, StoreTypeOK
<1>2. CASE UpsertUpdates(record)
  <2> DEFINE o == keyOwner[Key(record)]
  <2>1. o \in Ids /\ memories[o] \in Row
    BY <1>2, RowOfType, RowStates DEF UpsertUpdates, StoreTypeOK, Holds, Active
  <2>2. [memories[o] EXCEPT !.refs = record.refs] \in Row
    BY <2>1 DEF Row, Record
  <2>3. memories' = [memories EXCEPT ![o] = [memories[o] EXCEPT !.refs = record.refs]]
    BY <1>2 DEF UpsertUpdates
  <2>4. QED
    BY <1>2, <2>1, <2>2, <2>3 DEF UpsertUpdates, StoreTypeOK
<1>3. CASE UpsertRefused(record)
  BY <1>3 DEF UpsertRefused, memVars, StoreTypeOK
<1>4. QED
  BY <1>1, <1>2, <1>3 DEF Upsert

LEMMA ActiveRow ==
  ASSUME StoreTypeOK, NEW scope, NEW id \in ActiveIn(scope)
  PROVE  id \in Ids /\ memories[id] \in Row /\ memories[id].state = "active" /\ memories[id].scope = scope
  BY RowStates DEF ActiveIn, Active

LEMMA UpdateTypes ==
  ASSUME StoreTypeOK, NEW record \in Record, NEW id \in Ids, Update(id, record)
  PROVE  StoreTypeOK'
  BY RowOfType DEF Update, StoreTypeOK

\* A row that is deleted keeps all but its state.
LEMMA RowDeleted ==
  ASSUME NEW r \in Row
  PROVE  /\ [r EXCEPT !.state = "deleted"] \in Row
         /\ [r EXCEPT !.state = "deleted"].state = "deleted"
         /\ [r EXCEPT !.state = "deleted"].merged = r.merged
         /\ [r EXCEPT !.state = "deleted"].says = r.says
  BY DEF Row

LEMMA DeleteTypes ==
  ASSUME StoreTypeOK, NEW scope, NEW id \in Ids, Delete(id, scope)
  PROVE  StoreTypeOK'
<1>1. memories[id] \in Row
  BY ActiveRow DEF Delete, Authorized
<1>2. memories' = [memories EXCEPT ![id] = [memories[id] EXCEPT !.state = "deleted"]]
  BY DEF Delete
<1>3. QED
  BY <1>1, <1>2, RowDeleted DEF StoreTypeOK, Delete

LEMMA PurgeTypes ==
  ASSUME StoreTypeOK, NEW scope, PurgeScope(scope)
  PROVE  StoreTypeOK'
<1>1. \A id \in ActiveIn(scope) : [memories[id] EXCEPT !.state = "deleted"] \in Row
  BY ActiveRow, RowDeleted
<1>2. QED
  BY <1>1 DEF PurgeScope, StoreTypeOK

\* What Consolidate does with the sources it picks.
Merging(scope, g, sources) ==
    /\ g \in Groups
    /\ sources \subseteq ActiveIn(scope)
    /\ Unused # {}
    /\ memories' = [i \in Ids |->
          IF i \in sources THEN [memories[i] EXCEPT !.state = "merged", !.into = NewId]
          ELSE IF i = NewId
          THEN [state |-> "active", scope |-> scope, group |-> g,
                says |-> UNION {memories[s].says : s \in sources},
                merged |-> sources,
                refs |-> UNION {memories[s].refs : s \in sources}, into |-> NoId]
          ELSE memories[i]]
    /\ keyOwner' = keyOwner

LEMMA ConsolidateMerges ==
  ASSUME NEW scope, Consolidate(scope)
  PROVE  \E g \in Groups : Merging(scope, g, Together(scope, g))
  BY DEF Consolidate, Merging, Together

LEMMA MergedRows ==
  ASSUME StoreTypeOK, NEW scope \in Scopes, NEW g \in Groups, NEW sources,
         Merging(scope, g, sources)
  PROVE  /\ NewId \in Ids /\ NewId \notin sources /\ ~Stored(NewId)
         /\ \A i \in sources :
              /\ i \in Ids /\ memories[i] \in Row /\ memories[i].state = "active"
              /\ memories'[i] \in Row
              /\ memories'[i].state = "merged" /\ memories'[i].into = NewId
              /\ memories'[i].merged = memories[i].merged
              /\ memories'[i].says = memories[i].says
         /\ memories'[NewId] \in Row
         /\ memories'[NewId].state = "active"
         /\ memories'[NewId].merged = sources
         /\ memories'[NewId].says = UNION {memories[s].says : s \in sources}
         /\ \A i \in Ids \ (sources \cup {NewId}) : memories'[i] = memories[i]
<1>1. NewId \in Ids /\ ~Stored(NewId)
  BY NewIdUnused DEF Merging
<1>2. \A i \in sources : i \in Ids /\ memories[i] \in Row /\ memories[i].state = "active"
  BY ActiveRow DEF Merging
<1>3. NewId \notin sources
  BY <1>1, <1>2 DEF Stored, NoRow
<1>4. \A i \in sources : memories'[i] = [memories[i] EXCEPT !.state = "merged", !.into = NewId]
  BY <1>2 DEF Merging
<1>5. \A i \in sources :
        /\ memories'[i] \in Row
        /\ memories'[i].state = "merged" /\ memories'[i].into = NewId
        /\ memories'[i].merged = memories[i].merged
        /\ memories'[i].says = memories[i].says
  <2> SUFFICES ASSUME NEW i \in sources
               PROVE  /\ memories'[i] \in Row
                      /\ memories'[i].state = "merged" /\ memories'[i].into = NewId
                      /\ memories'[i].merged = memories[i].merged
                      /\ memories'[i].says = memories[i].says
    OBVIOUS
  <2>1. memories[i] \in Row /\ memories'[i] = [memories[i] EXCEPT !.state = "merged", !.into = NewId]
    BY <1>2, <1>4
  <2>2. QED
    BY <1>1, <2>1 DEF Row
<1>6. memories'[NewId] =
        [state |-> "active", scope |-> scope, group |-> g,
         says |-> UNION {memories[s].says : s \in sources}, merged |-> sources,
         refs |-> UNION {memories[s].refs : s \in sources}, into |-> NoId]
  BY <1>1, <1>3 DEF Merging
<1>7. /\ UNION {memories[s].says : s \in sources} \subseteq Conclusions
      /\ UNION {memories[s].refs : s \in sources} \subseteq Refs
      /\ sources \subseteq Ids
  BY <1>2 DEF Row
<1>8. memories'[NewId] \in Row
  BY <1>6, <1>7 DEF Row
<1>9. \A i \in Ids \ (sources \cup {NewId}) : memories'[i] = memories[i]
  BY DEF Merging
<1>10. QED
  BY <1>1, <1>2, <1>3, <1>5, <1>6, <1>8, <1>9

LEMMA ConsolidateTypes ==
  ASSUME StoreTypeOK, NEW scope \in Scopes, Consolidate(scope)
  PROVE  StoreTypeOK'
<1>1. PICK g \in Groups : Merging(scope, g, Together(scope, g))
  BY ConsolidateMerges
<1>2. \A i \in Ids : memories'[i] \in Row \cup {NoRow}
  BY <1>1, MergedRows DEF StoreTypeOK
<1>3. memories' = [i \in Ids |-> memories'[i]]
  BY <1>1 DEF Merging
<1>4. QED
  BY <1>1, <1>2, <1>3 DEF Merging, StoreTypeOK

LEMMA StoreTypes ==
  ASSUME StoreTypeOK, [StoreNext]_memVars
  PROVE  StoreTypeOK'
<1>1. CASE StoreNext
  BY <1>1, UpsertTypes, UpdateTypes, DeleteTypes, PurgeTypes, ConsolidateTypes DEF StoreNext
<1>2. CASE UNCHANGED memVars
  BY <1>2 DEF memVars, StoreTypeOK
<1>3. QED
  BY <1>1, <1>2

-----------------------------------------------------------------------------
(* Traceability.                                                           *)

\* What a step does to the rows when it merges none: a merged row stays as it
\* is, no row vanishes, and a memory keeps its sources with all they say or
\* has none.
MergesNothing ==
    /\ \A i \in Ids : Stored(i) => Stored(i)'
    /\ \A i \in Ids : memories[i].state = "merged" => memories'[i] = memories[i]
    /\ \A i \in Ids : Stored(i)' =>
          /\ memories'[i].state = "merged" => memories[i].state = "merged"
          /\ \/ memories'[i].merged = {}
             \/ /\ Stored(i)
                /\ memories'[i].merged = memories[i].merged
                /\ memories'[i].says = memories[i].says

LEMMA TraceableStays ==
  ASSUME StoreTypeOK, MergesTraceable, MergesNothing
  PROVE  MergesTraceable'
<1> SUFFICES ASSUME NEW id \in Ids, Stored(id)'
             PROVE  /\ memories'[id].state = "merged" =>
                          memories'[id].into \in Ids \ {id} /\ memories'[memories'[id].into] # NoRow
                    /\ \A source \in memories'[id].merged :
                          /\ memories'[source].state = "merged" /\ memories'[source].into = id
                          /\ memories'[source].says \subseteq memories'[id].says
  BY DEF MergesTraceable, Stored
<1>1. ASSUME memories'[id].state = "merged"
      PROVE  memories'[id].into \in Ids \ {id} /\ memories'[memories'[id].into] # NoRow
  <2>1. memories[id].state = "merged" /\ memories'[id] = memories[id] /\ Stored(id)
    BY <1>1, RowStates DEF MergesNothing
  <2>2. memories[id].into \in Ids \ {id} /\ Stored(memories[id].into)
    BY <2>1 DEF MergesTraceable
  <2>3. QED
    BY <2>1, <2>2 DEF MergesNothing, Stored
<1>2. ASSUME NEW source \in memories'[id].merged
      PROVE  /\ memories'[source].state = "merged" /\ memories'[source].into = id
             /\ memories'[source].says \subseteq memories'[id].says
  <2>1. Stored(id) /\ memories'[id].merged = memories[id].merged /\ memories'[id].says = memories[id].says
    BY <1>2 DEF MergesNothing
  <2>2. /\ memories[source].state = "merged" /\ memories[source].into = id
        /\ memories[source].says \subseteq memories[id].says
    BY <1>2, <2>1 DEF MergesTraceable
  <2>3. source \in Ids
    BY <1>2, <2>1, RowStates DEF Row
  <2>4. QED
    BY <2>1, <2>2, <2>3 DEF MergesNothing
<1>3. QED
  BY <1>1, <1>2

LEMMA UpsertMergesNothing ==
  ASSUME StoreTypeOK, NEW record \in Record, Upsert(record)
  PROVE  MergesNothing
<1>1. CASE UpsertCreates(record)
  <2>1. NewId \in Ids /\ ~Stored(NewId) /\ memories' = [memories EXCEPT ![NewId] = RowOf(record)]
    BY <1>1, NewIdUnused DEF UpsertCreates
  <2>2. memories'[NewId] = RowOf(record) /\ \A i \in Ids \ {NewId} : memories'[i] = memories[i]
    BY <2>1 DEF StoreTypeOK
  <2>3. QED
    BY <2>1, <2>2, RowOfType DEF MergesNothing, Stored, NoRow
<1>2. CASE UpsertUpdates(record)
  <2> DEFINE o == keyOwner[Key(record)]
  <2>1. o \in Ids /\ memories[o] \in Row /\ memories[o].state = "active"
    BY <1>2, RowOfType, RowStates DEF UpsertUpdates, StoreTypeOK, Holds, Active
  <2>2. memories' = [memories EXCEPT ![o] = [memories[o] EXCEPT !.refs = record.refs]]
    BY <1>2 DEF UpsertUpdates
  <2>3. /\ memories'[o].state = "active" /\ memories'[o].merged = memories[o].merged
        /\ memories'[o].says = memories[o].says
    BY <2>1, <2>2 DEF StoreTypeOK, Row
  <2>4. \A i \in Ids \ {o} : memories'[i] = memories[i]
    BY <2>2 DEF StoreTypeOK
  <2>5. QED
    BY <2>1, <2>3, <2>4 DEF MergesNothing, Stored, NoRow
<1>3. CASE UpsertRefused(record)
  BY <1>3 DEF UpsertRefused, memVars, MergesNothing, Stored
<1>4. QED
  BY <1>1, <1>2, <1>3 DEF Upsert

LEMMA UpdateMergesNothing ==
  ASSUME StoreTypeOK, NEW record \in Record, NEW id \in Ids, Update(id, record)
  PROVE  MergesNothing
<1>1. memories[id].state = "active"
  BY ActiveRow DEF Update, UpdateAllowed, Authorized
<1>2. memories'[id] = RowOf(record) /\ \A i \in Ids \ {id} : memories'[i] = memories[i]
  BY DEF Update, StoreTypeOK
<1>3. QED
  BY <1>1, <1>2, RowOfType DEF MergesNothing, Stored, NoRow

\* Deleting a set of active rows.
LEMMA DeletedRows ==
  ASSUME StoreTypeOK, NEW S \in SUBSET Ids,
         \A i \in S : /\ memories[i].state = "active" /\ memories'[i].state = "deleted"
                      /\ memories'[i].merged = memories[i].merged
                      /\ memories'[i].says = memories[i].says,
         \A i \in Ids \ S : memories'[i] = memories[i]
  PROVE  MergesNothing
<1>1. \A i \in S : Stored(i) /\ memories'[i] # NoRow
  BY DEF Stored, NoRow
<1>2. ASSUME NEW i \in Ids
      PROVE  /\ Stored(i) => memories'[i] # NoRow
             /\ memories[i].state = "merged" => memories'[i] = memories[i]
             /\ memories'[i] # NoRow =>
                  /\ memories'[i].state = "merged" => memories[i].state = "merged"
                  /\ \/ memories'[i].merged = {}
                     \/ /\ Stored(i)
                        /\ memories'[i].merged = memories[i].merged
                        /\ memories'[i].says = memories[i].says
  <2>1. CASE i \in S
    BY <1>1, <2>1
  <2>2. CASE i \notin S
    BY <2>2 DEF Stored
  <2>3. QED
    BY <2>1, <2>2
<1>3. QED
  BY <1>2 DEF MergesNothing, Stored

LEMMA DeleteMergesNothing ==
  ASSUME StoreTypeOK, NEW scope, NEW id \in Ids, Delete(id, scope)
  PROVE  MergesNothing
<1>1. memories[id] \in Row /\ memories[id].state = "active"
  BY ActiveRow DEF Delete, Authorized
<1>2. /\ memories'[id] = [memories[id] EXCEPT !.state = "deleted"]
      /\ \A i \in Ids \ {id} : memories'[i] = memories[i]
  BY DEF Delete, StoreTypeOK
<1>3. /\ memories'[id].state = "deleted" /\ memories'[id].merged = memories[id].merged
      /\ memories'[id].says = memories[id].says
  BY <1>1, <1>2, RowDeleted
<1>4. QED
  <2>1. \A i \in {id} : /\ memories[i].state = "active" /\ memories'[i].state = "deleted"
                         /\ memories'[i].merged = memories[i].merged
                         /\ memories'[i].says = memories[i].says
    BY <1>1, <1>3
  <2>2. \A i \in Ids \ {id} : memories'[i] = memories[i]
    BY <1>2
  <2>3. QED
    BY <2>1, <2>2, {id} \in SUBSET Ids, DeletedRows

LEMMA PurgeMergesNothing ==
  ASSUME StoreTypeOK, NEW scope, PurgeScope(scope)
  PROVE  MergesNothing
<1>1. \A i \in ActiveIn(scope) :
        /\ memories[i] \in Row /\ memories[i].state = "active"
        /\ memories'[i] = [memories[i] EXCEPT !.state = "deleted"]
  BY ActiveRow DEF PurgeScope
<1>2. \A i \in Ids \ ActiveIn(scope) : memories'[i] = memories[i]
  BY DEF PurgeScope
<1>3. ASSUME NEW i \in ActiveIn(scope)
      PROVE  /\ memories'[i].state = "deleted" /\ memories'[i].merged = memories[i].merged
             /\ memories'[i].says = memories[i].says
  <2>1. memories[i] \in Row /\ memories'[i] = [memories[i] EXCEPT !.state = "deleted"]
    BY <1>1
  <2>2. QED
    BY <2>1, RowDeleted
<1>4. QED
  <2>1. ActiveIn(scope) \in SUBSET Ids
    BY DEF ActiveIn
  <2>2. QED
    BY <1>1, <1>2, <1>3, <2>1, DeletedRows

LEMMA ConsolidateTraceable ==
  ASSUME StoreTypeOK, MergesTraceable, NEW scope \in Scopes, Consolidate(scope)
  PROVE  MergesTraceable'
<1>1. PICK g \in Groups : Merging(scope, g, Together(scope, g))
  BY ConsolidateMerges
<1> DEFINE sources == Together(scope, g)
<1> HIDE DEF sources
<1>2. /\ NewId \in Ids /\ NewId \notin sources /\ ~Stored(NewId)
      /\ \A i \in sources :
           /\ i \in Ids /\ memories[i] \in Row /\ memories[i].state = "active"
           /\ memories'[i] \in Row
           /\ memories'[i].state = "merged" /\ memories'[i].into = NewId
           /\ memories'[i].merged = memories[i].merged
           /\ memories'[i].says = memories[i].says
      /\ memories'[NewId] \in Row
      /\ memories'[NewId].state = "active"
      /\ memories'[NewId].merged = sources
      /\ memories'[NewId].says = UNION {memories[s].says : s \in sources}
      /\ \A i \in Ids \ (sources \cup {NewId}) : memories'[i] = memories[i]
  BY <1>1, MergedRows DEF sources
<1> SUFFICES ASSUME NEW id \in Ids, Stored(id)'
             PROVE  /\ memories'[id].state = "merged" =>
                          memories'[id].into \in Ids \ {id} /\ memories'[memories'[id].into] # NoRow
                    /\ \A source \in memories'[id].merged :
                          /\ memories'[source].state = "merged" /\ memories'[source].into = id
                          /\ memories'[source].says \subseteq memories'[id].says
  BY DEF MergesTraceable, Stored
<1>3. \A i \in Ids : memories[i].state = "merged" => memories'[i] = memories[i] /\ i # NewId
  BY <1>2, RowStates DEF Stored, NoRow
<1>4. \A i \in Ids : Stored(i) => memories'[i] # NoRow
  BY <1>2 DEF Stored, NoRow, Row
<1>5. CASE id = NewId
  BY <1>2, <1>5
<1>6. CASE id \in sources
  <2>1. Stored(id)
    BY <1>2, <1>6, RowStates
  <2>2. memories'[NewId] # NoRow
    BY <1>2 DEF NoRow
  <2>3. \A source \in memories[id].merged :
          /\ memories[source].state = "merged" /\ memories[source].into = id
          /\ memories[source].says \subseteq memories[id].says /\ source \in Ids
    BY <2>1, <1>2, <1>6 DEF MergesTraceable, Row
  <2>4. QED
    BY <1>2, <1>3, <1>6, <2>2, <2>3
<1>7. CASE id \notin sources \cup {NewId}
  <2>1. memories'[id] = memories[id] /\ Stored(id)
    BY <1>2, <1>7 DEF Stored
  <2>2. /\ memories[id].state = "merged" =>
              memories[id].into \in Ids \ {id} /\ Stored(memories[id].into)
        /\ \A source \in memories[id].merged :
              /\ memories[source].state = "merged" /\ memories[source].into = id
              /\ memories[source].says \subseteq memories[id].says /\ source \in Ids
    BY <2>1, RowStates DEF MergesTraceable, Row
  <2>3. QED
    BY <1>3, <1>4, <2>1, <2>2
<1>8. QED
  BY <1>5, <1>6, <1>7

LEMMA StoreTraceable ==
  ASSUME StoreTypeOK, MergesTraceable, [StoreNext]_memVars
  PROVE  MergesTraceable'
<1>1. ASSUME NEW record \in Record, Upsert(record)  PROVE MergesTraceable'
  BY <1>1, UpsertMergesNothing, TraceableStays
<1>2. ASSUME NEW record \in Record, NEW id \in Ids, Update(id, record)  PROVE MergesTraceable'
  BY <1>2, UpdateMergesNothing, TraceableStays
<1>3. ASSUME NEW scope \in Scopes, PurgeScope(scope)  PROVE MergesTraceable'
  BY <1>3, PurgeMergesNothing, TraceableStays
<1>4. ASSUME NEW scope \in Scopes, NEW id \in Ids, Delete(id, scope)  PROVE MergesTraceable'
  BY <1>4, DeleteMergesNothing, TraceableStays
<1>5. CASE UNCHANGED memVars
  BY <1>5 DEF memVars, MergesTraceable, Stored
<1>6. QED
  BY <1>1, <1>2, <1>3, <1>4, <1>5, ConsolidateTraceable DEF StoreNext

-----------------------------------------------------------------------------
(* The promise.  Every step of the store learns the conclusions of one set, *)
(* none of them withdrawn, and may stop believing others.                   *)

Shift(L) ==
    /\ L \subseteq Conclusions
    /\ L \cap Withdrawn = {}
    /\ Owned' = Owned \cup L
    /\ L \subseteq Believed'
    /\ Believed' \subseteq Believed \cup L

LEMMA WithdrawnIs == Withdrawn = Owned \ Believed
  BY DEF Withdrawn, Owned

\* The row-level view of Believed.
LEMMA BelievedIs ==
  ASSUME NEW k
  PROVE  k \in Believed <=> \E i \in Ids : Active(i) /\ k \in memories[i].says
  BY DEF Believed

LEMMA BelievedNext ==
  ASSUME NEW k
  PROVE  k \in Believed' <=> \E i \in Ids : memories'[i].state = "active" /\ k \in memories'[i].says
  BY DEF Believed, Active

LEMMA ShiftKeeps ==
  ASSUME BelievedOwned, NEW L, Shift(L)
  PROVE  BelievedOwned'
  BY DEF BelievedOwned, Shift

LEMMA ShiftPromised ==
  ASSUME BelievedOwned, NEW L, Shift(L)
  PROVE  Promise!Next
<1> DEFINE K == Believed \ Believed'
<1>1. Believed' = (Believed \ K) \cup L
  BY DEF Shift
<1>2. Withdrawn' = Owned' \ Believed'
  BY DEF Withdrawn, Owned
<1>3. Withdrawn' = Withdrawn \cup (K \ L)
  BY <1>2, WithdrawnIs DEF Shift, BelievedOwned
<1>4. Promise!Replace(K, L)
  BY <1>1, <1>3 DEF Promise!Replace, Shift
<1>5. K \in SUBSET Believed /\ L \in SUBSET Conclusions
  BY DEF Shift
<1>6. QED
  BY <1>4, <1>5 DEF Promise!Next

LEMMA UpsertShifts ==
  ASSUME StoreTypeOK, BelievedOwned, NEW record \in Record, Upsert(record)
  PROVE  Shift({}) \/ Shift({Key(record)})
<1> DEFINE K == Key(record)
<1>0. K \in Conclusions
  BY RowOfType
<1>1. CASE UpsertCreates(record)
  <2>1. NewId \in Ids /\ ~Stored(NewId) /\ NewId # NoId
    BY <1>1, NewIdUnused, SimpleMemAssumption DEF UpsertCreates
  <2>2. memories'[NewId] = RowOf(record) /\ \A i \in Ids \ {NewId} : memories'[i] = memories[i]
    BY <1>1, <2>1 DEF UpsertCreates, StoreTypeOK
  <2>3. Owned' = Owned \cup {K}
    BY <1>0, <1>1, <2>1 DEF UpsertCreates, Owned, StoreTypeOK
  <2>4. K \notin Withdrawn
    BY <1>1 DEF UpsertCreates, Withdrawn
  <2>5. K \in Believed'
    BY <2>1, <2>2, RowOfType, BelievedNext
  <2>6. Believed' \subseteq Believed \cup {K}
    BY <2>2, RowOfType, BelievedNext, BelievedIs DEF Active
  <2>7. QED
    BY <1>0, <2>3, <2>4, <2>5, <2>6 DEF Shift
<1>2. CASE UpsertUpdates(record)
  <2> DEFINE o == keyOwner[K]
  <2>1. o \in Ids /\ memories[o] \in Row
    BY <1>0, <1>2, RowStates DEF UpsertUpdates, StoreTypeOK, Holds, Active
  <2>2. memories' = [memories EXCEPT ![o] = [memories[o] EXCEPT !.refs = record.refs]]
    BY <1>2 DEF UpsertUpdates
  <2>3. \A i \in Ids : memories'[i].state = memories[i].state /\ memories'[i].says = memories[i].says
    BY <2>1, <2>2 DEF StoreTypeOK, Row
  <2>4. Believed' \subseteq Believed
    BY <2>3, BelievedIs, BelievedNext DEF Active
  <2>5. Owned' = Owned
    BY <1>2 DEF UpsertUpdates, Owned
  <2>6. QED
    BY <2>4, <2>5 DEF Shift
<1>3. CASE UpsertRefused(record)
  BY <1>3 DEF UpsertRefused, memVars, Shift, Owned, Believed, Active
<1>4. QED
  BY <1>1, <1>2, <1>3 DEF Upsert

LEMMA UpdateShifts ==
  ASSUME StoreTypeOK, BelievedOwned, NEW record \in Record, NEW id \in Ids, Update(id, record)
  PROVE  Shift({Key(record)})
<1> DEFINE K == Key(record)
<1>0. K \in Conclusions /\ id # NoId
  BY RowOfType, SimpleMemAssumption
<1>1. memories'[id] = RowOf(record) /\ \A i \in Ids \ {id} : memories'[i] = memories[i]
  BY DEF Update, StoreTypeOK
<1>2. Owned' = Owned \cup {K}
  BY <1>0 DEF Update, Owned, StoreTypeOK
<1>3. K \notin Withdrawn
  BY BelievedIs DEF Update, UpdateAllowed, Withdrawn, Holds
<1>4. K \in Believed'
  BY <1>1, RowOfType, BelievedNext
<1>5. Believed' \subseteq Believed \cup {K}
  BY <1>1, RowOfType, BelievedNext, BelievedIs DEF Active
<1>6. QED
  BY <1>0, <1>2, <1>3, <1>4, <1>5 DEF Shift

LEMMA DeleteShifts ==
  ASSUME StoreTypeOK, NEW scope, NEW id \in Ids, Delete(id, scope)
  PROVE  Shift({})
<1>1. memories[id] \in Row
  BY ActiveRow DEF Delete, Authorized
<1>2. /\ memories'[id] = [memories[id] EXCEPT !.state = "deleted"]
      /\ \A i \in Ids \ {id} : memories'[i] = memories[i]
  BY DEF Delete, StoreTypeOK
<1>3. memories'[id].state # "active"
  BY <1>1, <1>2, RowDeleted
<1>4. Believed' \subseteq Believed
  BY <1>2, <1>3, BelievedIs, BelievedNext DEF Active
<1>5. QED
  BY <1>4 DEF Shift, Delete, Owned

LEMMA PurgeShifts ==
  ASSUME StoreTypeOK, NEW scope, PurgeScope(scope)
  PROVE  Shift({})
<1>1. \A i \in ActiveIn(scope) : memories'[i].state # "active"
  BY ActiveRow, RowDeleted DEF PurgeScope
<1>2. \A i \in Ids \ ActiveIn(scope) : memories'[i] = memories[i]
  BY DEF PurgeScope
<1>3. Believed' \subseteq Believed
  BY <1>1, <1>2, BelievedIs, BelievedNext DEF Active
<1>4. QED
  BY <1>3 DEF Shift, PurgeScope, Owned

LEMMA ConsolidateShifts ==
  ASSUME StoreTypeOK, NEW scope \in Scopes, Consolidate(scope)
  PROVE  Shift({})
<1>1. PICK g \in Groups : Merging(scope, g, Together(scope, g))
  BY ConsolidateMerges
<1> DEFINE sources == Together(scope, g)
<1> HIDE DEF sources
<1>2. /\ \A i \in sources : i \in Ids /\ memories[i].state = "active" /\ memories'[i].state = "merged"
      /\ memories'[NewId].says = UNION {memories[s].says : s \in sources}
      /\ \A i \in Ids \ (sources \cup {NewId}) : memories'[i] = memories[i]
  BY <1>1, MergedRows DEF sources
<1>3. Believed' \subseteq Believed
  BY <1>2, BelievedIs, BelievedNext DEF Active
<1>4. QED
  BY <1>1, <1>3 DEF Shift, Merging, Owned

LEMMA StoreShifts ==
  ASSUME StoreTypeOK, BelievedOwned, StoreNext
  PROVE  \E L : Shift(L)
<1>1. ASSUME NEW record \in Record, Upsert(record)  PROVE \E L : Shift(L)
  BY <1>1, UpsertShifts
<1>2. ASSUME NEW record \in Record, NEW id \in Ids, Update(id, record)  PROVE \E L : Shift(L)
  BY <1>2, UpdateShifts
<1>3. ASSUME NEW scope \in Scopes, PurgeScope(scope)  PROVE \E L : Shift(L)
  BY <1>3, PurgeShifts
<1>4. ASSUME NEW scope \in Scopes, NEW id \in Ids, Delete(id, scope)  PROVE \E L : Shift(L)
  BY <1>4, DeleteShifts
<1>5. ASSUME NEW scope \in Scopes, Consolidate(scope)  PROVE \E L : Shift(L)
  BY <1>5, ConsolidateShifts
<1>6. QED
  BY <1>1, <1>2, <1>3, <1>4, <1>5 DEF StoreNext

-----------------------------------------------------------------------------
(* The theorems.                                                           *)

StoreInv == StoreTypeOK /\ MergesTraceable /\ BelievedOwned

LEMMA StoreInvInit == StoreInit => StoreInv
<1> SUFFICES ASSUME StoreInit  PROVE StoreInv
  OBVIOUS
<1>1. StoreTypeOK
  BY DEF StoreInit, StoreTypeOK
<1>2. MergesTraceable
  BY DEF StoreInit, MergesTraceable, Stored
<1>3. BelievedOwned
  BY BelievedIs DEF StoreInit, BelievedOwned, Active, NoRow
<1>4. QED
  BY <1>1, <1>2, <1>3 DEF StoreInv

LEMMA StoreInvNext == StoreInv /\ [StoreNext]_memVars => StoreInv'
<1> SUFFICES ASSUME StoreInv, [StoreNext]_memVars  PROVE StoreInv'
  OBVIOUS
<1>1. StoreTypeOK' /\ MergesTraceable'
  BY StoreTypes, StoreTraceable DEF StoreInv
<1>2. BelievedOwned'
  <2>1. CASE StoreNext
    BY <2>1, StoreShifts, ShiftKeeps DEF StoreInv
  <2>2. CASE UNCHANGED memVars
    BY <2>2 DEF memVars, StoreInv, BelievedOwned, Believed, Owned, Active
  <2>3. QED
    BY <2>1, <2>2
<1>3. QED
  BY <1>1, <1>2 DEF StoreInv

LEMMA StorePromises ==
  ASSUME StoreInv, [StoreNext]_memVars
  PROVE  [Promise!Next]_<<Believed, Withdrawn>>
<1>1. CASE StoreNext
  BY <1>1, StoreShifts, ShiftPromised DEF StoreInv
<1>2. CASE UNCHANGED memVars
  BY <1>2 DEF memVars, Believed, Withdrawn, Active
<1>3. QED
  BY <1>1, <1>2

LEMMA PromiseStarts == StoreInit => Promise!Init
<1> SUFFICES ASSUME StoreInit  PROVE Promise!Init
  OBVIOUS
<1>1. Believed = {}
  BY BelievedIs DEF StoreInit, Active, NoRow
<1>2. Withdrawn = {}
  BY DEF StoreInit, Withdrawn
<1>3. QED
  BY <1>1, <1>2 DEF Promise!Init

\* The tables of the store keep their types, and what was merged stays
\* traceable through every sequence of upserts, changes, merges, deletions and
\* purges.
THEOREM StoreTraces == StoreSpec => []StoreTypeOK /\ []MergesTraceable
<1>1. StoreInv => StoreTypeOK /\ MergesTraceable
  BY DEF StoreInv
<1>2. QED
  BY <1>1, StoreInvInit, StoreInvNext, PTL DEF StoreSpec

\* The store implements MemoryPromise: a conclusion that was withdrawn is never
\* believed again.
THEOREM StoreKeepsPromise == StoreSpec => PromiseSpec
<1>1. StoreInv /\ [StoreNext]_memVars => [Promise!Next]_<<Believed, Withdrawn>>
  BY StorePromises
<1>2. QED
  BY <1>1, PromiseStarts, StoreInvInit, StoreInvNext, PTL DEF StoreSpec, PromiseSpec, Promise!Spec

-----------------------------------------------------------------------------
(* The learner's data                                                        *)

Writing(h) == handlers[h].pc \in {"remember", "write"}
Deleting(h) == handlers[h].pc \in {"clear", "purge"}

\* What a busy handler has in hand; one handler works on one deletion.
Coherent ==
    /\ \A h \in Handlers : Writing(h) => handlers[h].record \in Record
    /\ \A h \in Handlers : Deleting(h) =>
          /\ handlers[h].deletion \in Deletions
          /\ deletions[handlers[h].deletion] = "processing"
    /\ \A g, h \in Handlers :
          Deleting(g) /\ Deleting(h) /\ g # h => handlers[g].deletion # handlers[h].deletion

TypeInv == TypeOK /\ Coherent

-----------------------------------------------------------------------------
(* Handlers.                                                               *)

LEMMA IdleType == Idle \in Handler /\ Idle.pc = "idle"
  BY DEF Idle, Handler, Pcs, NoRow

\* One handler gets a new value, the others keep theirs.
LEMMA OneHandler ==
  ASSUME TypeOK, NEW h \in Handlers, NEW w \in Handler,
         handlers' = [handlers EXCEPT ![h] = w]
  PROVE  /\ handlers' \in [Handlers -> Handler]
         /\ handlers'[h] = w
         /\ \A g \in Handlers \ {h} : handlers'[g] = handlers[g]
  BY DEF TypeOK

\* A handler that does not delete afterwards disturbs no deletion.
LEMMA CoherentAfter ==
  ASSUME TypeInv, NEW h \in Handlers, NEW w \in Handler,
         handlers' = [handlers EXCEPT ![h] = w],
         w.pc \in {"remember", "write"} => w.record \in Record,
         w.pc \in {"clear", "purge"} =>
            /\ Deleting(h) /\ w.deletion = handlers[h].deletion
            /\ deletions'[w.deletion] = "processing",
         \A x \in Deletions : deletions'[x] = deletions[x] \/ (Deleting(h) /\ x = handlers[h].deletion)
  PROVE  Coherent'
<1>1. handlers'[h] = w /\ \A g \in Handlers \ {h} : handlers'[g] = handlers[g]
  BY OneHandler DEF TypeInv
<1>2. ASSUME NEW g \in Handlers, handlers'[g].pc \in {"remember", "write"}
      PROVE  handlers'[g].record \in Record
  BY <1>1, <1>2 DEF TypeInv, Coherent, Writing
<1>3. ASSUME NEW g \in Handlers, handlers'[g].pc \in {"clear", "purge"}
      PROVE  /\ handlers'[g].deletion \in Deletions
             /\ deletions'[handlers'[g].deletion] = "processing"
             /\ Deleting(g) /\ handlers'[g].deletion = handlers[g].deletion
  <2>1. CASE g = h
    BY <1>1, <1>3, <2>1 DEF TypeInv, Coherent
  <2>2. CASE g # h
    <3>1. handlers'[g] = handlers[g] /\ Deleting(g)
      BY <1>1, <1>3, <2>2 DEF Deleting
    <3>2. handlers[g].deletion \in Deletions /\ deletions[handlers[g].deletion] = "processing"
      BY <3>1 DEF TypeInv, Coherent
    <3>3. Deleting(h) => handlers[g].deletion # handlers[h].deletion
      BY <3>1, <2>2 DEF TypeInv, Coherent
    <3>4. QED
      BY <3>1, <3>2, <3>3
  <2>3. QED
    BY <2>1, <2>2
<1>4. ASSUME NEW f \in Handlers, NEW g \in Handlers, f # g,
             handlers'[f].pc \in {"clear", "purge"}, handlers'[g].pc \in {"clear", "purge"}
      PROVE  handlers'[f].deletion # handlers'[g].deletion
  BY <1>3, <1>4 DEF TypeInv, Coherent
<1>5. QED
  BY <1>2, <1>3, <1>4 DEF Coherent, Writing, Deleting

-----------------------------------------------------------------------------
(* Every step is a step of the store or leaves it alone.                   *)

LEMMA HandlerFields ==
  ASSUME TypeOK, NEW h \in Handlers
  PROVE  handlers[h] \in Handler
  BY DEF TypeOK

\* Mistakes are references to evidence.
LEMMA MistakesAreRefs ==
  ASSUME TypeOK, NEW q
  PROVE  Mistakes(q) \subseteq Refs
<1>1. \A i \in DOMAIN history : history[i] \in Attempt
  BY DEF TypeOK
<1>2. QED
  BY <1>1, LearnerAssumption DEF Mistakes, LastTwo, Attempt

\* Two pieces of evidence are at least one, and all are of one domain.
LEMMA StableEvidence ==
  ASSUME NEW evidence \in SUBSET Items, Stable(evidence)
  PROVE  /\ (CHOOSE i \in evidence : TRUE).domain \in Preferences
         /\ {i.ref : i \in evidence} \subseteq Refs
<1>1. Cardinality({}) = 0
  BY FS_EmptySet
<1>2. evidence # {}
  BY <1>1 DEF Stable
<1>3. (CHOOSE i \in evidence : TRUE) \in evidence
  BY <1>2
<1>4. \A i \in evidence : i.ref \in Refs /\ i.domain \in Preferences
  BY LearnerAssumption DEF Observations
<1>5. QED
  BY <1>3, <1>4

LEMMA RecordAttemptKeeps ==
  ASSUME TypeInv, NEW h \in Handlers, RecordAttempt(h)
  PROVE  TypeInv'
<1>1. PICK s \in Scopes, q \in Questions, correct \in BOOLEAN :
        /\ handlers[h] = Idle /\ NewAttempts # {}
        /\ history' = Append(history, [id |-> CHOOSE a \in NewAttempts : TRUE, scope |-> s,
                                       question |-> q, correct |-> correct])
        /\ handlers' = IF correct THEN handlers
                       ELSE [handlers EXCEPT ![h].pc = "remember",
                                ![h].record = [scope |-> s, domain |-> q,
                                               content |-> Misconception, refs |-> {}]]
  BY DEF RecordAttempt
<1> DEFINE r == [scope |-> s, domain |-> q, content |-> Misconception, refs |-> {}]
           w == [Idle EXCEPT !.pc = "remember", !.record = r]
<1>2. r \in Record
  BY LearnerAssumption DEF Record
<1>3. w \in Handler /\ w.pc = "remember" /\ w.record = r
  BY <1>2 DEF Idle, Handler, Pcs, NoRow
<1>4. (CHOOSE a \in NewAttempts : TRUE) \in Attempts
  BY <1>1 DEF NewAttempts
<1>5. history' \in Seq(Attempt)
  BY <1>1, <1>4 DEF Attempt, TypeInv, TypeOK
<1>6. handlers' = handlers \/ handlers' = [handlers EXCEPT ![h] = w]
  BY <1>1 DEF TypeInv, TypeOK
<1>7. handlers' \in [Handlers -> Handler]
  BY <1>3, <1>6 DEF TypeInv, TypeOK
<1>8. TypeOK'
  BY <1>5, <1>7 DEF RecordAttempt, TypeInv, TypeOK, StoreTypeOK, memVars
<1>9. Coherent'
  <2>1. CASE handlers' = handlers
    BY <2>1 DEF RecordAttempt, TypeInv, Coherent, Writing, Deleting
  <2>2. CASE handlers' = [handlers EXCEPT ![h] = w]
    <3>1. deletions' = deletions
      BY DEF RecordAttempt
    <3> HIDE DEF w
    <3>2. QED
      BY <1>2, <1>3, <2>2, <3>1, CoherentAfter
  <2>3. QED
    BY <1>6, <2>1, <2>2
<1>10. QED
  BY <1>8, <1>9 DEF TypeInv

\* A handler whose record is replaced by one of the right type.
LEMMA WriterType ==
  ASSUME NEW w \in Handler, NEW r \in Record, NEW pc \in Pcs
  PROVE  /\ [w EXCEPT !.pc = pc, !.record = r] \in Handler
         /\ [w EXCEPT !.pc = pc, !.record = r].pc = pc
         /\ [w EXCEPT !.pc = pc, !.record = r].record = r
  BY DEF Handler

LEMMA FormCandidateKeeps ==
  ASSUME TypeInv, NEW h \in Handlers, FormCandidate(h)
  PROVE  TypeInv'
<1> DEFINE refs == Mistakes(handlers[h].record.domain)
           r == [handlers[h].record EXCEPT !.refs = refs]
           w == [handlers[h] EXCEPT !.pc = "write", !.record = r]
<1>1. handlers[h] \in Handler /\ handlers[h].record \in Record
  BY HandlerFields DEF FormCandidate, TypeInv, Coherent, Writing
<1>2. r \in Record
  BY <1>1, MistakesAreRefs DEF TypeInv, Record
<1>3. "write" \in Pcs
  BY DEF Pcs
<1> HIDE DEF r
<1>4. w \in Handler /\ w.pc = "write" /\ w.record = r
  BY <1>1, <1>2, <1>3 DEF Handler
<1>5. handlers' = [handlers EXCEPT ![h] = Idle] \/ handlers' = [handlers EXCEPT ![h] = w]
  BY <1>1 DEF FormCandidate, r, refs, Handler, Record
<1> HIDE DEF w
<1>6. handlers' \in [Handlers -> Handler]
  BY <1>4, <1>5, IdleType, OneHandler DEF TypeInv
<1>7. TypeOK'
  BY <1>6 DEF FormCandidate, TypeInv, TypeOK, StoreTypeOK, memVars
<1>8. deletions' = deletions
  BY DEF FormCandidate
<1>9. Coherent'
  <2>1. CASE handlers' = [handlers EXCEPT ![h] = Idle]
    BY <1>8, <2>1, IdleType, CoherentAfter
  <2>2. CASE handlers' = [handlers EXCEPT ![h] = w]
    BY <1>2, <1>4, <1>8, <2>2, CoherentAfter
  <2>3. QED
    BY <1>5, <2>1, <2>2
<1>10. QED
  BY <1>7, <1>9 DEF TypeInv

LEMMA GiveFeedbackKeeps ==
  ASSUME TypeInv, NEW h \in Handlers, GiveFeedback(h)
  PROVE  TypeInv'
<1>1. PICK evidence \in SUBSET Items, s \in Scopes, c \in Contents :
        /\ handlers[h] = Idle
        /\ Stable(evidence)
        /\ handlers' = [handlers EXCEPT ![h].pc = "write", ![h].record =
              [scope |-> s, domain |-> (CHOOSE i \in evidence : TRUE).domain,
               content |-> c, refs |-> {i.ref : i \in evidence}]]
  BY DEF GiveFeedback
<1> DEFINE r == [scope |-> s, domain |-> (CHOOSE i \in evidence : TRUE).domain,
                 content |-> c, refs |-> {i.ref : i \in evidence}]
           w == [Idle EXCEPT !.pc = "write", !.record = r]
<1>2. r \in Record
  BY <1>1, StableEvidence DEF Record, Preferences
<1> HIDE DEF r
<1>3. w \in Handler /\ w.pc = "write" /\ w.record = r
  BY <1>2, IdleType, WriterType DEF Pcs
<1>4. handlers' = [handlers EXCEPT ![h] = w]
  BY <1>1 DEF TypeInv, TypeOK, r
<1> HIDE DEF w
<1>5. TypeOK'
  BY <1>3, <1>4, OneHandler DEF GiveFeedback, TypeInv, TypeOK, StoreTypeOK, memVars
<1>6. deletions' = deletions
  BY DEF GiveFeedback
<1>7. Coherent'
  BY <1>2, <1>3, <1>4, <1>6, CoherentAfter
<1>8. QED
  BY <1>5, <1>7 DEF TypeInv

LEMMA WriteMemoryKeeps ==
  ASSUME TypeInv, NEW h \in Handlers, WriteMemory(h)
  PROVE  TypeInv'
<1>1. handlers[h].record \in Record
  BY DEF WriteMemory, TypeInv, Coherent, Writing
<1>2. StoreTypeOK'
  BY <1>1, UpsertTypes DEF WriteMemory, TypeInv, TypeOK, StoreTypeOK, memVars
<1>3. handlers' = [handlers EXCEPT ![h] = Idle] /\ deletions' = deletions
  BY DEF WriteMemory
<1>4. failures' \in 0..MaxFailures
  BY LearnerAssumption DEF WriteMemory, Fails, TypeInv, TypeOK
<1>5. TypeOK'
  BY <1>2, <1>3, <1>4, IdleType, OneHandler DEF WriteMemory, TypeInv, TypeOK
<1>6. Coherent'
  BY <1>3, IdleType, CoherentAfter
<1>7. QED
  BY <1>5, <1>6 DEF TypeInv

\* What a deletion is to delete, at its start.
Lists(x) == [Idle EXCEPT !.pc = "clear", !.deletion = x, !.disk = Rows, !.docs = Rows \cap Linked,
                         !.before = Believed \union Rows]

LEMMA ListsType ==
  ASSUME TypeInv, NEW x \in Deletions
  PROVE  /\ Lists(x) \in Handler /\ Lists(x).pc = "clear" /\ Lists(x).deletion = x
         /\ Lists(x).disk = Rows /\ Lists(x).docs = Rows \cap Linked
         /\ Lists(x).before = Believed \union Rows /\ ~Lists(x).errors
<1>1. Believed \subseteq Conclusions
  BY RowStates, BelievedIs DEF TypeInv, TypeOK, Active, Row
<1>2. Rows \subseteq Docs
  BY DEF Rows
<1> HIDE DEF Rows, Linked, Believed
<1>3. QED
  BY <1>1, <1>2 DEF Lists, Idle, Handler, Pcs, NoRow

LEMMA Requested ==
  ASSUME TypeInv, NEW h \in Handlers, RequestDeletion(h)
  PROVE  \E x \in Deletions :
            /\ handlers[h] = Idle
            /\ deletions[x] = "none"
            /\ deletions' = [deletions EXCEPT ![x] = "processing"]
            /\ handlers' = [handlers EXCEPT ![h] = Lists(x)]
            /\ handlers'[h] = Lists(x) /\ \A g \in Handlers \ {h} : handlers'[g] = handlers[g]
  BY DEF RequestDeletion, Lists, TypeInv, TypeOK

LEMMA RequestDeletionKeeps ==
  ASSUME TypeInv, NEW h \in Handlers, RequestDeletion(h)
  PROVE  TypeInv'
<1>1. PICK x \in Deletions :
        /\ handlers[h] = Idle
        /\ deletions[x] = "none"
        /\ deletions' = [deletions EXCEPT ![x] = "processing"]
        /\ handlers' = [handlers EXCEPT ![h] = Lists(x)]
  BY Requested
<1> DEFINE w == Lists(x)
<1>3. w \in Handler /\ w.pc = "clear" /\ w.deletion = x
  BY ListsType
<1> HIDE DEF w
<1>4. handlers' = [handlers EXCEPT ![h] = w]
  BY <1>1 DEF w
<1>5. /\ handlers' \in [Handlers -> Handler] /\ handlers'[h] = w
      /\ \A g \in Handlers \ {h} : handlers'[g] = handlers[g]
  BY <1>3, <1>4, OneHandler DEF TypeInv
<1>6. TypeOK'
  BY <1>1, <1>5 DEF RequestDeletion, TypeInv, TypeOK, StoreTypeOK, memVars, DeletionStatuses
<1>7. \A g \in Handlers : Deleting(g) => /\ handlers[g].deletion \in Deletions
                                       /\ deletions[handlers[g].deletion] = "processing"
                                       /\ handlers[g].deletion # x
  BY <1>1 DEF TypeInv, Coherent
<1>8. \A y \in Deletions : deletions'[y] = IF y = x THEN "processing" ELSE deletions[y]
  BY <1>1 DEF TypeInv, TypeOK
<1>9. Coherent'
  BY <1>3, <1>5, <1>7, <1>8 DEF TypeInv, Coherent, Writing, Deleting
<1>10. QED
  BY <1>6, <1>9 DEF TypeInv

\* The rows that a deletion deletes.
LEMMA RowsDeleted ==
  ASSUME TypeInv, NEW h \in Handlers, handlers[h].deletion \in Deletions, DeleteRows(h)
  PROVE  /\ uploads' \in [Docs -> Upload]
         /\ \A d \in Docs :
               IF uploads[d].state = "stored"
               THEN /\ uploads'[d].state = "deleted" /\ uploads'[d].linked = uploads[d].linked
                    /\ uploads'[d].by \in {NoId, handlers[h].deletion}
                    /\ uploads'[d].by # NoId => d \in handlers[h].disk
               ELSE uploads'[d] = uploads[d]
<1>1. ASSUME NEW d \in Docs
      PROVE  /\ uploads'[d] \in Upload
             /\ IF uploads[d].state = "stored"
                THEN /\ uploads'[d].state = "deleted" /\ uploads'[d].linked = uploads[d].linked
                     /\ uploads'[d].by \in {NoId, handlers[h].deletion}
                     /\ uploads'[d].by # NoId => d \in handlers[h].disk
                ELSE uploads'[d] = uploads[d]
  <2>1. uploads[d] \in Upload
    BY DEF TypeInv, TypeOK
  <2>2. CASE uploads[d].state = "stored"
    <3>1. PICK b \in {NoId, handlers[h].deletion} :
            /\ uploads'[d] = [uploads[d] EXCEPT !.state = "deleted", !.by = b]
            /\ b # NoId => d \in handlers[h].disk
      BY <2>2 DEF DeleteRows, Rows
    <3>2. QED
      BY <2>1, <2>2, <3>1 DEF Upload
  <2>3. CASE uploads[d].state # "stored"
    BY <2>1, <2>3 DEF DeleteRows, Rows
  <2>4. QED
    BY <2>2, <2>3
<1>2. uploads' = [d \in Docs |-> uploads'[d]]
  BY DEF DeleteRows
<1>3. QED
  BY <1>1, <1>2

LEMMA ClearTablesKeeps ==
  ASSUME TypeInv, NEW h \in Handlers, ClearTables(h)
  PROVE  TypeInv'
<1> DEFINE x == handlers[h].deletion
           w == [handlers[h] EXCEPT !.pc = "purge", !.modules = Scopes]
<1>1. handlers[h] \in Handler /\ Deleting(h) /\ x \in Deletions /\ deletions[x] = "processing"
  BY HandlerFields DEF ClearTables, TypeInv, Coherent, Deleting
<1>2. /\ w \in Handler /\ w.pc = "purge" /\ w.deletion = x
  BY <1>1 DEF Handler, Pcs, TypeInv, TypeOK
<1>3. CASE /\ deletions' = [deletions EXCEPT ![x] = "failed"]
           /\ handlers' = [handlers EXCEPT ![h] = Idle]
           /\ UNCHANGED <<history, uploads>>
  <2>1. TypeOK'
    BY <1>1, <1>3, IdleType, OneHandler
       DEF ClearTables, TypeInv, TypeOK, StoreTypeOK, memVars, DeletionStatuses
  <2>2. \A y \in Deletions : deletions'[y] = deletions[y] \/ y = x
    BY <1>3 DEF TypeInv, TypeOK
  <2>3. Coherent'
    BY <1>1, <1>3, <2>2, IdleType, CoherentAfter
  <2>4. QED
    BY <2>1, <2>3 DEF TypeInv
<1>4. CASE /\ history' = << >>
           /\ DeleteRows(h)
           /\ handlers' = [handlers EXCEPT ![h].pc = "purge", ![h].modules = Scopes]
           /\ UNCHANGED deletions
  <2>0. uploads' \in [Docs -> Upload]
    BY <1>1, <1>4, RowsDeleted
  <2>1. handlers' = [handlers EXCEPT ![h] = w]
    BY <1>4 DEF TypeInv, TypeOK
  <2> HIDE DEF w
  <2>2. TypeOK'
    BY <1>2, <1>4, <2>0, <2>1, OneHandler DEF ClearTables, TypeInv, TypeOK, StoreTypeOK, memVars
  <2>3. Coherent'
    BY <1>1, <1>2, <1>4, <2>1, CoherentAfter
  <2>4. QED
    BY <2>2, <2>3 DEF TypeInv
<1>5. QED
  BY <1>3, <1>4 DEF ClearTables

\* A step that takes something off the list of a purging handler.
LEMMA Purging ==
  ASSUME TypeInv, NEW h \in Handlers, handlers[h].pc = "purge",
         NEW w \in Handler, w.pc = "purge", w.deletion = handlers[h].deletion,
         handlers' = [handlers EXCEPT ![h] = w], deletions' = deletions
  PROVE  handlers' \in [Handlers -> Handler] /\ Coherent'
<1>1. Deleting(h) /\ deletions[w.deletion] = "processing"
  BY DEF Deleting, TypeInv, Coherent
<1>2. QED
  BY <1>1, OneHandler, CoherentAfter DEF TypeInv

LEMMA DeleteFileKeeps ==
  ASSUME TypeInv, NEW h \in Handlers, DeleteFile(h)
  PROVE  TypeInv'
<1>1. PICK d \in handlers[h].disk :
        /\ handlers[h].pc = "purge"
        /\ \/ /\ files' = files \ {d}
              /\ handlers' = [handlers EXCEPT ![h].disk = @ \ {d}]
              /\ UNCHANGED failures
           \/ /\ Fails
              /\ handlers' = [handlers EXCEPT ![h].disk = @ \ {d}, ![h].errors = TRUE]
              /\ UNCHANGED files
        /\ UNCHANGED <<memVars, history, uploads, external, deletions, cutOff, restarts>>
  BY DEF DeleteFile
<1>2. handlers[h] \in Handler
  BY HandlerFields DEF TypeInv
<1>3. PICK e \in BOOLEAN :
        handlers' = [handlers EXCEPT ![h] = [handlers[h] EXCEPT !.disk = @ \ {d}, !.errors = e]]
  <2>1. handlers[h].errors \in BOOLEAN
    BY <1>2 DEF Handler
  <2>2. [handlers[h] EXCEPT !.disk = @ \ {d}]
          = [handlers[h] EXCEPT !.disk = @ \ {d}, !.errors = handlers[h].errors]
    BY <1>2 DEF Handler
  <2>3. QED
    BY <1>1, <2>1, <2>2 DEF TypeInv, TypeOK
<1> DEFINE w == [handlers[h] EXCEPT !.disk = @ \ {d}, !.errors = e]
<1>4. w \in Handler /\ w.pc = "purge" /\ w.deletion = handlers[h].deletion
  BY <1>1, <1>2 DEF Handler
<1> HIDE DEF w
<1>5. handlers' \in [Handlers -> Handler] /\ Coherent'
  BY <1>1, <1>3, <1>4, Purging DEF w
<1>6. files' \subseteq Docs /\ failures' \in 0..MaxFailures
  BY <1>1, LearnerAssumption DEF Fails, TypeInv, TypeOK
<1>7. QED
  BY <1>1, <1>5, <1>6 DEF TypeInv, TypeOK, StoreTypeOK, memVars

LEMMA PurgeModuleKeeps ==
  ASSUME TypeInv, NEW h \in Handlers, PurgeModule(h)
  PROVE  TypeInv'
<1>1. PICK s \in handlers[h].modules :
        /\ handlers[h].pc = "purge"
        /\ \/ /\ PurgeScope(s)
              /\ handlers' = [handlers EXCEPT ![h].modules = @ \ {s}]
              /\ UNCHANGED failures
           \/ /\ Fails
              /\ handlers' = [handlers EXCEPT ![h].modules = @ \ {s}, ![h].errors = TRUE]
              /\ PurgeScope(s) \/ UNCHANGED memVars
        /\ UNCHANGED <<history, uploads, external, files, deletions, cutOff, restarts>>
  BY DEF PurgeModule
<1>2. handlers[h] \in Handler
  BY HandlerFields DEF TypeInv
<1>3. PICK e \in BOOLEAN :
        handlers' = [handlers EXCEPT ![h] = [handlers[h] EXCEPT !.modules = @ \ {s}, !.errors = e]]
  <2>1. handlers[h].errors \in BOOLEAN
    BY <1>2 DEF Handler
  <2>2. [handlers[h] EXCEPT !.modules = @ \ {s}]
          = [handlers[h] EXCEPT !.modules = @ \ {s}, !.errors = handlers[h].errors]
    BY <1>2 DEF Handler
  <2>3. QED
    BY <1>1, <2>1, <2>2 DEF TypeInv, TypeOK
<1> DEFINE w == [handlers[h] EXCEPT !.modules = @ \ {s}, !.errors = e]
<1>4. w \in Handler /\ w.pc = "purge" /\ w.deletion = handlers[h].deletion
  BY <1>1, <1>2 DEF Handler
<1> HIDE DEF w
<1>5. handlers' \in [Handlers -> Handler] /\ Coherent'
  BY <1>1, <1>3, <1>4, Purging DEF w
<1>6. StoreTypeOK'
  BY <1>1, PurgeTypes DEF TypeInv, TypeOK, memVars, StoreTypeOK
<1>7. failures' \in 0..MaxFailures
  BY <1>1, LearnerAssumption DEF Fails, TypeInv, TypeOK
<1>8. QED
  BY <1>1, <1>5, <1>6, <1>7 DEF TypeInv, TypeOK

LEMMA DeleteDocumentKeeps ==
  ASSUME TypeInv, NEW h \in Handlers, DeleteDocument(h)
  PROVE  TypeInv'
<1>1. PICK d \in handlers[h].docs :
        /\ handlers[h].pc = "purge"
        /\ \/ /\ external' = external \ {d}
              /\ handlers' = [handlers EXCEPT ![h].docs = @ \ {d}]
              /\ UNCHANGED failures
           \/ /\ Fails
              /\ handlers' = [handlers EXCEPT ![h].docs = @ \ {d}, ![h].errors = TRUE]
              /\ external' = external \ {d} \/ UNCHANGED external
        /\ UNCHANGED <<memVars, history, uploads, files, deletions, cutOff, restarts>>
  BY DEF DeleteDocument
<1>2. handlers[h] \in Handler
  BY HandlerFields DEF TypeInv
<1>3. PICK e \in BOOLEAN :
        handlers' = [handlers EXCEPT ![h] = [handlers[h] EXCEPT !.docs = @ \ {d}, !.errors = e]]
  <2>1. handlers[h].errors \in BOOLEAN
    BY <1>2 DEF Handler
  <2>2. [handlers[h] EXCEPT !.docs = @ \ {d}]
          = [handlers[h] EXCEPT !.docs = @ \ {d}, !.errors = handlers[h].errors]
    BY <1>2 DEF Handler
  <2>3. QED
    BY <1>1, <2>1, <2>2 DEF TypeInv, TypeOK
<1> DEFINE w == [handlers[h] EXCEPT !.docs = @ \ {d}, !.errors = e]
<1>4. w \in Handler /\ w.pc = "purge" /\ w.deletion = handlers[h].deletion
  BY <1>1, <1>2 DEF Handler
<1> HIDE DEF w
<1>5. handlers' \in [Handlers -> Handler] /\ Coherent'
  BY <1>1, <1>3, <1>4, Purging DEF w
<1>6. external' \subseteq Docs /\ failures' \in 0..MaxFailures
  BY <1>1, LearnerAssumption DEF Fails, TypeInv, TypeOK
<1>7. QED
  BY <1>1, <1>5, <1>6 DEF TypeInv, TypeOK, StoreTypeOK, memVars

LEMMA FinishDeletionKeeps ==
  ASSUME TypeInv, NEW h \in Handlers, FinishDeletion(h)
  PROVE  TypeInv'
<1> DEFINE x == handlers[h].deletion
<1>1. Deleting(h) /\ x \in Deletions
  BY DEF FinishDeletion, TypeInv, Coherent, Deleting
<1>2. /\ handlers' = [handlers EXCEPT ![h] = Idle]
      /\ deletions' = [deletions EXCEPT ![x] =
             IF handlers[h].errors THEN "completed_with_degradation" ELSE "completed"]
  BY DEF FinishDeletion
<1>3. TypeOK'
  BY <1>1, <1>2, IdleType, OneHandler
     DEF FinishDeletion, TypeInv, TypeOK, StoreTypeOK, memVars, DeletionStatuses
<1>4. \A y \in Deletions : deletions'[y] = deletions[y] \/ y = x
  BY <1>2 DEF TypeInv, TypeOK
<1>5. Coherent'
  BY <1>1, <1>2, <1>4, IdleType, CoherentAfter
<1>6. QED
  BY <1>3, <1>5 DEF TypeInv

LEMMA BreakOffKeeps ==
  ASSUME TypeInv, NEW h \in Handlers, BreakOff(h)
  PROVE  TypeInv'
<1> DEFINE x == handlers[h].deletion
<1>1. Deleting(h) /\ x \in Deletions
  BY DEF BreakOff, TypeInv, Coherent, Deleting
<1>2. /\ handlers' = [handlers EXCEPT ![h] = Idle]
      /\ \/ deletions' = [deletions EXCEPT ![x] = "failed"] /\ UNCHANGED cutOff
         \/ cutOff' = cutOff \union {x} /\ UNCHANGED deletions
      /\ failures' \in 0..MaxFailures
  BY LearnerAssumption DEF BreakOff, Fails, TypeInv, TypeOK
<1>3. TypeOK'
  BY <1>1, <1>2, IdleType, OneHandler
     DEF BreakOff, TypeInv, TypeOK, StoreTypeOK, memVars, DeletionStatuses
<1>4. \A y \in Deletions : deletions'[y] = deletions[y] \/ y = x
  BY <1>2 DEF TypeInv, TypeOK
<1>5. Coherent'
  BY <1>1, <1>2, <1>4, IdleType, CoherentAfter
<1>6. QED
  BY <1>3, <1>5 DEF TypeInv

\* A restart loses the uploads that have no row yet, and nothing else of them.
LEMMA UploadsLost ==
  ASSUME TypeInv, Restart
  PROVE  /\ uploads' \in [Docs -> Upload]
         /\ \A d \in Docs :
               IF uploads[d].state \in {"saved", "sent"}
               THEN uploads'[d].state = "lost" /\ uploads'[d].by = uploads[d].by
               ELSE uploads'[d] = uploads[d]
<1>1. ASSUME NEW d \in Docs
      PROVE  /\ uploads'[d] \in Upload
             /\ IF uploads[d].state \in {"saved", "sent"}
                THEN uploads'[d].state = "lost" /\ uploads'[d].by = uploads[d].by
                ELSE uploads'[d] = uploads[d]
  <2>1. uploads[d] \in Upload
    BY DEF TypeInv, TypeOK
  <2>2. uploads'[d] = IF uploads[d].state \in {"saved", "sent"}
                      THEN [uploads[d] EXCEPT !.state = "lost"] ELSE uploads[d]
    BY DEF Restart
  <2>3. QED
    BY <2>1, <2>2 DEF Upload
<1>2. uploads' = [d \in Docs |-> uploads'[d]]
  BY DEF Restart
<1>3. QED
  BY <1>1, <1>2

LEMMA RestartKeeps ==
  ASSUME TypeInv, Restart
  PROVE  TypeInv'
<1>1. \A h \in Handlers : handlers'[h] = Idle
  BY DEF Restart
<1>2. cutOff' \subseteq Deletions
  <2>1. \A h \in Handlers : handlers[h].deletion \in Deletions \union {NoId}
    BY DEF TypeInv, TypeOK, Handler
  <2>2. QED
    BY <2>1 DEF Restart, TypeInv, TypeOK
<1>3. TypeOK'
  BY <1>1, <1>2, IdleType, UploadsLost, LearnerAssumption
     DEF Restart, TypeInv, TypeOK, StoreTypeOK, memVars
<1>4. Coherent'
  BY <1>1, IdleType DEF Coherent, Writing, Deleting
<1>5. QED
  BY <1>3, <1>4 DEF TypeInv

Uploading(d) == SaveFile(d) \/ Ingest(d) \/ CommitUpload(d)

\* The request of one upload changes nothing of another.
LEMMA OneUpload ==
  ASSUME TypeInv, NEW d \in Docs, Uploading(d)
  PROVE  /\ uploads' \in [Docs -> Upload] /\ uploads[d].state \in {"none", "saved", "sent"}
         /\ uploads'[d].by = uploads[d].by
         /\ \A e \in Docs \ {d} : uploads'[e] = uploads[e]
         /\ files' \in {files, files \union {d}} /\ external' \in {external, external \union {d}}
         /\ failures' \in 0..MaxFailures
         /\ UNCHANGED <<memVars, history, deletions, handlers, cutOff, restarts>>
<1>1. uploads[d] \in Upload
  BY DEF TypeInv, TypeOK
<1>2. PICK u \in Upload : uploads' = [uploads EXCEPT ![d] = u] /\ u.by = uploads[d].by
  <2>1. CASE SaveFile(d)
    <3>1. [uploads[d] EXCEPT !.state = "saved"] \in Upload
          /\ [uploads[d] EXCEPT !.state = "saved"].by = uploads[d].by
      BY <1>1 DEF Upload
    <3>2. QED
      BY <2>1, <3>1 DEF SaveFile
  <2>2. CASE Ingest(d)
    <3>1. /\ [uploads[d] EXCEPT !.state = "sent"] \in Upload
          /\ [uploads[d] EXCEPT !.state = "sent"].by = uploads[d].by
          /\ [uploads[d] EXCEPT !.state = "sent", !.linked = TRUE] \in Upload
          /\ [uploads[d] EXCEPT !.state = "sent", !.linked = TRUE].by = uploads[d].by
      BY <1>1 DEF Upload
    <3>2. \/ uploads' = [uploads EXCEPT ![d] = [uploads[d] EXCEPT !.state = "sent"]]
          \/ uploads' = [uploads EXCEPT ![d] = [uploads[d] EXCEPT !.state = "sent", !.linked = TRUE]]
      BY <2>2 DEF Ingest, TypeInv, TypeOK
    <3>3. QED
      BY <3>1, <3>2
  <2>3. CASE CommitUpload(d)
    <3>1. /\ [uploads[d] EXCEPT !.state = "stored"] \in Upload
          /\ [uploads[d] EXCEPT !.state = "stored"].by = uploads[d].by
          /\ [uploads[d] EXCEPT !.state = "lost"] \in Upload
          /\ [uploads[d] EXCEPT !.state = "lost"].by = uploads[d].by
      BY <1>1 DEF Upload
    <3>2. QED
      BY <2>3, <3>1 DEF CommitUpload
  <2>4. QED
    BY <2>1, <2>2, <2>3 DEF Uploading
<1>3. /\ uploads' \in [Docs -> Upload] /\ uploads'[d].by = uploads[d].by
      /\ \A e \in Docs \ {d} : uploads'[e] = uploads[e]
  BY <1>2 DEF TypeInv, TypeOK
<1>4. /\ uploads[d].state \in {"none", "saved", "sent"}
      /\ files' \in {files, files \union {d}} /\ external' \in {external, external \union {d}}
      /\ UNCHANGED <<memVars, history, deletions, handlers, cutOff, restarts>>
  BY DEF Uploading, SaveFile, Ingest, CommitUpload
<1>5. failures' \in 0..MaxFailures
  BY LearnerAssumption DEF Uploading, SaveFile, Ingest, CommitUpload, Fails, TypeInv, TypeOK
<1>6. QED
  BY <1>3, <1>4, <1>5

LEMMA UploadKeeps ==
  ASSUME TypeInv, NEW d \in Docs, Uploading(d)
  PROVE  TypeInv'
<1>1. TypeOK'
  BY OneUpload DEF TypeInv, TypeOK, StoreTypeOK, memVars
<1>2. Coherent'
  BY OneUpload DEF TypeInv, Coherent, Writing, Deleting
<1>3. QED
  BY <1>1, <1>2 DEF TypeInv

\* A step of the store that the handlers have no part in.
LEMMA MemoryStepKeeps ==
  ASSUME TypeInv, StoreNext, UNCHANGED localVars
  PROVE  TypeInv'
<1>1. StoreTypeOK'
  BY StoreTypes DEF TypeInv, TypeOK
<1>2. QED
  BY <1>1 DEF localVars, TypeInv, TypeOK, Coherent, Writing, Deleting

LEMMA ForgetStores ==
  ASSUME NEW id \in Ids, NEW s \in Scopes, ForgetMemory(id, s)
  PROVE  StoreNext /\ UNCHANGED localVars
  BY DEF ForgetMemory, StoreNext

LEMMA CorrectStores ==
  ASSUME NEW id \in Ids, NEW record \in Corrections, CorrectMemory(id, record)
  PROVE  StoreNext /\ UNCHANGED localVars
  BY DEF CorrectMemory, StoreNext, Corrections

LEMMA MergeStores ==
  ASSUME NEW s \in Scopes, MergeMemories(s)
  PROVE  StoreNext /\ UNCHANGED localVars
  BY DEF MergeMemories, StoreNext

LEMMA TypeInvInit == Init => TypeInv
<1> SUFFICES ASSUME Init  PROVE TypeInv
  OBVIOUS
<1>1. StoreTypeOK
  BY StoreInvInit DEF Init, StoreInv
<1>2. << >> \in Seq(Attempt)
  OBVIOUS
<1>3. uploads \in [Docs -> Upload]
  <2>1. NoUpload \in Upload
    BY DEF NoUpload, Upload
  <2>2. QED
    BY <2>1 DEF Init
<1>4. TypeOK
  BY <1>1, <1>2, <1>3, IdleType, LearnerAssumption DEF Init, TypeOK, DeletionStatuses
<1>5. Coherent
  BY IdleType DEF Init, Coherent, Writing, Deleting
<1>6. QED
  BY <1>4, <1>5 DEF TypeInv

LEMMA TypeInvNext == TypeInv /\ [Next]_vars => TypeInv'
<1> SUFFICES ASSUME TypeInv, [Next]_vars  PROVE TypeInv'
  OBVIOUS
<1>1. ASSUME NEW h \in Handlers, RecordAttempt(h) \/ GiveFeedback(h) \/ RequestDeletion(h)
      PROVE  TypeInv'
  BY <1>1, RecordAttemptKeeps, GiveFeedbackKeeps, RequestDeletionKeeps
<1>2. ASSUME NEW h \in Handlers, Work(h)
      PROVE  TypeInv'
  BY <1>2, FormCandidateKeeps, WriteMemoryKeeps, ClearTablesKeeps, DeleteFileKeeps,
     PurgeModuleKeeps, DeleteDocumentKeeps, FinishDeletionKeeps, BreakOffKeeps DEF Work
<1>3. ASSUME NEW id \in Ids, NEW s \in Scopes,
             ForgetMemory(id, s) \/ \E record \in Corrections : CorrectMemory(id, record)
      PROVE  TypeInv'
  BY <1>3, ForgetStores, CorrectStores, MemoryStepKeeps
<1>4. ASSUME NEW s \in Scopes, MergeMemories(s)
      PROVE  TypeInv'
  BY <1>4, MergeStores, MemoryStepKeeps
<1>5. CASE UNCHANGED vars
  BY <1>5 DEF vars, memVars, localVars, TypeInv, TypeOK, StoreTypeOK, Coherent, Writing, Deleting
<1>6. QED
  BY <1>1, <1>2, <1>3, <1>4, <1>5, UploadKeeps, RestartKeeps DEF Next, Uploading

-----------------------------------------------------------------------------
(* Every step is a step of the store or leaves it alone.                   *)

LEMMA StepStores ==
  ASSUME TypeInv, [Next]_vars
  PROVE  [StoreNext]_memVars
<1>1. ASSUME NEW h \in Handlers, WriteMemory(h)
      PROVE  [StoreNext]_memVars
  <2>1. handlers[h].record \in Record
    BY <1>1 DEF WriteMemory, TypeInv, Coherent, Writing
  <2>2. QED
    BY <1>1, <2>1 DEF WriteMemory, StoreNext
<1>2. ASSUME NEW h \in Handlers, PurgeModule(h)
      PROVE  [StoreNext]_memVars
  <2>1. handlers[h].modules \subseteq Scopes
    BY HandlerFields DEF TypeInv, Handler
  <2>2. QED
    BY <1>2, <2>1 DEF PurgeModule, StoreNext
<1>3. ASSUME NEW h \in Handlers,
             \/ RecordAttempt(h) \/ GiveFeedback(h) \/ RequestDeletion(h) \/ FormCandidate(h)
             \/ ClearTables(h) \/ DeleteFile(h) \/ DeleteDocument(h) \/ FinishDeletion(h)
             \/ BreakOff(h)
      PROVE  UNCHANGED memVars
  BY <1>3 DEF RecordAttempt, GiveFeedback, RequestDeletion, FormCandidate, ClearTables,
     DeleteFile, DeleteDocument, FinishDeletion, BreakOff
<1>4. ASSUME Restart \/ (\E d \in Docs : Uploading(d)) \/ UNCHANGED vars
      PROVE  UNCHANGED memVars
  BY <1>4 DEF Restart, Uploading, SaveFile, Ingest, CommitUpload, vars, memVars
<1>5. QED
  BY <1>1, <1>2, <1>3, <1>4, ForgetStores, CorrectStores, MergeStores
     DEF Next, Work, Uploading

-----------------------------------------------------------------------------
(* A misconception rests on two mistakes.                                  *)

NoDeletion == \A x \in Deletions : deletions[x] = "none"

\* Two wrong answers to the question are on record.
Mistaken(q) ==
    \E i, j \in DOMAIN history :
        /\ i # j
        /\ history[i].question = q /\ ~history[i].correct
        /\ history[j].question = q /\ ~history[j].correct

Grounded ==
    NoDeletion =>
        /\ \A k \in Believed : k[2] \in Questions => Mistaken(k[2])
        /\ \A h \in Handlers :
              handlers[h].pc = "write" /\ handlers[h].record.domain \in Questions =>
                  Mistaken(handlers[h].record.domain)

LEMMA GroundedMeans == Grounded => MisconceptionsGrounded
<1> SUFFICES ASSUME Grounded, NoDeletion, NEW k \in Believed, k[2] \in Questions
             PROVE  \E i, j \in DOMAIN history :
                      /\ i # j
                      /\ \A n \in {i, j} : history[n].question = k[2] /\ ~history[n].correct
  BY DEF MisconceptionsGrounded, NoDeletion
<1>1. Mistaken(k[2])
  BY DEF Grounded
<1>2. QED
  BY <1>1 DEF Mistaken

\* Two references to the last wrong answers are two wrong answers.
LEMMA TwoMistakes ==
  ASSUME NEW q, ~(Cardinality(Mistakes(q)) < 2)
  PROVE  Mistaken(q)
<1> SUFFICES ASSUME ~Mistaken(q)  PROVE FALSE
  OBVIOUS
<1> DEFINE W == {n \in DOMAIN history : history[n].question = q /\ ~history[n].correct}
<1>1. \A i, j \in W : i = j
  BY DEF Mistaken
<1>2. CASE Mistakes(q) = {}
  BY <1>2, FS_EmptySet
<1>3. CASE Mistakes(q) # {}
  <2>1. PICK a : a \in Mistakes(q)
    BY <1>3
  <2>2. Mistakes(q) = {a}
    BY <1>1, <2>1 DEF Mistakes, LastTwo
  <2>3. Cardinality({a}) = 1
    BY FS_Singleton
  <2>4. QED
    BY <2>2, <2>3
<1>4. QED
  BY <1>2, <1>3

\* Answers on record stay on record while no deletion is asked for.
LEMMA MistakenStays ==
  ASSUME TypeInv, NEW q, Mistaken(q),
         \/ history' = history
         \/ \E a \in Attempt : history' = Append(history, a)
  PROVE  Mistaken(q)'
<1>1. PICK i, j \in DOMAIN history :
        /\ i # j
        /\ history[i].question = q /\ ~history[i].correct
        /\ history[j].question = q /\ ~history[j].correct
  BY DEF Mistaken
<1>2. \A n \in DOMAIN history : n \in DOMAIN history' /\ history'[n] = history[n]
  <2>1. history \in Seq(Attempt)
    BY DEF TypeInv, TypeOK
  <2>2. QED
    BY <2>1
<1>3. /\ i \in DOMAIN history' /\ j \in DOMAIN history'
      /\ history'[i].question = q /\ ~history'[i].correct
      /\ history'[j].question = q /\ ~history'[j].correct
  BY <1>1, <1>2
<1>4. QED
  BY <1>1, <1>3 DEF Mistaken

\* What a step may do to the answers on record: a deletion leaves a trace.
LEMMA AnswersStay ==
  ASSUME TypeInv, [Next]_vars, NoDeletion'
  PROVE  /\ NoDeletion
         /\ \/ history' = history
            \/ \E a \in Attempt : history' = Append(history, a)
<1>1. ASSUME NEW h \in Handlers, Deleting(h)
      PROVE  ~NoDeletion
  BY <1>1 DEF TypeInv, Coherent, NoDeletion
<1>2. ASSUME NEW h \in Handlers, RecordAttempt(h)
      PROVE  NoDeletion /\ \E a \in Attempt : history' = Append(history, a)
  <2>1. PICK s \in Scopes, q \in Questions, correct \in BOOLEAN :
          /\ NewAttempts # {}
          /\ history' = Append(history, [id |-> CHOOSE a \in NewAttempts : TRUE, scope |-> s,
                                         question |-> q, correct |-> correct])
          /\ deletions' = deletions
    BY <1>2 DEF RecordAttempt
  <2>2. (CHOOSE a \in NewAttempts : TRUE) \in Attempts
    BY <2>1 DEF NewAttempts
  <2>3. [id |-> CHOOSE a \in NewAttempts : TRUE, scope |-> s, question |-> q,
         correct |-> correct] \in Attempt
    BY <2>2 DEF Attempt
  <2>4. QED
    BY <2>1, <2>3 DEF NoDeletion
<1>3. ASSUME NEW h \in Handlers, GiveFeedback(h) \/ FormCandidate(h) \/ WriteMemory(h)
      PROVE  deletions' = deletions /\ history' = history
  BY <1>3 DEF GiveFeedback, FormCandidate, WriteMemory
<1>4. ASSUME NEW h \in Handlers, RequestDeletion(h)
      PROVE  FALSE
  <2>1. PICK x \in Deletions : deletions' = [deletions EXCEPT ![x] = "processing"]
    BY <1>4 DEF RequestDeletion
  <2>2. deletions'[x] = "processing"
    BY <2>1 DEF TypeInv, TypeOK
  <2>3. QED
    BY <2>2 DEF NoDeletion
<1>5. ASSUME NEW h \in Handlers,
             \/ ClearTables(h) \/ DeleteFile(h) \/ PurgeModule(h) \/ DeleteDocument(h)
             \/ FinishDeletion(h) \/ BreakOff(h)
      PROVE  FALSE
  <2> DEFINE x == handlers[h].deletion
  <2>1. x \in Deletions /\ deletions[x] = "processing"
    BY <1>5 DEF ClearTables, DeleteFile, PurgeModule, DeleteDocument, FinishDeletion, BreakOff,
       TypeInv, Coherent, Deleting
  <2>2. deletions'[x] # "none"
    BY <1>5, <2>1 DEF ClearTables, DeleteFile, PurgeModule, DeleteDocument, FinishDeletion,
       BreakOff, TypeInv, TypeOK
  <2>3. QED
    BY <2>1, <2>2 DEF NoDeletion
<1>6. ASSUME NEW id \in Ids, NEW s \in Scopes,
             \/ ForgetMemory(id, s) \/ MergeMemories(s)
             \/ \E record \in Corrections : CorrectMemory(id, record)
      PROVE  deletions' = deletions /\ history' = history
  BY <1>6 DEF ForgetMemory, MergeMemories, CorrectMemory, localVars
<1>7. ASSUME NEW s \in Scopes, MergeMemories(s)
      PROVE  deletions' = deletions /\ history' = history
  BY <1>7 DEF MergeMemories, localVars
<1>8. ASSUME Restart \/ (\E d \in Docs : Uploading(d)) \/ UNCHANGED vars
      PROVE  deletions' = deletions /\ history' = history
  BY <1>8 DEF Restart, Uploading, SaveFile, Ingest, CommitUpload, vars, localVars
<1>9. QED
  BY <1>2, <1>3, <1>4, <1>5, <1>6, <1>7, <1>8 DEF Next, Work, Uploading, NoDeletion

\* New beliefs come from the records of handlers and from corrections.
LEMMA NewBeliefs ==
  ASSUME TypeInv, StoreInv, [Next]_vars
  PROVE  \A k \in Believed' :
            \/ k \in Believed
            \/ \E h \in Handlers : handlers[h].pc = "write" /\ k = Key(handlers[h].record)
            \/ k[2] \notin Questions
<1>0. StoreTypeOK /\ BelievedOwned
  BY DEF StoreInv
<1>1. ASSUME NEW h \in Handlers, WriteMemory(h)
      PROVE  Believed' \subseteq Believed \cup {Key(handlers[h].record)} /\ handlers[h].pc = "write"
  <2>1. handlers[h].record \in Record /\ handlers[h].pc = "write"
    BY <1>1 DEF WriteMemory, TypeInv, Coherent, Writing
  <2>2. CASE Upsert(handlers[h].record)
    BY <1>0, <2>1, <2>2, UpsertShifts DEF Shift
  <2>3. CASE UNCHANGED memVars
    BY <2>1, <2>3 DEF memVars, Believed, Active
  <2>4. QED
    BY <1>1, <2>2, <2>3 DEF WriteMemory
<1>2. ASSUME NEW id \in Ids, NEW record \in Corrections, CorrectMemory(id, record)
      PROVE  \A k \in Believed' : k \in Believed \/ k[2] \notin Questions
  <2>1. record \in Record /\ record.domain \notin Questions
    BY DEF Corrections
  <2>2. Believed' \subseteq Believed \cup {Key(record)}
    BY <1>0, <1>2, <2>1, UpdateShifts DEF CorrectMemory, Shift
  <2>3. QED
    BY <2>1, <2>2 DEF Key
<1>3. ASSUME NEW s \in Scopes, PurgeScope(s) \/ Consolidate(s) \/ \E id \in Ids : Delete(id, s)
      PROVE  Believed' \subseteq Believed
  BY <1>0, <1>3, PurgeShifts, ConsolidateShifts, DeleteShifts DEF Shift
<1>4. ASSUME NEW h \in Handlers, PurgeModule(h)
      PROVE  Believed' \subseteq Believed
  <2>1. handlers[h].modules \subseteq Scopes
    BY HandlerFields DEF TypeInv, Handler
  <2>2. CASE \E s \in Scopes : PurgeScope(s)
    BY <2>2, <1>3
  <2>3. CASE UNCHANGED memVars
    BY <2>3 DEF memVars, Believed, Active
  <2>4. QED
    BY <1>4, <2>1, <2>2, <2>3 DEF PurgeModule
<1>5. ASSUME UNCHANGED memVars
      PROVE  Believed' \subseteq Believed
  BY <1>5 DEF memVars, Believed, Active
<1>6. ASSUME NEW h \in Handlers,
             \/ RecordAttempt(h) \/ GiveFeedback(h) \/ RequestDeletion(h) \/ FormCandidate(h)
             \/ ClearTables(h) \/ DeleteFile(h) \/ DeleteDocument(h) \/ FinishDeletion(h)
             \/ BreakOff(h)
      PROVE  UNCHANGED memVars
  BY <1>6 DEF RecordAttempt, GiveFeedback, RequestDeletion, FormCandidate, ClearTables,
     DeleteFile, DeleteDocument, FinishDeletion, BreakOff
<1>7. ASSUME Restart \/ (\E d \in Docs : Uploading(d)) \/ UNCHANGED vars
      PROVE  UNCHANGED memVars
  BY <1>7 DEF Restart, Uploading, SaveFile, Ingest, CommitUpload, vars, memVars
<1>8. ASSUME NEW id \in Ids, NEW s \in Scopes, ForgetMemory(id, s)
      PROVE  Believed' \subseteq Believed
  BY <1>3, <1>8 DEF ForgetMemory
<1>9. ASSUME NEW s \in Scopes, MergeMemories(s)
      PROVE  Believed' \subseteq Believed
  BY <1>3, <1>9 DEF MergeMemories
<1>10. QED
  BY <1>1, <1>2, <1>4, <1>5, <1>6, <1>7, <1>8, <1>9 DEF Next, Work, Uploading

\* New records of questions come from two mistakes.
LEMMA NewRecords ==
  ASSUME TypeInv, [Next]_vars
  PROVE  \A h \in Handlers :
            handlers'[h].pc = "write" /\ handlers'[h].record.domain \in Questions =>
               \/ handlers[h].pc = "write" /\ handlers[h].record.domain = handlers'[h].record.domain
               \/ Mistaken(handlers'[h].record.domain) /\ history' = history
<1> SUFFICES ASSUME NEW h \in Handlers, handlers'[h].pc = "write",
                    handlers'[h].record.domain \in Questions, handlers'[h] # handlers[h]
             PROVE  Mistaken(handlers'[h].record.domain) /\ history' = history
  OBVIOUS
<1>0. handlers \in [Handlers -> Handler]
  BY DEF TypeInv, TypeOK
<1>1. ASSUME NEW g \in Handlers,
             \/ RecordAttempt(g) \/ RequestDeletion(g) \/ WriteMemory(g) \/ FinishDeletion(g)
             \/ BreakOff(g)
      PROVE  FALSE
  <2>1. handlers'[g].pc # "write" \/ handlers'[g] = handlers[g]
    <3>1. CASE RecordAttempt(g)
      BY <1>0, <3>1 DEF RecordAttempt, Handler
    <3>2. CASE RequestDeletion(g)
      BY <3>2, Requested, ListsType
    <3>3. CASE WriteMemory(g) \/ FinishDeletion(g) \/ BreakOff(g)
      BY <1>0, <3>3, IdleType DEF WriteMemory, FinishDeletion, BreakOff
    <3>4. QED
      BY <1>1, <3>1, <3>2, <3>3
  <2>2. g # h => handlers'[h] = handlers[h]
    BY <1>0, <1>1 DEF RecordAttempt, RequestDeletion, WriteMemory, FinishDeletion, BreakOff
  <2>3. QED
    BY <2>1, <2>2
<1>2. ASSUME NEW g \in Handlers, ClearTables(g) \/ DeleteFile(g) \/ PurgeModule(g) \/ DeleteDocument(g)
      PROVE  FALSE
  <2>1. handlers'[g].pc # "write"
    <3>1. handlers[g] \in Handler
      BY HandlerFields DEF TypeInv
    <3>2. CASE ClearTables(g)
      BY <1>0, <3>1, <3>2, IdleType DEF ClearTables, Handler
    <3>3. CASE DeleteFile(g)
      BY <1>0, <3>1, <3>3 DEF DeleteFile, Handler
    <3>4. CASE PurgeModule(g)
      BY <1>0, <3>1, <3>4 DEF PurgeModule, Handler
    <3>5. CASE DeleteDocument(g)
      BY <1>0, <3>1, <3>5 DEF DeleteDocument, Handler
    <3>6. QED
      BY <1>2, <3>2, <3>3, <3>4, <3>5
  <2>2. g # h => handlers'[h] = handlers[h]
    BY <1>0, <1>2 DEF ClearTables, DeleteFile, PurgeModule, DeleteDocument
  <2>3. QED
    BY <2>1, <2>2
<1>3. ASSUME NEW g \in Handlers, GiveFeedback(g)
      PROVE  FALSE
  <2>1. PICK evidence \in SUBSET Items, s \in Scopes, c \in Contents :
          /\ Stable(evidence)
          /\ handlers' = [handlers EXCEPT ![g].pc = "write", ![g].record =
                [scope |-> s, domain |-> (CHOOSE i \in evidence : TRUE).domain,
                 content |-> c, refs |-> {i.ref : i \in evidence}]]
    BY <1>3 DEF GiveFeedback
  <2>2. h = g /\ handlers'[g].record.domain = (CHOOSE i \in evidence : TRUE).domain
    BY <1>0, <2>1 DEF Handler
  <2>3. QED
    BY <2>1, <2>2, StableEvidence DEF Preferences
<1>4. ASSUME NEW g \in Handlers, FormCandidate(g)
      PROVE  Mistaken(handlers'[h].record.domain) /\ history' = history
  <2> DEFINE refs == Mistakes(handlers[g].record.domain)
  <2>0. handlers[g] \in Handler /\ handlers[g].record \in Record
    BY <1>4, HandlerFields DEF FormCandidate, TypeInv, Coherent, Writing
  <2>1. h = g /\ ~(Cardinality(refs) < 2) /\ handlers'[h].record.domain = handlers[g].record.domain
    <3> HIDE DEF refs
    <3>1. handlers' = [handlers EXCEPT ![g] =
             IF Cardinality(refs) < 2 THEN Idle
             ELSE [@ EXCEPT !.pc = "write", !.record.refs = refs]]
      BY <1>4 DEF FormCandidate, refs
    <3>2. h = g
      BY <1>0, <3>1
    <3>3. ~(Cardinality(refs) < 2)
      BY <1>0, <3>1, <3>2, IdleType
    <3>4. handlers'[h].record = [handlers[g].record EXCEPT !.refs = refs]
      BY <1>0, <2>0, <3>1, <3>2, <3>3 DEF Handler
    <3>5. handlers'[h].record.domain = handlers[g].record.domain
      BY <2>0, <3>4 DEF Record
    <3>6. refs \subseteq Refs
      BY MistakesAreRefs DEF TypeInv, refs
    <3>7. QED
      BY <3>2, <3>3, <3>5
  <2>2. QED
    BY <1>4, <2>1, TwoMistakes DEF FormCandidate
<1>5. ASSUME \/ \E id \in Ids, s \in Scopes :
                   ForgetMemory(id, s) \/ \E record \in Corrections : CorrectMemory(id, record)
             \/ \E s \in Scopes : MergeMemories(s)
             \/ \E d \in Docs : Uploading(d)
             \/ UNCHANGED vars
      PROVE  FALSE
  BY <1>5 DEF ForgetMemory, MergeMemories, CorrectMemory, Uploading, SaveFile, Ingest, CommitUpload,
     localVars, vars
<1>6. ASSUME Restart  PROVE FALSE
  BY <1>6, IdleType DEF Restart
<1>7. QED
  BY <1>1, <1>2, <1>3, <1>4, <1>5, <1>6 DEF Next, Work, Uploading

LEMMA GroundedNext == TypeInv /\ StoreInv /\ Grounded /\ [Next]_vars => Grounded'
<1> SUFFICES ASSUME TypeInv, StoreInv, Grounded, [Next]_vars, NoDeletion'
             PROVE  /\ \A k \in Believed' : k[2] \in Questions => Mistaken(k[2])'
                    /\ \A h \in Handlers :
                          handlers'[h].pc = "write" /\ handlers'[h].record.domain \in Questions =>
                              Mistaken(handlers[h].record.domain)'
  BY DEF Grounded
<1>1. /\ NoDeletion
      /\ history' = history \/ \E a \in Attempt : history' = Append(history, a)
  BY AnswersStay
<1>2. ASSUME NEW k \in Believed', k[2] \in Questions
      PROVE  Mistaken(k[2])'
  <2>1. CASE k \in Believed
    <3>1. Mistaken(k[2])
      BY <1>1, <1>2, <2>1 DEF Grounded
    <3>2. QED
      BY <1>1, <3>1, MistakenStays
  <2>2. CASE \E h \in Handlers : handlers[h].pc = "write" /\ k = Key(handlers[h].record)
    <3>1. PICK h \in Handlers : handlers[h].pc = "write" /\ k = Key(handlers[h].record)
      BY <2>2
    <3>2. k[2] = handlers[h].record.domain
      BY <3>1 DEF Key
    <3>3. Mistaken(k[2])
      BY <1>1, <1>2, <3>1, <3>2 DEF Grounded
    <3>4. QED
      BY <1>1, <3>3, MistakenStays
  <2>3. QED
    BY <1>2, <2>1, <2>2, NewBeliefs
<1>3. ASSUME NEW h \in Handlers, handlers'[h].pc = "write", handlers'[h].record.domain \in Questions
      PROVE  Mistaken(handlers[h].record.domain)'
  <2> DEFINE q == handlers'[h].record.domain
  <2>1. Mistaken(q)
    BY <1>1, <1>3, NewRecords DEF Grounded
  <2> HIDE DEF q
  <2>2. \E i, j \in DOMAIN history' :
          /\ i # j
          /\ history'[i].question = q /\ ~history'[i].correct
          /\ history'[j].question = q /\ ~history'[j].correct
    BY <1>1, <2>1, MistakenStays DEF Mistaken
  <2>3. QED
    BY <2>2 DEF Mistaken, q
<1>4. QED
  BY <1>2, <1>3

-----------------------------------------------------------------------------
(* A completed deletion leaves nothing.                                    *)

\* What an active memory says belongs to the scope the memory is kept in.
ScopesFit == \A id \in Ids : Active(id) => \A k \in memories[id].says : k[1] = memories[id].scope

LEMMA RowOfFits ==
  ASSUME NEW record \in Record
  PROVE  \A k \in RowOf(record).says : k[1] = RowOf(record).scope
  BY DEF RowOf, Key

LEMMA UpsertFits ==
  ASSUME StoreTypeOK, ScopesFit, NEW record \in Record, Upsert(record)
  PROVE  ScopesFit'
<1>1. CASE UpsertCreates(record)
  <2>1. NewId \in Ids /\ memories'[NewId] = RowOf(record)
        /\ \A i \in Ids \ {NewId} : memories'[i] = memories[i]
    BY <1>1, NewIdUnused DEF UpsertCreates, StoreTypeOK
  <2>2. QED
    BY <2>1, RowOfFits DEF ScopesFit, Active
<1>2. CASE UpsertUpdates(record)
  <2> DEFINE o == keyOwner[Key(record)]
  <2>1. o \in Ids /\ memories[o] \in Row
    BY <1>2, RowOfType, RowStates DEF UpsertUpdates, StoreTypeOK, Holds, Active
  <2>2. memories' = [memories EXCEPT ![o] = [memories[o] EXCEPT !.refs = record.refs]]
    BY <1>2 DEF UpsertUpdates
  <2>3. \A i \in Ids : /\ memories'[i].state = memories[i].state
                       /\ memories'[i].says = memories[i].says
                       /\ memories'[i].scope = memories[i].scope
    BY <2>1, <2>2 DEF StoreTypeOK, Row
  <2>4. QED
    BY <2>3 DEF ScopesFit, Active
<1>3. CASE UpsertRefused(record)
  BY <1>3 DEF UpsertRefused, memVars, ScopesFit, Active
<1>4. QED
  BY <1>1, <1>2, <1>3 DEF Upsert

LEMMA StoreFits == StoreTypeOK /\ ScopesFit /\ [StoreNext]_memVars => ScopesFit'
<1> SUFFICES ASSUME StoreTypeOK, ScopesFit, [StoreNext]_memVars  PROVE ScopesFit'
  OBVIOUS
<1>1. ASSUME NEW record \in Record, NEW id \in Ids, Update(id, record)
      PROVE  ScopesFit'
  <2>1. memories'[id] = RowOf(record) /\ \A i \in Ids \ {id} : memories'[i] = memories[i]
    BY <1>1 DEF Update, StoreTypeOK
  <2>2. QED
    BY <2>1, RowOfFits DEF ScopesFit, Active
<1>2. ASSUME NEW scope \in Scopes, NEW id \in Ids, Delete(id, scope)
      PROVE  ScopesFit'
  <2>1. memories[id] \in Row
    BY <1>2, ActiveRow DEF Delete, Authorized
  <2>2. /\ memories'[id] = [memories[id] EXCEPT !.state = "deleted"]
        /\ \A i \in Ids \ {id} : memories'[i] = memories[i]
    BY <1>2 DEF Delete, StoreTypeOK
  <2>3. memories'[id].state # "active"
    BY <2>1, <2>2, RowDeleted
  <2>4. QED
    BY <2>2, <2>3 DEF ScopesFit, Active
<1>3. ASSUME NEW scope \in Scopes, PurgeScope(scope)
      PROVE  ScopesFit'
  <2>1. \A i \in ActiveIn(scope) : memories'[i].state # "active"
    BY <1>3, ActiveRow, RowDeleted DEF PurgeScope
  <2>2. \A i \in Ids \ ActiveIn(scope) : memories'[i] = memories[i]
    BY <1>3 DEF PurgeScope
  <2>3. QED
    BY <2>1, <2>2 DEF ScopesFit, Active
<1>4. ASSUME NEW scope \in Scopes, Consolidate(scope)
      PROVE  ScopesFit'
  <2>1. PICK g \in Groups : Merging(scope, g, Together(scope, g))
    BY <1>4, ConsolidateMerges
  <2> DEFINE sources == Together(scope, g)
  <2>2. \A i \in sources : i \in Ids /\ Active(i) /\ memories[i].scope = scope
    BY DEF Together, ActiveIn
  <2> HIDE DEF sources
  <2>3. /\ NewId \in Ids /\ NewId \notin sources
        /\ \A i \in sources : memories'[i].state = "merged"
        /\ memories'[NewId].says = UNION {memories[s].says : s \in sources}
        /\ \A i \in Ids \ (sources \cup {NewId}) : memories'[i] = memories[i]
    BY <2>1, MergedRows DEF sources
  <2>4. memories'[NewId].scope = scope
    BY <2>1, <2>3 DEF Merging, sources
  <2>5. \A k \in memories'[NewId].says : k[1] = scope
    BY <2>2, <2>3 DEF ScopesFit
  <2>6. QED
    BY <2>3, <2>4, <2>5 DEF ScopesFit, Active
<1>5. CASE UNCHANGED memVars
  BY <1>5 DEF memVars, ScopesFit, Active
<1>6. QED
  BY <1>1, <1>2, <1>3, <1>4, <1>5, UpsertFits DEF StoreNext

\* A purge leaves nothing to believe in its scope.
LEMMA PurgedScope ==
  ASSUME StoreTypeOK, ScopesFit, NEW scope, PurgeScope(scope)
  PROVE  \A k \in Believed' : k \in Believed /\ k[1] # scope
<1>1. \A i \in ActiveIn(scope) : memories'[i].state # "active"
  BY ActiveRow, RowDeleted DEF PurgeScope
<1>2. \A i \in Ids \ ActiveIn(scope) : memories'[i] = memories[i]
  BY DEF PurgeScope
<1>3. SUFFICES ASSUME NEW k \in Believed'
               PROVE  k \in Believed /\ k[1] # scope
  OBVIOUS
<1>4. PICK i \in Ids : memories'[i].state = "active" /\ k \in memories'[i].says
  BY BelievedNext
<1>5. memories'[i] = memories[i] /\ Active(i) /\ memories[i].scope # scope
  BY <1>1, <1>2, <1>4 DEF ActiveIn, Active
<1>6. QED
  BY <1>4, <1>5, BelievedIs DEF ScopesFit

\* A conclusion that has been drawn once is not believed anew.
LEMMA NotBelievedAnew ==
  ASSUME StoreInv, [StoreNext]_memVars
  PROVE  Owned \subseteq Owned' /\ \A k \in Owned : k \in Believed' => k \in Believed
<1>1. CASE StoreNext
  <2>1. PICK L : Shift(L)
    BY <1>1, StoreShifts DEF StoreInv
  <2>2. QED
    BY <2>1, WithdrawnIs DEF Shift
<1>2. CASE UNCHANGED memVars
  BY <1>2 DEF memVars, Owned, Believed, Active
<1>3. QED
  BY <1>1, <1>2

\* The request of the upload is over, and its row was stored.
Settled(d) == d \in Docs /\ uploads[d].state \in {"stored", "deleted"}

\* What a deletion found at its start is on its lists for as long as it is not
\* gone, unless an error is noted.
Accounts(h) ==
    LET w == handlers[h] IN
    /\ \A k \in w.before : k \in Owned \/ Settled(k)
    /\ w.pc = "clear" => w.disk \subseteq w.before
    /\ ~w.errors =>
          \A k \in w.before : /\ k \in Believed => w.pc = "clear" \/ k[1] \in w.modules
                              /\ k \in files => k \in w.disk
                              /\ k \in external \cap Linked => k \in w.docs

Accounting ==
    /\ ScopesFit
    /\ \A h \in Handlers : handlers[h].deletion # NoId => Deleting(h)
    /\ \A h \in Handlers : Deleting(h) => Accounts(h)

LEMMA BelievedAreConclusions ==
  ASSUME StoreTypeOK
  PROVE  Believed \subseteq Conclusions
  BY RowStates, BelievedIs DEF Active, Row

\* An upload that is settled stays so, with the document its row names, and its
\* file and its document are not written again.
LEMMA SettledStays ==
  ASSUME TypeInv, [Next]_vars, NEW k, Settled(k)
  PROVE  /\ Settled(k)' /\ uploads'[k].linked = uploads[k].linked
         /\ uploads[k].state = "deleted" => uploads'[k] = uploads[k]
         /\ k \in files' => k \in files
         /\ k \in external' => k \in external
<1> DEFINE Goal == /\ uploads'[k].state \in {"stored", "deleted"}
                   /\ uploads'[k].linked = uploads[k].linked
                   /\ uploads[k].state = "deleted" => uploads'[k] = uploads[k]
                   /\ k \in files' => k \in files
                   /\ k \in external' => k \in external
<1>0. k \in Docs /\ uploads[k].state \in {"stored", "deleted"}
  BY DEF Settled
<1>1. ASSUME NEW h \in Handlers,
             \/ RecordAttempt(h) \/ GiveFeedback(h) \/ RequestDeletion(h) \/ FormCandidate(h)
             \/ WriteMemory(h) \/ FinishDeletion(h) \/ PurgeModule(h) \/ BreakOff(h)
      PROVE  Goal
  BY <1>0, <1>1 DEF RecordAttempt, GiveFeedback, RequestDeletion, FormCandidate, WriteMemory,
     FinishDeletion, PurgeModule, BreakOff
<1>2. ASSUME NEW h \in Handlers, DeleteFile(h) \/ DeleteDocument(h)
      PROVE  Goal
  BY <1>0, <1>2 DEF DeleteFile, DeleteDocument
<1>3. ASSUME NEW h \in Handlers, ClearTables(h)
      PROVE  Goal
  <2>1. handlers[h].deletion \in Deletions
    BY <1>3 DEF ClearTables, TypeInv, Coherent, Deleting
  <2>2. UNCHANGED <<files, external>> /\ (uploads' = uploads \/ DeleteRows(h))
    BY <1>3 DEF ClearTables
  <2>3. CASE uploads' = uploads
    BY <1>0, <2>2, <2>3
  <2>4. CASE DeleteRows(h)
    BY <1>0, <2>1, <2>2, <2>4, RowsDeleted
  <2>5. QED
    BY <2>2, <2>3, <2>4
<1>4. ASSUME NEW d \in Docs, Uploading(d)
      PROVE  Goal
  <2>1. d # k
    BY <1>0, <1>4, OneUpload
  <2>2. QED
    BY <1>0, <1>4, <2>1, OneUpload
<1>5. ASSUME Restart
      PROVE  Goal
  BY <1>0, <1>5, UploadsLost DEF Restart
<1>6. ASSUME \/ \E id \in Ids, s \in Scopes :
                   ForgetMemory(id, s) \/ \E record \in Corrections : CorrectMemory(id, record)
             \/ \E s \in Scopes : MergeMemories(s)
             \/ UNCHANGED vars
      PROVE  Goal
  BY <1>0, <1>6 DEF ForgetMemory, MergeMemories, CorrectMemory, localVars, vars
<1>7. Goal
  BY <1>1, <1>2, <1>3, <1>4, <1>5, <1>6 DEF Next, Work, Uploading
<1>8. QED
  BY <1>0, <1>7 DEF Settled

\* What once was there and is gone does not return.
LEMMA StaysGone ==
  ASSUME TypeInv, StoreInv, [Next]_vars, NEW k, k \in Owned \/ Settled(k)
  PROVE  /\ k \in Owned' \/ Settled(k)'
         /\ k \in Believed' => k \in Believed
         /\ k \in files' => k \in files
         /\ k \in (external \cap Linked)' => k \in external \cap Linked
<1>1. TypeInv'
  BY TypeInvNext
<1>2. [StoreNext]_memVars
  BY StepStores
<1>3. /\ Believed' \subseteq Conclusions
      /\ files' \subseteq Docs /\ external' \subseteq Docs
  <2>1. memories' \in [Ids -> Row \union {NoRow}]
    BY <1>1 DEF TypeInv, TypeOK, StoreTypeOK
  <2>2. ASSUME NEW i \in Ids, memories'[i].state = "active"
        PROVE  memories'[i].says \subseteq Conclusions
    BY <2>1, <2>2 DEF NoRow, Row
  <2>3. Believed' \subseteq Conclusions
    BY <2>2, BelievedNext
  <2>4. QED
    BY <1>1, <2>3 DEF TypeInv, TypeOK
<1>4. CASE k \in Owned
  <2>1. k \in Conclusions /\ k \notin Docs
    BY <1>4, LearnerAssumption DEF Owned
  <2>2. QED
    BY <1>2, <1>3, <1>4, <2>1, NotBelievedAnew
<1>5. CASE Settled(k)
  <2>1. k \in Docs /\ k \notin Conclusions
    BY <1>5, LearnerAssumption DEF Settled
  <2>2. k \in Linked' => k \in Linked
    BY <1>5, SettledStays DEF Linked
  <2>3. QED
    BY <1>3, <1>5, <2>1, <2>2, SettledStays
<1>6. QED
  BY <1>4, <1>5

\* A handler that has no part in the step.
LEMMA AccountsKept ==
  ASSUME TypeInv, StoreInv, [Next]_vars, NEW h \in Handlers, Accounts(h),
         handlers'[h] = handlers[h]
  PROVE  Accounts(h)'
<1>1. \A k \in handlers[h].before :
        /\ k \in Owned' \/ Settled(k)'
        /\ k \in Believed' => k \in Believed
        /\ k \in files' => k \in files
        /\ k \in (external \cap Linked)' => k \in external \cap Linked
  BY StaysGone DEF Accounts
<1>2. QED
  BY <1>1 DEF Accounts

\* A step in which h alone has a part.
LEMMA AccountsAfter ==
  ASSUME TypeInv, StoreInv, Accounting, [Next]_vars, NEW h \in Handlers,
         \A g \in Handlers \ {h} : handlers'[g] = handlers[g],
         handlers'[h].deletion # NoId => Deleting(h)',
         Deleting(h)' => Accounts(h)'
  PROVE  Accounting'
<1>1. ScopesFit'
  BY StepStores, StoreFits DEF TypeInv, TypeOK, Accounting
<1>2. ASSUME NEW g \in Handlers, handlers'[g].deletion # NoId
      PROVE  Deleting(g)'
  BY <1>2 DEF Accounting, Deleting
<1>3. ASSUME NEW g \in Handlers, Deleting(g)'
      PROVE  Accounts(g)'
  <2>1. CASE g = h
    BY <1>3, <2>1
  <2>2. CASE g # h
    <3>1. handlers'[g] = handlers[g] /\ Deleting(g)
      BY <1>3, <2>2 DEF Deleting
    <3>2. QED
      BY <3>1, AccountsKept DEF Accounting
  <2>3. QED
    BY <2>1, <2>2
<1>4. QED
  BY <1>1, <1>2, <1>3 DEF Accounting

\* Answers and feedback are no part of a deletion.
LEMMA AnsweringDeletesNothing ==
  ASSUME TypeInv, Accounting, NEW h \in Handlers,
         RecordAttempt(h) \/ GiveFeedback(h) \/ FormCandidate(h) \/ WriteMemory(h)
  PROVE  /\ \A g \in Handlers \ {h} : handlers'[g] = handlers[g]
         /\ handlers[h].deletion = NoId /\ ~Deleting(h)
         /\ handlers'[h].deletion = NoId /\ ~Deleting(h)'
         /\ UNCHANGED <<uploads, deletions, cutOff>>
<1>0. handlers \in [Handlers -> Handler] /\ handlers[h] \in Handler
  BY HandlerFields DEF TypeInv, TypeOK
<1>1. \A g \in Handlers \ {h} : handlers'[g] = handlers[g]
  BY <1>0 DEF RecordAttempt, GiveFeedback, FormCandidate, WriteMemory
<1>2. handlers[h].deletion = NoId /\ ~Deleting(h)
  BY IdleType DEF RecordAttempt, GiveFeedback, FormCandidate, WriteMemory, Accounting, Deleting,
     Idle
<1>3. handlers'[h].deletion = NoId /\ ~Deleting(h)'
  <2>1. CASE RecordAttempt(h)
    <3>1. PICK s \in Scopes, q \in Questions, correct \in BOOLEAN :
            /\ handlers[h] = Idle
            /\ handlers' = IF correct THEN handlers
                           ELSE [handlers EXCEPT ![h].pc = "remember",
                                    ![h].record = [scope |-> s, domain |-> q,
                                                   content |-> Misconception, refs |-> {}]]
      BY <2>1 DEF RecordAttempt
    <3>2. handlers'[h].deletion = NoId /\ handlers'[h].pc \in {"idle", "remember"}
      BY <1>0, <1>2, <3>1, IdleType DEF Handler
    <3>3. QED
      BY <3>2 DEF Deleting
  <2>2. CASE GiveFeedback(h)
    <3>1. PICK r : handlers' = [handlers EXCEPT ![h].pc = "write", ![h].record = r]
      BY <2>2 DEF GiveFeedback
    <3>2. handlers'[h].deletion = NoId /\ handlers'[h].pc = "write"
      BY <1>0, <1>2, <3>1 DEF Handler
    <3>3. QED
      BY <3>2 DEF Deleting
  <2>3. CASE FormCandidate(h)
    <3>1. \/ handlers'[h] = Idle
          \/ handlers'[h].deletion = NoId /\ handlers'[h].pc = "write"
      BY <1>0, <1>2, <2>3 DEF FormCandidate, Handler
    <3>2. QED
      BY <3>1 DEF Deleting, Idle
  <2>4. CASE WriteMemory(h)
    <3>1. handlers'[h] = Idle
      BY <1>0, <2>4 DEF WriteMemory
    <3>2. QED
      BY <3>1 DEF Deleting, Idle
  <2>5. QED
    BY <2>1, <2>2, <2>3, <2>4
<1>4. UNCHANGED <<uploads, deletions, cutOff>>
  BY DEF RecordAttempt, GiveFeedback, FormCandidate, WriteMemory
<1>5. QED
  BY <1>1, <1>2, <1>3, <1>4

LEMMA AnsweringAccounts ==
  ASSUME TypeInv, StoreInv, Accounting, NEW h \in Handlers,
         RecordAttempt(h) \/ GiveFeedback(h) \/ FormCandidate(h) \/ WriteMemory(h)
  PROVE  Accounting'
<1>1. [Next]_vars
  BY DEF Next, Work
<1>2. QED
  BY <1>1, AnsweringDeletesNothing, AccountsAfter

LEMMA RequestAccounts ==
  ASSUME TypeInv, StoreInv, Accounting, NEW h \in Handlers, RequestDeletion(h)
  PROVE  Accounting'
<1>0. [Next]_vars
  BY DEF Next
<1>1. PICK x \in Deletions : /\ handlers'[h] = Lists(x)
                             /\ \A g \in Handlers \ {h} : handlers'[g] = handlers[g]
  BY Requested
<1>2. /\ handlers'[h].pc = "clear" /\ handlers'[h].before = Believed \union Rows
      /\ handlers'[h].disk = Rows /\ handlers'[h].docs = Rows \cap Linked
  BY <1>1, ListsType
<1>3. UNCHANGED <<memories, keyOwner, uploads, external, files>>
  BY DEF RequestDeletion, memVars
<1>4. Owned' = Owned /\ Linked' = Linked /\ \A k \in Rows : Settled(k)'
  BY <1>3 DEF Owned, Linked, Rows, Settled
<1>5. Believed \subseteq Owned /\ Owned \cap Docs = {}
  BY LearnerAssumption DEF StoreInv, BelievedOwned, Owned
<1>6. files \subseteq Docs /\ external \subseteq Docs
  BY DEF TypeInv, TypeOK
<1>7. Accounts(h)'
  BY <1>2, <1>3, <1>4, <1>5, <1>6 DEF Accounts
<1>8. Deleting(h)'
  BY <1>2 DEF Deleting
<1>9. QED
  BY <1>0, <1>1, <1>7, <1>8, AccountsAfter

\* A request that ends leaves nothing to account for.
LEMMA EndAccounts ==
  ASSUME TypeInv, StoreInv, Accounting, [Next]_vars, NEW h \in Handlers,
         handlers' = [handlers EXCEPT ![h] = Idle]
  PROVE  Accounting'
<1>1. handlers'[h] = Idle /\ \A g \in Handlers \ {h} : handlers'[g] = handlers[g]
  BY DEF TypeInv, TypeOK
<1>2. handlers'[h].deletion = NoId /\ ~Deleting(h)'
  BY <1>1 DEF Idle, Deleting
<1>3. QED
  BY <1>1, <1>2, AccountsAfter

LEMMA ClearAccounts ==
  ASSUME TypeInv, StoreInv, Accounting, NEW h \in Handlers, ClearTables(h)
  PROVE  Accounting'
<1>0. [Next]_vars /\ handlers[h] \in Handler /\ Deleting(h) /\ handlers[h].pc = "clear"
  BY HandlerFields DEF Next, Work, TypeInv, ClearTables, Deleting
<1>1. CASE handlers' = [handlers EXCEPT ![h] = Idle]
  BY <1>0, <1>1, EndAccounts
<1>2. CASE handlers' = [handlers EXCEPT ![h].pc = "purge", ![h].modules = Scopes]
  <2>1. /\ handlers'[h].pc = "purge" /\ handlers'[h].modules = Scopes
        /\ handlers'[h].disk = handlers[h].disk /\ handlers'[h].docs = handlers[h].docs
        /\ handlers'[h].before = handlers[h].before /\ handlers'[h].errors = handlers[h].errors
        /\ \A g \in Handlers \ {h} : handlers'[g] = handlers[g]
    BY <1>0, <1>2 DEF TypeInv, TypeOK, Handler
  <2>2. Accounts(h)
    BY <1>0 DEF Accounting
  <2>3. Believed \subseteq Conclusions /\ \A k \in Conclusions : k[1] \in Scopes
    BY BelievedAreConclusions DEF TypeInv, TypeOK, Conclusions
  <2>4. \A k \in handlers[h].before :
          /\ k \in Owned' \/ Settled(k)'
          /\ k \in Believed' => k \in Believed
          /\ k \in files' => k \in files
          /\ k \in (external \cap Linked)' => k \in external \cap Linked
    BY <1>0, <2>2, StaysGone DEF Accounts
  <2>5. Accounts(h)'
    BY <2>1, <2>2, <2>3, <2>4 DEF Accounts
  <2>6. Deleting(h)'
    BY <2>1 DEF Deleting
  <2>7. QED
    BY <1>0, <2>1, <2>5, <2>6, AccountsAfter
<1>3. QED
  BY <1>1, <1>2 DEF ClearTables

\* What a purging handler takes off its lists.
LEMMA FilePurged ==
  ASSUME TypeInv, NEW h \in Handlers, DeleteFile(h)
  PROVE  \E f \in handlers[h].disk :
            /\ handlers[h].pc = "purge" /\ handlers'[h].pc = "purge"
            /\ handlers'[h].before = handlers[h].before
            /\ handlers'[h].deletion = handlers[h].deletion
            /\ handlers'[h].disk = handlers[h].disk \ {f} /\ handlers'[h].docs = handlers[h].docs
            /\ handlers'[h].modules = handlers[h].modules
            /\ handlers'[h].errors \/ (files' = files \ {f} /\ handlers'[h].errors = handlers[h].errors)
            /\ \A g \in Handlers \ {h} : handlers'[g] = handlers[g]
<1>0. handlers[h] \in Handler
  BY HandlerFields DEF TypeInv
<1>1. PICK f \in handlers[h].disk :
        /\ handlers[h].pc = "purge"
        /\ \/ /\ files' = files \ {f}
              /\ handlers' = [handlers EXCEPT ![h].disk = @ \ {f}]
           \/ handlers' = [handlers EXCEPT ![h].disk = @ \ {f}, ![h].errors = TRUE]
  BY DEF DeleteFile
<1>2. QED
  BY <1>0, <1>1 DEF TypeInv, TypeOK, Handler

LEMMA ModulePurged ==
  ASSUME TypeInv, NEW h \in Handlers, PurgeModule(h)
  PROVE  \E s \in handlers[h].modules :
            /\ handlers[h].pc = "purge" /\ handlers'[h].pc = "purge"
            /\ handlers'[h].before = handlers[h].before
            /\ handlers'[h].deletion = handlers[h].deletion
            /\ handlers'[h].disk = handlers[h].disk /\ handlers'[h].docs = handlers[h].docs
            /\ handlers'[h].modules = handlers[h].modules \ {s}
            /\ handlers'[h].errors \/ (PurgeScope(s) /\ handlers'[h].errors = handlers[h].errors)
            /\ \A g \in Handlers \ {h} : handlers'[g] = handlers[g]
<1>0. handlers[h] \in Handler
  BY HandlerFields DEF TypeInv
<1>1. PICK s \in handlers[h].modules :
        /\ handlers[h].pc = "purge"
        /\ \/ /\ PurgeScope(s)
              /\ handlers' = [handlers EXCEPT ![h].modules = @ \ {s}]
           \/ handlers' = [handlers EXCEPT ![h].modules = @ \ {s}, ![h].errors = TRUE]
  BY DEF PurgeModule
<1>2. QED
  BY <1>0, <1>1 DEF TypeInv, TypeOK, Handler

LEMMA DocumentPurged ==
  ASSUME TypeInv, NEW h \in Handlers, DeleteDocument(h)
  PROVE  \E d \in handlers[h].docs :
            /\ handlers[h].pc = "purge" /\ handlers'[h].pc = "purge"
            /\ handlers'[h].before = handlers[h].before
            /\ handlers'[h].deletion = handlers[h].deletion
            /\ handlers'[h].disk = handlers[h].disk /\ handlers'[h].docs = handlers[h].docs \ {d}
            /\ handlers'[h].modules = handlers[h].modules
            /\ \/ handlers'[h].errors
               \/ external' = external \ {d} /\ handlers'[h].errors = handlers[h].errors
            /\ \A g \in Handlers \ {h} : handlers'[g] = handlers[g]
<1>0. handlers[h] \in Handler
  BY HandlerFields DEF TypeInv
<1>1. PICK d \in handlers[h].docs :
        /\ handlers[h].pc = "purge"
        /\ \/ /\ external' = external \ {d}
              /\ handlers' = [handlers EXCEPT ![h].docs = @ \ {d}]
           \/ handlers' = [handlers EXCEPT ![h].docs = @ \ {d}, ![h].errors = TRUE]
  BY DEF DeleteDocument
<1>2. QED
  BY <1>0, <1>1 DEF TypeInv, TypeOK, Handler

\* A purging handler that takes one thing off its lists when it is gone.
LEMMA PurgingAccounts ==
  ASSUME TypeInv, StoreInv, Accounting, [Next]_vars, NEW h \in Handlers,
         handlers[h].pc = "purge", handlers'[h].pc = "purge",
         handlers'[h].before = handlers[h].before,
         \A g \in Handlers \ {h} : handlers'[g] = handlers[g],
         \/ handlers'[h].errors
         \/ /\ handlers'[h].errors = handlers[h].errors
            /\ \A k \in handlers[h].before :
                 /\ k[1] \in handlers[h].modules /\ k \in Believed' =>
                        k[1] \in handlers'[h].modules
                 /\ k \in handlers[h].disk /\ k \in files' => k \in handlers'[h].disk
                 /\ k \in handlers[h].docs /\ k \in external' => k \in handlers'[h].docs
  PROVE  Accounting'
<1>1. Deleting(h) /\ Accounts(h) /\ Deleting(h)'
  BY DEF Deleting, Accounting
<1>2. \A k \in handlers[h].before :
        /\ k \in Owned' \/ Settled(k)'
        /\ k \in Believed' => k \in Believed
        /\ k \in files' => k \in files
        /\ k \in (external \cap Linked)' => k \in external \cap Linked
  BY <1>1, StaysGone DEF Accounts
<1>3. Accounts(h)'
  BY <1>1, <1>2 DEF Accounts
<1>4. QED
  BY <1>1, <1>3, AccountsAfter

LEMMA PurgeAccounts ==
  ASSUME TypeInv, StoreInv, Accounting, NEW h \in Handlers,
         DeleteFile(h) \/ PurgeModule(h) \/ DeleteDocument(h)
  PROVE  Accounting'
<1>0. [Next]_vars
  BY DEF Next, Work
<1>1. CASE DeleteFile(h)
  BY <1>0, <1>1, FilePurged, PurgingAccounts
<1>2. CASE PurgeModule(h)
  <2>1. \A s : PurgeScope(s) => \A k \in Believed' : k[1] # s
    BY PurgedScope DEF TypeInv, TypeOK, Accounting
  <2>2. QED
    BY <1>0, <1>2, <2>1, ModulePurged, PurgingAccounts
<1>3. CASE DeleteDocument(h)
  BY <1>0, <1>3, DocumentPurged, PurgingAccounts
<1>4. QED
  BY <1>1, <1>2, <1>3

LEMMA AccountingNext == TypeInv /\ StoreInv /\ Accounting /\ [Next]_vars => Accounting'
<1> SUFFICES ASSUME TypeInv, StoreInv, Accounting, [Next]_vars
             PROVE  Accounting'
  OBVIOUS
<1>0. ScopesFit'
  BY StepStores, StoreFits DEF TypeInv, TypeOK, Accounting
<1>1. ASSUME \/ \E id \in Ids, s \in Scopes :
                   ForgetMemory(id, s) \/ \E record \in Corrections : CorrectMemory(id, record)
             \/ \E s \in Scopes : MergeMemories(s)
             \/ \E d \in Docs : Uploading(d)
             \/ UNCHANGED vars
      PROVE  Accounting'
  <2>1. UNCHANGED handlers
    BY <1>1, OneUpload DEF ForgetMemory, MergeMemories, CorrectMemory, localVars, vars
  <2>2. ASSUME NEW g \in Handlers
        PROVE  /\ handlers'[g].deletion # NoId => Deleting(g)'
               /\ Deleting(g)' => Accounts(g)'
    BY <2>1, AccountsKept DEF Accounting, Deleting
  <2>3. QED
    BY <1>0, <2>2 DEF Accounting
<1>2. CASE Restart
  <2>1. \A g \in Handlers : handlers'[g].deletion = NoId /\ ~Deleting(g)'
    BY <1>2 DEF Restart, Idle, Deleting
  <2>2. QED
    BY <1>0, <2>1 DEF Accounting
<1>3. ASSUME NEW h \in Handlers, FinishDeletion(h) \/ BreakOff(h)
      PROVE  Accounting'
  BY <1>3, EndAccounts DEF FinishDeletion, BreakOff
<1>4. QED
  BY <1>1, <1>2, <1>3, AnsweringAccounts, RequestAccounts, ClearAccounts, PurgeAccounts
     DEF Next, Work, Uploading

LEMMA AccountingInit == Init => Accounting
<1> SUFFICES ASSUME Init  PROVE Accounting
  OBVIOUS
<1>1. ScopesFit
  BY DEF Init, StoreInit, ScopesFit, Active, NoRow
<1>2. \A h \in Handlers : handlers[h].deletion = NoId /\ ~Deleting(h)
  BY DEF Init, Idle, Deleting
<1>3. QED
  BY <1>1, <1>2 DEF Init, Accounting

\* A deletion is completed by the handler that works on it, when its lists are
\* empty and no error is noted.
LEMMA CompletedByItsHandler ==
  ASSUME TypeInv, [Next]_vars, NEW x \in Deletions,
         deletions[x] # "completed", deletions'[x] = "completed"
  PROVE  \E g \in Handlers : /\ FinishDeletion(g) /\ Deleting(g)
                             /\ handlers[g].deletion = x /\ ~handlers[g].errors
<1>0. deletions \in [Deletions -> DeletionStatuses]
  BY DEF TypeInv, TypeOK
<1>1. ASSUME NEW g \in Handlers, FinishDeletion(g)
      PROVE  Deleting(g) /\ handlers[g].deletion = x /\ ~handlers[g].errors
  <2>1. Deleting(g)
    BY <1>1 DEF FinishDeletion, Deleting
  <2>2. handlers[g].deletion = x
    BY <1>0, <1>1 DEF FinishDeletion
  <2>3. ~handlers[g].errors
    BY <1>0, <1>1, <2>2 DEF FinishDeletion
  <2>4. QED
    BY <2>1, <2>2, <2>3
<1>2. ASSUME NEW g \in Handlers, RequestDeletion(g) \/ ClearTables(g) \/ BreakOff(g)
      PROVE  FALSE
  BY <1>0, <1>2 DEF RequestDeletion, ClearTables, BreakOff
<1>3. ASSUME NEW g \in Handlers,
             RecordAttempt(g) \/ GiveFeedback(g) \/ FormCandidate(g) \/ WriteMemory(g)
               \/ DeleteFile(g) \/ PurgeModule(g) \/ DeleteDocument(g)
      PROVE  FALSE
  BY <1>3 DEF RecordAttempt, GiveFeedback, FormCandidate, WriteMemory, DeleteFile, PurgeModule,
     DeleteDocument
<1>4. ASSUME \/ \E id \in Ids, s \in Scopes :
                   ForgetMemory(id, s) \/ \E record \in Corrections : CorrectMemory(id, record)
             \/ \E s \in Scopes : MergeMemories(s)
             \/ \E d \in Docs : Uploading(d)
             \/ Restart \/ UNCHANGED vars
      PROVE  FALSE
  BY <1>4, OneUpload DEF ForgetMemory, MergeMemories, CorrectMemory, localVars, vars, Restart
<1>5. QED
  BY <1>1, <1>2, <1>3, <1>4 DEF Next, Work, Uploading

\* What the handler of a deletion found at its start is gone when it says so.
LEMMA CompletedLeaves ==
  ASSUME TypeInv, StoreInv, Accounting, [Next]_vars, NEW h \in Handlers, Deleting(h),
         deletions[handlers[h].deletion] # "completed",
         deletions'[handlers[h].deletion] = "completed", NEW k \in handlers[h].before
  PROVE  k \notin (Believed \union files \union (external \cap Linked))'
<1>1. handlers[h].deletion \in Deletions
  BY DEF TypeInv, Coherent
<1>2. PICK g \in Handlers : /\ FinishDeletion(g) /\ Deleting(g)
                            /\ handlers[g].deletion = handlers[h].deletion /\ ~handlers[g].errors
  BY <1>1, CompletedByItsHandler
<1>3. g = h
  BY <1>1, <1>2 DEF TypeInv, Coherent
<1>4. /\ handlers[h].pc = "purge" /\ handlers[h].disk = {} /\ handlers[h].modules = {}
      /\ handlers[h].docs = {} /\ ~handlers[h].errors
  BY <1>2, <1>3 DEF FinishDeletion
<1>5. Accounts(h)
  BY DEF Accounting
<1>6. k \notin Believed /\ k \notin external \cap Linked /\ k \notin files
  BY <1>4, <1>5 DEF Accounts
<1>7. QED
  BY <1>5, <1>6, StaysGone DEF Accounts

-----------------------------------------------------------------------------
(* What a deletion has deleted, and who works on it.                       *)

\* How a step leaves the deletion that a handler works on.
GoesOn(h) ==
    LET v == handlers[h] w == handlers'[h]
    IN /\ Deleting(h)' => \/ /\ Deleting(h) /\ w.deletion = v.deletion /\ w.before = v.before
                          \/ RequestDeletion(h)
       /\ Deleting(h) => \/ w.deletion = v.deletion
                         \/ v.deletion \in cutOff'
                         \/ deletions'[v.deletion] # "processing"

LEMMA DeletionsGoOn ==
  ASSUME TypeInv, Accounting, [Next]_vars
  PROVE  \A h \in Handlers : GoesOn(h)
<1>1. ASSUME NEW g \in Handlers,
             RecordAttempt(g) \/ GiveFeedback(g) \/ FormCandidate(g) \/ WriteMemory(g)
      PROVE  \A h \in Handlers : GoesOn(h)
  BY <1>1, AnsweringDeletesNothing DEF GoesOn, Deleting
<1>2. ASSUME NEW g \in Handlers, RequestDeletion(g)
      PROVE  \A h \in Handlers : GoesOn(h)
  <2>1. handlers[g] = Idle /\ \A h \in Handlers \ {g} : handlers'[h] = handlers[h]
    BY <1>2, Requested
  <2>2. QED
    BY <1>2, <2>1, IdleType DEF GoesOn, Deleting
<1>3. ASSUME NEW g \in Handlers, DeleteFile(g) \/ PurgeModule(g) \/ DeleteDocument(g)
      PROVE  \A h \in Handlers : GoesOn(h)
  <2>1. /\ handlers[g].pc = "purge" /\ handlers'[g].pc = "purge"
        /\ handlers'[g].before = handlers[g].before
        /\ handlers'[g].deletion = handlers[g].deletion
        /\ \A h \in Handlers \ {g} : handlers'[h] = handlers[h]
    BY <1>3, FilePurged, ModulePurged, DocumentPurged
  <2>2. QED
    BY <2>1 DEF GoesOn, Deleting
<1>4. ASSUME NEW g \in Handlers, ClearTables(g) \/ FinishDeletion(g) \/ BreakOff(g)
      PROVE  \A h \in Handlers : GoesOn(h)
  <2>1. /\ handlers[g] \in Handler /\ Deleting(g)
        /\ handlers[g].deletion \in Deletions /\ deletions \in [Deletions -> DeletionStatuses]
    BY <1>4, HandlerFields DEF ClearTables, FinishDeletion, BreakOff, TypeInv, TypeOK, Coherent,
       Deleting
  <2>2. \A h \in Handlers \ {g} : handlers'[h] = handlers[h]
    BY <1>4 DEF ClearTables, FinishDeletion, BreakOff, TypeInv, TypeOK
  <2>3. \/ /\ handlers'[g].deletion = handlers[g].deletion
           /\ handlers'[g].before = handlers[g].before
        \/ /\ handlers'[g] = Idle
           /\ handlers[g].deletion \in cutOff' \/ deletions'[handlers[g].deletion] # "processing"
    <3>1. CASE ClearTables(g)
      BY <2>1, <3>1 DEF ClearTables, TypeInv, TypeOK, Handler
    <3>2. CASE FinishDeletion(g)
      BY <2>1, <3>2 DEF FinishDeletion, TypeInv, TypeOK
    <3>3. CASE BreakOff(g)
      BY <2>1, <3>3 DEF BreakOff, TypeInv, TypeOK
    <3>4. QED
      BY <1>4, <3>1, <3>2, <3>3
  <2>4. GoesOn(g)
    BY <2>1, <2>3, IdleType DEF GoesOn, Deleting
  <2>5. QED
    BY <2>2, <2>4 DEF GoesOn, Deleting
<1>5. CASE Restart
  <2>1. \A h \in Handlers : Deleting(h) => handlers[h].deletion \in Deletions
    BY DEF TypeInv, Coherent
  <2>2. \A h \in Handlers : handlers'[h] = Idle /\ (Deleting(h) => handlers[h].deletion \in cutOff')
    BY <1>5, <2>1, LearnerAssumption DEF Restart
  <2>3. QED
    BY <2>2, IdleType DEF GoesOn, Deleting
<1>6. ASSUME \/ \E id \in Ids, s \in Scopes :
                   ForgetMemory(id, s) \/ \E record \in Corrections : CorrectMemory(id, record)
             \/ \E s \in Scopes : MergeMemories(s)
             \/ \E d \in Docs : Uploading(d)
             \/ UNCHANGED vars
      PROVE  \A h \in Handlers : GoesOn(h)
  <2>1. UNCHANGED handlers
    BY <1>6, OneUpload DEF ForgetMemory, MergeMemories, CorrectMemory, localVars, vars
  <2>2. QED
    BY <2>1 DEF GoesOn, Deleting
<1>7. QED
  BY <1>1, <1>2, <1>3, <1>4, <1>5, <1>6 DEF Next, Work, Uploading

\* A job is opened by a request, and no step forgets it.
LEMMA JobsStay ==
  ASSUME TypeInv, [Next]_vars, NEW x \in Deletions
  PROVE  /\ deletions[x] # "none" => deletions'[x] # "none"
         /\ \/ deletions[x] = "processing" \/ deletions'[x] # "processing"
            \/ \E h \in Handlers : handlers'[h].deletion = x
         /\ cutOff \subseteq cutOff'
<1> DEFINE Goal == /\ deletions[x] # "none" => deletions'[x] # "none"
                   /\ \/ deletions[x] = "processing" \/ deletions'[x] # "processing"
                      \/ \E h \in Handlers : handlers'[h].deletion = x
                   /\ cutOff \subseteq cutOff'
<1>0. deletions \in [Deletions -> DeletionStatuses]
  BY DEF TypeInv, TypeOK
<1>1. ASSUME NEW h \in Handlers, RequestDeletion(h)
      PROVE  Goal
  <2>1. PICK y \in Deletions : /\ deletions' = [deletions EXCEPT ![y] = "processing"]
                               /\ handlers'[h] = Lists(y)
    BY <1>1, Requested
  <2>2. handlers'[h].deletion = y /\ cutOff' = cutOff
    BY <1>1, <2>1, ListsType DEF RequestDeletion
  <2>3. deletions'[x] = IF x = y THEN "processing" ELSE deletions[x]
    BY <1>0, <2>1
  <2>4. QED
    BY <2>2, <2>3
<1>2. ASSUME NEW h \in Handlers, ClearTables(h) \/ FinishDeletion(h) \/ BreakOff(h)
      PROVE  Goal
  BY <1>0, <1>2 DEF ClearTables, FinishDeletion, BreakOff
<1>3. ASSUME NEW g \in Handlers,
             RecordAttempt(g) \/ GiveFeedback(g) \/ FormCandidate(g) \/ WriteMemory(g)
               \/ DeleteFile(g) \/ PurgeModule(g) \/ DeleteDocument(g)
      PROVE  deletions' = deletions /\ cutOff' = cutOff
  BY <1>3 DEF RecordAttempt, GiveFeedback, FormCandidate, WriteMemory, DeleteFile, PurgeModule,
     DeleteDocument
<1>4. ASSUME \/ \E id \in Ids, s \in Scopes :
                   ForgetMemory(id, s) \/ \E record \in Corrections : CorrectMemory(id, record)
             \/ \E s \in Scopes : MergeMemories(s)
             \/ \E d \in Docs : Uploading(d)
             \/ Restart \/ UNCHANGED vars
      PROVE  deletions' = deletions /\ cutOff \subseteq cutOff'
  BY <1>4, OneUpload DEF ForgetMemory, MergeMemories, CorrectMemory, localVars, vars, Restart
<1>5. QED
  BY <1>1, <1>2, <1>3, <1>4 DEF Next, Work, Uploading

LEMMA OpenJobsNext ==
  ASSUME TypeInv, Accounting, OpenJobsAreWorkedOn, [Next]_vars
  PROVE  OpenJobsAreWorkedOn'
<1> SUFFICES ASSUME NEW x \in Deletions, deletions'[x] = "processing", x \notin cutOff'
             PROVE  \E h \in Handlers : handlers'[h].deletion = x
  BY DEF OpenJobsAreWorkedOn
<1>1. CASE deletions[x] # "processing"
  BY <1>1, JobsStay
<1>2. CASE deletions[x] = "processing"
  <2>1. PICK h \in Handlers : handlers[h].deletion = x
    BY <1>2, JobsStay DEF OpenJobsAreWorkedOn
  <2>2. x # NoId
    BY LearnerAssumption
  <2>3. Deleting(h) /\ GoesOn(h)
    BY <2>1, <2>2, DeletionsGoOn DEF Accounting
  <2>4. QED
    BY <2>1, <2>3 DEF GoesOn
<1>3. QED
  BY <1>1, <1>2

\* Where a row comes to name the deletion that deleted it.
LEMMA DeletedBy ==
  ASSUME TypeInv, [Next]_vars, NEW d \in Docs, uploads[d].state # "deleted", uploads[d].by = NoId,
         uploads'[d].by # NoId
  PROVE  /\ uploads'[d].state = "deleted"
         /\ \E h \in Handlers : /\ ClearTables(h) /\ d \in handlers[h].disk
                                /\ uploads'[d].by = handlers[h].deletion
<1>1. ASSUME NEW h \in Handlers,
             \/ RecordAttempt(h) \/ GiveFeedback(h) \/ RequestDeletion(h) \/ FormCandidate(h)
             \/ WriteMemory(h) \/ FinishDeletion(h) \/ PurgeModule(h) \/ BreakOff(h)
             \/ DeleteFile(h) \/ DeleteDocument(h)
      PROVE  FALSE
  BY <1>1 DEF RecordAttempt, GiveFeedback, RequestDeletion, FormCandidate, WriteMemory,
     FinishDeletion, PurgeModule, BreakOff, DeleteFile, DeleteDocument
<1>2. ASSUME NEW h \in Handlers, ClearTables(h)
      PROVE  /\ uploads'[d].state = "deleted" /\ d \in handlers[h].disk
             /\ uploads'[d].by = handlers[h].deletion
  <2>1. handlers[h].deletion \in Deletions
    BY <1>2 DEF ClearTables, TypeInv, Coherent, Deleting
  <2>2. DeleteRows(h)
    BY <1>2 DEF ClearTables
  <2>3. QED
    BY <2>1, <2>2, RowsDeleted
<1>3. ASSUME NEW e \in Docs, Uploading(e)
      PROVE  FALSE
  BY <1>3, OneUpload
<1>4. CASE Restart
  BY <1>4, UploadsLost
<1>5. ASSUME \/ \E id \in Ids, s \in Scopes :
                   ForgetMemory(id, s) \/ \E record \in Corrections : CorrectMemory(id, record)
             \/ \E s \in Scopes : MergeMemories(s)
             \/ UNCHANGED vars
      PROVE  FALSE
  BY <1>5 DEF ForgetMemory, MergeMemories, CorrectMemory, localVars, vars
<1>6. QED
  BY <1>1, <1>2, <1>3, <1>4, <1>5 DEF Next, Work, Uploading

\* A row that a deletion deleted was there when it began, and what belongs to it
\* is gone when the deletion says so.
Claim(d) ==
    LET x == uploads[d].by
    IN /\ uploads[d].state = "deleted" /\ deletions[x] # "none"
       /\ \A h \in Handlers : Deleting(h) /\ handlers[h].deletion = x => d \in handlers[h].before
       /\ deletions[x] = "completed" => d \notin files /\ d \notin external \cap Linked

Claims == \A d \in Docs : uploads[d].by # NoId => Claim(d)

LEMMA ClaimsMean == Claims => OrphansReported
  BY DEF Claims, Claim, OrphansReported

LEMMA ClaimStays ==
  ASSUME TypeInv, StoreInv, Accounting, [Next]_vars,
         NEW d \in Docs, uploads[d].by # NoId, Claim(d)
  PROVE  Claim(d)'
<1> DEFINE x == uploads[d].by
<1>1. x \in Deletions
  BY DEF TypeInv, TypeOK, Upload
<1>2. Settled(d) /\ uploads'[d] = uploads[d]
  BY SettledStays DEF Claim, Settled
<1>3. deletions[x] # "none" /\ deletions'[x] # "none"
  BY <1>1, JobsStay DEF Claim
<1>4. ASSUME NEW h \in Handlers, Deleting(h)', handlers'[h].deletion = x
      PROVE  d \in handlers'[h].before
  <2>1. CASE RequestDeletion(h)
    <3>1. PICK y \in Deletions : deletions[y] = "none" /\ handlers'[h] = Lists(y)
      BY <2>1, Requested
    <3>2. QED
      BY <1>3, <1>4, <3>1, ListsType
  <2>2. CASE ~RequestDeletion(h)
    <3>1. /\ Deleting(h) /\ handlers'[h].deletion = handlers[h].deletion
          /\ handlers'[h].before = handlers[h].before
      BY <1>4, <2>2, DeletionsGoOn DEF GoesOn
    <3>2. QED
      BY <1>4, <3>1 DEF Claim
  <2>3. QED
    BY <2>1, <2>2
<1>5. ASSUME deletions'[x] = "completed"
      PROVE  d \notin files' /\ d \notin (external \cap Linked)'
  <2>1. CASE deletions[x] = "completed"
    BY <2>1, <1>2, StaysGone DEF Claim
  <2>2. CASE deletions[x] # "completed"
    <3>1. PICK g \in Handlers : Deleting(g) /\ handlers[g].deletion = x
      BY <1>1, <1>5, <2>2, CompletedByItsHandler
    <3>2. d \in handlers[g].before
      BY <3>1 DEF Claim
    <3>3. QED
      BY <1>5, <2>2, <3>1, <3>2, CompletedLeaves
  <2>3. QED
    BY <2>1, <2>2
<1>6. QED
  BY <1>2, <1>3, <1>4, <1>5 DEF Claim

LEMMA ClaimMade ==
  ASSUME TypeInv, StoreInv, Accounting, [Next]_vars,
         NEW d \in Docs, uploads[d].state # "deleted", uploads[d].by = NoId, uploads'[d].by # NoId
  PROVE  Claim(d)'
<1>1. PICK h \in Handlers : /\ uploads'[d].state = "deleted" /\ ClearTables(h)
                            /\ d \in handlers[h].disk /\ uploads'[d].by = handlers[h].deletion
  BY DeletedBy
<1> DEFINE x == handlers[h].deletion
<1>2. /\ handlers[h] \in Handler /\ handlers[h].pc = "clear" /\ Deleting(h)
      /\ x \in Deletions /\ deletions[x] = "processing"
  BY <1>1, HandlerFields DEF ClearTables, TypeInv, Coherent, Deleting
<1>3. d \in handlers[h].before
  BY <1>1, <1>2 DEF Accounting, Accounts
<1>4. deletions'[x] \notin {"none", "completed"}
  BY <1>1, <1>2 DEF ClearTables, TypeInv, TypeOK
<1>5. ASSUME NEW g \in Handlers, Deleting(g)', handlers'[g].deletion = x
      PROVE  d \in handlers'[g].before
  <2>1. CASE g = h
    BY <1>1, <1>2, <1>3, <1>5, <2>1, IdleType DEF ClearTables, TypeInv, TypeOK, Handler, Deleting
  <2>2. CASE g # h
    <3>1. handlers'[g] = handlers[g]
      BY <1>1, <2>2 DEF ClearTables, TypeInv, TypeOK
    <3>2. Deleting(g) /\ handlers[g].deletion = x
      BY <1>5, <3>1 DEF Deleting
    <3>3. QED
      BY <1>2, <2>2, <3>2 DEF TypeInv, Coherent
  <2>3. QED
    BY <2>1, <2>2
<1>6. QED
  BY <1>1, <1>4, <1>5 DEF Claim

LEMMA ClaimsNext ==
  ASSUME TypeInv, StoreInv, Accounting, Claims, [Next]_vars
  PROVE  Claims'
<1> SUFFICES ASSUME NEW d \in Docs, uploads'[d].by # NoId  PROVE Claim(d)'
  BY DEF Claims
<1>1. CASE uploads[d].by # NoId
  BY <1>1, ClaimStays DEF Claims
<1>2. CASE uploads[d].by = NoId
  <2>1. CASE uploads[d].state = "deleted"
    <3>1. uploads'[d] = uploads[d]
      BY <2>1, SettledStays DEF Settled
    <3>2. QED
      BY <1>2, <3>1
  <2>2. CASE uploads[d].state # "deleted"
    BY <1>2, <2>2, ClaimMade
  <2>3. QED
    BY <2>1, <2>2
<1>3. QED
  BY <1>1, <1>2

-----------------------------------------------------------------------------
(* The theorems.                                                           *)

IInv == TypeInv /\ StoreInv /\ Grounded /\ Accounting /\ Claims /\ OpenJobsAreWorkedOn

LEMMA IInvInit == Init => IInv
<1> SUFFICES ASSUME Init  PROVE IInv
  OBVIOUS
<1>1. TypeInv /\ StoreInv
  BY TypeInvInit, StoreInvInit DEF Init
<1>2. Believed = {}
  BY BelievedIs DEF Init, StoreInit, Active, NoRow
<1>3. Grounded
  BY <1>2, IdleType DEF Init, Grounded
<1>4. Accounting /\ Claims /\ OpenJobsAreWorkedOn
  BY AccountingInit DEF Init, Claims, NoUpload, OpenJobsAreWorkedOn
<1>5. QED
  BY <1>1, <1>3, <1>4 DEF IInv

LEMMA IInvNext == IInv /\ [Next]_vars => IInv'
<1> SUFFICES ASSUME IInv, [Next]_vars  PROVE IInv'
  OBVIOUS
<1>1. TypeInv' /\ Grounded' /\ Accounting' /\ Claims' /\ OpenJobsAreWorkedOn'
  BY TypeInvNext, GroundedNext, AccountingNext, ClaimsNext, OpenJobsNext DEF IInv
<1>2. StoreInv'
  BY StepStores, StoreInvNext DEF IInv
<1>3. QED
  BY <1>1, <1>2 DEF IInv

\* Every table and every handler keeps its type.
THEOREM DataTypes == Spec => []TypeOK
<1>1. IInv => TypeOK
  BY DEF IInv, TypeInv
<1>2. QED
  BY <1>1, IInvInit, IInvNext, PTL DEF Spec

\* Whatever learners, their feedback, their corrections and their deletions do
\* to the store, what was merged stays traceable.
THEOREM DataTraces == Spec => []MergesTraceable
<1>1. IInv => MergesTraceable
  BY DEF IInv, StoreInv
<1>2. QED
  BY <1>1, IInvInit, IInvNext, PTL DEF Spec

\* A misconception that is believed rests on two mistakes on record, as long as
\* no deletion was asked for.
THEOREM MisconceptionsRest == Spec => []MisconceptionsGrounded
<1>1. IInv => MisconceptionsGrounded
  BY GroundedMeans DEF IInv
<1>2. QED
  BY <1>1, IInvInit, IInvNext, PTL DEF Spec

\* A deletion that says completed has left neither the file nor the document of
\* a row that it listed and deleted, however deletions, uploads and restarts
\* overlap (request_user_data_deletion).
THEOREM OrphansAreReported == Spec => []OrphansReported
<1>1. IInv => OrphansReported
  BY ClaimsMean DEF IInv
<1>2. QED
  BY <1>1, IInvInit, IInvNext, PTL DEF Spec

\* Only a restart, or a database that refuses to record the failure, leaves a
\* deletion job open that no request works on.
THEOREM OpenJobsHaveWorkers == Spec => []OpenJobsAreWorkedOn
<1>1. IInv => OpenJobsAreWorkedOn
  BY DEF IInv
<1>2. QED
  BY <1>1, IInvInit, IInvNext, PTL DEF Spec

\* The long-term memory of a learner keeps its promise under every handler,
\* outage and restart: what was withdrawn is never believed again.
THEOREM DataKeepsPromise == Spec => PromiseSpec
<1>1. Init => Promise!Init
  BY PromiseStarts DEF Init
<1>2. IInv /\ [Next]_vars => [Promise!Next]_<<Believed, Withdrawn>>
  BY StepStores, StorePromises DEF IInv
<1>3. QED
  BY <1>1, <1>2, IInvInit, IInvNext, PTL DEF Spec, PromiseSpec, Promise!Spec

\* A deletion that says completed has left none of the conclusions, files and
\* documents it found at its start, whatever was learned, merged, uploaded,
\* restarted or deleted by another meanwhile (request_user_data_deletion).
THEOREM CompletedLeavesNothing == Spec => CompletedMeansGone
<1>1. IInv /\ [Next]_vars =>
        [\A h \in Handlers :
            /\ handlers[h].deletion # NoId
            /\ deletions[handlers[h].deletion] = "processing"
            /\ deletions'[handlers[h].deletion] = "completed"
            => \A k \in handlers[h].before :
                  k \notin (Believed \union files \union (external \cap Linked))'
        ]_vars
  <2>1. ASSUME IInv, [Next]_vars, NEW h \in Handlers, handlers[h].deletion # NoId,
               deletions[handlers[h].deletion] = "processing",
               deletions'[handlers[h].deletion] = "completed", NEW k \in handlers[h].before
        PROVE  k \notin (Believed \union files \union (external \cap Linked))'
    <3>1. Deleting(h)
      BY <2>1 DEF IInv, Accounting
    <3>2. QED
      BY <2>1, <3>1, CompletedLeaves DEF IInv
  <2>2. QED
    BY <2>1
<1>2. QED
  BY <1>1, IInvInit, IInvNext, PTL DEF Spec, CompletedMeansGone
============================================================================
