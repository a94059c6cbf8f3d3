----------------------------- MODULE SimpleMem -----------------------------
(***************************************************************************)
(* The store of the SimpleMem service: one SQLite database, every endpoint *)
(* one transaction begun with BEGIN IMMEDIATE, so an endpoint is an atomic *)
(* step.  A record carries a conclusion about a domain (the question that  *)
(* is misunderstood, the preference, the intervention); its conflict key   *)
(* names scope and domain, its idempotency key the conclusion as well.     *)
(* Rows are never removed: they are merged or deleted.                     *)
(***************************************************************************)
EXTENDS Naturals, FiniteSets

CONSTANTS
    Ids,        \* memory ids
    NoId,
    Scopes,     \* organization, user, program and module
    Domains,
    Contents,
    Groups,     \* memory type and knowledge point
    GroupOf,    \* the group of a domain
    Refs        \* references to evidence

ASSUME SimpleMemAssumption ==
    /\ NoId \notin Ids
    /\ GroupOf \in [Domains -> Groups]

VARIABLES
    memories,  \* table memories
    keyOwner   \* table memory_idempotency_keys

memVars == <<memories, keyOwner>>

Conclusions == Scopes \X Domains \X Contents

\* A record as the policy builds it; its idempotency key is the conclusion.
Record == [scope : Scopes, domain : Domains, content : Contents, refs : SUBSET Refs]
Key(record) == <<record.scope, record.domain, record.content>>

\* merged: the sources of a consolidated memory, {} otherwise.  A memory has
\* the key of its conclusion, or one drawn from its sources.
Row == [state : {"active", "merged", "deleted"}, scope : Scopes, group : Groups,
        says : SUBSET Conclusions, merged : SUBSET Ids,
        refs : SUBSET Refs, into : Ids \union {NoId}]
NoRow == [state |-> "none"]

Stored(id) == memories[id] # NoRow
Active(id) == memories[id].state = "active"
ActiveIn(scope) == {id \in Ids : Active(id) /\ memories[id].scope = scope}

\* The row holds this conclusion as its own, not as the sum of its sources.
Holds(id, key) == Active(id) /\ memories[id].merged = {} /\ memories[id].says = {key}

\* Active memories with the conflict key of the record.
Rivals(record) ==
    {id \in ActiveIn(record.scope) :
        /\ memories[id].merged = {}
        /\ \E c \in Contents : <<record.scope, record.domain, c>> \in memories[id].says}

\* A memory id is drawn at random and never drawn again.
Unused == {id \in Ids : ~Stored(id)}
NewId == CHOOSE id \in Unused : TRUE

RowOf(record) ==
    [state |-> "active", scope |-> record.scope, group |-> GroupOf[record.domain],
     says |-> {Key(record)}, merged |-> {}, refs |-> record.refs, into |-> NoId]

-----------------------------------------------------------------------------
(* POST /v1/memories.                                                      *)

UpsertCreates(record) ==
    /\ keyOwner[Key(record)] = NoId
    /\ Rivals(record) = {}
    /\ Unused # {}
    /\ memories' = [memories EXCEPT ![NewId] = RowOf(record)]
    /\ keyOwner' = [keyOwner EXCEPT ![Key(record)] = NewId]

\* The key is current for an active memory: "updated", or "unchanged".
UpsertUpdates(record) ==
    /\ keyOwner[Key(record)] # NoId
    /\ Holds(keyOwner[Key(record)], Key(record))
    /\ memories' = [memories EXCEPT ![keyOwner[Key(record)]].refs = record.refs]
    /\ UNCHANGED keyOwner

\* "conflict", or 409 for a key of an inactive memory or a superseded one.
UpsertRefused(record) ==
    /\ IF keyOwner[Key(record)] = NoId
       THEN Rivals(record) # {}
       ELSE ~Holds(keyOwner[Key(record)], Key(record))
    /\ UNCHANGED memVars

-----------------------------------------------------------------------------
(* Changing, deleting and merging.                                         *)

\* Mutant of Authorized: the state is not looked at.
Authorized_AnyState(id, scope) == Stored(id) /\ memories[id].scope = scope

\* _authorized_row: the memory is active and belongs to exactly this scope.
Authorized(id, scope) == id \in ActiveIn(scope)

\* Mutant of UpdateAllowed: a key the memory had before may return.
UpdateAllowed_OldKey(id, record) ==
    /\ Authorized(id, record.scope)
    /\ keyOwner[Key(record)] \in {NoId, id}
    /\ Rivals(record) \ {id} = {}

\* PATCH /v1/memories/{id}: the record replaces the row, its key is added to
\* the keys the memory ever had.
UpdateAllowed(id, record) ==
    /\ Authorized(id, record.scope)
    /\ \/ keyOwner[Key(record)] = NoId
       \/ keyOwner[Key(record)] = id /\ Holds(id, Key(record))
    /\ Rivals(record) \ {id} = {}

Update(id, record) ==
    /\ UpdateAllowed(id, record)
    /\ memories' = [memories EXCEPT ![id] = RowOf(record)]
    /\ keyOwner' = [keyOwner EXCEPT ![Key(record)] = id]

Delete(id, scope) ==
    /\ Authorized(id, scope)
    /\ memories' = [memories EXCEPT ![id].state = "deleted"]
    /\ UNCHANGED keyOwner

\* DELETE /v1/memories/scope, for the deletion of a learner's data.
PurgeScope(scope) ==
    /\ memories' = [id \in Ids |->
          IF id \in ActiveIn(scope) THEN [memories[id] EXCEPT !.state = "deleted"]
          ELSE memories[id]]
    /\ UNCHANGED keyOwner

Together(scope, g) == {id \in ActiveIn(scope) : memories[id].group = g}

\* POST /v1/memories/consolidate merges the largest group of two or more.
\* The limit of 20 sources is beyond the number of ids.
Consolidate(scope) ==
    \E g \in Groups :
        LET sources == Together(scope, g)
        IN /\ Cardinality(sources) >= 2
           /\ \A h \in Groups : Cardinality(Together(scope, h)) <= Cardinality(sources)
           /\ Unused # {}
           /\ memories' = [i \in Ids |->
                 IF i \in sources THEN [memories[i] EXCEPT !.state = "merged", !.into = NewId]
                 ELSE IF i = NewId
                 THEN [state |-> "active", scope |-> scope, group |-> g,
                       says |-> UNION {memories[s].says : s \in sources},
                       merged |-> sources,
                       refs |-> UNION {memories[s].refs : s \in sources}, into |-> NoId]
                 ELSE memories[i]]
           /\ UNCHANGED keyOwner

-----------------------------------------------------------------------------
StoreInit ==
    /\ memories = [id \in Ids |-> NoRow]
    /\ keyOwner = [k \in Conclusions |-> NoId]

Upsert(record) == UpsertCreates(record) \/ UpsertUpdates(record) \/ UpsertRefused(record)

StoreNext ==
    \/ \E record \in Record :
        Upsert(record) \/ \E id \in Ids : Update(id, record)
    \/ \E scope \in Scopes :
        PurgeScope(scope) \/ Consolidate(scope) \/ \E id \in Ids : Delete(id, scope)

StoreSpec == StoreInit /\ [][StoreNext]_memVars

-----------------------------------------------------------------------------
(* Properties.                                                             *)

StoreTypeOK ==
    /\ memories \in [Ids -> Row \union {NoRow}]
    /\ keyOwner \in [Conclusions -> Ids \union {NoId}]

\* Original sources stay traceable through merges of merges, changes, deletions
\* and purges (docs/service-contracts.md:121): a memory that was merged away
\* points at another one, and what a merged memory was made of is still there,
\* still points at it, and is still part of what it says.
MergesTraceable ==
    \A id \in {i \in Ids : Stored(i)} :
        /\ memories[id].state = "merged" =>
              memories[id].into \in Ids \ {id} /\ Stored(memories[id].into)
        /\ \A source \in memories[id].merged :
              /\ memories[source].state = "merged" /\ memories[source].into = id
              /\ memories[source].says \subseteq memories[id].says

Believed == UNION {memories[id].says : id \in {i \in Ids : Active(i)}}
Withdrawn == {k \in Conclusions : keyOwner[k] # NoId} \ Believed

\* The store keeps the promise that a withdrawn conclusion stays withdrawn,
\* through upserts, changes of conclusion, merges, deletions and purges.
Promise == INSTANCE MemoryPromise WITH believed <- Believed, withdrawn <- Withdrawn
PromiseSpec == Promise!Spec
=============================================================================
