------------------------------ MODULE TableStore ------------------------------
(***************************************************************************)
(* The table store of a storage account (storage/table/core) behind its    *)
(* REST front end (storage/table/server).                                  *)
(*                                                                         *)
(* The properties of an entity are represented by the writes that set one  *)
(* of them and were not replaced since.  An operation on entities holds    *)
(* the read lock of its table's shard to its end, so that nobody removes   *)
(* or replaces the table in the middle of it.                              *)
(***************************************************************************)
EXTENDS StorageRequests

CONSTANTS
  Tables,
  Keys         \* pairs of PartitionKey and RowKey

VARIABLES
  tables,      \* the entity at each key of each table
  versions     \* history: every entity a client was shown, by its etag

tableVars == <<tables, versions>>

Always    == 0   \* no If-Match header, or one of *
Entity == [etag : Stamps, value : SUBSET Stamps]

ASSUME TableAssumption ==
  Absent \notin Entity \cup [Keys -> Entity \cup {Absent}]

Has(t)       == tables[t] # Absent
At(t, k)     == Has(t) /\ tables[t][k] # Absent
EtagAt(t, k) == IF At(t, k) THEN {tables[t][k].etag} ELSE {}
Etags(t)     == {tables[t][k].etag : k \in {key \in Keys : At(t, key)}}
EntityOps    == {"insert_entity", "delete_entity"}
Guarded(t)   == \E c \in Clients : request[c].op \in EntityOps /\ request[c].table = t

TableInit ==
  /\ tables = [t \in Tables |-> Absent]
  /\ versions = {}

-----------------------------------------------------------------------------
\* The handler create_table up to the store's contains_key.
TablePut(c, t) ==
  /\ ~Has(t)
  /\ Begin(c, [op |-> "create_table", table |-> t, since |-> stamp])
  /\ UNCHANGED <<stamp, confirmed, tableVars>>

\* The store's create_table from its insert on.
TableInsert(c) ==
  /\ End(c, "create_table")
  /\ LET t == request[c].table
     IN /\ ~Guarded(t)
        /\ tables' = [tables EXCEPT ![t] = [k \in Keys |-> Absent]]
        /\ Confirm({}, Overtaken(c, Etags(t)))
  /\ UNCHANGED <<stamp, versions>>

\* delete_table, the first half of resource_delete.
TableDelete(t) ==
  /\ Has(t)
  /\ ~Guarded(t)
  /\ tables' = [tables EXCEPT ![t] = Absent]
  /\ Confirm({}, Etags(t))
  /\ UNCHANGED <<request, stamp, versions>>

-----------------------------------------------------------------------------
\* Keeps the etag of an entity that is merged into.
Written_Mistake(t, k, properties, replaced) ==
  LET etag == IF At(t, k) /\ Cardinality(properties) > 1 THEN tables[t][k].etag ELSE stamp + 1
      new  == [etag |-> etag, value |-> properties]
  IN /\ Draw(1)
     /\ tables' = [tables EXCEPT ![t][k] = new]
     /\ versions' = versions \cup {new}
     /\ Confirm({etag}, replaced)
\* The entity with these properties is stored at a key, under a fresh etag, for the
\* etags replaced.
Written(t, k, properties, replaced) ==
  LET new == [etag |-> stamp + 1, value |-> properties]
  IN /\ Draw(1)
     /\ tables' = [tables EXCEPT ![t][k] = new]
     /\ versions' = versions \cup {new}
     /\ Confirm({new.etag}, replaced)

\* Does not look whether there is one.
ResourcePost_Mistake(c, t, k) ==
  /\ Has(t)
  /\ Begin(c, [op |-> "insert_entity", table |-> t, key |-> k, since |-> stamp])
  /\ UNCHANGED <<stamp, confirmed, tableVars>>
\* resource_post and the first step of insert_entity, contains_key.
ResourcePost(c, t, k) ==
  /\ Has(t) /\ ~At(t, k)
  /\ Begin(c, [op |-> "insert_entity", table |-> t, key |-> k, since |-> stamp])
  /\ UNCHANGED <<stamp, confirmed, tableVars>>

\* insert_entity from its insert on.
EntityInsert(c) ==
  /\ End(c, "insert_entity")
  /\ LET t == request[c].table
         k == request[c].key
     IN Written(t, k, {stamp + 1}, Overtaken(c, EtagAt(t, k)))

\* upsert_entity: an entity that is not there is created empty.
Upsert(t, k, merge) ==
  LET old == IF merge /\ At(t, k) THEN tables[t][k].value ELSE {}
  IN Written(t, k, {stamp + 1} \cup old, EtagAt(t, k))

\* update_entity: one that is there, and whose etag is the one given.
Update(t, k, merge, etag) ==
  /\ At(t, k) /\ tables[t][k].etag = etag
  /\ LET old == IF merge THEN tables[t][k].value ELSE {}
     IN Written(t, k, {stamp + 1} \cup old, {etag})

\* resource_put and resource_merge.
UpsertOrUpdate(t, k, merge, if_match) ==
  /\ Has(t)
  /\ IF if_match = Always THEN Upsert(t, k, merge) ELSE Update(t, k, merge, if_match)
  /\ UNCHANGED request

\* Takes any etag.
Matches_Mistake(t, k, if_match) == At(t, k)
Matches(t, k, if_match) == At(t, k) /\ tables[t][k].etag = if_match

\* resource_delete and delete_entity, to the comparison with a specific etag.
ResourceDelete(c, t, k, if_match) ==
  /\ Matches(t, k, if_match)
  /\ Begin(c, [op |-> "delete_entity", table |-> t, key |-> k,
               if_match |-> if_match, since |-> stamp])
  /\ UNCHANGED <<stamp, confirmed, tableVars>>

\* The remove of delete_entity.
RemoveEntity(t, k) ==
  /\ tables' = [tables EXCEPT ![t][k] = Absent]
  /\ Confirm({}, EtagAt(t, k))
  /\ UNCHANGED <<stamp, versions>>

\* delete_entity from its remove on, after a comparison and without one.
EntityDelete(c) ==
  /\ End(c, "delete_entity")
  /\ RemoveEntity(request[c].table, request[c].key)

EntityDeleteAny(t, k) ==
  /\ At(t, k)
  /\ RemoveEntity(t, k)
  /\ UNCHANGED request

-----------------------------------------------------------------------------
\* dump and restore of an entity.
Reread(e) == e

TableRestore ==
  /\ tables' = [t \in Tables |-> IF Has(t)
       THEN [k \in Keys |-> IF At(t, k) THEN Reread(tables[t][k]) ELSE Absent] ELSE Absent]
  /\ UNCHANGED versions

TableNext ==
  \/ \E c \in Clients, t \in Tables : TablePut(c, t)
  \/ \E c \in Clients : TableInsert(c) \/ EntityInsert(c) \/ EntityDelete(c)
  \/ \E t \in Tables : TableDelete(t)
  \/ \E t \in Tables, k \in Keys :
       \/ EntityDeleteAny(t, k)
       \/ \E c \in Clients : ResourcePost(c, t, k)
       \/ \E c \in Clients, v \in versions : ResourceDelete(c, t, k, v.etag)
       \/ \E merge \in BOOLEAN, if_match \in {Always} \cup {v.etag : v \in versions} :
            UpsertOrUpdate(t, k, merge, if_match)

-----------------------------------------------------------------------------
TableRequest ==
  [op : {"create_table"}, table : Tables, since : 0..MaxStamp]
  \cup [op : {"insert_entity"}, table : Tables, key : Keys, since : 0..MaxStamp]
  \cup [op : {"delete_entity"}, table : Tables, key : Keys,
        if_match : Stamps, since : 0..MaxStamp]

TableTypeOK ==
  /\ tables \in [Tables -> [Keys -> Entity \cup {Absent}] \cup {Absent}]
  /\ versions \subseteq Entity

\* Optimistic concurrency: an etag that still matches names what its holder was
\* shown, after every merge, insertion and restart, so that a conditional write
\* replaces nothing its writer has not seen (update_entity).
EtagNamesContent ==
  /\ \A v, w \in versions : v.etag = w.etag => v = w
  /\ \A t \in Tables, k \in Keys : At(t, k) => tables[t][k] \in versions

\* A conditional delete removes the version it names, or else one that was written
\* between its comparison and its removal (delete_entity).
IfMatchHonoured ==
  [][\A c \in Clients : request[c].op = "delete_entity" /\ request'[c] = Idle =>
       LET r == request[c]
       IN At(r.table, r.key) /\ tables'[r.table][r.key] = Absent =>
            \/ tables[r.table][r.key].etag = r.if_match
            \/ tables[r.table][r.key].etag > r.since]_<<requestVars, tableVars>>
=============================================================================
