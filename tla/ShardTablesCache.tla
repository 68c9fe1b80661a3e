--------------------------- MODULE ShardTablesCache ---------------------------
(***************************************************************************)
(* ShardTablesCache: the versioned map shard id -> TablesOfShard kept by   *)
(* the cluster layer, with a per-shard frozen flag.  Its source is not in  *)
(* this tree; the operators follow its contract (spec section 4.5).  Every *)
(* operation runs under the cache's exclusive lock, so each is one atomic  *)
(* function update.  An entry is [version, tables, frozen]; the shard role *)
(* and the table metadata are abstracted away.                              *)
(***************************************************************************)
EXTENDS FiniteSets, TLC

Entry(version, tables) == [version |-> version, tables |-> tables, frozen |-> FALSE]

(* insert(tables_of_shard): replaces any entry of that shard.             *)
Insert(cache, s, entry) == (s :> entry) @@ cache

(* remove(shard_id) and freeze(shard_id); both fail (ShardNotFound) when  *)
(* the shard has no entry, leaving the cache as it is.                    *)
RemoveEntry(cache, s) == [x \in DOMAIN cache \ {s} |-> cache[x]]

FreezeEntry(cache, s) == [cache EXCEPT ![s].frozen = TRUE]

(* The precondition shared by try_insert_table_to_shard and              *)
(* try_remove_table_from_shard: the entry exists, is not frozen, and the *)
(* caller's prev_version is the cached version.                           *)
CanUpdate(cache, s, prev) ==
    /\ s \in DOMAIN cache
    /\ ~cache[s].frozen
    /\ cache[s].version = prev

(* The update itself: the new shard info and the table set change at once. *)
UpdateTables(cache, s, curr, tables) ==
    [cache EXCEPT ![s].version = curr, ![s].tables = tables]

TryInsertTable(cache, s, prev, curr, t) ==
    IF CanUpdate(cache, s, prev)
    THEN UpdateTables(cache, s, curr, cache[s].tables \cup {t})
    ELSE cache

TryRemoveTable(cache, s, prev, curr, t) ==
    IF CanUpdate(cache, s, prev)
    THEN UpdateTables(cache, s, curr, cache[s].tables \ {t})
    ELSE cache
=============================================================================
