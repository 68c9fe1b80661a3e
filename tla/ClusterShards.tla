---------------------------- MODULE ClusterShards ----------------------------
(***************************************************************************)
(* The shard events of ClusterImpl (cluster/src/cluster_impl.rs, Inner):   *)
(* open_shard, close_shard, freeze_shard and the four table-on-shard       *)
(* requests, applied to the ShardTablesCache, against the meta service     *)
(* that issues them.                                                       *)
(*                                                                         *)
(* The meta service is the environment: it keeps, per shard, the history   *)
(* of its table sets (version v is meta[s][v]), changes a shard one table  *)
(* at a time, and sends events.  Sent events stay in `events`: the RPC     *)
(* layer may deliver an event late, more than once, or out of order, and   *)
(* several handler tasks serve them concurrently.  open_shard is split at  *)
(* its await on get_tables_of_shards: the version check happens before it, *)
(* the cache insert after it.                                              *)
(***************************************************************************)
EXTENDS Naturals, Sequences, SequencesExt, ShardTablesCache

CONSTANTS
    Shards,
    Tables,
    Handlers,       \* tasks serving open_shard requests concurrently
    InitTables,     \* the table set of every shard at version 1
    MaxVersion      \* bound on the meta service's shard versions

ASSUME InitTables \subseteq Tables /\ MaxVersion \in Nat \ {0}

VARIABLES
    meta,       \* per shard: the meta service's table set at each version
    events,     \* shard events sent by the meta service
    cache,      \* the node's ShardTablesCache
    hpc,        \* per handler: "idle", "await" (the meta RPC) or "replied"
    hreq,       \* per handler: the open event it serves
    hreply      \* per handler: the TablesOfShard answered by the meta service

vars == <<meta, events, cache, hpc, hreq, hreply>>

Version(s) == Len(meta[s])

OpenEv(s, v) == [kind |-> "open", shard |-> s, version |-> v]
TableEv(k, s, prev, t) ==
    [kind |-> k, shard |-> s, prev |-> prev, curr |-> prev + 1, table |-> t]
ShardEv(k, s) == [kind |-> k, shard |-> s]

NoEvent == ShardEv("none", CHOOSE s \in Shards : TRUE)
NoReply == Entry(0, {})

Init ==
    /\ meta = [s \in Shards |-> <<InitTables>>]
    /\ events = {}
    /\ cache = <<>>
    /\ hpc = [h \in Handlers |-> "idle"]
    /\ hreq = [h \in Handlers |-> NoEvent]
    /\ hreply = [h \in Handlers |-> NoReply]

-----------------------------------------------------------------------------
(* The meta service: a table is created/opened on, or dropped/closed from, *)
(* a shard, bumping its version; or the shard is assigned (opened),        *)
(* closed or frozen on this node.                                         *)
MetaChangeTable(s, t) ==
    /\ Version(s) < MaxVersion
    /\ \/ /\ t \notin Last(meta[s])
          /\ meta' = [meta EXCEPT ![s] = Append(@, Last(@) \cup {t})]
          /\ events' = events \cup {TableEv("insert", s, Version(s), t)}
       \/ /\ t \in Last(meta[s])
          /\ meta' = [meta EXCEPT ![s] = Append(@, Last(@) \ {t})]
          /\ events' = events \cup {TableEv("remove", s, Version(s), t)}
    /\ UNCHANGED <<cache, hpc, hreq, hreply>>

MetaSendShardEvent(s) ==
    /\ \E e \in {OpenEv(s, Version(s)), ShardEv("close", s), ShardEv("freeze", s)} :
          /\ e \notin events
          /\ events' = events \cup {e}
    /\ UNCHANGED <<meta, cache, hpc, hreq, hreply>>

(* The meta service answers get_tables_of_shards with its current state.  *)
MetaAnswer(h) ==
    /\ hpc[h] = "await"
    /\ LET s == hreq[h].shard IN
          hreply' = [hreply EXCEPT ![h] = Entry(Version(s), Last(meta[s]))]
    /\ hpc' = [hpc EXCEPT ![h] = "replied"]
    /\ UNCHANGED <<meta, events, cache, hreq>>

-----------------------------------------------------------------------------
(* Inner::open_shard up to the await.  A cached entry of the same version *)
(* is returned as it is and one of a greater version is an OpenShard      *)
(* error, neither changing state; on a miss or a smaller cached version   *)
(* get_tables_of_shards is sent.                                          *)
OpenShardBegin(h) ==
    /\ hpc[h] = "idle"
    /\ \E e \in events :
          /\ e.kind = "open"
          /\ ~(e.shard \in DOMAIN cache /\ cache[e.shard].version >= e.version)
          /\ hreq' = [hreq EXCEPT ![h] = e]
    /\ hpc' = [hpc EXCEPT ![h] = "await"]
    /\ UNCHANGED <<meta, events, cache, hreply>>

(* The meta RPC failed (OpenShardWithCause): nothing is cached.           *)
OpenShardFail(h) ==
    /\ hpc[h] = "await"
    /\ hpc' = [hpc EXCEPT ![h] = "idle"]
    /\ UNCHANGED <<meta, events, cache, hreq, hreply>>

(* Mutant: the entry cached under the version of the request, not of the  *)
(* answer.                                                                 *)
OpenShardInsertRequested(h) ==
    /\ hpc[h] = "replied"
    /\ cache' = Insert(cache, hreq[h].shard, Entry(hreq[h].version, hreply[h].tables))
    /\ hpc' = [hpc EXCEPT ![h] = "idle"]
    /\ hreply' = [hreply EXCEPT ![h] = NoReply]
    /\ UNCHANGED <<meta, events, hreq>>

(* After the await: the one shard of the answer is inserted into the      *)
(* cache, replacing whatever entry the shard has by then.                 *)
OpenShardInsert(h) ==
    /\ hpc[h] = "replied"
    /\ cache' = Insert(cache, hreq[h].shard, hreply[h])
    /\ hpc' = [hpc EXCEPT ![h] = "idle"]
    /\ hreply' = [hreply EXCEPT ![h] = NoReply]
    /\ UNCHANGED <<meta, events, hreq>>

(* close_shard and freeze_shard: thin wrappers of the cache; on a missing *)
(* shard they return ShardNotFound and change nothing.                    *)
CloseShard ==
    /\ \E e \in events : e.kind = "close" /\ e.shard \in DOMAIN cache
                         /\ cache' = RemoveEntry(cache, e.shard)
    /\ UNCHANGED <<meta, events, hpc, hreq, hreply>>

FreezeShard ==
    /\ \E e \in events : e.kind = "freeze" /\ e.shard \in DOMAIN cache
                         /\ cache' = FreezeEntry(cache, e.shard)
    /\ UNCHANGED <<meta, events, hpc, hreq, hreply>>

(* create_/open_table_on_shard go to insert_table_to_shard, drop_/close_  *)
(* to remove_table_from_shard: each unpacks prev_version, curr_shard_info *)
(* and table_info and calls the cache's try_ operation.  The missing-field *)
(* errors cannot arise from the well-formed events sent here.             *)
InsertTableToShard ==
    /\ \E e \in events : e.kind = "insert"
          /\ cache' = TryInsertTable(cache, e.shard, e.prev, e.curr, e.table)
    /\ UNCHANGED <<meta, events, hpc, hreq, hreply>>

RemoveTableFromShard ==
    /\ \E e \in events : e.kind = "remove"
          /\ cache' = TryRemoveTable(cache, e.shard, e.prev, e.curr, e.table)
    /\ UNCHANGED <<meta, events, hpc, hreq, hreply>>

Next ==
    \/ \E s \in Shards : MetaSendShardEvent(s) \/ \E t \in Tables : MetaChangeTable(s, t)
    \/ \E h \in Handlers :
          OpenShardBegin(h) \/ MetaAnswer(h) \/ OpenShardFail(h) \/ OpenShardInsert(h)
    \/ CloseShard \/ FreezeShard \/ InsertTableToShard \/ RemoveTableFromShard

Spec == Init /\ [][Next]_vars

-----------------------------------------------------------------------------
TypeOK ==
    /\ meta \in [Shards -> Seq(SUBSET Tables)]
    /\ \A s \in DOMAIN cache : s \in Shards /\ cache[s].tables \subseteq Tables
    /\ hpc \in [Handlers -> {"idle", "await", "replied"}]

(* Whatever order, duplication or concurrency the events come in, a       *)
(* cached entry is the meta service's table set at exactly the cached     *)
(* version.  This rests on open_shard caching the shard info of the       *)
(* answer together with its tables, and on try_insert/try_remove applying *)
(* a table event only to the version it was computed from.                *)
CacheMatchesMeta ==
    \A s \in DOMAIN cache :
        /\ cache[s].version \in 1..Version(s)
        /\ cache[s].tables = meta[s][cache[s].version]

(* The version cached for a shard never decreases (spec: "The version is  *)
(* monotone per shard; it must never decrease"), which open_shard's check *)
(* against a smaller version is meant to ensure.                          *)
ShardVersionMonotone ==
    [][\A s \in DOMAIN cache \cap DOMAIN cache' :
          cache'[s].version >= cache[s].version]_vars
=============================================================================
