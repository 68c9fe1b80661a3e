# TLA+ models of the CeresDB write path, id allocator and cluster layer

This directory holds TLA+ specifications of the four source files of this tree:

- `src/analytic_engine/src/instance/write.rs`: the table write path;
- `src/common_util/src/id_allocator.rs`: the monotonic id allocator;
- `src/cluster/src/cluster_impl.rs`: the cluster layer's handling of shards, topology and heartbeat;
- `src/server/src/http.rs`: the HTTP front end: its start/stop lifecycle and the `/debug/flush_memtable` handler.

It also holds the TLC configurations that check them. `PROJECT.json` records:

- every component and its status;
- every run and what it shows;
- the mutants that show each checked property can fail;
- the source lines behind every definition;
- the findings;
- the hazards of the code and the properties that cover them.

## 1. The system and how its parts interact

**Write path (`write.rs`).** A write request for one table is run by a task that owns the table's `TableOpSerialExecutor` for the whole of `Writer::write`. The steps are:

1. `validate_before_write` rejects requests of `MAX_ROWS_TO_WRITE` rows or more.
2. `preprocess_write` rejects a dropped table and an incompatible schema.
3. `preprocess_write` then runs three flush triggers in order:
   - instance memory above `db_write_buffer_size`;
   - space memory above its `write_buffer_size`;
   - the table's own `should_flush_table`.

   The instance and space triggers pick the table with maximal memory usage, which may be another table. `handle_memtable_flush` then schedules the flush:
   - for the writer's own table, through the executor it already holds;
   - for another table, only after a `try_lock` of that table's executor, skipping the flush when the lock is taken.
4. The rows are encoded. When `max_bytes_per_write_batch` is set, `WriteRowGroupSplitter` splits them into batches.
5. For every batch, in order:
   - `write_to_wal` appends one WAL record and receives its sequence;
   - `MemTableWriter::write` puts the rows into the mutable memtables:
     - expired rows are skipped;
     - the memtable is rotated when a timestamp is not accepted;
     - each row is keyed `KeySequence(sequence, index in the slice)`;
     - `set_last_sequence` is set on every memtable written;
   - `write_table_row_group` sets the table's `last_sequence`.

   Any error returns early. Earlier batches stay written.

**Id allocator (`id_allocator.rs`).** `alloc_id` hands out `last_id + 1` while `last_id < max_id`. Otherwise it awaits the caller's `persist_next_max_id(last_id + alloc_step)` and only then raises `max_id`. The tokio `RwLock` write guard is held across that await.

**Cluster layer (`cluster_impl.rs`).**
- The meta service sends shard events.
- `open_shard` checks the `ShardTablesCache`, awaits `get_tables_of_shards`, and inserts the answer.
- `close_shard` and `freeze_shard` wrap the cache.
- The four table-on-shard requests call `try_insert_table_to_shard` or `try_remove_table_from_shard` with the caller's `prev_version`.
- `fetch_nodes` caches the node topology. `maybe_update_nodes` keeps only a newer version.
- A heartbeat task, started by `start()` and stopped by `stop()`, periodically sends `all_shard_infos()` of the cache to the meta service.

**HTTP service (`http.rs`).**
- `Builder::build` fails on the first missing field. A missing `config_content` is reported as `MissingInstance`.
- `Service::start` parses the listen address (`ParseIpAddr`), then takes the oneshot receiver `rx` (`AlreadyStarted` if it is gone). It then spawns a warp server whose graceful-shutdown future is `rx.await.ok()`.
- `Service::stop` consumes the service and sends on `tx`. Dropping the service drops `tx`, which resolves the future too.
- `POST /debug/flush_memtable` lists every table of every catalog and schema. It then flushes them one by one, each across an await, and replies with the success and failed lists.
- Rejections become status codes in `handle_rejection`: 404 for not found, 400 for `CreateContext`, and 500 otherwise.

`ShardTablesCache`, `ClusterTopology`, the WAL manager, the memtables, the flush scheduler and `TableData` are not in this tree. The models treat them as collaborators with the contracts of the specification (`spec.md`, sections 4.5 and 5). Definitions taken from the specification are marked `spec_modelled` in `PROJECT.json`.

## 2. Modules

| Module | Models | State | Actions |
|---|---|---|---|
| `IdAllocatorContract` | what `alloc_id` promises | `issued` | `Alloc`: a fresh id above every earlier one |
| `IdAllocator` | `Inner`, `IdAllocator` | `lastId`, `maxId`, the `persisted` ceiling, the guard `holder`, per-caller `pc` and `pending` next_max_id, the `issued` history | `Call`, `Lock` (write guard), `AllocFast`, `StartPersist`, `UpdateMaxId` (persist Ok), `PersistFail` (error or cancellation; storage may or may not have recorded the ceiling), `Restart` (rebuilt from the persisted ceiling) |
| `WriteSplitter` | `compute_batches`, `split`, `maybe_split_write_request` | constant level | `Walk` (RECURSIVE) is the loop of `compute_batches`; `BatchOf` (RECURSIVE) is the assignment loop of `split`, an index past the batches being the panic; `Split` returns the WAL batches and the slicers; `SumOf`, `IsPartition` and `WithinBudget` are the reference definition |
| `MC_WriteSplitter` | the splitter over all inputs | `sizes`, `maxBytes` chosen in `Init` | properties over every bounded input |
| `TableWriter` | `Writer::write`, `MemTableWriter::write`, `handle_memtable_flush` | per table: executor holder, WAL records (sequences of rows: id, window, size), memtables per window `[rows, last, open]`, `last_sequence`, flushed rows, dropped, `restarts`; per writer: `pc` and the batches still to write | `Acquire`, `Preprocess`/`RejectWrite`, `FlushTrigger` (the instance, space and table triggers in order, choosing the target), `HandleFlush` (own table, `try_lock` success or contention), `ScheduleOtherFlush`, `FlushSubmitFail`, `Encode` (split), `WriteWal`, `WalFail`, `WriteMemTable` (whole put, last sequences, then the next batch or `Return`), `MemTableFail` (`find_or_create_mutable` or `put` failing part way, or `set_last_sequence` failing after the puts); collaborators `RunFlush`, `DropTable`; `Restart` (crash, then WAL replay by `Replayed`) |
| `TableLog` | what the write path of a table promises (spec section 5) | per table `log` (rows appended to the WAL) and `stored` (ids readable from memtables or SSTs); `acked` | `Append`, `Install` (durable rows become readable, writes may be acknowledged), `Recover` (readable = the log's unexpired rows) |
| `ShardTablesCache` | the cache contract | operators on a map shard → `[version, tables, frozen]` | `Insert`, `RemoveEntry`, `FreezeEntry`, `CanUpdate`, `TryInsertTable`, `TryRemoveTable` |
| `ClusterShards` | `Inner`'s shard handlers, with the meta service as environment | `meta` (per shard, the table set at each version), `events` sent, `cache`, per handler `hpc`/`hreq`/`hreply` | meta: `MetaChangeTable`, `MetaSendShardEvent`, `MetaAnswer`; node: `OpenShardBegin` (version check, RPC sent), `OpenShardFail`, `OpenShardInsert`, `CloseShard`, `FreezeShard`, `InsertTableToShard`, `RemoveTableFromShard` |
| `Heartbeat` | `start_heartbeat_loop`, `start`, `stop` | per task (one per `start()`): `loop` and its channel `chan` (capacity 1); `txOf`/`handleOf`, the task whose sender and handle are stored; `sending`, the sender `stop()` holds; the `owner`'s call | `Start`, `SendHeartbeat`, `WaitTimeout`, `ReceiveExit` (on the signal or on a closed channel), `StopTakeTx`, `SendExit`, `Join` |
| `ClusterNode` | `ClusterImpl` as a whole | `ClusterShards` and `Heartbeat` (by `INSTANCE`) plus `reported` and `snap` | `ReadShardInfos` reads `AllShardInfos` of the cache (line 113); `SendHeartbeat` delivers that read after the await |
| `Topology` | `fetch_nodes` | `metaVersion`, `cached`, per fetcher `fpc`/`fetched`, the `returned` history | `MetaBump`, `FetchNodes`, `GetNodes`, `UpdateNodes` |
| `HttpService` | `Builder::build`, `Service::start`/`stop`, the warp server, `flush_memtable`, `handle_rejection` | `built`, `addrOk`, `owned` (service held), `rx`, `signal`, `server` (`none`/`serving`/`draining`/`done`), `spawned`, `starts`; per request `req`, `code`, `listed`, `todo`, `success`, `failed`, `seen`; per table `written`, `flushed` | `Start`, `Stop`, `DropService`, `Shutdown`, `Finish`, `Accept`, `Refuse`, `ServeOther` (public APIs), `ServeDebug` (metrics, profiles, config, stats, log level), `ServeAdmin` (`admin/block`), each answering 200 or a rejection its handler or `with_context` can produce (`profile_cpu` matches `Ok(_)` on its joined result, so a failed CPU profile still answers 200), `ListTables`, `FlushTable`, `FlushReply`; environment `Write` |

A row is abstracted to its time window (or `Expired`) and its encoded size, and a row's identity to `<<writer, write number, position>>`. A topology is abstracted to its version, and a shard's tables to a set of table names. Every action models a whole handler step between two await points. The trailing updates, such as setting `last_sequence`, are part of the action that does the write.

## 3. Runs

| Run | Config | Expect | What it shows |
|---|---|---|---|
| `idalloc` | `MC_IdAllocator.cfg` | pass | See below. |
| `splitter` | `MC_WriteSplitter.cfg` | pass | See below. |
| `splitter_zero` | `MC_WriteSplitter_zero.cfg` | violation | Finding 1 (section 4). |
| `table_writer` | `MC_TableWriter.cfg` | pass | See below. |
| `table_writer_locks` | `MC_TableWriter_locks.cfg` | pass | See below. |
| `table_writer_crash` | `MC_TableWriter_crash.cfg` | pass | See below. |
| `cluster_shards` | `MC_ClusterShards.cfg` | pass | See below. |
| `cluster_shards_race` | `MC_ClusterShards_race.cfg` | violation | Finding 2 (section 4). |
| `cluster_node` | `MC_ClusterNode.cfg` | pass | See below. |
| `topology` | `MC_Topology.cfg` | pass | See below. |
| `http` | `MC_HttpService.cfg` | pass | See below. |
| `topology_stale` | `MC_Topology_stale.cfg` | violation | Finding 3 (section 4). |

**`idalloc`.** Two callers, alloc_step 2, ids up to 5, and one restart. It shows:
- `ImplementsContract`: `IdAllocator` refines `IdAllocatorContract` with the identity mapping on `issued`. Ids are returned in strictly increasing order, so no id is issued twice.
- `IssuedBelowCeiling`: every issued id is at most the persisted ceiling.
- `CallReturns`: every call returns.

**`splitter`.** Every group of up to 4 rows of size 1..3, with budgets 0..5. It shows:
- `PartitionExact`: the WAL batches and the slicers are the same in-order partition of the rows.
- `BatchBound`: every proper prefix of a batch is below the budget, and a request is split exactly when there is more than one batch.

**`table_writer`.** Three writers on two tables (two on `t1`). The bounds and what they exercise:
- A 3-row request of sizes 2, 1, 1 over windows 1, 1, 2 splits into two batches with budget 2.
- A request with an expired row.
- An incompatible request.
- The memory limits are low enough that all three triggers fire.
- One table drop.
- WAL, memtable and flush-submission failures; a memtable failure is `find_or_create_mutable` or `put` part way, or `set_last_sequence` (`UpdateMemTableSequence`) failing on one memtable of `wrote_memtables` after every row was put.

It shows:
- `KeySequenceUnique`: no two stored rows share a KeySequence.
- `StoredRowsInWal`: every stored row is in the WAL record of its sequence, at its index.
- `MemTableRouting`: every memtable row is in the memtable of its window.
- `AckedWritesStored`: every non-expired row of an acknowledged write is stored.
- `AckedRowsSequenced`: every row of an acknowledged write lies at or below the last sequence of the memtable holding it. The 3-row request's second batch puts rows into the memtables of windows 1 and 2, and both must get its sequence; the mutant that sets it only on the memtable the loop ended in violates it.
- `SequenceMonotone`: the table's `last_sequence` and every open memtable's last sequence never decrease.
- `ImplementsTableLog`: `TableWriter` refines `TableLog`. The mapping sends `log` to the rows of the table's WAL records and `stored` to the ids of the rows in its memtables and SSTs, and keeps `acked`. So no row is readable before its WAL append returned, and no step loses a readable row. A write is acknowledged only once all its unexpired rows are readable, even when its batches interleave with other writers, flushes and drops.

**`table_writer_locks`.** Four writers, two per table, each writing one row, with every trigger firing. This makes the instance trigger pick the other table, with ties. It shows `WriteCompletes`: every started write finishes.

**`table_writer_crash`.** Two writers on one table, with a request split into two WAL records over two windows, collaborator failures, flushes to SSTs, and one crash at any step. After the crash every table is reopened by replaying its whole WAL. A WAL row holds the row's id, window and size, as the payload holds the table schema and the encoded rows. Replay is not in this tree. It is modelled from spec section 5: rows reappear on replay, and puts are idempotent under `KeySequence`. The spec defines no flushed sequence or WAL truncation, so replay reads every record. It shows:
- `ImplementsTableLog`: the crash is `TableLog`'s `Recover`. Replay makes exactly the WAL's unexpired rows readable, so no row in a memtable or an SST before the crash is lost. This includes rows of writes that failed, or were cut off by the crash, after their WAL append.
- `AckedWritesStored`: an acknowledged write survives the crash.

**`cluster_shards`.** One shard up to version 3, two tables, two concurrent open handlers, and events delivered late, twice or out of order. It shows `CacheMatchesMeta`: a cached entry equals the meta service's table set at its cached version. Shards are independent in `cluster_impl.rs` (every handler reads and writes only the entry of its own shard id), so one shard with three versions goes deeper than two shards with two. Two shards with versions up to 2, under symmetry, also pass (471,328 states); three versions with two shards do not finish within the time a run is given.

**`cluster_node`.** The shard events of `cluster_shards` (versions up to 2, one open handler: the race of two handlers is the question of `cluster_shards` and `cluster_shards_race`, and with two the composition does not fit the time a run is given) together with two `start()` calls of the heartbeat and a `stop()` at any point. The second `start()` may come while the first task runs. It then replaces `stop_heartbeat_tx` and `heartbeat_handle`, dropping that task's sender and handle. It shows:
- `StopReturns`: a stop that has taken the sender returns.
- `HeartbeatRepeats`: a task whose sender stays stored sends heartbeats forever, so the meta service keeps the node's lease. Every wait ends when `time::timeout` elapses, also after a failed send.
- `HeartbeatReportsCache`: once the cache stops changing while a task holds the lease, the shard infos the meta service received become, and stay, the cache's. Each iteration reads `all_shard_infos` (line 113) before awaiting `send_heartbeat`, so a send can carry a read that shard events have since made stale, and an orphaned task can deliver an older read after the current task's newer one; the next iteration's read repairs both. The mutant that reads the infos once, before the loop, violates it.
- `OrphanLoopExits`: an orphaned task still ends. Its channel is closed, so `recv` returns `None` at the next wait, and the loop breaks on any `Ok` of the timeout.

**`topology`.** Three concurrent `fetch_nodes` calls over three meta versions, with the history bounded to 4 returns. It shows `ReturnedMonotone`: no call returns a topology older than one returned before. Each return is recorded with the meta version at its call's start. Under the spec's design (ask, fall back to the cache only if the version did not advance), no return could be older than that start version; `topology_stale` checks this as `ReturnedNotStale`.

**`http`.** Two tables with one write each, two connections, two calls of `start()`, and every build outcome and address validity. It shows:
- `AtMostOneServer`: however often `start()` is called, at most one server is spawned.
- `FlushReplyTruthful`: a 200 reply of `flush_memtable` names each listed table exactly once. A table in its success list has every write made before the request durable, even with writes and another flush request between its awaits.
- `ServerStops`: once the owner has called `stop()` or dropped the service, a running server stops.
- `AcceptedAnswered`: every accepted request is answered, because the server drains before it completes.

Every property of a passing run has a mutant in `PROJECT.json`: a plausible bug in the mapped code that TLC finds violating it. Two examples:
- `HandleMemtableFlushBlocking` waits for the other executor instead of `try_lock`. TLC finds two writers each holding its table and waiting for the other's.
- `OpenShardInsertRequested` caches the requested version with the answered tables.

Each module's `TypeOK` records the shape of its state. Only the id allocator's is checked, because it carries a fact about the code: ids handed out are positive, since `last_id` is incremented before it is returned. The other type invariants are implied by the actions and no plausible bug of the code breaks them.

**Why the bounds are enough.** Each bound is the smallest that makes the case of interest happen:
- split batches with rotation inside a batch (sizes 2,1,1 with budget 2);
- a cross-table flush tie (two tables, two writers each);
- an open race (two handlers, three versions);
- a failed persist followed by a restart (step 2, ids to 5, one restart).

**Fairness.**
- The tokio runtime polls every ready task, including the warp server and each connection's handler, so every enabled step of a running write, alloc call, heartbeat task or stop is eventually taken (weak fairness).
- Reading `all_shard_infos` is a local step of a running task: `ReadShardInfos` is weakly fair, like the completion of `send_heartbeat` (Ok or Err).
- The heartbeat's `time::timeout` fires whenever its wait elapses with `recv` still pending: `WaitTimeout` is weakly fair. A ready `recv` is polled before the deadline, so a buffered signal or a closed channel always wins (`ReceiveExit`).
- The `RwLock` of the id allocator is fair (FIFO), so `Lock` has strong fairness.
- No fairness is assumed for issuing new requests, the meta service, failures, flushes or drops.
- Runs whose workload is finite say `CHECK_DEADLOCK FALSE`, since the system then idles.

## 4. Findings

1. **Zero-size rows break the splitter** (`write.rs:235`, run `splitter_zero`).
   - `compute_batches` closes the trailing batch only when `current_batch_size > 0`. Rows of size 0 after the last closed batch therefore get no batch.
   - `split` then indexes `encoded_batches` past its end (line 207), a panic. Example: sizes `<<1,1,0>>` with budget 1.
   - Encoded WAL rows are never empty in production, but the spec promises a partition and the splitter's tests use size-0 rows.
2. **`open_shard` can lower a shard's cached version** (`cluster_impl.rs:285`, run `cluster_shards_race`).
   - The version check happens before the `get_tables_of_shards` await, and the insert after it, without a second check.
   - Two concurrent opens that finish out of order replace the newer entry by the older one. The spec requires the version never to decrease.

3. **`fetch_nodes` never refreshes its cache** (`cluster_impl.rs:196`, run `topology_stale`).
   - The code returns any cached topology without calling `get_nodes`. Nothing else refreshes or invalidates the cache.
   - Trace: a call caches version 1, the meta service moves to version 2, and the next call returns version 1.
   - Spec 4.6 says `fetch_nodes` forwards to the meta service and returns the cached topology only if the fetched version did not advance.

## 5. Not modelled

- **HTTP service, other routes:** each of `sql`, `influxdb`, `opentsdb`, `prom`, `route`, `metrics`, `profile`, `config`, `stats`, `log_level` and `admin/block` is one step that replies or is rejected, with the rejections of its group. Their effects outside this file (the proxy's query, the log level, the block list, the profiler) are not modelled.
- **`try_new`, `shard_lock_key_prefix`, `route_tables`:** configuration and string formatting, and a forwarded RPC.
- **Not in the model:**
  - the sequence-gap warning at `write.rs:441`, which only logs;
  - metrics and timers;
  - the encoding failure of `encode_rows`;
  - the u64 overflow of `last_id + alloc_step`, out of reach in practice;
- **Modelled from the specification, not the source:** the internals of the flush, the drop, the memtables and WAL replay, which are not in this tree.

## 6. Plan for further work

- If the flush's flushed sequence and WAL truncation become part of the specification, bound replay by them. Then check that a row whose memtable install failed is still replayed after a later flush (spec section 5, "will reappear on replay").
- Add `close_shard` racing `open_shard`, with a property once the intended outcome is settled.
