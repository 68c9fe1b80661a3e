----------------------------- MODULE TableWriter -----------------------------
(***************************************************************************)
(* The table write path of analytic_engine/src/instance/write.rs:          *)
(* Writer::write and MemTableWriter::write, for several tables of one      *)
(* space written by concurrent tasks.                                      *)
(*                                                                         *)
(* A writer task owns the TableOpSerialExecutor of its table for the whole *)
(* of Writer::write.  It validates the request, preprocesses it (dropped   *)
(* table, schema compatibility, the instance, space and table flush        *)
(* triggers), splits the encoded rows, and for every batch appends one WAL *)
(* record, whose sequence it receives, then installs the batch into the    *)
(* memtables and publishes the sequence as the table's last_sequence.  A   *)
(* flush triggered for another table try_locks that table's executor.     *)
(*                                                                         *)
(* A row is abstracted to its time window (or Expired) and its encoded     *)
(* size; the row it is, to the id <<writer, write number, position>>.      *)
(* Memory usage is the sum of the encoded sizes of the rows in memtables.  *)
(***************************************************************************)
EXTENDS Naturals, Sequences, FiniteSets, FiniteSetsExt, WriteSplitter

CONSTANTS
    Tables,             \* the tables of the space
    Writers,            \* writer tasks
    WriterTable,        \* the table each writer writes to
    Requests,           \* WriteRequests: [rows |-> Seq(Row), compatible |-> BOOLEAN]
    Windows,            \* the time windows of the mutable memtables
    Expired,            \* the timestamp of a row the table's TTL has expired
    MaxRowsToWrite,     \* MAX_ROWS_TO_WRITE
    MaxBytesPerBatch,   \* instance.max_bytes_per_write_batch, or NoLimit
    NoLimit,
    DbWriteBufferSize,  \* instance.db_write_buffer_size
    SpaceWriteBufferSize,
    TableWriteBufferSize,
    WritesPerWriter,    \* bound: writes issued by each writer task
    MaxDrops,           \* bound: tables dropped during a behaviour
    CollaboratorsFail,  \* whether WAL, memtable and flush submission may fail
    MaxRestarts,        \* bound: crashes of the engine, each followed by replay
    NoWriter, NoTable

Row == [win : Windows \cup {Expired}, size : Nat]

ASSUME WriterTable \in [Writers -> Tables]
ASSUME \A r \in Requests : r.rows \in Seq(Row) /\ r.compatible \in BOOLEAN
ASSUME MaxBytesPerBatch \in Nat \cup {NoLimit}
ASSUME CollaboratorsFail \in BOOLEAN

VARIABLES
    serialExec,  \* per table: the task holding its TableOpSerialExecutor
    pc,          \* per writer: the step of Writer::write it is at
    req,         \* per writer: the request being written
    walBatches,  \* per writer: encoded batches (row positions) still to append
    memBatches,  \* per writer: row group slicers still to install
    seqOf,       \* per writer: the WAL sequence of the current batch
    flushTarget, \* per writer: the table picked for a flush, or NoTable
    resumeAt,    \* per writer: the step after the flush of another table
    nwrites,     \* per writer: writes finished so far
    wal,         \* per table: the WAL records; record s has sequence s
    memtables,   \* per table and window: the mutable memtable, or NoMem
    lastSeq,     \* per table: TableData.last_sequence
    flushed,     \* per table: the rows that flushes moved to SSTs
    flushQueue,  \* tables whose flush has been scheduled and not yet run
    dropped,     \* dropped tables
    acked,       \* history: the rows of every write that returned Ok
    restarts     \* crashes so far

vars == <<serialExec, pc, req, walBatches, memBatches, seqOf, flushTarget,
          resumeAt, nwrites, wal, memtables, lastSeq, flushed, flushQueue,
          dropped, acked, restarts>>

NoMem == [rows |-> {}, last |-> 0, open |-> FALSE]

Tbl(w) == WriterTable[w]
RowId(w, i) == <<w, nwrites[w], i>>
(* A row as the WAL payload holds it: its id, timestamp and encoded size. *)
WalRow(w, i) == [id |-> RowId(w, i), win |-> req[w].rows[i].win, size |-> req[w].rows[i].size]
Sizes(r) == [i \in DOMAIN r.rows |-> r.rows[i].size]

(* All rows of table t held in memtables, and in memtables or SSTs.        *)
MemRows(t) == UNION {memtables[t][m].rows : m \in Windows}
StoredRows(t) == MemRows(t) \cup flushed[t]

(* TableData::memtable_memory_usage and its sum over the space (a sum     *)
(* over the rows: a set of sizes would merge equal sizes).                *)
TableUsage(t) == FoldSet(LAMBDA e, acc : acc + e.size, 0, MemRows(t))
SpaceUsage == FoldSet(LAMBDA t, acc : acc + TableUsage(t), 0, Tables)

(* find_maximum_memory_usage_table: a table of maximal usage.              *)
MaxUsageTables == {t \in Tables : \A u \in Tables : TableUsage(t) >= TableUsage(u)}

Init ==
    /\ serialExec = [t \in Tables |-> NoWriter]
    /\ pc = [w \in Writers |-> "idle"]
    /\ req = [w \in Writers |-> CHOOSE r \in Requests : TRUE]
    /\ walBatches = [w \in Writers |-> <<>>]
    /\ memBatches = [w \in Writers |-> <<>>]
    /\ seqOf = [w \in Writers |-> 0]
    /\ flushTarget = [w \in Writers |-> NoTable]
    /\ resumeAt = [w \in Writers |-> "idle"]
    /\ nwrites = [w \in Writers |-> 0]
    /\ wal = [t \in Tables |-> <<>>]
    /\ memtables = [t \in Tables |-> [m \in Windows |-> NoMem]]
    /\ lastSeq = [t \in Tables |-> 0]
    /\ flushed = [t \in Tables |-> {}]
    /\ flushQueue = {}
    /\ dropped = {}
    /\ acked = {}
    /\ restarts = 0

Goto(w, step) == pc' = [pc EXCEPT ![w] = step]

(* Writer::write returns: the caller drops the serial executor guard.      *)
Return(w) ==
    /\ serialExec' = [serialExec EXCEPT ![Tbl(w)] = NoWriter]
    /\ nwrites' = [nwrites EXCEPT ![w] = @ + 1]
    /\ Goto(w, "idle")
-----------------------------------------------------------------------------
(* Mutant: the write starts without owning the serial executor.          *)
AcquireUnlocked(w) ==
    /\ pc[w] = "idle"
    /\ nwrites[w] < WritesPerWriter
    /\ serialExec' = [serialExec EXCEPT ![Tbl(w)] = w]
    /\ \E r \in Requests : req' = [req EXCEPT ![w] = r]
    /\ seqOf' = [seqOf EXCEPT ![w] = 0]
    /\ Goto(w, "preprocess")
    /\ UNCHANGED <<walBatches, memBatches, flushTarget, resumeAt, nwrites, wal,
                   memtables, lastSeq, flushed, flushQueue, dropped, acked, restarts>>

(* The caller of Writer::write locks the table's serial executor (a tokio *)
(* mutex) and builds the Writer with it.                                   *)
Acquire(w) ==
    /\ pc[w] = "idle"
    /\ nwrites[w] < WritesPerWriter
    /\ serialExec[Tbl(w)] = NoWriter
    /\ serialExec' = [serialExec EXCEPT ![Tbl(w)] = w]
    /\ \E r \in Requests : req' = [req EXCEPT ![w] = r]
    /\ seqOf' = [seqOf EXCEPT ![w] = 0]
    /\ Goto(w, "preprocess")
    /\ UNCHANGED <<walBatches, memBatches, flushTarget, resumeAt, nwrites, wal,
                   memtables, lastSeq, flushed, flushQueue, dropped, acked, restarts>>

(* validate_before_write and the checks of preprocess_write that reject a  *)
(* write: TooManyRows, WriteDroppedTable, IncompatSchema.                  *)
Rejected(w) ==
    \/ ~(Len(req[w].rows) < MaxRowsToWrite)
    \/ Tbl(w) \in dropped
    \/ ~req[w].compatible

Preprocess(w) ==
    /\ pc[w] = "preprocess"
    /\ ~Rejected(w)
    /\ Goto(w, "flush_instance")
    /\ UNCHANGED <<serialExec, req, walBatches, memBatches, seqOf, flushTarget,
                   resumeAt, nwrites, wal, memtables, lastSeq, flushed,
                   flushQueue, dropped, acked, restarts>>

RejectWrite(w) ==
    /\ pc[w] = "preprocess"
    /\ Rejected(w)
    /\ Return(w)
    /\ UNCHANGED <<req, walBatches, memBatches, seqOf, flushTarget, resumeAt,
                   wal, memtables, lastSeq, flushed, flushQueue, dropped, acked, restarts>>

KeepFlushState == UNCHANGED <<req, walBatches, memBatches, seqOf, nwrites, wal,
                              memtables, lastSeq, flushed, dropped, acked, restarts>>

(* Mutant: the executor of another table is locked with a blocking wait.  *)
HandleMemtableFlushBlocking(w, tgt, next) ==
    \/ /\ tgt = Tbl(w)
       /\ flushQueue' = flushQueue \cup {tgt}
       /\ flushTarget' = [flushTarget EXCEPT ![w] = NoTable]
       /\ Goto(w, next)
       /\ UNCHANGED serialExec
    \/ /\ tgt # Tbl(w)
       /\ serialExec[tgt] = NoWriter
       /\ serialExec' = [serialExec EXCEPT ![tgt] = w]
       /\ Goto(w, "flush_other")
       /\ UNCHANGED <<flushTarget, flushQueue>>

(* Writer::handle_memtable_flush of table tgt, continuing at step next.    *)
(* The writer's own table is flushed through the executor it already      *)
(* holds; another table's executor is only try_locked, and on contention  *)
(* the flush is skipped with a warning.  A failed submission (FlushTable) *)
(* is the action FlushSubmitFail.                                          *)
HandleMemtableFlush(w, tgt, next) ==
    \/ /\ tgt = Tbl(w)
       /\ flushQueue' = flushQueue \cup {tgt}
       /\ flushTarget' = [flushTarget EXCEPT ![w] = NoTable]
       /\ Goto(w, next)
       /\ UNCHANGED serialExec
    \/ /\ tgt # Tbl(w)
       /\ serialExec[tgt] = NoWriter
       /\ serialExec' = [serialExec EXCEPT ![tgt] = w]
       /\ Goto(w, "flush_other")
       /\ UNCHANGED <<flushTarget, flushQueue>>
    \/ /\ tgt # Tbl(w)
       /\ serialExec[tgt] # NoWriter
       /\ flushTarget' = [flushTarget EXCEPT ![w] = NoTable]
       /\ Goto(w, next)
       /\ UNCHANGED <<serialExec, flushQueue>>

(* The three flush triggers of preprocess_write, in their order, and the *)
(* tables each one flushes: the instance trigger (engine memory above      *)
(* db_write_buffer_size) and the space trigger both pick a table of        *)
(* maximal usage; the table trigger flushes the writer's own table.        *)
TriggerNext(step) ==
    CASE step = "flush_instance" -> "flush_space"
      [] step = "flush_space"    -> "flush_table"
      [] step = "flush_table"    -> "encode"

TriggerTargets(w) ==
    CASE pc[w] = "flush_instance" ->
            IF SpaceUsage > DbWriteBufferSize THEN MaxUsageTables ELSE {}
      [] pc[w] = "flush_space" ->
            IF SpaceUsage > SpaceWriteBufferSize THEN MaxUsageTables ELSE {}
      [] pc[w] = "flush_table" ->
            IF TableUsage(Tbl(w)) > TableWriteBufferSize THEN {Tbl(w)} ELSE {}

(* A trigger that fires picks its table (ties between tables of maximal   *)
(* usage broken either way) and calls handle_memtable_flush on it.        *)
FlushTrigger(w) ==
    /\ pc[w] \in {"flush_instance", "flush_space", "flush_table"}
    /\ \/ \E tgt \in TriggerTargets(w) :
             /\ flushTarget' = [flushTarget EXCEPT ![w] = tgt]
             /\ resumeAt' = [resumeAt EXCEPT ![w] = TriggerNext(pc[w])]
             /\ Goto(w, "handle_flush")
       \/ /\ TriggerTargets(w) = {}
          /\ Goto(w, TriggerNext(pc[w]))
          /\ UNCHANGED <<flushTarget, resumeAt>>
    /\ UNCHANGED <<serialExec, flushQueue>>
    /\ KeepFlushState

HandleFlush(w) ==
    /\ pc[w] = "handle_flush"
    /\ HandleMemtableFlush(w, flushTarget[w], resumeAt[w])
    /\ UNCHANGED resumeAt
    /\ KeepFlushState

(* schedule_flush on the other table's scheduler returned Ok: the flush is *)
(* queued and the try_lock guard dropped.                                  *)
ScheduleOtherFlush(w) ==
    /\ pc[w] = "flush_other"
    /\ flushQueue' = flushQueue \cup {flushTarget[w]}
    /\ serialExec' = [serialExec EXCEPT ![flushTarget[w]] = NoWriter]
    /\ flushTarget' = [flushTarget EXCEPT ![w] = NoTable]
    /\ Goto(w, resumeAt[w])
    /\ UNCHANGED resumeAt
    /\ KeepFlushState

(* schedule_flush returned an error (FlushTable): the write fails, and    *)
(* every executor guard it holds is dropped.                               *)
FlushSubmitFail(w) ==
    /\ CollaboratorsFail
    /\ \/ pc[w] = "flush_other"
       \/ pc[w] = "handle_flush" /\ flushTarget[w] = Tbl(w)
    /\ serialExec' = [t \in Tables |->
                        IF t \in {Tbl(w), flushTarget[w]} THEN NoWriter ELSE serialExec[t]]
    /\ nwrites' = [nwrites EXCEPT ![w] = @ + 1]
    /\ flushTarget' = [flushTarget EXCEPT ![w] = NoTable]
    /\ Goto(w, "idle")
    /\ UNCHANGED <<req, walBatches, memBatches, seqOf, resumeAt, wal, memtables,
                   lastSeq, flushed, flushQueue, dropped, acked, restarts>>

(* EncodeContext::encode_rows then maybe_split_write_request.  A split    *)
(* that panics (only possible for empty encoded rows) would abort the task. *)
Encode(w) ==
    /\ pc[w] = "encode"
    /\ LET res == MaybeSplit(Sizes(req[w]), MaxBytesPerBatch, NoLimit)
       IN  /\ res.kind # "Panic"
           /\ walBatches' = [walBatches EXCEPT ![w] = res.wal]
           /\ memBatches' = [memBatches EXCEPT ![w] = res.mem]
    /\ Goto(w, "wal")
    /\ UNCHANGED <<serialExec, req, seqOf, flushTarget, resumeAt, nwrites, wal,
                   memtables, lastSeq, flushed, flushQueue, dropped, acked, restarts>>

(* Mutant: the WAL is written once and its sequence reused for the later  *)
(* batches of the request.                                                 *)
WriteWalOnce(w) ==
    /\ pc[w] = "wal"
    /\ IF seqOf[w] = 0
       THEN /\ wal' = [wal EXCEPT ![Tbl(w)] =
                         Append(@, [i \in DOMAIN Head(walBatches[w]) |->
                                       WalRow(w, Head(walBatches[w])[i])])]
            /\ seqOf' = [seqOf EXCEPT ![w] = Len(wal[Tbl(w)]) + 1]
       ELSE UNCHANGED <<wal, seqOf>>
    /\ walBatches' = [walBatches EXCEPT ![w] = Tail(@)]
    /\ Goto(w, "memtable")
    /\ UNCHANGED <<serialExec, req, memBatches, flushTarget, resumeAt, nwrites,
                   memtables, lastSeq, flushed, flushQueue, dropped, acked, restarts>>

(* Writer::write_to_wal for the next encoded batch: the WAL manager       *)
(* appends one record at the table's location and returns its sequence.   *)
WriteWal(w) ==
    /\ pc[w] = "wal"
    /\ wal' = [wal EXCEPT ![Tbl(w)] =
                 Append(@, [i \in DOMAIN Head(walBatches[w]) |->
                               WalRow(w, Head(walBatches[w])[i])])]
    /\ seqOf' = [seqOf EXCEPT ![w] = Len(wal[Tbl(w)]) + 1]
    /\ walBatches' = [walBatches EXCEPT ![w] = Tail(@)]
    /\ Goto(w, "memtable")
    /\ UNCHANGED <<serialExec, req, memBatches, flushTarget, resumeAt, nwrites,
                   memtables, lastSeq, flushed, flushQueue, dropped, acked, restarts>>

(* EncodePayloads or WriteLogBatch: no sequence is assigned and the write  *)
(* fails; batches appended before stay in the WAL and the memtables.      *)
WalFail(w) ==
    /\ CollaboratorsFail
    /\ pc[w] = "wal"
    /\ Return(w)
    /\ UNCHANGED <<req, walBatches, memBatches, seqOf, flushTarget, resumeAt,
                   wal, memtables, lastSeq, flushed, flushQueue, dropped, acked, restarts>>

-----------------------------------------------------------------------------
(* MemTableWriter::write.  ts is the timestamp (window or Expired) of each *)
(* row of the slice, in order.                                             *)

(* Mutant: accept_timestamp is taken to accept every timestamp.           *)
AcceptsAny(m, ts) == TRUE

(* MemTable::accept_timestamp: the memtable covers the row's window.       *)
Accepts(m, ts) == m = ts

(* last_mutable_mem after row i: unchanged by an expired row, rotated by   *)
(* find_or_create_mutable when there is none or it does not accept the     *)
(* row's timestamp.  0 stands for None.                                    *)
RECURSIVE CurrentMem(_, _)
CurrentMem(ts, i) ==
    IF i = 0 THEN 0
    ELSE LET prev == CurrentMem(ts, i - 1) IN
         IF ts[i] = Expired THEN prev
         ELSE IF prev = 0 \/ ~Accepts(prev, ts[i]) THEN ts[i] ELSE prev

(* Row i made the writer call find_or_create_mutable.                     *)
Rotates(ts, i) ==
    /\ ts[i] # Expired
    /\ CurrentMem(ts, i - 1) = 0 \/ ~Accepts(CurrentMem(ts, i - 1), ts[i])

(* Mutant: an expired row ends the loop instead of being skipped.         *)
LiveRowsBreak(ts, upto) == {i \in 1..upto : \A j \in 1..i : ts[j] # Expired}

(* The rows among the first upto that are put: expired rows are skipped.  *)
LiveRows(ts, upto) == {i \in 1..upto : ts[i] # Expired}

(* Mutant: the KeySequence index is the row's index in the whole request. *)
KeyOfAbsolute(seq, slice, i) == <<seq, slice[i] - 1>>

(* KeySequence::new(sequence, row_idx as u32): row_idx counts the rows of  *)
(* the slice from 0.                                                       *)
KeyOf(seq, slice, i) == <<seq, i - 1>>

(* Mutant: set_last_sequence runs on last_mutable_mem alone, not on every *)
(* memtable of wrote_memtables.                                            *)
PutRowsLastOnly(w, upto, opened, sequenced) ==
    LET t     == Tbl(w)
        slice == Head(memBatches[w])
        rows  == [i \in DOMAIN slice |-> req[w].rows[slice[i]]]
        ts    == [i \in DOMAIN slice |-> rows[i].win]
        entry(i) == [key |-> KeyOf(seqOf[w], slice, i), id |-> RowId(w, slice[i]),
                     win |-> ts[i], size |-> rows[i].size]
        into(m) == {entry(i) : i \in {j \in LiveRows(ts, upto) : CurrentMem(ts, j) = m}}
    IN  [m \in Windows |->
            IF m \in opened \/ memtables[t][m].open
            THEN [rows |-> memtables[t][m].rows \cup into(m),
                  last |-> IF m \in sequenced /\ m = CurrentMem(ts, upto) THEN seqOf[w]
                           ELSE memtables[t][m].last,
                  open |-> TRUE]
            ELSE NoMem]

(* The memtables of w's table after the first upto rows of its current    *)
(* slice are put; opened are the memtables found or created on the way,   *)
(* sequenced those set_last_sequence(sequence) then ran on.               *)
PutRows(w, upto, opened, sequenced) ==
    LET t     == Tbl(w)
        slice == Head(memBatches[w])
        rows  == [i \in DOMAIN slice |-> req[w].rows[slice[i]]]
        ts    == [i \in DOMAIN slice |-> rows[i].win]
        entry(i) == [key |-> KeyOf(seqOf[w], slice, i), id |-> RowId(w, slice[i]),
                     win |-> ts[i], size |-> rows[i].size]
        into(m) == {entry(i) : i \in {j \in LiveRows(ts, upto) : CurrentMem(ts, j) = m}}
    IN  [m \in Windows |->
            IF m \in opened \/ memtables[t][m].open
            THEN [rows |-> memtables[t][m].rows \cup into(m),
                  last |-> IF m \in sequenced THEN seqOf[w]
                           ELSE memtables[t][m].last,
                  open |-> TRUE]
            ELSE NoMem]

SliceTs(w) == LET slice == Head(memBatches[w])
              IN  [i \in DOMAIN slice |-> req[w].rows[slice[i]].win]

(* The memtables rotated to among the first upto rows.                    *)
Rotated(ts, upto) == {CurrentMem(ts, i) : i \in {j \in LiveRows(ts, upto) : Rotates(ts, j)}}

(* wrote_memtables: the memtables rotated to, in the order of the rows.   *)
WroteMemtables(ts, upto) ==
    LET js == SetToSortSeq({j \in LiveRows(ts, upto) : Rotates(ts, j)}, <)
    IN  [k \in DOMAIN js |-> CurrentMem(ts, js[k])]

(* The whole slice is put and the sequence published: write_table_row_group *)
(* sets table last_sequence after the memtable write (a gap only warns).  *)
(* The write returns Ok after its last batch.                              *)
WriteMemTable(w) ==
    /\ pc[w] = "memtable"
    /\ LET ts == SliceTs(w) IN
       memtables' = [memtables EXCEPT ![Tbl(w)] =
                        PutRows(w, Len(ts), Rotated(ts, Len(ts)), Rotated(ts, Len(ts)))]
    /\ lastSeq' = [lastSeq EXCEPT ![Tbl(w)] = seqOf[w]]
    /\ memBatches' = [memBatches EXCEPT ![w] = Tail(@)]
    /\ IF Tail(memBatches[w]) = <<>>
       THEN /\ Return(w)
            /\ acked' = acked \cup
                  {[table |-> Tbl(w), id |-> RowId(w, i), win |-> req[w].rows[i].win] :
                      i \in DOMAIN req[w].rows}
       ELSE /\ Goto(w, "wal")
            /\ UNCHANGED <<serialExec, nwrites, acked>>
    /\ UNCHANGED <<req, walBatches, seqOf, flushTarget, resumeAt, wal, flushed,
                   flushQueue, dropped, restarts>>

(* FindMutableMemTable or WriteMemTable at row k: the rows before it stay  *)
(* in the memtables, no memtable sequence and no table last_sequence is    *)
(* updated, and the write fails with the batch already in the WAL.  A put  *)
(* failure leaves the memtable of row k found or created.  Or              *)
(* UpdateMemTableSequence: every row is put and set_last_sequence fails on *)
(* the k-th memtable of wrote_memtables, after it ran on those before.     *)
MemTableFail(w) ==
    /\ CollaboratorsFail
    /\ pc[w] = "memtable"
    /\ LET ts == SliceTs(w)
           wrote == WroteMemtables(ts, Len(ts)) IN
       \/ \E k \in LiveRows(ts, Len(ts)) :
             \/ /\ Rotates(ts, k)
                /\ memtables' = [memtables EXCEPT ![Tbl(w)] =
                                   PutRows(w, k - 1, Rotated(ts, k - 1), {})]
             \/ memtables' = [memtables EXCEPT ![Tbl(w)] =
                                 PutRows(w, k - 1, Rotated(ts, k), {})]
       \/ \E k \in DOMAIN wrote :
             memtables' = [memtables EXCEPT ![Tbl(w)] =
                             PutRows(w, Len(ts), Rotated(ts, Len(ts)),
                                     ToSet(SubSeq(wrote, 1, k - 1)))]
    /\ Return(w)
    /\ UNCHANGED <<req, walBatches, memBatches, seqOf, flushTarget, resumeAt,
                   wal, lastSeq, flushed, flushQueue, dropped, acked, restarts>>

-----------------------------------------------------------------------------
(* The background flush of a scheduled table: its mutable memtables are   *)
(* dumped to SSTs and released.                                            *)
RunFlush(t) ==
    /\ t \in flushQueue
    /\ flushed' = [flushed EXCEPT ![t] = @ \cup MemRows(t)]
    /\ memtables' = [memtables EXCEPT ![t] = [m \in Windows |-> NoMem]]
    /\ flushQueue' = flushQueue \ {t}
    /\ UNCHANGED <<serialExec, pc, req, walBatches, memBatches, seqOf,
                   flushTarget, resumeAt, nwrites, wal, lastSeq, dropped, acked, restarts>>

(* A table is dropped through its serial executor.                        *)
DropTable(t) ==
    /\ Cardinality(dropped) < MaxDrops
    /\ t \notin dropped
    /\ serialExec[t] = NoWriter
    /\ dropped' = dropped \cup {t}
    /\ UNCHANGED <<serialExec, pc, req, walBatches, memBatches, seqOf, flushTarget,
                   resumeAt, nwrites, wal, memtables, lastSeq, flushed,
                   flushQueue, acked, restarts>>

(* WAL replay when the table is opened again (spec section 5, not in this  *)
(* tree): every record is read back and its rows are put into the memtable *)
(* of their window under KeySequence(sequence, index), expired rows        *)
(* skipped.  Puts are idempotent under KeySequence, so rows already in     *)
(* SSTs may be put again.  A memtable's last sequence is the greatest      *)
(* sequence replayed into it.                                              *)
ReplayRows(t, from, to) ==
    UNION {{[key |-> <<s, i - 1>>, id |-> wal[t][s][i].id, win |-> wal[t][s][i].win,
             size |-> wal[t][s][i].size] :
                i \in {j \in DOMAIN wal[t][s] : wal[t][s][j].win # Expired}} :
           s \in from..to}

MemOfRows(rows, m) ==
    LET in == {e \in rows : e.win = m} IN
    IF in = {} THEN NoMem
    ELSE [rows |-> in, last |-> Max({e.key[1] : e \in in}), open |-> TRUE]

(* Mutant: replay resumes after the table's last_sequence, as if every    *)
(* record up to it were already in SSTs.                                   *)
ReplayedFromLastSeq(t) ==
    [m \in Windows |-> MemOfRows(ReplayRows(t, lastSeq[t] + 1, Len(wal[t])), m)]

(* Mutant: the last record is not replayed.                               *)
ReplayedButLast(t) ==
    [m \in Windows |-> MemOfRows(ReplayRows(t, 1, Len(wal[t]) - 1), m)]

Replayed(t) == [m \in Windows |-> MemOfRows(ReplayRows(t, 1, Len(wal[t])), m)]

(* The engine crashes and restarts: every task, executor guard, memtable  *)
(* and scheduled flush is lost; the WAL, the SSTs and the dropped flags    *)
(* are durable.  A write in flight ends without a reply.  Each table is    *)
(* reopened by replaying its WAL; last_sequence is the last replayed one.  *)
Restart ==
    /\ restarts < MaxRestarts
    /\ restarts' = restarts + 1
    /\ serialExec' = [t \in Tables |-> NoWriter]
    /\ pc' = [w \in Writers |-> "idle"]
    /\ nwrites' = [w \in Writers |-> IF pc[w] = "idle" THEN nwrites[w] ELSE nwrites[w] + 1]
    /\ walBatches' = [w \in Writers |-> <<>>]
    /\ memBatches' = [w \in Writers |-> <<>>]
    /\ seqOf' = [w \in Writers |-> 0]
    /\ flushTarget' = [w \in Writers |-> NoTable]
    /\ resumeAt' = [w \in Writers |-> "idle"]
    /\ memtables' = [t \in Tables |-> Replayed(t)]
    /\ lastSeq' = [t \in Tables |-> Len(wal[t])]
    /\ flushQueue' = {}
    /\ UNCHANGED <<req, wal, flushed, dropped, acked>>

(* Every step of a write after the caller acquired the serial executor.   *)
WriterStep(w) ==
    \/ Preprocess(w) \/ RejectWrite(w) \/ FlushTrigger(w) \/ HandleFlush(w)
    \/ ScheduleOtherFlush(w) \/ FlushSubmitFail(w) \/ Encode(w)
    \/ WriteWal(w) \/ WalFail(w) \/ WriteMemTable(w) \/ MemTableFail(w)

Next ==
    \/ \E w \in Writers : Acquire(w) \/ WriterStep(w)
    \/ \E t \in Tables : RunFlush(t) \/ DropTable(t)
    \/ Restart

(* Tasks are polled whenever they can make progress: a writer's steps are *)
(* weakly fair, and so is the background flush.                           *)
Fairness ==
    /\ \A w \in Writers : WF_vars(WriterStep(w))
    /\ \A t \in Tables : WF_vars(RunFlush(t))

Spec == Init /\ [][Next]_vars /\ Fairness
-----------------------------------------------------------------------------
TypeOK ==
    /\ serialExec \in [Tables -> Writers \cup {NoWriter}]
    /\ pc \in [Writers -> {"idle", "preprocess", "flush_instance", "flush_space",
                           "flush_table", "handle_flush", "flush_other", "encode", "wal", "memtable"}]
    /\ req \in [Writers -> Requests]
    /\ seqOf \in [Writers -> Nat]
    /\ flushTarget \in [Writers -> Tables \cup {NoTable}]
    /\ nwrites \in [Writers -> 0..WritesPerWriter]
    /\ wal \in [Tables -> Seq(Seq([id : Writers \X Nat \X Nat, win : Windows \cup {Expired}, size : Nat]))]
    /\ restarts \in 0..MaxRestarts
    /\ lastSeq \in [Tables -> Nat]
    /\ flushQueue \subseteq Tables
    /\ dropped \subseteq Tables

(* KeySequence (sequence, row index) identifies one row of a table, in    *)
(* the memtables and the SSTs alike: the WAL gives every batch a fresh    *)
(* sequence and the index counts the rows of the batch.                   *)
KeySequenceUnique ==
    \A t \in Tables : \A e1, e2 \in StoredRows(t) : e1.key = e2.key => e1.id = e2.id

(* Every row in a memtable or SST is the row the WAL recorded under its    *)
(* key: record key[1] of the table holds it at index key[2].  Replaying   *)
(* the WAL rebuilds exactly the keys the live write path installed, and    *)
(* nothing reaches a memtable that the WAL does not hold.                  *)
StoredRowsInWal ==
    \A t \in Tables : \A e \in StoredRows(t) :
        LET s == e.key[1]  i == e.key[2] + 1 IN
        /\ s \in 1..Len(wal[t])
        /\ i \in DOMAIN wal[t][s]
        /\ wal[t][s][i].id = e.id

(* A memtable holds only rows of the time window it covers, however the  *)
(* rows of a request alternate between windows.                           *)
MemTableRouting ==
    \A t \in Tables : \A m \in Windows : \A e \in memtables[t][m].rows : e.win = m

(* A write that returned Ok has every one of its unexpired rows in a      *)
(* memtable or an SST of its table, under a sequence the table has         *)
(* published as last_sequence.                                             *)
AckedWritesStored ==
    \A a \in acked : a.win # Expired =>
        \E e \in StoredRows(a.table) : e.id = a.id /\ e.key[1] <= lastSeq[a.table]

(* Every row of an acknowledged write lies at or below the last sequence  *)
(* of the memtable holding it: a write rotating between windows leaves    *)
(* rows in several memtables, and each of them, not only the one it       *)
(* ended in, is given the batch's sequence before the write returns Ok.   *)
AckedRowsSequenced ==
    \A t \in Tables : \A m \in Windows : \A e \in memtables[t][m].rows :
        (\E a \in acked : a.table = t /\ a.id = e.id) => e.key[1] <= memtables[t][m].last

(* The table's last_sequence and the last sequence of a live memtable     *)
(* never go down, however the writes of the table's tasks interleave.     *)
SequenceMonotone ==
    [][\A t \in Tables :
         /\ lastSeq'[t] >= lastSeq[t]
         /\ \A m \in Windows :
               memtables[t][m].open /\ memtables'[t][m].open =>
                   memtables'[t][m].last >= memtables[t][m].last]_vars

(* The rows of table t as its WAL holds them, and the ids of the rows in  *)
(* its memtables or SSTs.                                                  *)
WalRows(t) == UNION {{[id |-> wal[t][s][i].id, win |-> wal[t][s][i].win] :
                         i \in DOMAIN wal[t][s]} : s \in DOMAIN wal[t]}

StoredIds(t) == {e.id : e \in StoredRows(t)}

Log == INSTANCE TableLog WITH log <- [t \in Tables |-> WalRows(t)],
                              stored <- [t \in Tables |-> StoredIds(t)]

(* The write path implements the table's log: no row reaches a memtable  *)
(* before its WAL append returned, no step loses a row from the memtables *)
(* and SSTs (a flush moves them, a crash is repaired by replay), a write  *)
(* is acknowledged only once all its unexpired rows are stored, and after *)
(* a crash replay makes exactly the WAL's unexpired rows readable, rows of *)
(* writes that failed or were cut off after their WAL append included.    *)
ImplementsTableLog == Log!Spec

(* Every write that got its table's serial executor returns: a flush of   *)
(* another table never waits for that table's executor, so two writers    *)
(* each holding its own table never wait for each other.                  *)
WriteCompletes == \A w \in Writers : (pc[w] # "idle") ~> (pc[w] = "idle")
=============================================================================
