--------------------------- MODULE MC_TableWriter ---------------------------
(* Two tables of one space, each written by two tasks.  With a batch      *)
(* budget of 2 bytes the first request splits into the batches <<1>> and  *)
(* <<2, 3>>, the second of which spans two time windows; the second        *)
(* request puts an expired row before a live one in a single batch; the    *)
(* third has an incompatible schema.                                       *)
EXTENDS TableWriter

MCWriters == {"w1", "w2", "w3"}

MCWriterTable == [w \in MCWriters |-> IF w \in {"w1", "w3"} THEN "t1" ELSE "t2"]

R(win, size) == [win |-> win, size |-> size]

MCRequests ==
    { [rows |-> <<R(1, 2), R(1, 1), R(2, 1)>>, compatible |-> TRUE],
      [rows |-> <<R(Expired, 1), R(1, 1)>>, compatible |-> TRUE],
      [rows |-> <<R(1, 1)>>, compatible |-> FALSE] }
(* The lock discipline: two tasks per table, one single-row request.  Two *)
(* earlier writes leave both tables at equal usage above                  *)
(* db_write_buffer_size, so each of two later writers, holding its own     *)
(* table, picks the other table to flush.                                  *)
LockWriters == {"w1", "w2", "w3", "w4"}

LockWriterTable == [w \in LockWriters |-> IF w \in {"w1", "w3"} THEN "t1" ELSE "t2"]

LockRequests == { [rows |-> <<R(1, 1)>>, compatible |-> TRUE] }
(* Crash and replay: two tasks on one table; one request splits into two  *)
(* WAL records over two windows, the other is a single row.               *)
CrashWriters == {"w1", "w2"}

CrashWriterTable == [w \in CrashWriters |-> "t1"]

CrashRequests ==
    { [rows |-> <<R(1, 2), R(2, 1)>>, compatible |-> TRUE],
      [rows |-> <<R(1, 1)>>, compatible |-> TRUE] }
=============================================================================
