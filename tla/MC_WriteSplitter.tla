-------------------------- MODULE MC_WriteSplitter --------------------------
(* Checks WriteRowGroupSplitter::split against the reference definition   *)
(* for every row group of up to MaxRows rows with sizes from RowSizes and  *)
(* every max_bytes_per_batch in Budgets.  The input is fixed in Init and   *)
(* each state is one input.                                                *)
EXTENDS WriteSplitter

CONSTANTS RowSizes, MaxRows, Budgets

VARIABLES sizes, maxBytes

vars == <<sizes, maxBytes>>

Init ==
    /\ sizes \in BoundedSeq(RowSizes, MaxRows)
    /\ maxBytes \in Budgets

Next == UNCHANGED vars

Spec == Init /\ [][Next]_vars

TypeOK == sizes \in Seq(RowSizes) /\ maxBytes \in Nat

(* split never panics, and the encoded batches written to the WAL and the *)
(* slicers written to the memtables both partition the rows, in order and *)
(* batch for batch alike: no row is lost, duplicated or moved.            *)
PartitionExact ==
    LET res == Split(sizes, maxBytes) IN
    /\ res.kind # "Panic"
    /\ res.wal = res.mem
    /\ IsPartition(res.wal, Len(sizes))

(* A batch exceeds max_bytes_per_batch by at most its last row, and the   *)
(* request is split exactly when more than one batch results.             *)
BatchBound ==
    LET res == Split(sizes, maxBytes) IN
    /\ \A k \in DOMAIN res.wal : WithinBudget(sizes, maxBytes, res.wal[k])
    /\ (res.kind = "Splitted") <=> (Len(res.wal) > 1)
=============================================================================
