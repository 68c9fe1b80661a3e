---------------------------- MODULE WriteSplitter ----------------------------
(***************************************************************************)
(* WriteRowGroupSplitter of analytic_engine/src/instance/write.rs.         *)
(*                                                                         *)
(* A row group is abstracted to the sequence of its encoded row sizes;     *)
(* row i of the group is the position i.  compute_batches walks the sizes  *)
(* and records the end index of every batch; split turns the end indexes   *)
(* into the encoded batches (written to the WAL) and the RowGroupSlicers   *)
(* (written to the memtables).  Positions are 1-based here: the code's end *)
(* index row_idx + 1 is the 1-based position of row_idx.                   *)
(***************************************************************************)
EXTENDS Naturals, Sequences, SequencesExt

(* All positions of a group of n rows, in order.                          *)
Positions(n) == [i \in 1..n |-> i]

(* The loop of compute_batches from position i on, with the running       *)
(* current_batch_size and the end indexes recorded so far; after the loop *)
(* a residue is closed only when current_batch_size > 0.                  *)
RECURSIVE Walk(_, _, _, _, _)
Walk(sizes, maxBytes, i, current, ends) ==
    IF i > Len(sizes)
    THEN IF current > 0 THEN Append(ends, Len(sizes)) ELSE ends
    ELSE IF current + sizes[i] >= maxBytes
         THEN Walk(sizes, maxBytes, i + 1, 0, Append(ends, i))
         ELSE Walk(sizes, maxBytes, i + 1, current + sizes[i], ends)

(* Mutant: the residue after the loop is never closed.                    *)
RECURSIVE WalkNoResidue(_, _, _, _, _)
WalkNoResidue(sizes, maxBytes, i, current, ends) ==
    IF i > Len(sizes) THEN ends
    ELSE IF current + sizes[i] >= maxBytes
         THEN WalkNoResidue(sizes, maxBytes, i + 1, 0, Append(ends, i))
         ELSE WalkNoResidue(sizes, maxBytes, i + 1, current + sizes[i], ends)

ComputeBatchesNoResidue(sizes, maxBytes) == WalkNoResidue(sizes, maxBytes, 1, 0, <<>>)

(* Mutant: a batch is closed only once it exceeds max_bytes_per_batch.    *)
RECURSIVE WalkStrict(_, _, _, _, _)
WalkStrict(sizes, maxBytes, i, current, ends) ==
    IF i > Len(sizes)
    THEN IF current > 0 THEN Append(ends, Len(sizes)) ELSE ends
    ELSE IF current + sizes[i] > maxBytes
         THEN WalkStrict(sizes, maxBytes, i + 1, 0, Append(ends, i))
         ELSE WalkStrict(sizes, maxBytes, i + 1, current + sizes[i], ends)

ComputeBatchesStrict(sizes, maxBytes) == WalkStrict(sizes, maxBytes, 1, 0, <<>>)

(* WriteRowGroupSplitter::compute_batches.                                 *)
ComputeBatches(sizes, maxBytes) == Walk(sizes, maxBytes, 1, 0, <<>>)

(* The batch the assignment loop of split pushes row r into: the index     *)
(* moves on by one when row_idx >= end_row_indexes[current_batch_idx].     *)
(* An index past the last batch is the out-of-bounds panic of the push.    *)
RECURSIVE BatchOf(_, _)
BatchOf(ends, r) ==
    LET prev == IF r = 1 THEN 1 ELSE BatchOf(ends, r - 1)
    IN  IF prev > Len(ends) THEN prev
        ELSE IF r - 1 >= ends[prev] THEN prev + 1 ELSE prev

(* WriteRowGroupSplitter::split.  "wal" are the encoded batches and "mem"  *)
(* the RowGroupSlicers, as sequences of row positions.                     *)
Split(sizes, maxBytes) ==
    LET ends == ComputeBatches(sizes, maxBytes)
        n    == Len(sizes)
        start(k) == IF k = 1 THEN 0 ELSE ends[k - 1]
    IN  IF Len(ends) <= 1
        THEN [kind |-> "Integrate", wal |-> <<Positions(n)>>, mem |-> <<Positions(n)>>]
        ELSE IF \E r \in 1..n : BatchOf(ends, r) > Len(ends)
        THEN [kind |-> "Panic", wal |-> <<>>, mem |-> <<>>]
        ELSE [kind |-> "Splitted",
              wal  |-> [k \in 1..Len(ends) |->
                          SelectSeq(Positions(n), LAMBDA r : BatchOf(ends, r) = k)],
              mem  |-> [k \in 1..Len(ends) |->
                          [j \in 1..(ends[k] - start(k)) |-> start(k) + j]]]

(* Writer::maybe_split_write_request: splitting only when                  *)
(* max_bytes_per_write_batch is set.                                       *)
MaybeSplit(sizes, maxBytes, NoLimit) ==
    IF maxBytes = NoLimit
    THEN [kind |-> "Integrate", wal |-> <<Positions(Len(sizes))>>,
          mem |-> <<Positions(Len(sizes))>>]
    ELSE Split(sizes, maxBytes)

-----------------------------------------------------------------------------
(* The reference definition of a split, from the contract of the splitter: *)
(* both the encoded batches and the slicers partition the rows in order,   *)
(* batch by batch the same rows, and inside a batch every proper prefix    *)
(* stays below the byte budget (a batch overshoots by at most its last     *)
(* row).                                                                   *)
SumOf(sizes, batch) == FoldLeft(LAMBDA acc, r : acc + sizes[r], 0, batch)

IsPartition(batches, n) == FlattenSeq(batches) = Positions(n)

WithinBudget(sizes, maxBytes, batch) ==
    \A m \in 1..(Len(batch) - 1) : SumOf(sizes, SubSeq(batch, 1, m)) < maxBytes
=============================================================================
