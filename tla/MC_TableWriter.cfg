CONSTANTS
    Tables = {"t1", "t2"}
    Writers <- MCWriters
    WriterTable <- MCWriterTable
    Requests <- MCRequests
    Windows = {1, 2}
    Expired = Expired
    MaxRowsToWrite = 4
    MaxBytesPerBatch = 2
    NoLimit = NoLimit
    DbWriteBufferSize = 1
    SpaceWriteBufferSize = 2
    TableWriteBufferSize = 1
    WritesPerWriter = 1
    MaxDrops = 1
    CollaboratorsFail = TRUE
    MaxRestarts = 0
    NoWriter = NoWriter
    NoTable = NoTable

SPECIFICATION Spec

INVARIANT KeySequenceUnique
INVARIANT StoredRowsInWal
INVARIANT MemTableRouting
INVARIANT AckedWritesStored
INVARIANT AckedRowsSequenced
PROPERTY SequenceMonotone
PROPERTY ImplementsTableLog

\* Each writer issues WritesPerWriter writes, after which the engine idles.
CHECK_DEADLOCK FALSE
