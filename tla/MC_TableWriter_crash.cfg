\* One table written by two tasks, with WAL, memtable and flush-submission
\* failures, flushes to SSTs, and one crash at any point followed by WAL
\* replay.
CONSTANTS
    Tables = {"t1"}
    Writers <- CrashWriters
    WriterTable <- CrashWriterTable
    Requests <- CrashRequests
    Windows = {1, 2}
    Expired = Expired
    MaxRowsToWrite = 4
    MaxBytesPerBatch = 2
    NoLimit = NoLimit
    DbWriteBufferSize = 3
    SpaceWriteBufferSize = 3
    TableWriteBufferSize = 1
    WritesPerWriter = 1
    MaxDrops = 0
    CollaboratorsFail = TRUE
    MaxRestarts = 1
    NoWriter = NoWriter
    NoTable = NoTable

SPECIFICATION Spec

INVARIANT AckedWritesStored
PROPERTY ImplementsTableLog

\* Each writer issues WritesPerWriter writes, after which the engine idles.
CHECK_DEADLOCK FALSE
