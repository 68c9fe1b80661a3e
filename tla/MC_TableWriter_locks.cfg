\* Collaborators do not fail and no table is dropped: the run is about the
\* serial executors and the flush triggers alone.
CONSTANTS
    Tables = {"t1", "t2"}
    Writers <- LockWriters
    WriterTable <- LockWriterTable
    Requests <- LockRequests
    Windows = {1}
    Expired = Expired
    MaxRowsToWrite = 4
    MaxBytesPerBatch = NoLimit
    NoLimit = NoLimit
    DbWriteBufferSize = 1
    SpaceWriteBufferSize = 2
    TableWriteBufferSize = 1
    WritesPerWriter = 1
    MaxDrops = 0
    CollaboratorsFail = FALSE
    MaxRestarts = 0
    NoWriter = NoWriter
    NoTable = NoTable

SPECIFICATION Spec

PROPERTY WriteCompletes

\* Each writer issues WritesPerWriter writes, after which the engine idles.
CHECK_DEADLOCK FALSE
