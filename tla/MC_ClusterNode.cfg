\* One shard of meta versions up to 2, one open_shard handler (the race of
\* two is run cluster_shards_race), and two
\* start() calls of the heartbeat, the second possibly while the first task
\* runs, and stop() at any point.
CONSTANTS
    Shards = {s1}
    Tables = {"t1", "t2"}
    Handlers = {h1}
    InitTables <- MCInitTables
    MaxVersion = 2
    MaxStarts = 2
    StartWhileRunning = TRUE
SPECIFICATION NodeSpec
PROPERTY StopReturns
PROPERTY OrphanLoopExits
PROPERTY HeartbeatRepeats
PROPERTY HeartbeatReportsCache
\* The meta service and the owner stop after finitely many events.
CHECK_DEADLOCK FALSE
