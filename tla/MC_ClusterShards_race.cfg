\* One shard whose meta version goes up to 3 through table changes, two
\* concurrent open_shard handlers, and duplicated or reordered events.
CONSTANTS
    Shards = {s1}
    Tables = {"t1", "t2"}
    Handlers = {h1, h2}
    InitTables <- MCInitTables
    MaxVersion = 3
SPECIFICATION Spec

PROPERTY ShardVersionMonotone
\* The meta service stops once its versions are used up and every event has
\* been handled; the node then waits for the next event.
CHECK_DEADLOCK FALSE
