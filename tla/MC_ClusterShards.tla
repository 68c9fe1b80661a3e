--------------------------- MODULE MC_ClusterShards ---------------------------
EXTENDS ClusterShards

MCInitTables == {"t1"}
=============================================================================
