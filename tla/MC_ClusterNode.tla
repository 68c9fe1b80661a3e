---------------------------- MODULE MC_ClusterNode ----------------------------
EXTENDS ClusterNode

MCInitTables == {"t1"}
=============================================================================
