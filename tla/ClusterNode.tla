------------------------------ MODULE ClusterNode ------------------------------
(***************************************************************************)
(* ClusterImpl as a whole: the shard events of ClusterShards and the       *)
(* heartbeat task of Heartbeat run concurrently on the cluster runtime.    *)
(* They meet in the heartbeat's body, which reads                          *)
(* shard_tables_cache.all_shard_infos() and sends it to the meta service;  *)
(* `reported` is the last shard infos the meta service received, `snap`  *)
(* per task the infos it read and has not sent yet.                       *)
(***************************************************************************)
EXTENDS ClusterShards

CONSTANTS MaxStarts, StartWhileRunning

VARIABLES loop, chan, txOf, handleOf, sending, owner, starts, reported, snap

HB == INSTANCE Heartbeat

shardVars == <<meta, events, cache, hpc, hreq, hreply>>
hbVars == <<loop, chan, txOf, handleOf, sending, owner, starts>>
nodeVars == <<shardVars, hbVars, reported, snap>>

(* ShardTablesCache::all_shard_infos: the cached shard id and version of  *)
(* every shard.                                                            *)
AllShardInfos == {<<s, cache[s].version>> : s \in DOMAIN cache}

(* No infos read: not a set of shard infos of any cache.                   *)
NoSnap == {<<"none", 0>>}

NodeInit == Init /\ HB!Init /\ reported = {} /\ snap = [i \in HB!Starts |-> NoSnap]

(* The loop body of task i reads all_shard_infos, before the await of    *)
(* send_heartbeat: shard events may change the cache in between.          *)
ReadShardInfos(i) ==
    /\ loop[i] = "send" /\ snap[i] = NoSnap
    /\ snap' = [snap EXCEPT ![i] = AllShardInfos]
    /\ UNCHANGED <<shardVars, hbVars, reported>>

(* Mutant: the shard infos read once, before the loop, and sent by every  *)
(* iteration.                                                              *)
SendHeartbeatReadOnce(i) ==
    /\ snap[i] # NoSnap
    /\ HB!SendHeartbeat(i)
    /\ reported' = snap[i]
    /\ UNCHANGED <<shardVars, snap>>

(* send_heartbeat completes: the meta service receives what task i read.  *)
SendHeartbeat(i) ==
    /\ snap[i] # NoSnap
    /\ HB!SendHeartbeat(i)
    /\ reported' = snap[i]
    /\ snap' = [snap EXCEPT ![i] = NoSnap]
    /\ UNCHANGED shardVars

(* The other steps of the task and of start()/stop() leave the shards and *)
(* the meta service's view alone.                                          *)
HeartbeatStep(A) == A /\ UNCHANGED <<shardVars, reported, snap>>

NodeNext ==
    \/ Next /\ UNCHANGED <<hbVars, reported, snap>>
    \/ HeartbeatStep(HB!Start) \/ HeartbeatStep(HB!StopTakeTx)
    \/ HeartbeatStep(HB!SendExit) \/ HeartbeatStep(HB!Join)
    \/ \E i \in HB!Starts : \/ ReadShardInfos(i) \/ SendHeartbeat(i)
                           \/ HeartbeatStep(HB!WaitTimeout(i))
                           \/ HeartbeatStep(HB!ReceiveExit(i))

(* The fairness of Heartbeat's Spec; reading the cache is a local step.    *)
NodeSpec ==
    /\ NodeInit /\ [][NodeNext]_nodeVars
    /\ \A i \in HB!Starts : /\ WF_nodeVars(ReadShardInfos(i))
                            /\ WF_nodeVars(SendHeartbeat(i))
                            /\ WF_nodeVars(HeartbeatStep(HB!WaitTimeout(i)))
                            /\ WF_nodeVars(HeartbeatStep(HB!ReceiveExit(i)))
    /\ WF_nodeVars(HeartbeatStep(HB!SendExit)) /\ WF_nodeVars(HeartbeatStep(HB!Join))

-----------------------------------------------------------------------------
NodeTypeOK == TypeOK /\ HB!TypeOK

(* The meta service keeps the node's lease only while heartbeats arrive:  *)
(* a task that stop() never takes the sender of sends heartbeats forever, *)
(* each wait ending when time::timeout elapses, after a failed send too.  *)
HeartbeatRepeats ==
    \A i \in HB!Starts : <>[](txOf = i) => []<>(loop[i] = "send")

(* A task orphaned by a second start() ends although stop() never signals *)
(* it: recv on its closed channel returns None while shard events go on.  *)
OrphanLoopExits ==
    \A i \in HB!Starts :
        (HB!Running(i) /\ ~HB!SenderAlive(i)) ~> (loop[i] = "exited")

(* A stop() that has taken the sender returns: the loop sees the signal   *)
(* at its next wait and the join completes, while shard events go on.    *)
StopReturns == (owner = "send_exit") ~> (owner = "stopped")

(* The meta service learns the node's shards: once the cache stops        *)
(* changing while a task holds the lease, the infos the meta service      *)
(* received are eventually and for good the cache's, although each       *)
(* iteration sends what it read before its await and a task orphaned by  *)
(* a second start() may still send an older read.                         *)
HeartbeatReportsCache ==
    \A i \in HB!Starts :
        (<>[](txOf = i) /\ <>[][UNCHANGED cache]_nodeVars)
            => <>[](reported = AllShardInfos)
=============================================================================
