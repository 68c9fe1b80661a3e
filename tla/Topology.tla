------------------------------- MODULE Topology -------------------------------
(***************************************************************************)
(* Inner::fetch_nodes of cluster/src/cluster_impl.rs and the node topology *)
(* it caches.  A cached topology is returned straight away under the read  *)
(* lock; otherwise get_nodes is sent to the meta service and, after the    *)
(* await, ClusterTopology::maybe_update_nodes stores the answer only if    *)
(* its version is greater than the stored one (spec section 5; that type   *)
(* is not in this tree).  If it was not stored, the cached topology is     *)
(* read again.  A topology is abstracted to its version; 0 is "none".      *)
(***************************************************************************)
EXTENDS Naturals, Sequences

CONSTANTS
    Fetchers,       \* tasks calling fetch_nodes concurrently
    MaxTopoVersion  \* bound on the meta service's topology version

VARIABLES
    metaVersion,    \* the meta service's cluster_topology_version
    cached,         \* the version of the cached node topology, 0 if none
    fpc,            \* per fetcher: "idle", "await" or "update"
    fetched,        \* per fetcher: the version get_nodes answered
    returned,       \* history: what fetch_nodes returned, in order, as records
                    \* [version, start] with the meta version at the call's start
    startVersion    \* history: per fetcher, the meta version when its call began

vars == <<metaVersion, cached, fpc, fetched, returned, startVersion>>

Init ==
    /\ metaVersion = 1
    /\ cached = 0
    /\ fpc = [f \in Fetchers |-> "idle"]
    /\ fetched = [f \in Fetchers |-> 0]
    /\ returned = <<>>
    /\ startVersion = [f \in Fetchers |-> 1]

(* The meta service's topology changes.                                   *)
MetaBump ==
    /\ metaVersion < MaxTopoVersion
    /\ metaVersion' = metaVersion + 1
    /\ UNCHANGED <<cached, fpc, fetched, returned, startVersion>>

(* ClusterTopology::maybe_update_nodes: stores a strictly newer version.  *)
MaybeUpdateNodes(stored, version) == IF version > stored THEN version ELSE stored

(* A returned topology, with the meta version at the start of the call.  *)
Ret(version, start) == [version |-> version, start |-> start]

(* The cached branch of fetch_nodes, and the call of get_nodes on a miss. *)
FetchNodes(f) ==
    /\ fpc[f] = "idle"
    /\ \/ /\ cached # 0
          /\ returned' = Append(returned, Ret(cached, metaVersion))
          /\ UNCHANGED fpc
       \/ /\ cached = 0
          /\ fpc' = [fpc EXCEPT ![f] = "await"]
          /\ UNCHANGED returned
    /\ startVersion' = [startVersion EXCEPT ![f] = metaVersion]
    /\ UNCHANGED <<metaVersion, cached, fetched>>

(* get_nodes answers with the meta service's version, or fails            *)
(* (MetaClientFailure) and fetch_nodes returns the error.                 *)
GetNodes(f) ==
    /\ fpc[f] = "await"
    /\ \/ /\ fetched' = [fetched EXCEPT ![f] = metaVersion]
          /\ fpc' = [fpc EXCEPT ![f] = "update"]
       \/ /\ fpc' = [fpc EXCEPT ![f] = "idle"]
          /\ UNCHANGED fetched
    /\ UNCHANGED <<metaVersion, cached, returned, startVersion>>

(* Mutant: the fetched topology returned even when maybe_update_nodes     *)
(* kept the stored one.                                                    *)
UpdateNodesReturnFetched(f) ==
    /\ fpc[f] = "update"
    /\ cached' = MaybeUpdateNodes(cached, fetched[f])
    /\ returned' = Append(returned, Ret(fetched[f], startVersion[f]))
    /\ fpc' = [fpc EXCEPT ![f] = "idle"]
    /\ UNCHANGED <<metaVersion, fetched, startVersion>>

(* After the await: maybe_update_nodes under the write lock; the fetched  *)
(* topology is returned if it was stored, else the cached one is read     *)
(* under the read lock (ClusterNodesNotFound if there is none, which      *)
(* cannot happen once an answer has been offered to the cache).           *)
UpdateNodes(f) ==
    /\ fpc[f] = "update"
    /\ cached' = MaybeUpdateNodes(cached, fetched[f])
    /\ returned' = Append(returned, Ret(cached', startVersion[f]))
    /\ fpc' = [fpc EXCEPT ![f] = "idle"]
    /\ UNCHANGED <<metaVersion, fetched, startVersion>>

Next ==
    \/ MetaBump
    \/ \E f \in Fetchers : FetchNodes(f) \/ GetNodes(f) \/ UpdateNodes(f)

Spec == Init /\ [][Next]_vars

-----------------------------------------------------------------------------
TypeOK ==
    /\ metaVersion \in 1..MaxTopoVersion
    /\ cached \in 0..MaxTopoVersion
    /\ fpc \in [Fetchers -> {"idle", "await", "update"}]
    /\ fetched \in [Fetchers -> 0..MaxTopoVersion]

(* Whatever order concurrent fetch_nodes calls finish in, no caller is    *)
(* handed a topology older than one handed out before: a slow get_nodes   *)
(* answer that lost the race to a newer one is replaced by the cache.     *)
ReturnedMonotone ==
    \A i \in DOMAIN returned : \A j \in i..Len(returned) :
        returned[i].version <= returned[j].version

(* Spec section 4.6: fetch_nodes forwards to the meta service and returns *)
(* the cached topology only if the fetched version did not advance.  So   *)
(* no call returns a topology older than the meta service's topology when *)
(* the call began.  The code returns any cached topology without asking   *)
(* (cluster_impl.rs, the early return of fetch_nodes), so once a topology *)
(* is cached every later change of the cluster is missed.                 *)
ReturnedNotStale ==
    \A i \in DOMAIN returned : returned[i].version >= returned[i].start
=============================================================================
