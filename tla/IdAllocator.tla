----------------------------- MODULE IdAllocator -----------------------------
(***************************************************************************)
(* The monotonic id allocator of common_util/src/id_allocator.rs.          *)
(*                                                                         *)
(* Inner keeps last_id, max_id and alloc_step.  alloc_id hands out         *)
(* last_id + 1 while last_id < max_id; otherwise it persists the new       *)
(* ceiling last_id + alloc_step through the caller's persist_next_max_id   *)
(* future and only then raises max_id.  IdAllocator wraps Inner in a tokio *)
(* RwLock whose write guard is held across that await, so calls from       *)
(* concurrent tasks are serialised.                                        *)
(*                                                                         *)
(* The persisted ceiling is the only state that survives a restart; the    *)
(* owner rebuilds the allocator from it (IdAllocator::new(c, c, step)).    *)
(***************************************************************************)
EXTENDS Naturals, Sequences

CONSTANTS
    Callers,        \* tasks calling alloc_id concurrently
    AllocStep,      \* alloc_step, > 0 (asserted by Inner::new)
    InitCeiling,    \* the ceiling persisted before the first start
    MaxId,          \* bound: no call starts once last_id reaches MaxId
    MaxRestarts,    \* bound on process restarts
    NoCaller

ASSUME AllocStep \in Nat \ {0}
ASSUME InitCeiling \in Nat /\ MaxId \in Nat /\ MaxRestarts \in Nat
ASSUME NoCaller \notin Callers

VARIABLES
    lastId,     \* Inner.last_id
    maxId,      \* Inner.max_id
    persisted,  \* the ceiling durably recorded by persist_next_max_id
    holder,     \* the caller holding the RwLock write guard, or NoCaller
    pc,         \* per caller: "idle", "waiting" (for the guard), "locked"
    pending,    \* per caller: next_max_id whose persist is being awaited
    issued,     \* history: every id returned, in order, across restarts
    restarts

vars == <<lastId, maxId, persisted, holder, pc, pending, issued, restarts>>

(* IdAllocator::new(last_id, max_id, alloc_step) after a (re)start.        *)
New(ceiling) ==
    /\ lastId = ceiling
    /\ maxId = ceiling

Init ==
    /\ New(InitCeiling)
    /\ persisted = InitCeiling
    /\ holder = NoCaller
    /\ pc = [c \in Callers |-> "idle"]
    /\ pending = [c \in Callers |-> 0]
    /\ issued = <<>>
    /\ restarts = 0

(* A task calls IdAllocator::alloc_id and waits for the write guard.       *)
Call(c) ==
    /\ pc[c] = "idle"
    /\ lastId < MaxId
    /\ pc' = [pc EXCEPT ![c] = "waiting"]
    /\ UNCHANGED <<lastId, maxId, persisted, holder, pending, issued, restarts>>

(* self.inner.write().await: the guard is granted when no one holds it.   *)
Lock(c) ==
    /\ pc[c] = "waiting"
    /\ holder = NoCaller
    /\ holder' = c
    /\ pc' = [pc EXCEPT ![c] = "locked"]
    /\ UNCHANGED <<lastId, maxId, persisted, pending, issued, restarts>>

(* Mutant: the fast-path test written last_id <= max_id.                  *)
AllocFastInclusive(c) ==
    /\ holder = c /\ pc[c] = "locked" /\ pending[c] = 0
    /\ lastId <= maxId
    /\ lastId' = lastId + 1
    /\ issued' = Append(issued, lastId + 1)
    /\ holder' = NoCaller
    /\ pc' = [pc EXCEPT ![c] = "idle"]
    /\ UNCHANGED <<maxId, persisted, pending, restarts>>

(* The fast path of Inner::alloc_id, and the slow path up to the await:    *)
(* when last_id < max_id the id is handed out and the guard dropped;       *)
(* otherwise next_max_id = last_id + alloc_step is handed to persist.      *)
AllocFast(c) ==
    /\ holder = c /\ pc[c] = "locked" /\ pending[c] = 0
    /\ lastId < maxId
    /\ lastId' = lastId + 1
    /\ issued' = Append(issued, lastId + 1)
    /\ holder' = NoCaller
    /\ pc' = [pc EXCEPT ![c] = "idle"]
    /\ UNCHANGED <<maxId, persisted, pending, restarts>>

StartPersist(c) ==
    /\ holder = c /\ pc[c] = "locked" /\ pending[c] = 0
    /\ ~(lastId < maxId)
    /\ pending' = [pending EXCEPT ![c] = lastId + AllocStep]
    /\ UNCHANGED <<lastId, maxId, persisted, holder, pc, issued, restarts>>

(* Mutant: last_id returned before it is incremented.                     *)
UpdateMaxIdReturnsOld(c) ==
    /\ holder = c /\ pending[c] # 0
    /\ persisted' = pending[c]
    /\ maxId' = pending[c]
    /\ lastId' = lastId + 1
    /\ issued' = Append(issued, lastId)
    /\ holder' = NoCaller
    /\ pc' = [pc EXCEPT ![c] = "idle"]
    /\ pending' = [pending EXCEPT ![c] = 0]
    /\ UNCHANGED restarts

(* persist_next_max_id(next_max_id).await returned Ok: max_id is raised,   *)
(* last_id incremented and returned, the guard dropped.                    *)
UpdateMaxId(c) ==
    /\ holder = c /\ pending[c] # 0
    /\ persisted' = pending[c]
    /\ maxId' = pending[c]
    /\ lastId' = lastId + 1
    /\ issued' = Append(issued, lastId + 1)
    /\ holder' = NoCaller
    /\ pc' = [pc EXCEPT ![c] = "idle"]
    /\ pending' = [pending EXCEPT ![c] = 0]
    /\ UNCHANGED restarts

(* Mutant: max_id raised in memory before the persist outcome is known.   *)
PersistFailRaisesMax(c) ==
    /\ holder = c /\ pending[c] # 0
    /\ persisted' = persisted
    /\ maxId' = pending[c]
    /\ holder' = NoCaller
    /\ pc' = [pc EXCEPT ![c] = "idle"]
    /\ pending' = [pending EXCEPT ![c] = 0]
    /\ UNCHANGED <<lastId, issued, restarts>>

(* Mutant: the error path leaves the write guard held.                   *)
PersistFailKeepsGuard(c) ==
    /\ holder = c /\ pending[c] # 0
    /\ \E durable \in BOOLEAN :
          persisted' = IF durable THEN pending[c] ELSE persisted
    /\ pc' = [pc EXCEPT ![c] = "idle"]
    /\ pending' = [pending EXCEPT ![c] = 0]
    /\ UNCHANGED <<lastId, maxId, holder, issued, restarts>>

(* The persist future failed (the `?` returns early) or the calling task  *)
(* was cancelled at the await: memory is left unchanged and the guard     *)
(* dropped.  The storage may or may not have recorded the ceiling.        *)
PersistFail(c) ==
    /\ holder = c /\ pending[c] # 0
    /\ \E durable \in BOOLEAN :
          persisted' = IF durable THEN pending[c] ELSE persisted
    /\ holder' = NoCaller
    /\ pc' = [pc EXCEPT ![c] = "idle"]
    /\ pending' = [pending EXCEPT ![c] = 0]
    /\ UNCHANGED <<lastId, maxId, issued, restarts>>

(* The process restarts: in-flight calls are lost and the owner rebuilds   *)
(* the allocator from the persisted ceiling.                               *)
Restart ==
    /\ restarts < MaxRestarts
    /\ restarts' = restarts + 1
    /\ lastId' = persisted
    /\ maxId' = persisted
    /\ holder' = NoCaller
    /\ pc' = [c \in Callers |-> "idle"]
    /\ pending' = [c \in Callers |-> 0]
    /\ UNCHANGED <<persisted, issued>>

Next ==
    \/ Restart
    \/ \E c \in Callers :
          \/ Call(c) \/ Lock(c) \/ AllocFast(c) \/ StartPersist(c)
          \/ UpdateMaxId(c) \/ PersistFail(c)

(* The tokio RwLock grants the write guard in FIFO order, so a waiting     *)
(* caller is strongly fair; every other step of a call is local work or    *)
(* an awaited persist that completes one way or the other.                *)
Fairness ==
    \A c \in Callers :
        /\ SF_vars(Lock(c))
        /\ WF_vars(AllocFast(c)) /\ WF_vars(StartPersist(c))
        /\ WF_vars(UpdateMaxId(c) \/ PersistFail(c))

Spec == Init /\ [][Next]_vars /\ Fairness

-----------------------------------------------------------------------------
(* The type of the state; ids handed out are positive: alloc_id          *)
(* increments last_id before returning it.                                *)
TypeOK ==
    /\ lastId \in Nat /\ maxId \in Nat /\ persisted \in Nat
    /\ holder \in Callers \cup {NoCaller}
    /\ pc \in [Callers -> {"idle", "waiting", "locked"}]
    /\ pending \in [Callers -> Nat]
    /\ issued \in Seq(Nat \ {0})
    /\ restarts \in 0..MaxRestarts

(* IdAllocator implements its contract: ids are returned in strictly      *)
(* increasing order, across concurrent callers, failed or cancelled       *)
(* persists and restarts from the persisted ceiling, so no id is reused.  *)
(* This rests on alloc_id raising max_id only after persist_next_max_id   *)
(* succeeded, and on the write guard serialising the calls.               *)
Contract == INSTANCE IdAllocatorContract WITH Ids <- 1..(MaxId + AllocStep)

ImplementsContract == Contract!Spec

(* Every id handed out so far lies below the durable ceiling, so a restart *)
(* at any moment resumes above it.                                        *)
IssuedBelowCeiling == \A i \in DOMAIN issued : issued[i] <= persisted

(* Every call of alloc_id returns: whether the persist succeeds or fails, *)
(* the write guard is dropped, so no caller waits forever behind it.      *)
CallReturns == \A c \in Callers : (pc[c] = "waiting") ~> (pc[c] = "idle")
=============================================================================
