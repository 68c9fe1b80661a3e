------------------------------ MODULE Heartbeat ------------------------------
(***************************************************************************)
(* The heartbeat tasks of ClusterImpl (cluster/src/cluster_impl.rs):       *)
(* start() spawns a loop that sends the cached shard infos to the meta     *)
(* service and then waits, with a timeout, on a channel of capacity 1; it *)
(* stores the sender in stop_heartbeat_tx and the join handle in          *)
(* heartbeat_handle, replacing (and so dropping) what they held.  stop()  *)
(* takes the sender, sends the exit signal, drops the sender, then takes  *)
(* the join handle and awaits the task.  The loop leaves its wait when    *)
(* recv completes: on a signal, or with None once every sender of its     *)
(* channel is dropped.  Task i is the one spawned by the i-th start().    *)
(* The interval, the error back-off and the shard infos sent do not      *)
(* change the control flow and are left out.                              *)
(***************************************************************************)
EXTENDS Naturals

CONSTANTS
    MaxStarts,          \* bound on the owner's calls of start()
    StartWhileRunning   \* whether start() may be called while a task runs

Starts == 1..MaxStarts
None == 0

VARIABLES
    loop,       \* per task: "none", "send", "wait" or "exited"
    chan,       \* per task: signals buffered in its channel (capacity 1)
    txOf,       \* the task whose sender stop_heartbeat_tx holds, or None
    handleOf,   \* the task whose join handle heartbeat_handle holds, or None
    sending,    \* the task whose sender stop() holds while sending, or None
    owner,      \* the owner's call: "idle", "send_exit", "join", "stopped"
    starts      \* calls of start() so far

vars == <<loop, chan, txOf, handleOf, sending, owner, starts>>

(* Some sender of task i's channel is alive.                              *)
SenderAlive(i) == txOf = i \/ sending = i

Running(i) == loop[i] \in {"send", "wait"}

Init ==
    /\ loop = [i \in Starts |-> "none"]
    /\ chan = [i \in Starts |-> 0]
    /\ txOf = None /\ handleOf = None /\ sending = None
    /\ owner = "idle" /\ starts = 0

(* start(): start_heartbeat_loop spawns task i and stores its sender and  *)
(* handle, dropping those of an earlier task.                              *)
Start ==
    /\ owner \in {"idle", "stopped"}
    /\ starts < MaxStarts
    /\ StartWhileRunning \/ txOf = None
    /\ LET i == starts + 1 IN
       /\ loop' = [loop EXCEPT ![i] = "send"]
       /\ txOf' = i /\ handleOf' = i
    /\ owner' = "idle"
    /\ starts' = starts + 1
    /\ UNCHANGED <<chan, sending>>

(* One iteration of the loop: send_heartbeat completes (Ok or Err, which  *)
(* only chooses the wait), then time::timeout(wait, rx.recv()).           *)
SendHeartbeat(i) ==
    /\ loop[i] = "send"
    /\ loop' = [loop EXCEPT ![i] = "wait"]
    /\ UNCHANGED <<chan, txOf, handleOf, sending, owner, starts>>

(* Mutant: the timeout's result is taken for the exit command: the loop   *)
(* breaks when the wait elapses.                                           *)
WaitTimeoutExits(i) ==
    /\ loop[i] = "wait"
    /\ chan[i] = 0 /\ SenderAlive(i)
    /\ loop' = [loop EXCEPT ![i] = "exited"]
    /\ UNCHANGED <<chan, txOf, handleOf, sending, owner, starts>>

(* The timeout elapses while recv is still pending.                       *)
WaitTimeout(i) ==
    /\ loop[i] = "wait"
    /\ chan[i] = 0 /\ SenderAlive(i)
    /\ loop' = [loop EXCEPT ![i] = "send"]
    /\ UNCHANGED <<chan, txOf, handleOf, sending, owner, starts>>

(* Mutant: the loop breaks only on a received signal (Ok(Some(_))); a     *)
(* closed channel goes on with the loop.                                   *)
ReceiveExitOnSignalOnly(i) ==
    /\ loop[i] = "wait"
    /\ \/ /\ chan[i] > 0
          /\ chan' = [chan EXCEPT ![i] = @ - 1]
          /\ loop' = [loop EXCEPT ![i] = "exited"]
       \/ /\ chan[i] = 0 /\ ~SenderAlive(i)
          /\ loop' = [loop EXCEPT ![i] = "send"]
          /\ UNCHANGED chan
    /\ UNCHANGED <<txOf, handleOf, sending, owner, starts>>

(* Mutant: the test of the timeout's result inverted (is_err for is_ok).  *)
ReceiveExitContinues(i) ==
    /\ loop[i] = "wait"
    /\ chan[i] > 0 \/ ~SenderAlive(i)
    /\ chan' = [chan EXCEPT ![i] = IF @ > 0 THEN @ - 1 ELSE 0]
    /\ loop' = [loop EXCEPT ![i] = "send"]
    /\ UNCHANGED <<txOf, handleOf, sending, owner, starts>>

(* recv completed before the timeout, with the signal or with None: the   *)
(* result is Ok, the loop breaks and rx is dropped.                       *)
ReceiveExit(i) ==
    /\ loop[i] = "wait"
    /\ chan[i] > 0 \/ ~SenderAlive(i)
    /\ chan' = [chan EXCEPT ![i] = IF @ > 0 THEN @ - 1 ELSE 0]
    /\ loop' = [loop EXCEPT ![i] = "exited"]
    /\ UNCHANGED <<txOf, handleOf, sending, owner, starts>>

(* stop(): take the sender; if there is one, send the signal.             *)
StopTakeTx ==
    /\ owner = "idle"
    /\ owner' = IF txOf # None THEN "send_exit" ELSE "join"
    /\ sending' = txOf
    /\ txOf' = None
    /\ UNCHANGED <<loop, chan, handleOf, starts>>

(* The send waits for room in the channel, or fails at once when rx was  *)
(* dropped (the error is ignored); then the sender is dropped.            *)
SendExit ==
    /\ owner = "send_exit"
    /\ \/ /\ loop[sending] # "exited" /\ chan[sending] < 1
          /\ chan' = [chan EXCEPT ![sending] = @ + 1]
       \/ /\ loop[sending] = "exited"
          /\ UNCHANGED chan
    /\ sending' = None
    /\ owner' = "join"
    /\ UNCHANGED <<loop, txOf, handleOf, starts>>

(* Take the handle; if there is one, await the task's end.                *)
Join ==
    /\ owner = "join"
    /\ handleOf # None => loop[handleOf] = "exited"
    /\ handleOf' = None
    /\ owner' = "stopped"
    /\ UNCHANGED <<loop, chan, txOf, sending, starts>>

Next ==
    \/ Start \/ StopTakeTx \/ SendExit \/ Join
    \/ \E i \in Starts : SendHeartbeat(i) \/ WaitTimeout(i) \/ ReceiveExit(i)

(* The tasks and the owner's await points are run by the tokio runtime:   *)
(* each enabled step of them is eventually taken.  When a signal is       *)
(* buffered or the channel is closed only ReceiveExit is enabled; while   *)
(* recv is pending, the timer of time::timeout fires.                      *)
Fairness ==
    /\ \A i \in Starts : /\ WF_vars(SendHeartbeat(i)) /\ WF_vars(WaitTimeout(i))
                         /\ WF_vars(ReceiveExit(i))
    /\ WF_vars(SendExit) /\ WF_vars(Join)

Spec == Init /\ [][Next]_vars /\ Fairness

-----------------------------------------------------------------------------
TypeOK ==
    /\ loop \in [Starts -> {"none", "send", "wait", "exited"}]
    /\ chan \in [Starts -> 0..1]
    /\ {txOf, handleOf, sending} \subseteq Starts \cup {None}
    /\ owner \in {"idle", "send_exit", "join", "stopped"}
    /\ starts \in 0..MaxStarts

(* A task that nobody can signal any more (a second start() replaced its  *)
(* sender, which stop() will never see) still ends: its channel is closed *)
(* and recv returns None at its next wait.                                 *)
OrphanLoopExits ==
    \A i \in Starts : (Running(i) /\ ~SenderAlive(i)) ~> (loop[i] = "exited")

(* A stop() that has taken the sender returns: the loop sees the signal   *)
(* at its next wait and the join completes.                               *)
StopReturns == (owner = "send_exit") ~> (owner = "stopped")
=============================================================================
