------------------------------ MODULE TableLog ------------------------------
(***************************************************************************)
(* What the write path of a table promises (spec section 5, "WAL-before-   *)
(* memtable ordering"), without executors, batches, memtables or flushes:  *)
(* rows become durable when they are appended to the table's log; a row is *)
(* readable only once it is durable and stays readable; a write is         *)
(* acknowledged only when every unexpired row of it is readable; and after *)
(* a crash every durable unexpired row is readable again, rows of failed   *)
(* writes included.  A row is its id and its timestamp, or Expired.        *)
(***************************************************************************)
EXTENDS FiniteSets

CONSTANTS
    Tables,
    Expired     \* the timestamp of a row whose TTL has expired

VARIABLES
    log,        \* per table: the rows appended to its WAL
    stored,     \* per table: the ids of the rows readable from it
    acked       \* the rows of acknowledged writes: [table, id, win]

vars == <<log, stored, acked>>

(* The ids of the unexpired rows among rows.                              *)
Live(rows) == {r.id : r \in {x \in rows : x.win # Expired}}

Init ==
    /\ log = [t \in Tables |-> {}]
    /\ stored = [t \in Tables |-> {}]
    /\ acked = {}

(* Rows of table t are made durable.                                      *)
Append(t) ==
    /\ log[t] \subseteq log'[t]
    /\ \A u \in Tables \ {t} : log'[u] = log[u]
    /\ UNCHANGED <<stored, acked>>

(* Durable rows of table t become readable, and writes whose unexpired    *)
(* rows all are may be acknowledged in the same step.                      *)
Install(t) ==
    /\ stored[t] \subseteq stored'[t]
    /\ stored'[t] \subseteq Live(log[t])
    /\ \A u \in Tables \ {t} : stored'[u] = stored[u]
    /\ acked \subseteq acked'
    /\ \A a \in acked' \ acked :
          /\ a.table = t
          /\ [id |-> a.id, win |-> a.win] \in log[t]
          /\ a.win # Expired => a.id \in stored'[t]
    /\ UNCHANGED log

(* A crash and reopen: what is readable is exactly the durable unexpired  *)
(* rows of every table.                                                    *)
Recover ==
    /\ stored' = [t \in Tables |-> Live(log[t])]
    /\ UNCHANGED <<log, acked>>

Next == Recover \/ \E t \in Tables : Append(t) \/ Install(t)

Spec == Init /\ [][Next]_vars
=============================================================================
