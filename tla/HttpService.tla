------------------------------ MODULE HttpService ------------------------------
(***************************************************************************)
(* The HTTP service of server/src/http.rs: Builder::build, Service::start  *)
(* and Service::stop, the warp server spawned with a graceful shutdown on  *)
(* the oneshot receiver, and concurrent requests: POST                     *)
(* /debug/flush_memtable, which lists every table and then flushes them    *)
(* one by one, and the other routes, whose handlers answer in one step.   *)
(* Rejections are turned into status codes by handle_rejection.           *)
(* A table's data is abstracted to a count of writes, and a flush to the   *)
(* count it has made durable.                                              *)
(***************************************************************************)
EXTENDS Naturals, Sequences, SequencesExt

CONSTANTS
    Tables,         \* the tables of every catalog and schema
    TableOrder,     \* the order get_all_tables visits them in
    Requests,       \* connections made to the server
    MaxWrites,      \* bound on the writes of a table
    MaxStarts       \* bound on the owner's calls of start()

ASSUME TableOrder \in Seq(Tables) /\ ToSet(TableOrder) = Tables

(* Builder fields, in the order build() checks them.                      *)
Fields == <<"engine_runtimes", "log_runtime", "config_content", "proxy", "opened_wals">>

VARIABLES
    built,      \* the build() result: "ok" or the error it returned
    addrOk,     \* whether config.endpoint.addr parses as an IpAddr
    owned,      \* the owner still holds the Service (stop consumes it)
    rx,         \* Service::rx is Some
    signal,     \* the oneshot: "none", or "sent" by stop()
    server,     \* the warp server: "none", "serving", "draining", "done"
    spawned,    \* number of servers spawned
    starts,     \* calls of start() so far
    req,        \* per request: "new", "refused", "listing", "flushing",
                \* "other", "debug", "admin" (in the handler of that
                \* route group) or "replied"
    code,       \* per request: the status code replied, 0 before
    listed,     \* per request: the tables get_all_tables returned
    todo,       \* per request: the listed tables still to flush
    success,    \* per request: success_tables
    failed,     \* per request: failed_tables
    written,    \* per table: writes made
    flushed,    \* per table: writes made durable by a flush
    seen        \* history, per request: `written` when it was accepted

vars == <<built, addrOk, owned, rx, signal, server, spawned, starts, req, code,
          listed, todo, success, failed, written, flushed, seen>>

(* Builder::build: the first missing field names the error; a missing     *)
(* config_content is reported as MissingInstance.                          *)
ErrorOfMissing == [engine_runtimes |-> "MissingEngineRuntimes",
                   log_runtime |-> "MissingLogRuntime",
                   config_content |-> "MissingInstance",
                   proxy |-> "MissingProxy",
                   opened_wals |-> "MissingWal"]

(* Builder::new sets every field to None and each setter sets its field: *)
(* a builder is the set of fields its setters were called for.            *)
Builders == SUBSET ToSet(Fields)

Build(given) ==
    LET missing == SelectSeq(Fields, LAMBDA f : f \notin given)
    IN  IF missing = <<>> THEN "ok" ELSE ErrorOfMissing[Head(missing)]

(* error_to_status_code: CreateContext is 400, every other error 500.     *)
StatusOf(err) == IF err = "CreateContext" THEN 400 ELSE 500

(* handle_rejection: not found is 404, an Error its status, else 500.    *)
RejectionStatus(rej) == CASE rej = "not_found" -> 404
                          [] rej = "unknown"   -> 500
                          [] OTHER             -> StatusOf(rej)

Init ==
    /\ built \in {Build(g) : g \in Builders}
    /\ addrOk \in BOOLEAN
    /\ owned = (built = "ok")
    /\ rx = (built = "ok")
    /\ signal = "none"
    /\ server = "none"
    /\ spawned = 0
    /\ starts = 0
    /\ req = [r \in Requests |-> "new"]
    /\ code = [r \in Requests |-> 0]
    /\ listed = [r \in Requests |-> <<>>]
    /\ todo = [r \in Requests |-> <<>>]
    /\ success = [r \in Requests |-> <<>>]
    /\ failed = [r \in Requests |-> <<>>]
    /\ written = [t \in Tables |-> 0]
    /\ flushed = [t \in Tables |-> 0]
    /\ seen = [r \in Requests |-> [t \in Tables |-> 0]]

reqVars == <<req, code, listed, todo, success, failed, seen>>

(* Mutant: start() checks rx without taking it.                          *)
StartNoTake ==
    /\ owned
    /\ starts < MaxStarts
    /\ starts' = starts + 1
    /\ IF addrOk /\ rx
          THEN /\ server' = "serving"
               /\ spawned' = spawned + 1
               /\ UNCHANGED rx
          ELSE UNCHANGED <<rx, server, spawned>>
    /\ UNCHANGED <<built, addrOk, owned, signal, reqVars, written, flushed>>

(* Service::start: ParseIpAddr first, then rx.take() or AlreadyStarted,   *)
(* then the server is spawned on the default runtime.                     *)
Start ==
    /\ owned
    /\ starts < MaxStarts
    /\ starts' = starts + 1
    /\ IF addrOk /\ rx
          THEN /\ rx' = FALSE
               /\ server' = "serving"
               /\ spawned' = spawned + 1
          ELSE UNCHANGED <<rx, server, spawned>>
    /\ UNCHANGED <<built, addrOk, owned, signal, reqVars, written, flushed>>

(* Service::stop consumes the service and sends on tx; the send fails    *)
(* only if the receiver is gone, which it is not while the server runs.   *)
Stop ==
    /\ owned
    /\ owned' = FALSE
    /\ signal' = "sent"
    /\ UNCHANGED <<built, addrOk, rx, server, spawned, starts, reqVars, written, flushed>>

(* The owner drops the Service without stop(): tx is dropped.             *)
DropService ==
    /\ owned
    /\ owned' = FALSE
    /\ UNCHANGED <<built, addrOk, rx, signal, server, spawned, starts, reqVars, written, flushed>>

(* Mutant: the shutdown future waits for the value only, not for the     *)
(* sender being dropped.                                                  *)
ShutdownOnSendOnly ==
    /\ server = "serving"
    /\ signal = "sent"
    /\ server' = "draining"
    /\ UNCHANGED <<built, addrOk, owned, rx, signal, spawned, starts, reqVars, written, flushed>>

(* The graceful-shutdown future `rx.await.ok()` completes when the value  *)
(* is sent or tx is dropped; the server stops accepting connections.      *)
Shutdown ==
    /\ server = "serving"
    /\ ~owned
    /\ server' = "draining"
    /\ UNCHANGED <<built, addrOk, owned, rx, signal, spawned, starts, reqVars, written, flushed>>

Handling == {"listing", "flushing", "other", "debug", "admin"}

InFlight == {r \in Requests : req[r] \in Handling}

(* Mutant: the server completes as soon as it is signalled, dropping the  *)
(* connections still in flight (a shutdown that is not graceful).         *)
FinishAbort ==
    /\ server = "draining"
    /\ server' = "done"
    /\ UNCHANGED <<built, addrOk, owned, rx, signal, spawned, starts, reqVars, written, flushed>>

(* The draining server completes once its connections are done.          *)
Finish ==
    /\ server = "draining"
    /\ InFlight = {}
    /\ server' = "done"
    /\ UNCHANGED <<built, addrOk, owned, rx, signal, spawned, starts, reqVars, written, flushed>>

(* A connection is accepted only while serving; routes() sends it to      *)
(* flush_memtable or to a handler of another route group.                 *)
Accept(r) ==
    /\ req[r] = "new"
    /\ server = "serving"
    /\ \/ /\ req' = [req EXCEPT ![r] = "listing"]
          /\ seen' = [seen EXCEPT ![r] = written]
       \/ /\ \E g \in {"other", "debug", "admin"} : req' = [req EXCEPT ![r] = g]
          /\ UNCHANGED seen
    /\ UNCHANGED <<built, addrOk, owned, rx, signal, server, spawned, starts,
                   code, listed, todo, success, failed, written, flushed>>

Refuse(r) ==
    /\ req[r] = "new"
    /\ server # "serving"
    /\ req' = [req EXCEPT ![r] = "refused"]
    /\ UNCHANGED <<built, addrOk, owned, rx, signal, server, spawned, starts,
                   code, listed, todo, success, failed, seen, written, flushed>>

(* Rejections of the routes: the Error variants their handlers return    *)
(* and warp's own (not found, and any other, "unknown").                   *)
Rejections == {"not_found", "unknown", "CreateContext", "HandleRequest",
               "HandleUpdateLogLevel", "ProfileCPU", "ProfileHeap", "JoinAsyncTask"}

(* with_context: building the RequestContext from the headers may fail.   *)
ContextRejections == {"CreateContext"}

Reply(r, c) == /\ req' = [req EXCEPT ![r] = "replied"]
               /\ code' = [code EXCEPT ![r] = c]

(* A handler of route group g answers 200 or with one of rejs.            *)
Serve(r, g, rejs) ==
    /\ req[r] = g
    /\ server # "done"
    /\ \E c \in {200} \cup {RejectionStatus(x) : x \in rejs} : Reply(r, c)
    /\ UNCHANGED <<built, addrOk, owned, rx, signal, server, spawned, starts,
                   listed, todo, success, failed, seen, written, flushed>>

(* The public APIs (home, sql, influxdb, opentsdb, prom, route): the      *)
(* proxy's handler fails with HandleRequest; the body filters reject.     *)
ServeOther(r) ==
    Serve(r, "other", {"not_found", "unknown", "HandleRequest"} \cup ContextRejections)

(* The debug routes other than flush_memtable: metrics, profile_cpu and    *)
(* profile_heap (a blocking task on the engine runtime, joined), config,   *)
(* stats, and update_log_level.  profile_cpu matches Ok(_) on the joined   *)
(* Result<Result<()>>, so a failed dump_cpu_prof replies 200 "ok": only    *)
(* profile_heap rejects with its own error.                               *)
ServeDebug(r) ==
    Serve(r, "debug", {"not_found", "unknown", "ProfileHeap", "JoinAsyncTask",
                       "HandleUpdateLogLevel"})

(* POST /admin/block: handle_block with a RequestContext.                 *)
ServeAdmin(r) ==
    Serve(r, "admin", {"not_found", "unknown", "HandleRequest"} \cup ContextRejections)

(* get_all_tables walks catalogs, schemas and tables; an Internal error  *)
(* rejects the request.                                                    *)
ListTables(r) ==
    /\ req[r] = "listing"
    /\ server # "done"
    /\ \/ /\ Reply(r, RejectionStatus("Internal"))
          /\ UNCHANGED <<listed, todo>>
       \/ /\ listed' = [listed EXCEPT ![r] = TableOrder]
          /\ todo' = [todo EXCEPT ![r] = TableOrder]
          /\ req' = [req EXCEPT ![r] = "flushing"]
          /\ UNCHANGED code
    /\ UNCHANGED <<built, addrOk, owned, rx, signal, server, spawned, starts,
                   success, failed, seen, written, flushed>>

(* The flush of the next listed table.                                    *)
FlushStep(r, ok) ==
    LET t == Head(todo[r]) IN
    /\ todo' = [todo EXCEPT ![r] = Tail(todo[r])]
    /\ IF ok THEN /\ flushed' = [flushed EXCEPT ![t] = written[t]]
                  /\ success' = [success EXCEPT ![r] = Append(success[r], t)]
                  /\ UNCHANGED failed
             ELSE /\ failed' = [failed EXCEPT ![r] = Append(failed[r], t)]
                  /\ UNCHANGED <<flushed, success>>

(* Mutant: a failed flush is pushed to success_tables.                   *)
FlushTableErrAsSuccess(r) ==
    /\ req[r] = "flushing"
    /\ todo[r] # <<>>
    /\ server # "done"
    /\ \E ok \in BOOLEAN :
        LET t == Head(todo[r]) IN
        /\ todo' = [todo EXCEPT ![r] = Tail(todo[r])]
        /\ flushed' = IF ok THEN [flushed EXCEPT ![t] = written[t]] ELSE flushed
        /\ success' = [success EXCEPT ![r] = Append(success[r], t)]
        /\ UNCHANGED failed
    /\ UNCHANGED <<built, addrOk, owned, rx, signal, server, spawned, starts,
                   req, code, listed, seen, written>>

(* The loop over the listed tables: `table.flush(..).await` either makes *)
(* the table's writes so far durable or fails; the table's name goes to  *)
(* success_tables or failed_tables.                                       *)
FlushTable(r) ==
    /\ req[r] = "flushing"
    /\ todo[r] # <<>>
    /\ server # "done"
    /\ \E ok \in BOOLEAN : FlushStep(r, ok)
    /\ UNCHANGED <<built, addrOk, owned, rx, signal, server, spawned, starts,
                   req, code, listed, seen, written>>

(* After the loop: the success and failed lists are replied as JSON.     *)
FlushReply(r) ==
    /\ req[r] = "flushing"
    /\ todo[r] = <<>>
    /\ server # "done"
    /\ Reply(r, 200)
    /\ UNCHANGED <<built, addrOk, owned, rx, signal, server, spawned, starts,
                   listed, todo, success, failed, seen, written, flushed>>

(* Writes to the tables go on while the server runs.                     *)
Write(t) ==
    /\ written[t] < MaxWrites
    /\ written' = [written EXCEPT ![t] = written[t] + 1]
    /\ UNCHANGED <<built, addrOk, owned, rx, signal, server, spawned, starts,
                   reqVars, flushed>>

Next ==
    \/ Start \/ Stop \/ DropService \/ Shutdown \/ Finish
    \/ \E r \in Requests : \/ Accept(r) \/ Refuse(r) \/ ServeOther(r)
                           \/ ServeDebug(r) \/ ServeAdmin(r)
                           \/ ListTables(r) \/ FlushTable(r) \/ FlushReply(r)
    \/ \E t \in Tables : Write(t)

(* The runtime polls the server task and every connection's handler.     *)
Fairness ==
    /\ WF_vars(Shutdown) /\ WF_vars(Finish)
    /\ \A r \in Requests : WF_vars(ServeOther(r) \/ ServeDebug(r) \/ ServeAdmin(r) \/ ListTables(r) \/ FlushTable(r) \/ FlushReply(r))

Spec == Init /\ [][Next]_vars /\ Fairness

-----------------------------------------------------------------------------
TypeOK ==
    /\ server \in {"none", "serving", "draining", "done"}
    /\ req \in [Requests -> {"new", "refused", "replied"} \cup Handling]
    /\ code \in [Requests -> {0, 200, 400, 404, 500}]
    /\ written \in [Tables -> 0..MaxWrites] /\ flushed \in [Tables -> 0..MaxWrites]

(* However often the owner calls start() (a retry after a failed start,  *)
(* or a second call), at most one warp server is ever spawned: rx is     *)
(* taken by the first start that gets past the address parse.            *)
AtMostOneServer == spawned <= 1

(* A 200 reply of flush_memtable names every listed table exactly once,  *)
(* in success_tables or failed_tables, and a table in success_tables has *)
(* durable every write made before the request was accepted, even with   *)
(* other flush requests and writes running between its awaits.           *)
FlushReplyTruthful ==
    \A r \in Requests :
        (req[r] = "replied" /\ code[r] = 200 /\ listed[r] # <<>>) =>
            /\ Len(success[r]) + Len(failed[r]) = Len(listed[r])
            /\ ToSet(success[r]) \cup ToSet(failed[r]) = ToSet(listed[r])
            /\ \A t \in ToSet(success[r]) : flushed[t] >= seen[r][t]

(* Graceful shutdown: once the owner has let go of the service, by stop() *)
(* or by dropping it, a running server stops.                             *)
ServerStops == (~owned /\ server \in {"serving", "draining"}) ~> (server = "done")

(* Every accepted request is answered: the server does not finish while  *)
(* a handler is in flight.                                                *)
AcceptedAnswered ==
    \A r \in Requests : (req[r] \in Handling) ~> (req[r] = "replied")
====
