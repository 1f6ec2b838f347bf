--------------------------- MODULE EngineRuntime ---------------------------
(***************************************************************************)
(* The pool of engine worker processes of one engine row: threads that     *)
(* warm, call or stream a model create the worker they need under the      *)
(* engine's row lock and then talk to it without that lock, while others   *)
(* unload a model or stop the engine, workers crash, streams are cancelled *)
(* and the publisher reconciles the node's inventory.                      *)
(*                                                                         *)
(* A worker and a row lock are named by the caller that created them: a    *)
(* caller asks one thing, so it creates at most one of each.               *)
(***************************************************************************)
EXTENDS Naturals, FiniteSets

CONSTANTS Callers,   \* threads and coroutines, one operation each
          Models,    \* model_registry_id
          Configs,   \* runtime configurations
          Exclusive, \* those without concurrency_enabled
          Asked,     \* what each caller may ask: operation, model, configuration
          Nobody,    \* no caller, worker or lock
          MaxFaults, \* bound: failed inits, crashes, cancelled streams
          Hazards    \* which of them happen

Ops == {"warm", "call", "stream", "unload", "stop"}

ASSUME RuntimeAssumption ==
    /\ IsFiniteSet(Callers) /\ Nobody \notin Callers
    /\ Exclusive \subseteq Configs
    /\ Asked \in [Callers -> SUBSET [op : Ops, model : Models, config : Configs]]
    /\ MaxFaults \in Nat
    /\ Hazards \subseteq {"init", "crash", "cancel"}

VARIABLES ask,       \* what each caller asked
          call,      \* how far it has come
          handles,   \* _handles: the worker of each model
          rowlock,   \* _row_locks: the engine's lock, if it has one
          held,      \* holder of each row lock, dropped ones included
          process,   \* worker processes
          lock,      \* EngineHandle.lock of each of them
          record,    \* EngineNodeInstanceRegistry of this node
          publisher, \* a reconcile in progress, with what it read
          dropped,   \* a row lock was dropped while somebody used it
          faults     \* how many of these so far

vars == <<ask, call, handles, rowlock, held, process, lock, record, publisher,
          dropped, faults>>

Ids == Callers \cup {Nobody}

Calls == [at     : {"asked", "row", "look", "spawn", "init", "register", "record",
                    "enter", "wait", "close", "remove", "ghost",
                    "done", "failed", "cancelled"},
          row    : Ids,             \* row lock it took from _row_locks
          handle : Ids,             \* worker it got from _ensure_handle
          left   : SUBSET Callers]  \* workers it took out and must close

TypeOK ==
    /\ ask \in [Callers -> [op : Ops, model : Models, config : Configs]]
    /\ call \in [Callers -> Calls]
    /\ handles \in [Models -> Ids]
    /\ rowlock \in Ids
    /\ held \in [Callers -> Ids]
    /\ process \in [Callers -> {"none", "up", "exited"}]
    /\ lock \in [Callers -> Ids]
    /\ record \in [Models -> Ids]
    /\ publisher \in [at : {"idle", "write"}, seen : [Models -> Ids]]
    /\ dropped \in BOOLEAN
    /\ faults \in 0 .. MaxFaults

Nothing == [m \in Models |-> Nobody]

Init ==
    /\ ask \in [Callers -> [op : Ops, model : Models, config : Configs]]
    /\ \A c \in Callers : ask[c] \in Asked[c]
    /\ call = [c \in Callers |-> [at |-> "asked", row |-> Nobody, handle |-> Nobody,
                                  left |-> {}]]
    /\ handles = Nothing
    /\ rowlock = Nobody
    /\ held = [c \in Callers |-> Nobody]
    /\ process = [c \in Callers |-> "none"]
    /\ lock = [c \in Callers |-> Nobody]
    /\ record = Nothing
    /\ publisher = [at |-> "idle", seen |-> Nothing]
    /\ dropped = FALSE
    /\ faults = 0

----------------------------------------------------------------------------
(* Reading the state. *)

\* Deviation: a caller that waits is not told that the pipe has ended.
GoneUnnoticed(h) == FALSE

\* poll() of the worker's process, or _closed: its pipe has ended.
Gone(h) == process[h] = "exited"

\* Deviation: the configurations are compared by identity.
MatchesIdentity(c) == FALSE

\* The registered worker of caller c's model fits what it asked.
Matches(c) ==
    LET h == handles[ask[c].model] IN
    h # Nobody /\ ask[h].config = ask[c].config

\* Deviation: a worker that does not match is replaced, and not closed.
ReplacedForgotten(c) == {}

\* Deviation: it is closed without a look whether there is one.
ReplacedUnchecked(c) == {handles[ask[c].model]}

\* The worker the caller must close before it creates its own.
Replaced(c) == {handles[ask[c].model]} \ {Nobody}

IsExclusive(h) == ask[h].config \in Exclusive

\* Deviation: the inventory lists what is registered, dead workers included.
InventoryOfHandles == handles

\* Rows active_instances reports as running.
Inventory == [m \in Models |->
    IF \E h \in Callers : handles[m] = h /\ process[h] = "up" THEN handles[m] ELSE Nobody]

\* Callers that took row lock r from _row_locks and are not through with it.
Using(r) == {c \in Callers :
    call[c].row = r /\ call[c].at \in {"row", "look", "spawn", "init", "register", "record"}}

----------------------------------------------------------------------------
(* Creating a worker: _ensure_handle. *)

Goes(c, at) == call' = [call EXCEPT ![c].at = at]

\* Where a caller goes once it has its worker: ensure_running is through.
After(c) == IF ask[c].op = "warm" THEN "done" ELSE "enter"

Leaves(c) == held' = [held EXCEPT ![call[c].row] = Nobody]

\* Deviation: each caller makes the engine a new lock.
RowLockFresh(c) == c

\* _row_lock: the engine's lock, or a new one.
RowLock(c) == IF rowlock = Nobody THEN c ELSE rowlock

Start(c) ==
    /\ call[c].at = "asked" /\ ask[c].op \in {"warm", "call", "stream"}
    /\ rowlock' = RowLock(c)
    /\ call' = [call EXCEPT ![c].at = "row", ![c].row = RowLock(c)]
    /\ UNCHANGED <<ask, handles, held, process, lock, record, publisher, dropped, faults>>

AcquireRow(c) ==
    /\ call[c].at = "row" /\ held[call[c].row] = Nobody
    /\ held' = [held EXCEPT ![call[c].row] = c]
    /\ Goes(c, "look")
    /\ UNCHANGED <<ask, handles, rowlock, process, lock, record, publisher, dropped, faults>>

\* The worker is there, with this configuration.
Reuse(c) ==
    /\ call[c].at = "look" /\ Matches(c)
    /\ call' = [call EXCEPT ![c].at = After(c), ![c].handle = handles[ask[c].model]]
    /\ Leaves(c)
    /\ UNCHANGED <<ask, handles, rowlock, process, lock, record, publisher, dropped, faults>>

\* It is not; one with another configuration is taken out to be closed.
Replace(c) ==
    /\ call[c].at = "look" /\ ~ Matches(c)
    /\ call' = [call EXCEPT ![c].at = "spawn", ![c].left = Replaced(c)]
    /\ handles' = [handles EXCEPT ![ask[c].model] = Nobody]
    /\ UNCHANGED <<ask, rowlock, held, process, lock, record, publisher, dropped, faults>>

\* EngineWorkerSubject._start up to the init request.
Spawn(c) ==
    /\ call[c].at = "spawn" /\ call[c].left = {}
    /\ process' = [process EXCEPT ![c] = "up"]
    /\ Goes(c, "init")
    /\ UNCHANGED <<ask, handles, rowlock, held, lock, record, publisher, dropped, faults>>

Initialised(c) ==
    /\ call[c].at = "init" /\ process[c] = "up"
    /\ call' = [call EXCEPT ![c].at = "register", ![c].handle = c]
    /\ UNCHANGED <<ask, handles, rowlock, held, process, lock, record, publisher,
                   dropped, faults>>

\* The worker answers with an error, or not in time: it is left running.
InitFails(c) ==
    /\ "init" \in Hazards /\ faults < MaxFaults
    /\ call[c].at = "init" /\ process[c] = "up"
    /\ Goes(c, "failed") /\ Leaves(c)
    /\ faults' = faults + 1
    /\ UNCHANGED <<ask, handles, rowlock, process, lock, record, publisher, dropped>>

InitDies(c) ==
    /\ call[c].at = "init" /\ Gone(c)
    /\ Goes(c, "failed") /\ Leaves(c)
    /\ UNCHANGED <<ask, handles, rowlock, process, lock, record, publisher, dropped, faults>>

Register(c) ==
    /\ call[c].at = "register"
    /\ handles' = [handles EXCEPT ![ask[c].model] = c]
    /\ Goes(c, "record")
    /\ UNCHANGED <<ask, rowlock, held, process, lock, record, publisher, dropped, faults>>

\* _record_instance_running, and the row lock is released.
Record(c) ==
    /\ call[c].at = "record"
    /\ record' = [record EXCEPT ![ask[c].model] = c]
    /\ Goes(c, After(c)) /\ Leaves(c)
    /\ UNCHANGED <<ask, handles, rowlock, process, lock, publisher, dropped, faults>>

----------------------------------------------------------------------------
(* Talking to it: invoke and invoke_stream. *)

\* with handle.lock, unless the configuration allows concurrency; then the
\* request is sent, if the worker is still there.
Enter(c) ==
    LET h == call[c].handle IN
    /\ call[c].at = "enter"
    /\ IsExclusive(h) => lock[h] = Nobody
    /\ lock' = IF IsExclusive(h) THEN [lock EXCEPT ![h] = c] ELSE lock
    /\ Goes(c, "wait")
    /\ UNCHANGED <<ask, handles, rowlock, held, process, record, publisher, dropped, faults>>

Unlock(c) ==
    LET h == call[c].handle IN
    lock' = IF lock[h] = c THEN [lock EXCEPT ![h] = Nobody] ELSE lock

\* The worker's answer; an error of the engine is one.
Answered(c) ==
    /\ call[c].at = "wait" /\ process[call[c].handle] = "up"
    /\ Goes(c, "done") /\ Unlock(c)
    /\ UNCHANGED <<ask, handles, rowlock, held, process, record, publisher, dropped, faults>>

\* The worker has exited before the request, or before its answer.
CallFails(c) ==
    /\ call[c].at = "wait" /\ Gone(call[c].handle)
    /\ Goes(c, "failed") /\ Unlock(c)
    /\ UNCHANGED <<ask, handles, rowlock, held, process, record, publisher, dropped, faults>>

\* A stream cancelled while a thread of the executor waits for the lock on its
\* behalf: the thread goes on waiting, unless it had not begun.
CancelWaiting(c) ==
    /\ "cancel" \in Hazards /\ faults < MaxFaults
    /\ call[c].at = "enter" /\ ask[c].op = "stream" /\ IsExclusive(call[c].handle)
    /\ \E at \in {"ghost", "cancelled"} : Goes(c, at)
    /\ faults' = faults + 1
    /\ UNCHANGED <<ask, handles, rowlock, held, process, lock, record, publisher, dropped>>

CancelStream(c) ==
    /\ "cancel" \in Hazards /\ faults < MaxFaults
    /\ call[c].at = "wait" /\ ask[c].op = "stream"
    /\ Goes(c, "cancelled") /\ Unlock(c)
    /\ faults' = faults + 1
    /\ UNCHANGED <<ask, handles, rowlock, held, process, record, publisher, dropped>>

\* The thread gets the lock, for nobody.
GhostTakes(c) ==
    LET h == call[c].handle IN
    /\ call[c].at = "ghost" /\ lock[h] = Nobody
    /\ lock' = [lock EXCEPT ![h] = c]
    /\ Goes(c, "cancelled")
    /\ UNCHANGED <<ask, handles, rowlock, held, process, record, publisher, dropped, faults>>

----------------------------------------------------------------------------
(* Closing workers: unload_model, stop_engine, and a replaced worker. *)

\* Both take the engine's row lock out of _row_locks, whoever uses it.
DropsRow ==
    /\ rowlock' = Nobody
    /\ dropped' = (dropped \/ (rowlock # Nobody /\ Using(rowlock) # {}))

KeepsRow == UNCHANGED <<rowlock, dropped>>

Unload(c) ==
    LET m == ask[c].model IN
    /\ call[c].at = "asked" /\ ask[c].op = "unload"
    /\ handles' = [handles EXCEPT ![m] = Nobody]
    /\ IF \A n \in Models \ {m} : handles[n] = Nobody THEN DropsRow ELSE KeepsRow
    /\ call' = [call EXCEPT ![c].at = IF handles[m] = Nobody THEN "done" ELSE "close",
                            ![c].left = {handles[m]} \ {Nobody}]
    /\ UNCHANGED <<ask, held, process, lock, record, publisher, faults>>

Stop(c) ==
    LET taken == {handles[m] : m \in Models} \ {Nobody} IN
    /\ call[c].at = "asked" /\ ask[c].op = "stop"
    /\ handles' = Nothing
    /\ DropsRow
    /\ call' = [call EXCEPT ![c].at = IF taken = {} THEN "done" ELSE "close",
                            ![c].left = taken]
    /\ UNCHANGED <<ask, held, process, lock, record, publisher, faults>>

\* EngineHandle.close: the worker answers the close request and exits.
Close(c, h) ==
    /\ call[c].at \in {"close", "spawn"} /\ h \in call[c].left
    /\ process' = [process EXCEPT ![h] = "exited"]
    /\ call' = [call EXCEPT ![c].left = @ \ {h},
                            ![c].at = IF @ = "close" /\ call[c].left = {h}
                                      THEN "remove" ELSE @]
    /\ UNCHANGED <<ask, handles, rowlock, held, lock, record, publisher, dropped, faults>>

\* _record_instance_removed: the rows of the model, or of the engine.
Remove(c) ==
    /\ call[c].at = "remove"
    /\ record' = IF ask[c].op = "stop" THEN Nothing
                 ELSE [record EXCEPT ![ask[c].model] = Nobody]
    /\ Goes(c, "done")
    /\ UNCHANGED <<ask, handles, rowlock, held, process, lock, publisher, dropped, faults>>

----------------------------------------------------------------------------
(* The publisher, and crashes of workers. *)

Read ==
    /\ publisher.at = "idle"
    /\ publisher' = [at |-> "write", seen |-> Inventory]
    /\ UNCHANGED <<ask, call, handles, rowlock, held, process, lock, record, dropped, faults>>

Write ==
    /\ publisher.at = "write"
    /\ record' = publisher.seen
    /\ publisher' = [at |-> "idle", seen |-> Nothing]
    /\ UNCHANGED <<ask, call, handles, rowlock, held, process, lock, dropped, faults>>

Crash(h) ==
    /\ "crash" \in Hazards /\ faults < MaxFaults
    /\ process[h] = "up"
    /\ process' = [process EXCEPT ![h] = "exited"]
    /\ faults' = faults + 1
    /\ UNCHANGED <<ask, call, handles, rowlock, held, lock, record, publisher, dropped>>

----------------------------------------------------------------------------

Works(c) ==
    \/ Start(c) \/ AcquireRow(c) \/ Reuse(c) \/ Replace(c) \/ Spawn(c)
    \/ Initialised(c) \/ InitDies(c) \/ Register(c) \/ Record(c)
    \/ Enter(c) \/ Answered(c) \/ CallFails(c) \/ GhostTakes(c)
    \/ Unload(c) \/ Stop(c) \/ Remove(c)
    \/ \E h \in Callers : Close(c, h)

Fails(c) == InitFails(c) \/ CancelWaiting(c) \/ CancelStream(c) \/ Crash(c)

Publishes == Read \/ Write

Next == Publishes \/ \E c \in Callers : Works(c) \/ Fails(c)

Spec == Init /\ [][Next]_vars

\* The threads run, a running worker answers, and the publisher reconciles at
\* least every _FORCE_RECONCILE_SECONDS. A lock needs no fairness of its own:
\* each caller takes it once.
FairSpec ==
    /\ Spec
    /\ WF_vars(Publishes)
    /\ \A c \in Callers : WF_vars(Works(c))

----------------------------------------------------------------------------
(* Properties. *)

InitFailed(h) == call[h].at = "failed" /\ call[h].handle = Nobody

Closing(h) == \E c \in Callers : h \in call[c].left

\* A worker process that runs can be reached by later calls, by unload_model and
\* by stop_engine, or somebody is about to register or to close it: the memory of
\* a model is never held by a process nobody can close. It fails for a worker
\* whose init failed, which _start leaves running (worker.py), and it may fail
\* once a row lock was dropped while somebody used it (manager.py).
ResidentIsReachable ==
    \A h \in Callers : process[h] = "up" /\ ~ InitFailed(h) /\ ~ dropped =>
        \/ handles[ask[h].model] = h
        \/ call[h].at \in {"init", "register"}
        \/ Closing(h)

\* A model has one worker per configuration, the one being warmed included: calls
\* made during a warmup converge on the worker that it creates.
Converges ==
    \A g, h \in Callers :
        /\ process[g] = "up" /\ ~ InitFailed(g) /\ ~ Closing(g)
        /\ process[h] = "up" /\ ~ InitFailed(h) /\ ~ Closing(h)
        /\ ask[g].model = ask[h].model /\ ask[g].config = ask[h].config
        => g = h

\* They converge as long as unload_model and stop_engine drop no row lock that
\* somebody uses.
ConvergesUnderLock == dropped \/ Converges

\* A call whose configuration everybody shares, and that nobody unloads, stops or
\* crashes, gets its answer: two calls of one engine never close the worker under
\* each other.
UndisturbedCallsSucceed ==
    (/\ faults = 0
     /\ \A c, d \in Callers : ask[c].model = ask[d].model => ask[c].config = ask[d].config
     /\ \A c \in Callers : ask[c].op \notin {"unload", "stop"})
    => \A c \in Callers : call[c].at # "failed"

\* The lock of the worker was taken on behalf of a cancelled stream, and nobody
\* will release it.
Leaked(h) == \E c \in Callers : call[c].at = "cancelled" /\ lock[h] = c

\* Every caller gets an answer or an error, whatever crashes or is closed under
\* it, unless a cancelled stream left the worker locked.
CallsReturn ==
    \A c \in Callers :
        <>(\/ call[c].at \in {"done", "failed", "cancelled"}
           \/ call[c].handle # Nobody /\ Leaked(call[c].handle))

\* The published inventory settles on the workers that are registered and alive,
\* whatever the order in which unload, creation and reconcile wrote it.
NodeStateConverges ==
    <>[](\A m \in Models, h \in Callers :
            record[m] = h <=> handles[m] = h /\ process[h] = "up")

=============================================================================
