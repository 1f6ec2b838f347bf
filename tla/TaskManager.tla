----------------------------- MODULE TaskManager -----------------------------
(***************************************************************************)
(* Background tasks and what their user is told: the TaskManager of every  *)
(* node that shares the database, the queue of pending notifications, the  *)
(* redis bridge between nodes, and one user who comes and goes.            *)
(*                                                                         *)
(* The coroutine of a task, its confirmations and the messages of clients  *)
(* run on the network loop of a node, so from one await to the next they   *)
(* are one step, which a fault may cut short.  An external task is a       *)
(* knowledge extraction: submitted by an upload and reported on by the     *)
(* ingestion thread of whichever node claims its request.  The request     *)
(* survives a crash unless a node holds it.                                *)
(***************************************************************************)
EXTENDS Naturals, FiniteSets

CONSTANTS
    Nodes,        \* processes that share the database
    Tasks,        \* calls of submit and submit_external_sync
    Home,         \* the node that gets the call
    KeyOf,        \* its task_key
    External,     \* tasks of submit_external_sync: durable keys
    MaxRounds,    \* confirmations of one task
    MaxCalls,     \* how many of the calls are made
    Bridges,      \* whether a redis bridge is configured: values to try
    Hazards,      \* kinds of faults that may happen
    MaxFaults     \* how many of them

Active == {"pending", "running", "waiting_confirmation"}
Told   == {"completed", "failed"}          \* ends that the user is told of
Status == {"absent"} \cup Active \cup Told \cup {"interrupted"}

ASSUME TasksAssumption ==
    /\ Home \in [Tasks -> Nodes]
    /\ External \subseteq Tasks
    /\ MaxRounds \in Nat /\ MaxCalls \in Nat /\ MaxFaults \in Nat
    /\ Bridges \subseteq BOOLEAN
    /\ Hazards \subseteq {"crash", "persist", "publish", "ingest", "drop", "late"}

VARIABLES
    bridge,    \* app_ctx().redis_task_bridge is there
    node,      \* the processes: down, recovering, up
    snap,      \* what recover_from_db has read and not yet written back
    tasks,     \* _tasks of each node: the status of its BackgroundTask objects
    rec,       \* background_tasks: the status in the database
    run,       \* where the coroutine, or the worker of an external task, is
    at,        \* the node it is on
    round,     \* confirmations the task has asked for
    listed,    \* the connections of the user in the registry of each node
    late,      \* nodes that have yet to handle a message of a closed connection
    notes,     \* pending_notifications not marked delivered
    wire,      \* messages on their way to the listeners of all nodes
    told,      \* messages that reached the user
    lost,      \* history: messages that went out, or never did, and reached nobody
    torn,      \* history: tasks whose row was not written as it should
    faults

vars == <<bridge, node, snap, tasks, rec, run, at, round, listed, late, notes,
          wire, told, lost, torn, faults>>

store  == <<snap, tasks, rec>>
mail   == <<notes, wire, told, lost>>
person == <<listed, late>>

Messages == Tasks \X {"completed", "failed", "confirmation"} \X (0 .. MaxRounds)

\* What the registry may list: a connection that lives, one that broke and is
\* not noticed, one registered after it was closed.
Connections == {"live", "stale", "dead"}

\* The coroutine of a task is there.
Alive(t) == run[t] \in {"queued", "work", "ask", "confirm", "answered", "cancelled"}

Up(n) == node[n] = "up"

\* The network loop does one thing at a time: a coroutine that has something to
\* tell or to ask, or an upload.  External tasks end in a thread.
LoopFree(n) ==
    /\ Up(n)
    /\ \A t \in Tasks \ External : run[t] \in {"notify", "ask"} => at[t] # n
    /\ \A t \in External : run[t] = "upload" => at[t] # n

Fault(kind) == kind \in Hazards /\ faults < MaxFaults /\ faults' = faults + 1

-----------------------------------------------------------------------------
(* Persistence and notification. *)

\* _persist_task: an error is logged and not raised.
Persist(t, status) ==
    \/ rec' = [rec EXCEPT ![t] = status] /\ UNCHANGED <<torn, faults>>
    \/ Fault("persist") /\ torn' = torn \cup {t} /\ UNCHANGED rec

\* The status of a task changes, in an object of node n and in its row.
Becomes(n, t, status) ==
    /\ tasks' = [tasks EXCEPT ![n][t] = status]
    /\ Persist(t, status)

\* bus.send to every connection that the registries of ns list: it raises for
\* none of them, and a live one leads to the user.
Send(ns, msgs) ==
    IF \E n \in ns : "live" \in listed[n]
    THEN told' = told \cup msgs /\ UNCHANGED lost
    ELSE lost' = lost \cup msgs /\ UNCHANGED told

\* _notify_user on node n: to its connections, else to the bridge, else to the
\* queue.  The caller is on the network loop or on the loop of the knowledge
\* thread, where publish makes a task.  Redis may be away, or its client belong
\* to the other loop; the queue may fail to commit: both only log it.
Notify(n, m) ==
    \/ /\ listed[n] # {}
       /\ Send({n}, {m})
       /\ UNCHANGED <<notes, wire, faults>>
    \/ /\ listed[n] = {} /\ bridge
       /\ wire' = wire \cup {m}
       /\ UNCHANGED <<notes, told, lost, faults>>
    \/ /\ listed[n] = {} /\ ~bridge
       /\ notes' = notes \cup {m}
       /\ UNCHANGED <<wire, told, lost, faults>>
    \/ /\ listed[n] = {}
       /\ Fault(IF bridge THEN "publish" ELSE "persist")
       /\ lost' = lost \cup {m}
       /\ UNCHANGED <<notes, wire, told>>

-----------------------------------------------------------------------------
(* Submission and the coroutine of a task. *)

\* _find_active_task_by_key, in the memory of this node only
Duplicate(t) == \E u \in Tasks : KeyOf[u] = KeyOf[t] /\ tasks[Home[t]][u] \in Active

Submit(t) ==
    /\ run[t] = "none" /\ LoopFree(Home[t])
    /\ Cardinality({u \in Tasks : run[u] # "none"}) < MaxCalls
    /\ \/ /\ Duplicate(t)
          /\ run' = [run EXCEPT ![t] = "joined"]
          /\ UNCHANGED <<tasks, rec, torn, faults>>
       \/ /\ ~Duplicate(t) /\ t \notin External
          /\ run' = [run EXCEPT ![t] = "queued"]
          /\ Becomes(Home[t], t, "pending")
       \/ /\ ~Duplicate(t) /\ t \in External
          /\ run' = [run EXCEPT ![t] = "upload"]
          /\ Becomes(Home[t], t, "running")
    /\ UNCHANGED <<bridge, node, snap, at, round, person, mail>>

\* _runner starts
Begin(t) ==
    /\ run[t] = "queued" /\ LoopFree(at[t])
    /\ run' = [run EXCEPT ![t] = "work"]
    /\ Becomes(at[t], t, "running")
    /\ UNCHANGED <<bridge, node, snap, at, round, person, mail>>

\* Deviation: a progress report says that the task is running.
ProgressRuns(t, n) ==
    /\ run[t] \in {"work", "held", "over"} /\ Up(n) /\ n = at[t]
    /\ t \notin External => LoopFree(n)
    /\ tasks[n][t] # "absent"
    /\ Persist(t, "running")
    /\ UNCHANGED <<bridge, node, snap, tasks, run, at, round, person, mail>>

\* update_progress_sync: the whole row, its status included, as node n has it.
\* The process that extracts has no task manager, so it reports nothing.
Progress(t, n) ==
    /\ IF t \in External THEN run[t] = "held" ELSE run[t] = "work" /\ LoopFree(n)
    /\ Up(n) /\ n = at[t]
    /\ tasks[n][t] # "absent"
    /\ Persist(t, tasks[n][t])
    /\ UNCHANGED <<bridge, node, snap, tasks, run, at, round, person, mail>>

\* request_confirmation writes the row,
Ask(t) ==
    /\ t \notin External
    /\ run[t] = "work" /\ round[t] < MaxRounds /\ LoopFree(at[t])
    /\ run' = [run EXCEPT ![t] = "ask"]
    /\ round' = [round EXCEPT ![t] = @ + 1]
    /\ Becomes(at[t], t, "waiting_confirmation")
    /\ UNCHANGED <<bridge, node, snap, at, person, mail>>

\* asks the user and awaits its future,
Question(t) ==
    /\ run[t] = "ask" /\ Up(at[t])
    /\ run' = [run EXCEPT ![t] = "confirm"]
    /\ Notify(at[t], <<t, "confirmation", round[t]>>)
    /\ UNCHANGED <<bridge, node, store, at, round, person, torn>>

\* and goes on from there.
Resume(t) ==
    /\ run[t] = "answered" /\ LoopFree(at[t])
    /\ run' = [run EXCEPT ![t] = "work"]
    /\ Becomes(at[t], t, "running")
    /\ UNCHANGED <<bridge, node, snap, at, round, person, mail>>

\* The coroutine returns or raises.
Finish(t, status) ==
    /\ t \notin External
    /\ run[t] = "work" /\ LoopFree(at[t])
    /\ run' = [run EXCEPT ![t] = "notify"]
    /\ Becomes(at[t], t, status)
    /\ UNCHANGED <<bridge, node, snap, at, round, person, mail>>

\* store_uploaded_media queues the extraction.
Enqueue(t) ==
    /\ run[t] = "upload" /\ Up(at[t])
    /\ run' = [run EXCEPT ![t] = "work"]
    /\ UNCHANGED <<bridge, node, store, at, round, person, mail, torn, faults>>

\* The extraction is given up by the process that runs it, without a report.
GiveUp(t) ==
    /\ t \in External /\ run[t] = "work"
    /\ run' = [run EXCEPT ![t] = "stranded"]
    /\ UNCHANGED <<bridge, node, store, at, round, person, mail, torn, faults>>

\* What was extracted is claimed for ingestion by the knowledge thread of n.
Take(t, n) ==
    /\ t \in External /\ run[t] = "work" /\ Up(n)
    /\ run' = [run EXCEPT ![t] = "held"]
    /\ at' = [at EXCEPT ![t] = n]
    /\ UNCHANGED <<bridge, node, store, round, person, mail, torn, faults>>

\* The ingestion raises and is to be tried again, or not even that is written
\* and the request stays "processing", which nobody claims.
Retry(t) ==
    /\ run[t] = "held" /\ Fault("ingest")
    /\ \E place \in {"work", "stranded"} : run' = [run EXCEPT ![t] = place]
    /\ UNCHANGED <<bridge, node, store, at, round, person, mail, torn>>

\* complete_external_sync and fail_external_sync on node n, for the thread that
\* holds the request or the upload that could not queue one: a task that n does
\* not know of is left as it is.
FinishExternal(t, n, status) ==
    /\ run[t] = "held" \/ (run[t] = "upload" /\ status = "failed")
    /\ n = at[t] /\ Up(n)
    /\ \/ /\ tasks[n][t] = "absent"
          /\ run' = [run EXCEPT ![t] = "strayed"]
          /\ UNCHANGED <<tasks, rec, torn, faults>>
       \/ /\ tasks[n][t] # "absent"
          /\ run' = [run EXCEPT ![t] = "notify"]
          /\ Becomes(n, t, status)
    /\ UNCHANGED <<bridge, node, snap, at, round, person, mail>>

\* Deviation: only those that completed are told.
TellSuccess(t) ==
    /\ run[t] = "notify" /\ Up(at[t])
    /\ run' = [run EXCEPT ![t] = "over"]
    /\ IF tasks[at[t]][t] = "completed"
       THEN Notify(at[t], <<t, "completed", 0>>)
       ELSE UNCHANGED <<mail, faults>>
    /\ UNCHANGED <<bridge, node, store, at, round, person, torn>>

\* The task has ended and been persisted: its user is told.
Tell(t) ==
    /\ run[t] = "notify" /\ Up(at[t])
    /\ run' = [run EXCEPT ![t] = "over"]
    /\ Notify(at[t], <<t, tasks[at[t]][t], 0>>)
    /\ UNCHANGED <<bridge, node, store, at, round, person, torn>>

\* CancelledError reaches _runner.
Unwind(t) ==
    /\ run[t] = "cancelled" /\ LoopFree(at[t])
    /\ run' = [run EXCEPT ![t] = "over"]
    /\ Becomes(at[t], t, "interrupted")
    /\ UNCHANGED <<bridge, node, snap, at, round, person, mail>>

-----------------------------------------------------------------------------
(* The user. *)

\* NotificationQueue.flush: what is queued goes to the connection the message
\* came from, which may be closed, and is then marked delivered; if the commit
\* fails it stays queued.
Flush(open) ==
    /\ told' = IF open THEN told \cup notes ELSE told
    /\ \/ /\ notes' = {}
          /\ lost' = IF open THEN lost ELSE lost \cup notes
          /\ UNCHANGED faults
       \/ Fault("persist") /\ UNCHANGED <<notes, lost>>
    /\ UNCHANGED <<wire, torn>>

\* build_context for a message on a live connection, which may be a new one
Receive(n) ==
    /\ LoopFree(n)
    /\ listed' = [listed EXCEPT ![n] = @ \cup {"live"}]
    /\ Flush(TRUE)
    /\ UNCHANGED late

Message(n) ==
    /\ Receive(n)
    /\ UNCHANGED <<bridge, node, store, run, at, round>>

\* handle_task_response: only the node of the task finds it
Answer(t) ==
    /\ run[t] = "confirm"
    /\ <<t, "confirmation", round[t]>> \in told
    /\ Receive(at[t])
    /\ run' = [run EXCEPT ![t] = "answered"]
    /\ UNCHANGED <<bridge, node, store, at, round>>

\* handle_task_cancel: a queued coroutine has started before a message that
\* came later is handled; an external task has no asyncio task.
Cancel(t) ==
    /\ t \notin External
    /\ run[t] \in {"work", "confirm", "answered"}
    /\ Receive(at[t])
    /\ run' = [run EXCEPT ![t] = "cancelled"]
    /\ UNCHANGED <<bridge, node, store, at, round>>

\* on_bus_disconnect
Leave(n) ==
    /\ "live" \in listed[n]
    /\ listed' = [listed EXCEPT ![n] = @ \ {"live"}]
    /\ \/ UNCHANGED <<late, faults>>
       \/ Fault("late") /\ late' = late \cup {n}
    /\ UNCHANGED <<bridge, node, store, run, at, round, mail, torn>>

\* build_context for a message whose connection was unregistered before the
\* loop got to it: it is registered again, and the queue is flushed into it.
LateMessage(n) ==
    /\ n \in late /\ LoopFree(n)
    /\ late' = late \ {n}
    /\ listed' = [listed EXCEPT ![n] = @ \cup {"dead"}]
    /\ Flush(FALSE)
    /\ UNCHANGED <<bridge, node, store, run, at, round>>

\* A connection breaks, and the bus finds out.
Drop(n) ==
    /\ "live" \in listed[n] /\ Fault("drop")
    /\ listed' = [listed EXCEPT ![n] = (@ \ {"live"}) \cup {"stale"}]
    /\ UNCHANGED <<bridge, node, store, run, at, round, late, mail, torn>>

Notice(n) ==
    /\ "stale" \in listed[n]
    /\ listed' = [listed EXCEPT ![n] = @ \ {"stale"}]
    /\ UNCHANGED <<bridge, node, store, run, at, round, late, mail, torn, faults>>

\* _listener on every node that is there: one that lists nobody ignores it
Listen(m) ==
    /\ m \in wire
    /\ wire' = wire \ {m}
    /\ Send(Nodes, {m})
    /\ UNCHANGED <<bridge, node, store, run, at, round, person, notes, torn, faults>>

-----------------------------------------------------------------------------
(* Crash and restart. *)

\* What becomes of the work of a node that ends: a request that it holds is
\* never claimed again, and an upload that had not queued one never does.
Broken(t) ==
    CASE run[t] \in {"upload", "held"} -> "stranded"
      [] run[t] = "notify" \/ (Alive(t) /\ t \notin External) -> "over"
      [] OTHER -> run[t]

\* The process ends, by a crash or a stop, which cancels no task: with it go the
\* end it was about to tell and what it was about to publish.
Crash(n) ==
    LET untold == {t \in Tasks : at[t] = n /\ run[t] = "notify"} IN
    /\ node[n] # "down" /\ Fault("crash")
    /\ node' = [node EXCEPT ![n] = "down"]
    /\ snap' = [snap EXCEPT ![n] = [t \in Tasks |-> "absent"]]
    /\ tasks' = [tasks EXCEPT ![n] = [t \in Tasks |-> "absent"]]
    /\ run' = [t \in Tasks |-> IF at[t] = n THEN Broken(t) ELSE run[t]]
    /\ \E unsent \in SUBSET {m \in wire : at[m[1]] = n} :
          /\ wire' = wire \ unsent
          /\ lost' = lost \cup unsent \cup {<<t, tasks[n][t], 0>> : t \in untold}
    /\ listed' = [listed EXCEPT ![n] = {}]
    /\ late' = late \ {n}
    /\ UNCHANGED <<bridge, rec, at, round, notes, told, torn>>

\* Deviations: every row; all but those that wait for an answer.
AnyRow(t) == rec[t]
Working(t) == IF rec[t] \in {"pending", "running"} THEN rec[t] ELSE "absent"

\* The rows that recover_from_db selects, whichever node they are of
Unfinished(t) == IF rec[t] \in Active THEN rec[t] ELSE "absent"

\* Deviation: the work of every row goes on.
RecoveredAsRead(n, t) == snap[n][t]

\* ... and what becomes of them: work whose key is durable goes on.
Recovered(n, t) == IF t \in External THEN snap[n][t] ELSE "interrupted"

Restart(n) ==
    /\ node[n] = "down"
    /\ node' = [node EXCEPT ![n] = "recovering"]
    /\ snap' = [snap EXCEPT ![n] = [t \in Tasks |-> Unfinished(t)]]
    /\ UNCHANGED <<bridge, tasks, rec, run, at, round, person, mail, torn, faults>>

\* What was read is written by primary key, durable tasks excepted.
Recover(n) ==
    LET read == {t \in Tasks : snap[n][t] # "absent"} IN
    /\ node[n] = "recovering"
    /\ node' = [node EXCEPT ![n] = "up"]
    /\ snap' = [snap EXCEPT ![n] = [t \in Tasks |-> "absent"]]
    /\ tasks' = [tasks EXCEPT ![n] = [t \in Tasks |->
                   IF t \in read THEN Recovered(n, t) ELSE "absent"]]
    /\ \/ /\ rec' = [t \in Tasks |->
                       IF t \in read \ External THEN Recovered(n, t) ELSE rec[t]]
          /\ UNCHANGED <<torn, faults>>
       \/ /\ Fault("persist")
          /\ torn' = torn \cup (read \ External)
          /\ UNCHANGED rec
    /\ UNCHANGED <<bridge, run, at, round, person, mail>>

-----------------------------------------------------------------------------
(* The specification. *)

Init ==
    /\ bridge \in Bridges
    /\ node = [n \in Nodes |-> "up"]
    /\ snap = [n \in Nodes |-> [t \in Tasks |-> "absent"]]
    /\ tasks = [n \in Nodes |-> [t \in Tasks |-> "absent"]]
    /\ rec = [t \in Tasks |-> "absent"]
    /\ run = [t \in Tasks |-> "none"]
    /\ at = Home
    /\ round = [t \in Tasks |-> 0]
    /\ listed = [n \in Nodes |-> {}]
    /\ late = {}
    /\ notes = {}
    /\ wire = {}
    /\ told = {}
    /\ lost = {}
    /\ torn = {}
    /\ faults = 0

Next ==
    \/ \E t \in Tasks : Submit(t) \/ Begin(t) \/ Ask(t) \/ Question(t) \/ Resume(t)
                        \/ Tell(t) \/ Unwind(t) \/ Answer(t) \/ Cancel(t)
                        \/ Enqueue(t) \/ GiveUp(t) \/ Retry(t)
    \/ \E t \in Tasks, status \in Told : Finish(t, status)
    \/ \E t \in Tasks, n \in Nodes : Progress(t, n) \/ Take(t, n)
    \/ \E t \in Tasks, n \in Nodes, status \in Told : FinishExternal(t, n, status)
    \/ \E n \in Nodes : Message(n) \/ Leave(n) \/ LateMessage(n) \/ Drop(n)
                        \/ Notice(n) \/ Crash(n) \/ Restart(n) \/ Recover(n)
    \/ \E m \in wire : Listen(m)

Spec == Init /\ [][Next]_vars

\* What the coroutine or the worker of a task does next.  A worker that is gone
\* with the request in its hand, and an extraction given up, do nothing more.
Step(t) ==
    \/ Begin(t) \/ Question(t) \/ Resume(t) \/ Tell(t) \/ Unwind(t) \/ Enqueue(t)
    \/ \E status \in Told : Finish(t, status)
    \/ \E n \in Nodes : Take(t, n)
    \/ \E n \in Nodes, status \in Told : FinishExternal(t, n, status)

\* Coroutines run on and end, and so does a knowledge thread while its process
\* is there; a node that went down comes back; redis delivers; the user comes
\* back and answers what they are asked.
Fairness ==
    /\ \A t \in Tasks : WF_vars(Step(t))
    /\ \A t \in Tasks \ External : WF_vars(Answer(t))
    /\ \A n \in Nodes : WF_vars(Restart(n) \/ Recover(n))
    /\ WF_vars(\E m \in wire : Listen(m))
    /\ WF_vars(\E n \in Nodes : Message(n))

FairSpec == Spec /\ Fairness

-----------------------------------------------------------------------------
(* Properties. *)

\* The types of the state.
TypeOK ==
    /\ bridge \in BOOLEAN
    /\ node \in [Nodes -> {"up", "down", "recovering"}]
    /\ snap \in [Nodes -> [Tasks -> Active \cup {"absent"}]]
    /\ tasks \in [Nodes -> [Tasks -> Status]]
    /\ rec \in [Tasks -> Status]
    /\ run \in [Tasks -> {"none", "joined", "queued", "work", "ask", "confirm",
                          "answered", "cancelled", "upload", "held", "notify",
                          "over", "strayed", "stranded"}]
    /\ at \in [Tasks -> Nodes]
    /\ round \in [Tasks -> 0 .. MaxRounds]
    /\ late \subseteq Nodes
    /\ listed \in [Nodes -> SUBSET Connections]
    /\ notes \subseteq Messages
    /\ wire \subseteq Messages
    /\ told \subseteq Messages /\ lost \subseteq Messages
    /\ torn \subseteq Tasks
    /\ faults \in 0 .. MaxFaults

\* A key is held by work that goes on: a task is active in the memory of a node
\* just as long as its coroutine is there, whatever ended it (a result, an
\* error, a cancel, a crash and the recovery after it), so that a later
\* submission of its key is neither swallowed for ever nor run beside it.
KeysAreHeldByLiveTasks ==
    /\ \A n \in Nodes, t \in Tasks \ External :
        tasks[n][t] \in Active <=> Alive(t) /\ at[t] = n
    /\ \A t, u \in Tasks \ External :
        Alive(t) /\ Alive(u) /\ KeyOf[t] = KeyOf[u] /\ at[t] = at[u] => t = u

\* A recorded outcome stays: only a node that restarts takes it back, one that
\* had read the row before it was written.  No progress report, confirmation or
\* cancel writes an older status over it.
OutcomesStand ==
    [][\A t \in Tasks : rec[t] \in Told /\ rec'[t] # rec[t] =>
         /\ rec'[t] = "interrupted"
         /\ \E n \in Nodes : node[n] = "recovering" /\ snap[n][t] \in Active]_vars

\* A message reached nobody.  Without a bridge that takes a fault; with one it
\* is enough that the user is connected nowhere when redis delivers.
Missed(m) == m \in lost \ told /\ (bridge \/ faults > 0)

\* Whoever is away when a task ends is told when they come back: again and
\* again there is a time when every recorded outcome has reached its user as it
\* is recorded, by a connection, another node or the queue, unless its message
\* reached nobody.
OutcomesAreTold ==
    []<>(\A t \in Tasks : rec[t] \in Told =>
           LET m == <<t, rec[t], 0>> IN m \in told \/ Missed(m))

\* No row stays active for ever: its task ends, or the next recovery marks it,
\* unless a write of it failed, its question reached nobody, or its work is out
\* of reach: done by a node that does not know the task, given up, or claimed
\* by a process that ended.
TasksEnd ==
    []<>(\A t \in Tasks : rec[t] \in Active =>
           \/ t \in torn
           \/ run[t] \in {"strayed", "stranded"}
           \/ run[t] = "confirm" /\ Missed(<<t, "confirmation", round[t]>>))

-----------------------------------------------------------------------------
(* The invariant behind the safety properties *)

\* A coroutine stays on the node that was asked; one that is down holds nothing.
Homes == \A t \in Tasks \ External : at[t] = Home[t]
DownIsEmpty ==
    \A n \in Nodes, t \in Tasks : ~Up(n) => tasks[n][t] = "absent"

\* Who is about to be told has an outcome, and no outcome is recorded sooner.
EndingHasOutcome == \A t \in Tasks : run[t] = "notify" => tasks[at[t]][t] \in Told
RecordedIsOver == \A t \in Tasks : rec[t] \in Told => run[t] \in {"notify", "over"}

\* An external task has no coroutine, and no other task an upload or a request.
DrivenFromOutside ==
    /\ \A t \in External :
          run[t] \notin {"queued", "ask", "confirm", "answered", "cancelled"}
    /\ \A t \in Tasks \ External : run[t] \notin {"upload", "held"}

\* No node takes an external task for ended while it waits for its worker.
WaitingIsActive ==
    \A t \in External, n \in Nodes :
        run[t] \in {"none", "joined", "upload", "work", "held"} => tasks[n][t] \in Active \cup {"absent"}

Inv == /\ TypeOK /\ KeysAreHeldByLiveTasks
       /\ Homes /\ DownIsEmpty /\ EndingHasOutcome /\ RecordedIsOver
       /\ DrivenFromOutside /\ WaitingIsActive
=============================================================================
