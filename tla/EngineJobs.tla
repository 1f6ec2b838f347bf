----------------------------- MODULE EngineJobs -----------------------------
(***************************************************************************)
(* The engine orchestrator of one node: the registry of jobs, the bounded  *)
(* scheduler queue, the slots jobs run in, and the calls that create, join,*)
(* read and leave them.                                                    *)
(*                                                                         *)
(* Everything runs on one event loop: an action is what a coroutine does   *)
(* between two awaits.  A call is one invocation of invoke_request or      *)
(* invoke_stream_request, by the claim worker or by the gRPC server; the   *)
(* job it creates, if it creates one, goes by the name of the call.        *)
(***************************************************************************)
EXTENDS Naturals, Sequences, FiniteSets

CONSTANTS Calls,        \* invocations of the service
          NoCall,       \* no job
          Requests,     \* request ids
          RequestOf,    \* the request each call is for
          Modes,        \* response modes to explore
          Waits,        \* scheduler_submit_timeout_seconds > 0, or not
          Slots,        \* scheduler_worker_count
          QueueDepth,   \* scheduler_max_queue_depth
          OutputSize,   \* job_output_queue_size
          MaxChunks,    \* bound: chunks of one stream
          Hazards       \* what may happen to a job or a call

ASSUME JobsAssumption ==
    /\ NoCall \notin Calls /\ IsFiniteSet(Calls)
    /\ RequestOf \in [Calls -> Requests]
    /\ Modes \subseteq {"unary", "stream"}
    /\ Waits \subseteq BOOLEAN
    /\ Slots \in Nat \ {0} /\ QueueDepth \in Nat \ {0} /\ MaxChunks \in Nat
    /\ OutputSize \in Nat /\ OutputSize >= 3  \* a job's own notes
    /\ Hazards \subseteq {"cancel", "leave", "dropUnary", "dropStream",
                        "dropPut", "stop"}

VARIABLES mode,       \* response_mode of each request
          waits,      \* whether submit waits for room in the queue
          job,        \* the EngineJob created by each call
          registry,   \* EngineJobRegistry._jobs
          since,      \* EngineJobRegistry._terminal_since
          queue,      \* EngineScheduler._queue
          unfinished, \* its count of put items not yet task_done
          slots,      \* free permits of EngineScheduler._slots
          dispatcher, \* where the dispatcher loop waits
          scheduler,  \* how far stop() has come
          call,       \* the callers
          outlived    \* history: the jobs that ran when the timestamp of an
                      \* earlier job of their request ran out

vars == <<mode, waits, job, registry, since, queue, unfinished, slots,
          dispatcher, scheduler, call, outlived>>

Terminal == {"done", "error", "cancelled"}
Statuses == {"none", "queued", "resolving", "invoking"} \cup Terminal

Jobs == [status     : Statuses,
         task       : {"none", "created", "running", "blocked", "over", "lost"},
         cancelling : BOOLEAN,                   \* task.cancel() was called
         output     : Seq({"note", "chunk"}),    \* EngineJob._events
         chunks     : Nat]                       \* chunks put so far

NoJob  == [status |-> "none", task |-> "none", cancelling |-> FALSE,
           output |-> <<>>, chunks |-> 0]
NewJob == [NoJob EXCEPT !.status = "queued", !.output = <<"note">>]

CallRecords ==
    [pc      : {"new", "entered", "putting", "waiting", "draining", "done"},
     job     : Calls \cup {NoCall},
     got     : Nat,       \* chunks read
     outcome : Terminal \cup {"none", "refused", "rejected", "left", "gone"}]

NewCall == [pc |-> "new", job |-> NoCall, got |-> 0, outcome |-> "none"]

Init == /\ mode \in [Requests -> Modes]
        /\ waits \in Waits
        /\ job = [c \in Calls |-> NoJob]
        /\ registry = [r \in Requests |-> NoCall]
        /\ since = [r \in Requests |-> "none"]
        /\ queue = <<>>
        /\ unfinished = 0
        /\ slots = Slots
        /\ dispatcher = "slot"
        /\ scheduler = "up"
        /\ call = [c \in Calls |-> NewCall]
        /\ outlived = {}

Ended(j) == j.status \in Terminal
Live(c)  == job[c].status \notin Terminal \cup {"none"}
Alive(c) == job[c].task \in {"created", "running", "blocked"}
Attached(j) == j.task \in {"running", "blocked"}
Streams(c) == mode[RequestOf[c]] = "stream"

HasRoom(j) == Len(j.output) < OutputSize

\* Deviation: the last event of a job is not published.
WithoutNote(j) == j

\* publish: the event is dropped when the output queue is full.
WithNote(j) == IF HasRoom(j) THEN [j EXCEPT !.output = Append(@, "note")] ELSE j

WithChunk(j) == [j EXCEPT !.output = Append(@, "chunk"), !.chunks = @ + 1]

\* Deviation: a finished job is cancelled too.
CancelledAgain(j) ==
    WithNote([j EXCEPT !.status = "cancelled", !.cancelling = @ \/ Attached(j)])

\* EngineJob.cancel: the attached task is cancelled with the job.
Cancelled(j) ==
    IF Ended(j) THEN j
    ELSE WithNote([j EXCEPT !.status = "cancelled",
                            !.cancelling = @ \/ Attached(j)])

\* EngineJob.complete and fail
Settled(j, status) == IF Ended(j) THEN j ELSE WithNote([j EXCEPT !.status = status])

\* mark_terminal(j), for a job of request r
Marked(r, j) == IF Ended(j) THEN [since EXCEPT ![r] = "fresh"] ELSE since

-----------------------------------------------------------------------------
(* Calls *)

\* The claim worker first evicts a finished job of the request; the gRPC
\* server does not.
Enter(c) ==
    /\ call[c].pc = "new" /\ scheduler = "up"
    /\ LET r == RequestOf[c]
       IN \/ registry' = [registry EXCEPT ![r] =
                             IF @ # NoCall /\ Ended(job[@]) THEN NoCall ELSE @]
          \/ UNCHANGED registry
    /\ call' = [call EXCEPT ![c].pc = "entered"]
    /\ UNCHANGED <<mode, waits, job, since, queue, unfinished, slots, dispatcher,
                   scheduler, outlived>>

\* Deviation: whatever has a terminal timestamp is pruned.
PrunedEarly == [r \in Requests |-> IF since[r] # "none" THEN NoCall ELSE registry[r]]

\* _prune_expired_locked, by request id.
Pruned == [r \in Requests |-> IF since[r] = "old" THEN NoCall ELSE registry[r]]
Unexpired == [r \in Requests |-> IF since[r] = "old" THEN "none" ELSE since[r]]

\* get_or_create_job finds a job: a unary call joins it, whatever its status,
\* a stream is refused.
Join(c) ==
    /\ call[c].pc = "entered"
    /\ Pruned[RequestOf[c]] # NoCall
    /\ registry' = Pruned /\ since' = Unexpired
    /\ call' = [call EXCEPT ![c] =
                   IF Streams(c) THEN [@ EXCEPT !.pc = "done", !.outcome = "refused"]
                   ELSE [@ EXCEPT !.pc = "waiting", !.job = Pruned[RequestOf[c]]]]
    /\ UNCHANGED <<mode, waits, job, queue, unfinished, slots, dispatcher,
                   scheduler, outlived>>

\* It creates one, and submit puts it, waits for room, or fails it: a unary
\* call marks the failed job terminal, a stream is not in its try yet.
Create(c) ==
    LET r        == RequestOf[c]
        full     == Len(queue) >= QueueDepth
        rejected == scheduler # "up" \/ (full /\ ~waits)
        new      == IF rejected THEN Settled(NewJob, "error") ELSE NewJob
    IN /\ call[c].pc = "entered"
       /\ Pruned[r] = NoCall
       /\ registry' = [Pruned EXCEPT ![r] = c]
       /\ job' = [job EXCEPT ![c] = new]
       /\ since' = [Unexpired EXCEPT ![r] =
                       IF rejected /\ ~Streams(c) THEN "fresh" ELSE @]
       /\ call' = [call EXCEPT ![c] =
                      IF rejected
                      THEN [@ EXCEPT !.pc = "done", !.outcome = "rejected", !.job = c]
                      ELSE [@ EXCEPT !.pc = IF full THEN "putting" ELSE "waiting",
                                     !.job = c]]
       /\ IF rejected \/ full THEN UNCHANGED <<queue, unfinished>>
          ELSE /\ queue' = Append(queue, c)
               /\ unfinished' = unfinished + 1
       /\ UNCHANGED <<mode, waits, slots, dispatcher, scheduler, outlived>>

Put(c) ==
    /\ call[c].pc = "putting" /\ Len(queue) < QueueDepth
    /\ queue' = Append(queue, c)
    /\ unfinished' = unfinished + 1
    /\ call' = [call EXCEPT ![c].pc =
                   IF Streams(c) /\ Ended(job[c]) THEN "draining" ELSE "waiting"]
    /\ UNCHANGED <<mode, waits, job, registry, since, slots, dispatcher,
                   scheduler, outlived>>

PutTimesOut(c) ==
    /\ call[c].pc = "putting"
    /\ job' = [job EXCEPT ![c] = Settled(@, "error")]
    /\ since' = IF Streams(c) THEN since ELSE Marked(RequestOf[c], job'[c])
    /\ call' = [call EXCEPT ![c].pc = "done", ![c].outcome = "rejected"]
    /\ UNCHANGED <<mode, waits, registry, queue, unfinished, slots, dispatcher,
                   scheduler, outlived>>

\* The call ends; its finally marks the job if that is terminal.
Ends(c, outcome) ==
    /\ call' = [call EXCEPT ![c].pc = "done", ![c].outcome = outcome]
    /\ since' = Marked(RequestOf[c], job'[call[c].job])

\* _await_job_result: the future is done.
Answer(c) ==
    /\ call[c].pc = "waiting" /\ ~Streams(c)
    /\ Ended(job[call[c].job])
    /\ UNCHANGED job
    /\ Ends(c, job[call[c].job].status)
    /\ UNCHANGED <<mode, waits, registry, queue, unfinished, slots, dispatcher,
                   scheduler, outlived>>

\* The stream takes the next event and looks at the future again.
Read(c) ==
    LET j == job[c]
    IN /\ call[c].pc \in {"waiting", "draining"} /\ Streams(c)
       /\ j.output # <<>>
       /\ job' = [job EXCEPT ![c].output = Tail(@)]
       /\ call' = [call EXCEPT
                      ![c].pc = IF Ended(j) THEN "draining" ELSE @,
                      ![c].got = IF Head(j.output) = "chunk" THEN @ + 1 ELSE @]
       /\ UNCHANGED <<mode, waits, registry, since, queue, unfinished, slots,
                      dispatcher, scheduler, outlived>>

\* Deviation: what is left in the output is not drained.
FinishAtOnce(c) ==
    /\ call[c].pc = "draining"
    /\ UNCHANGED job
    /\ Ends(c, job[c].status)
    /\ UNCHANGED <<mode, waits, registry, queue, unfinished, slots, dispatcher,
                   scheduler, outlived>>

Finish(c) ==
    /\ call[c].pc = "draining"
    /\ job[c].output = <<>>
    /\ UNCHANGED job
    /\ Ends(c, job[c].status)
    /\ UNCHANGED <<mode, waits, registry, queue, unfinished, slots, dispatcher,
                   scheduler, outlived>>

\* The context of the call is cancelled or past its deadline: the job is
\* cancelled, also for those who joined it.
Leave(c) ==
    /\ "leave" \in Hazards
    /\ call[c].pc = "waiting"
    /\ job' = [job EXCEPT ![call[c].job] = Cancelled(@)]
    /\ Ends(c, "left")
    /\ UNCHANGED <<mode, waits, registry, queue, unfinished, slots, dispatcher,
                   scheduler, outlived>>

\* The coroutine of the call is cancelled, or its consumer fails and the
\* generator is closed: the job is left as it is.
Drop(c) ==
    /\ \/ /\ call[c].pc \in {"waiting", "draining"}
          /\ (IF Streams(c) THEN "dropStream" ELSE "dropUnary") \in Hazards
       \/ call[c].pc = "putting" /\ "dropPut" \in Hazards
    /\ UNCHANGED job
    /\ Ends(c, "gone")
    /\ UNCHANGED <<mode, waits, registry, queue, unfinished, slots, dispatcher,
                   scheduler, outlived>>

\* registry.cancel(r): the Cancel call and the lease loop of the claim worker.
CancelRequest(r) ==
    /\ "cancel" \in Hazards
    /\ registry[r] # NoCall /\ Live(registry[r])
    /\ job' = [job EXCEPT ![registry[r]] = Cancelled(@)]
    /\ since' = [since EXCEPT ![r] = "fresh"]
    /\ UNCHANGED <<mode, waits, registry, queue, unfinished, slots, dispatcher,
                   scheduler, call, outlived>>

\* job_terminal_ttl_seconds have passed.  The timestamp is of an earlier job
\* when the request was evicted and called again: remove() keeps it.
Expires(r) ==
    /\ since[r] = "fresh"
    /\ since' = [since EXCEPT ![r] = "old"]
    /\ outlived' = outlived \cup {c \in Calls : RequestOf[c] = r /\ Live(c)}
    /\ UNCHANGED <<mode, waits, job, registry, queue, unfinished, slots,
                   dispatcher, scheduler, call>>

-----------------------------------------------------------------------------
(* Scheduler *)

TakeSlot ==
    /\ dispatcher = "slot" /\ slots > 0
    /\ slots' = slots - 1
    /\ dispatcher' = "get"
    /\ UNCHANGED <<mode, waits, job, registry, since, queue, unfinished,
                   scheduler, call, outlived>>

Dispatch ==
    /\ dispatcher = "get" /\ queue # <<>>
    /\ queue' = Tail(queue)
    /\ job' = [job EXCEPT ![Head(queue)].task = "created"]
    /\ dispatcher' = "slot"
    /\ UNCHANGED <<mode, waits, registry, since, unfinished, slots, scheduler,
                   call, outlived>>

\* Deviation: task_done is called twice.
TaskEndsTwice(c, j, mark) ==
    /\ job' = [job EXCEPT ![c] = [j EXCEPT !.task = "over", !.cancelling = FALSE]]
    /\ since' = IF mark THEN Marked(RequestOf[c], j) ELSE since
    /\ slots' = slots + 1
    /\ unfinished' = unfinished - 2
    /\ UNCHANGED <<mode, waits, registry, queue, dispatcher, scheduler, call,
                   outlived>>

\* The finally of _run_queued_job, with the job becoming j: mark_terminal is
\* not reached by a job that was finished before it started.
TaskEnds(c, j, mark) ==
    /\ job' = [job EXCEPT ![c] = [j EXCEPT !.task = "over", !.cancelling = FALSE]]
    /\ since' = IF mark THEN Marked(RequestOf[c], j) ELSE since
    /\ slots' = slots + 1
    /\ unfinished' = unfinished - 1
    /\ UNCHANGED <<mode, waits, registry, queue, dispatcher, scheduler, call,
                   outlived>>

TaskStarts(c) ==
    /\ job[c].task = "created" /\ ~job[c].cancelling
    /\ \/ Ended(job[c]) /\ TaskEnds(c, job[c], FALSE)
       \/ /\ ~Ended(job[c])
          /\ job' = [job EXCEPT ![c] = WithNote([@ EXCEPT !.status = "resolving",
                                                          !.task = "running"])]
          /\ UNCHANGED <<mode, waits, registry, since, queue, unfinished, slots,
                         dispatcher, scheduler, call, outlived>>

\* Cancelled before its first step, the coroutine never enters its try.
TaskDropped(c) ==
    /\ job[c].task = "created" /\ job[c].cancelling
    /\ job' = [job EXCEPT ![c].task = "lost"]
    /\ UNCHANGED <<mode, waits, registry, since, queue, unfinished, slots,
                   dispatcher, scheduler, call, outlived>>

Running(c, status) ==
    job[c].task = "running" /\ ~job[c].cancelling /\ job[c].status = status

\* Resolved, batched and admitted by the engine.
TaskInvokes(c) ==
    /\ Running(c, "resolving")
    /\ job' = [job EXCEPT ![c] = WithNote([@ EXCEPT !.status = "invoking"])]
    /\ UNCHANGED <<mode, waits, registry, since, queue, unfinished, slots,
                   dispatcher, scheduler, call, outlived>>

\* The engine yields a chunk; publish_async waits while the output is full.
TaskPublishes(c) ==
    /\ Running(c, "invoking") /\ Streams(c)
    /\ job[c].chunks < MaxChunks
    /\ job' = [job EXCEPT ![c] = IF HasRoom(@) THEN WithChunk(@)
                                 ELSE [@ EXCEPT !.task = "blocked"]]
    /\ UNCHANGED <<mode, waits, registry, since, queue, unfinished, slots,
                   dispatcher, scheduler, call, outlived>>

TaskPuts(c) ==
    /\ job[c].task = "blocked" /\ ~job[c].cancelling
    /\ HasRoom(job[c])
    /\ job' = [job EXCEPT ![c] = WithChunk([@ EXCEPT !.task = "running"])]
    /\ UNCHANGED <<mode, waits, registry, since, queue, unfinished, slots,
                   dispatcher, scheduler, call, outlived>>

\* The engine is through: a unary job at any time, a stream after its chunks.
TaskCompletes(c) ==
    /\ Running(c, "invoking")
    /\ Streams(c) => job[c].chunks = MaxChunks
    /\ TaskEnds(c, Settled(job[c], "done"), TRUE)

\* An exception out of the executor.
TaskFails(c) ==
    /\ Running(c, "resolving") \/ Running(c, "invoking")
    /\ TaskEnds(c, Settled(job[c], "error"), TRUE)

\* Deviation: the slot of a cancelled job is not released.
TaskUnwindsHolding(c) ==
    /\ Attached(job[c]) /\ job[c].cancelling
    /\ job' = [job EXCEPT ![c] = [Cancelled(@) EXCEPT !.task = "over",
                                                      !.cancelling = FALSE]]
    /\ since' = [since EXCEPT ![RequestOf[c]] = "fresh"]
    /\ unfinished' = unfinished - 1
    /\ UNCHANGED <<mode, waits, registry, queue, slots, dispatcher, scheduler,
                   call, outlived>>

\* except CancelledError
TaskUnwinds(c) ==
    /\ Attached(job[c]) /\ job[c].cancelling
    /\ TaskEnds(c, Cancelled(job[c]), TRUE)

\* stop(): no more submissions, then the queue is joined.
Stop ==
    /\ "stop" \in Hazards /\ scheduler = "up"
    /\ scheduler' = "joining"
    /\ UNCHANGED <<mode, waits, job, registry, since, queue, unfinished, slots,
                   dispatcher, call, outlived>>

\* The dispatcher is cancelled: one waiting in get() gives its slot back.
DispatcherEnds ==
    /\ dispatcher' = "off"
    /\ slots' = IF dispatcher = "get" THEN slots + 1 ELSE slots
    /\ scheduler' = "gathering"

StopJoined ==
    /\ scheduler = "joining" /\ unfinished = 0
    /\ DispatcherEnds
    /\ UNCHANGED <<mode, waits, job, registry, since, queue, unfinished, call,
                   outlived>>

Queued(c) == \E i \in 1..Len(queue) : queue[i] = c

\* Deviation: the jobs in the queue are not cancelled.
StopTimesOutKeeping ==
    /\ scheduler = "joining"
    /\ job' = [c \in Calls |-> IF Alive(c) THEN [job[c] EXCEPT !.cancelling = TRUE]
                               ELSE job[c]]
    /\ queue' = <<>>
    /\ unfinished' = unfinished - Len(queue)
    /\ DispatcherEnds
    /\ UNCHANGED <<mode, waits, registry, since, call, outlived>>

\* The join timed out: queued jobs are cancelled, and the tasks of the others.
StopTimesOut ==
    /\ scheduler = "joining"
    /\ job' = [c \in Calls |->
                  CASE Queued(c) -> Cancelled(job[c])
                    [] Alive(c)  -> [job[c] EXCEPT !.cancelling = TRUE]
                    [] OTHER     -> job[c]]
    /\ queue' = <<>>
    /\ unfinished' = unfinished - Len(queue)
    /\ DispatcherEnds
    /\ UNCHANGED <<mode, waits, registry, since, call, outlived>>

StopEnds ==
    /\ scheduler = "gathering"
    /\ \A c \in Calls : ~Alive(c)
    /\ scheduler' = "stopped"
    /\ UNCHANGED <<mode, waits, job, registry, since, queue, unfinished, slots,
                   dispatcher, call, outlived>>

-----------------------------------------------------------------------------

TaskStep(c) == \/ TaskStarts(c) \/ TaskDropped(c) \/ TaskInvokes(c)
               \/ TaskPublishes(c) \/ TaskPuts(c) \/ TaskCompletes(c)
               \/ TaskFails(c) \/ TaskUnwinds(c)

CallStep(c) == \/ Join(c) \/ Create(c) \/ Put(c) \/ PutTimesOut(c)
               \/ Answer(c) \/ Read(c) \/ Finish(c)

StopStep == StopJoined \/ StopTimesOut \/ StopEnds

Next == \/ \E c \in Calls : Enter(c) \/ CallStep(c) \/ Leave(c) \/ Drop(c)
                            \/ TaskStep(c)
        \/ \E r \in Requests : CancelRequest(r) \/ Expires(r)
        \/ TakeSlot \/ Dispatch
        \/ Stop \/ StopStep

Spec == Init /\ [][Next]_vars

(***************************************************************************)
(* Coroutines that can run do run, and engines answer.  Nobody has to call,*)
(* cancel, leave or stop.                                                  *)
(***************************************************************************)
Fairness == /\ \A c \in Calls : WF_vars(CallStep(c)) /\ WF_vars(TaskStep(c))
            /\ WF_vars(TakeSlot) /\ WF_vars(Dispatch) /\ WF_vars(StopStep)

FairSpec == Spec /\ Fairness

-----------------------------------------------------------------------------
(* Properties *)

\* Every variable has its type.
TypeOK ==
    /\ mode \in [Requests -> {"unary", "stream"}]
    /\ waits \in BOOLEAN
    /\ job \in [Calls -> Jobs]
    /\ registry \in [Requests -> Calls \cup {NoCall}]
    /\ since \in [Requests -> {"none", "fresh", "old"}]
    /\ queue \in Seq(Calls)
    /\ unfinished \in Nat /\ slots \in Nat
    /\ dispatcher \in {"slot", "get", "off"}
    /\ scheduler \in {"up", "joining", "gathering", "stopped"}
    /\ call \in [Calls -> CallRecords]
    /\ outlived \subseteq Calls

Holding == {c \in Calls : Alive(c)}
Lost    == {c \in Calls : job[c].task = "lost"}

\* No path through cancellation, failure and shutdown loses or doubles a slot
\* or a task_done (_dispatcher_loop, _run_queued_job), but for the tasks that
\* were cancelled before they started.
SlotsAccounted ==
    /\ slots + Cardinality(Holding) + Cardinality(Lost)
         + (IF dispatcher = "get" THEN 1 ELSE 0) = Slots
    /\ unfinished = Len(queue) + Cardinality(Holding) + Cardinality(Lost)

\* A job that is not finished is the one the registry knows under its request:
\* has_running_job and cancel find it, and no second one is created.  Joins,
\* evictions, prunes and new attempts keep it so; what does not is a timestamp
\* of an earlier job that runs out while the job runs
\* (EngineJobRegistry.remove, _prune_expired_locked).
RunningIsRegistered ==
    \A c \in Calls : Live(c) => registry[RequestOf[c]] = c \/ c \in outlived

\* A stream that ended well has delivered every chunk of its job, whatever the
\* output queue dropped or made wait (_put_event_nowait, publish_async).
StreamComplete ==
    \A c \in Calls : Streams(c) /\ call[c].outcome = "done" => call[c].got = job[c].chunks

\* stop() leaves no job behind that could still run or be waited for, except
\* those whose task it cancelled before the first step.
StopEndsJobs ==
    scheduler = "stopped" /\ ~waits => \A c \in Calls : Live(c) => c \in Lost

\* The outcome of a job is final, whoever else cancels, completes or fails it.
OutcomeIsFinal ==
    [][\A c \in Calls : Ended(job[c]) => job'[c].status = job[c].status]_vars

\* A job ends, whoever leaves or cancels it, unless the scheduler is stopped
\* ("let the run renew its lease or another node take over and kill it",
\* EngineQueueClaimWorker._decide).
JobsEnd == \A c \in Calls : Live(c) ~> Ended(job[c]) \/ scheduler # "up"

\* Who calls gets an answer, a refusal or an exception.
CallsReturn ==
    \A c \in Calls : call[c].pc # "new" ~> call[c].pc = "done" \/ scheduler # "up"

-----------------------------------------------------------------------------
(* The invariant behind the safety properties *)

\* A job is in one place: with its call, in the queue, once, or in a task.
Placed ==
    /\ \A c \in Calls : call[c].pc \in {"new", "entered"} => job[c].status = "none"
    /\ \A c \in Calls : call[c].pc \in {"new", "entered", "putting"}
                         => job[c].task = "none" /\ ~Queued(c)
    /\ \A i \in 1..Len(queue) : job[queue[i]].task = "none"
    /\ \A i, k \in 1..Len(queue) : queue[i] = queue[k] => i = k
    /\ \A c \in Calls : Queued(c) \/ Alive(c) \/ call[c].pc = "putting"
                         => job[c].status # "none"

\* What the registry knows and a call waits for exists, and only an ended job
\* is drained.
Attending ==
    /\ \A r \in Requests : registry[r] # NoCall => job[registry[r]].status # "none"
    /\ \A c \in Calls : call[c].pc \in {"putting", "waiting", "draining"}
                         => /\ call[c].job \in Calls
                            /\ job[call[c].job].status # "none"
    /\ \A c \in Calls : call[c].pc = "draining" => Ended(job[c])

\* Where jobs and the dispatcher are while the scheduler stops.
Stopping ==
    /\ scheduler \in {"gathering", "stopped"} <=> dispatcher = "off"
    /\ scheduler = "stopped" => \A c \in Calls : ~Alive(c)
    /\ ~waits => /\ \A c \in Calls : call[c].pc # "putting"
                 /\ \A c \in Calls : Live(c) => Queued(c) \/ Alive(c) \/ c \in Lost
                 /\ dispatcher = "off" => queue = <<>>

\* A timestamp that has run out did so under every running job of its request.
Expiry == \A c \in Calls : Live(c) => since[RequestOf[c]] # "old" \/ c \in outlived

Inv == TypeOK /\ Placed /\ Attending /\ SlotsAccounted /\ Stopping
=============================================================================
