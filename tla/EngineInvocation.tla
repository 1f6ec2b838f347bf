-------------------------- MODULE EngineInvocation --------------------------
(***************************************************************************)
(* One engine invocation from the client's submit to its answer: the queue *)
(* row, the claim workers of several nodes that run it, the response       *)
(* stream that carries what they produce, and the client that reads it.    *)
(*                                                                         *)
(* The actors are coroutines on different nodes; a step of a worker is     *)
(* what its coroutine does between two awaits.  They meet in the row       *)
(* (through the transactions of InvocationStore), in the response stream   *)
(* and, on one node, in the EngineJob registered for the request id.       *)
(***************************************************************************)
EXTENDS InvocationStore, Sequences, FiniteSets

CONSTANTS Workers,       \* _execute_row tasks that may be alive at once
          NodeOf,        \* the node each of them runs on
          Modes,         \* request kinds to explore
          ControlTarget, \* _target_node_id of a control row
          MaxChunks,     \* bound: chunks of one run
          StreamMax,     \* capacity of the response stream
          Hazards,       \* what the environment may do, a set per scenario
          MaxFaults      \* bound: crashes, stops, stalls and lost publishes

ASSUME InvocationAssumption ==
    /\ NodeOf \in [Workers -> Nodes]
    /\ Modes \subseteq {"unary", "stream", "control"}
    /\ ControlTarget \in Nodes
    /\ IsFiniteSet(Workers)
    /\ Hazards \subseteq SUBSET {"crash", "stop", "stall", "provider",
                               "cancel", "giveup", "uninstall"}
    /\ MaxChunks \in Nat /\ StreamMax \in Nat /\ MaxFaults \in Nat

VARIABLES mode,     \* response_mode, or "control" for a control row
          hazards,  \* the member of Hazards this behaviour explores
          row,      \* the request's row in engine_invocation_queue
          run,      \* the _execute_row task in each worker slot
          job,      \* the request's EngineJob in each node's registry
          up,       \* nodes whose claim loop is running
          stream,   \* entries published and not read yet
          client,   \* the caller: transport and EngineResponseStreamReader
          user,     \* update of a cancel() call between read and write
          admin,    \* a tick that found the engine installed nowhere
          faults,   \* faults so far
          expiries, \* history: leases that ran out
          overtaken \* history: a store method wrote what it would no longer
                    \* have decided on the row its write met

vars == <<mode, hazards, row, run, job, up, stream, client, user, admin, faults,
          expiries, overtaken>>

-----------------------------------------------------------------------------
(* State *)

RunPCs == {"idle", "accept", "job", "chunk", "mark", "result", "end",
           "complete", "unwind", "failed", "settleCancel", "settleFail",
           "error", "retry"}

JobStates == {"none", "running", "done", "error", "cancelled"}

Runs == [pc        : RunPCs,
         job       : JobStates, \* the EngineJob it waits for
         handling  : BOOLEAN,   \* inside an except block of _execute_row
         lease     : BOOLEAN,   \* _lease_and_cancel_loop is running
         lost      : BOOLEAN,   \* context.lease_lost
         cancelled : BOOLEAN,   \* context.cancelled()
         emitted   : BOOLEAN,   \* row["_emitted_first_chunk"]
         seq       : Nat,       \* writer._chunk_seq
         retriable : BOOLEAN,   \* what _is_retriable will answer
         update    : Updates]   \* decided on, not yet written

NoRun == [pc |-> "idle", job |-> "none", handling |-> FALSE,
          lease |-> FALSE, lost |-> FALSE, cancelled |-> FALSE,
          emitted |-> FALSE, seq |-> 0, retriable |-> FALSE, update |-> NoUpdate]

Entries == [kind : {"accepted", "chunk", "result", "end", "error", "retry"},
            seq  : Nat]

ClientPCs == {"new", "queued", "reading", "leaving", "done"}
Outcomes  == {"none", "ok", "error", "rejected", "gap", "gone", "missing", "truncated"}

Clients == [pc       : ClientPCs,
            outcome  : Outcomes,
            expected : Nat,         \* _expected_seq (None checks like 0)
            grace    : BOOLEAN,     \* _terminal_grace_until is set
            result   : BOOLEAN,     \* a result entry was read
            tokens   : Seq(Nat),    \* seq of every chunk yielded
            update   : Updates]

NewClient == [pc |-> "new", outcome |-> "none", expected |-> 0,
              grace |-> FALSE, result |-> FALSE, tokens |-> <<>>,
              update |-> NoUpdate]

Admins == [pc : {"idle", "peeked", "write", "error"}, update : Updates]
NoAdmin == [pc |-> "idle", update |-> NoUpdate]

\* _raise_terminated_without_end unsubscribes before the row is cancelled.
Subscribed == \/ client.pc \in {"queued", "reading"}
              \/ client.pc = "leaving" /\ client.outcome # "truncated"

\* A store method between its read and its write.
WorkerTxn == \E w \in Workers : run[w].update # NoUpdate

OpenTxn == \/ WorkerTxn
           \/ client.update # NoUpdate
           \/ user # NoUpdate
           \/ admin.update # NoUpdate

\* A fault of a kind the instance explores, within the bound.
Fault(kind) == kind \in hazards /\ faults < MaxFaults /\ faults' = faults + 1

Init == /\ mode \in Modes
        /\ hazards \in Hazards
        /\ row = NoRow
        /\ run = [w \in Workers |-> NoRun]
        /\ job = [n \in Nodes |-> "none"]
        /\ up = [n \in Nodes |-> TRUE]
        /\ stream = <<>>
        /\ client = NewClient
        /\ user = NoUpdate
        /\ admin = NoAdmin
        /\ faults = 0
        /\ expiries = 0
        /\ overtaken = FALSE

-----------------------------------------------------------------------------
(* How a run leaves the body of _execute_row *)

\* Deviation: emitted output does not stand in the way of a retry.
HandlerAnyRetry(r, pc, retriable) ==
    [NoRun EXCEPT !.pc = pc, !.handling = TRUE, !.lost = r.lost,
                  !.retriable = retriable]

\* Entering an except block: the finally of _run_job ended the lease loop.
Handler(r, pc, retriable) ==
    [NoRun EXCEPT !.pc = pc, !.handling = TRUE, !.lost = r.lost,
                  !.retriable = retriable /\ ~r.emitted]

\* except CancelledError: a run that lost its lease vanishes.
Unwind(r) == IF r.lost THEN NoRun ELSE Handler(r, "unwind", TRUE)

\* except Exception, or out of the handler when one is running already.
Raise(r, retriable) ==
    IF r.handling THEN NoRun ELSE Handler(r, "failed", retriable)

At(w, pc) == run[w].pc = pc
Node(w)   == NodeOf[w]

Becomes(w, r) == run' = [run EXCEPT ![w] = r]
Goto(w, pc)   == Becomes(w, [run[w] EXCEPT !.pc = pc])

\* The running job of node n ends, for every run that waits for it.
JobEnds(n, result, runs) ==
    /\ job' = [job EXCEPT ![n] = result]
    /\ run' = [w \in Workers |->
                  IF Node(w) = n /\ runs[w].job = "running"
                  THEN [runs[w] EXCEPT !.job = result] ELSE runs[w]]

\* registry.cancel, with run w becoming r: a finished job stays as it is.
CancelJob(w, r) ==
    IF job[Node(w)] = "running"
    THEN JobEnds(Node(w), "cancelled", [run EXCEPT ![w] = r])
    ELSE Becomes(w, r) /\ UNCHANGED job

-----------------------------------------------------------------------------
(* The claim worker *)

\* _decide, _claim_rows and the first step of _execute_row: what the claimed
\* snapshot says decides how the run starts.  A control row runs its lease
\* loop from the start; the others start it with the job.
Claim(w) ==
    /\ At(w, "idle") /\ up[Node(w)]
    /\ Claimable(row)
    /\ IF mode = "control" THEN Node(w) = ControlTarget
                           ELSE job[Node(w)] # "running"
    /\ row' = Claimed(row, Node(w))
    /\ Becomes(w, [NoRun EXCEPT
            !.pc = CASE row.cancel                    -> "settleCancel"
                     [] ~row.cancel /\ mode = "stream" /\ row.first
                                                      -> "settleFail"
                     [] OTHER                         -> "accept",
            !.lease = mode = "control" /\ ~row.cancel])
    /\ UNCHANGED <<mode, hazards, job, up, stream, client, user, admin, faults,
                   expiries, overtaken>>

\* A publish reaches the subscribed reader, waiting while the stream is full;
\* without a subscriber the memory provider drops the entry.
Published(kind, seq) ==
    \/ Subscribed /\ Len(stream) < StreamMax
       /\ stream' = Append(stream, [kind |-> kind, seq |-> seq])
    \/ ~Subscribed /\ UNCHANGED stream

\* accepted is out: _run_job evicts a finished job and calls the service.  A
\* unary run joins a job still running under its id, a stream is refused.
Accept(w) ==
    /\ At(w, "accept")
    /\ Published("accepted", 0)
    /\ \/ mode = "control" /\ Goto(w, "job") /\ UNCHANGED job
       \/ /\ mode # "control"
          /\ mode = "unary" \/ job[Node(w)] # "running"
          /\ job' = [job EXCEPT ![Node(w)] = "running"]
          /\ Becomes(w, [run[w] EXCEPT !.pc = "job", !.lease = TRUE,
                                         !.job = "running"])
       \/ /\ mode = "stream" /\ job[Node(w)] = "running"
          /\ Becomes(w, Raise(run[w], TRUE))
          /\ UNCHANGED job
    /\ UNCHANGED <<mode, hazards, row, up, client, user, admin, faults, expiries,
                   overtaken>>

\* The job's stream yields a chunk; lease_lost is read, then the publish starts.
YieldChunk(w) ==
    /\ At(w, "job") /\ mode = "stream"
    /\ run[w].job = "running" /\ ~run[w].cancelled
    /\ run[w].seq < MaxChunks
    /\ Goto(w, "chunk")
    /\ UNCHANGED <<mode, hazards, row, job, up, stream, client, user, admin,
                   faults, expiries, overtaken>>

PublishChunk(w) ==
    /\ At(w, "chunk")
    /\ Published("chunk", run[w].seq)
    /\ Becomes(w, [run[w] EXCEPT
            !.pc = IF run[w].emitted THEN "job" ELSE "mark",
            !.emitted = TRUE, !.seq = @ + 1])
    /\ UNCHANGED <<mode, hazards, row, job, up, client, user, admin, faults,
                   expiries, overtaken>>

\* The service call returns.  A stream whose context was cancelled returns
\* too: _invoke_stream_job leaves its loop without an exception.
Return(w) ==
    /\ At(w, "job")
    /\ \/ mode = "control"
       \/ mode = "unary" /\ run[w].job = "done" /\ ~run[w].cancelled
       \/ mode = "stream" /\ (run[w].cancelled \/ run[w].job = "done")
    /\ IF run[w].lost THEN Becomes(w, NoRun)
       ELSE Goto(w, IF mode = "stream" THEN "end" ELSE "result")
    /\ UNCHANGED <<mode, hazards, row, job, up, stream, client, user, admin,
                   faults, expiries, overtaken>>

\* It raises: CancelledError out of a cancelled context or job, RuntimeError
\* out of a failed one, retriable or not.
JobRaises(w) ==
    /\ At(w, "job")
    /\ \/ /\ \/ mode = "unary" /\ (run[w].cancelled \/ run[w].job = "cancelled")
             \/ mode = "stream" /\ ~run[w].cancelled /\ run[w].job = "cancelled"
          /\ Becomes(w, Unwind(run[w]))
       \/ /\ \/ mode = "control"
             \/ mode # "control" /\ run[w].job = "error" /\ ~run[w].cancelled
          /\ \E retriable \in BOOLEAN : Becomes(w, Raise(run[w], retriable))
    /\ UNCHANGED <<mode, hazards, row, job, up, stream, client, user, admin,
                   faults, expiries, overtaken>>

\* Deviation: the row is completed without an end entry.
PublishClosingNoEnd(w) ==
    /\ run[w].pc \in {"result", "end", "error", "retry"}
    /\ IF At(w, "end") THEN UNCHANGED stream ELSE Published(run[w].pc, 0)
    /\ CASE At(w, "result") -> Goto(w, "end")
         [] At(w, "end")    -> Goto(w, "complete")
         [] OTHER           -> Becomes(w, NoRun)
    /\ UNCHANGED <<mode, hazards, row, job, up, client, user, admin, faults,
                   expiries, overtaken>>

\* result, end and the closing error and retry entries.
PublishClosing(w) ==
    /\ run[w].pc \in {"result", "end", "error", "retry"}
    /\ Published(run[w].pc, 0)
    /\ CASE At(w, "result") -> Goto(w, "end")
         [] At(w, "end")    -> Goto(w, "complete")
         [] OTHER           -> Becomes(w, NoRun)
    /\ UNCHANGED <<mode, hazards, row, job, up, client, user, admin, faults,
                   expiries, overtaken>>

\* A publish raises: the redis provider found no subscriber, or it is down.
PublishFails(w) ==
    /\ run[w].pc \in {"accept", "chunk", "result", "end", "error", "retry"}
    /\ \/ ~Subscribed /\ UNCHANGED faults
       \/ Subscribed /\ Fault("provider")
    /\ \E retriable \in BOOLEAN : Becomes(w, Raise(run[w], retriable))
    /\ UNCHANGED <<mode, hazards, row, job, up, stream, client, user, admin,
                   expiries, overtaken>>

\* Both handlers ask store.cancel_requested before they settle.
ReadCancelFlag(w) ==
    /\ run[w].pc \in {"unwind", "failed"}
    /\ Goto(w, IF row.cancel THEN "settleCancel" ELSE "settleFail")
    /\ UNCHANGED <<mode, hazards, row, job, up, stream, client, user, admin,
                   faults, expiries, overtaken>>

\* The store method the run is in, on the row as it reads it.
Decision(w) ==
    CASE At(w, "mark")         -> MarkFirstChunk(row, Node(w))
      [] At(w, "complete")     -> Complete(row, Node(w))
      [] At(w, "settleCancel") -> MarkCancelled(row, Node(w))
      [] OTHER                 -> Fail(row, Node(w), run[w].retriable)

\* Deviation: a stale fail is announced like a dead letter.
AfterLoud(w, u) ==
    LET next(pc) == [run[w] EXCEPT !.pc = pc, !.update = NoUpdate]
    IN CASE At(w, "mark")         -> next("job")
         [] At(w, "settleCancel") -> next("error")
         [] At(w, "settleFail")   -> next(IF u.to = "failed" THEN "retry" ELSE "error")
         [] OTHER                 -> NoRun

\* Where the run goes once the method returned, having written u.  A stale
\* fail is silent; a stale mark_cancelled is not.
After(w, u) ==
    LET next(pc) == [run[w] EXCEPT !.pc = pc, !.update = NoUpdate]
    IN CASE At(w, "mark")                         -> next("job")
         [] At(w, "settleCancel")                 -> next("error")
         [] At(w, "settleFail") /\ u.to = "failed"      -> next("retry")
         [] At(w, "settleFail") /\ u.to = "dead_letter" -> next("error")
         [] OTHER                                 -> NoRun

InStore(w) == run[w].pc \in {"mark", "complete", "settleCancel", "settleFail"}

TxnRead(w) ==
    /\ InStore(w) /\ run[w].update = NoUpdate
    /\ Becomes(w, IF Decision(w) = NoUpdate THEN After(w, NoUpdate)
                  ELSE [run[w] EXCEPT !.update = Decision(w)])
    /\ UNCHANGED <<mode, hazards, row, job, up, stream, client, user, admin,
                   faults, expiries, overtaken>>

TxnCommit(w) ==
    /\ InStore(w) /\ run[w].update # NoUpdate
    /\ row' = Apply(row, run[w].update)
    /\ Becomes(w, After(w, run[w].update))
    /\ overtaken' = (overtaken \/ run[w].update # Decision(w))
    /\ UNCHANGED <<mode, hazards, job, up, stream, client, user, admin, faults,
                   expiries>>

\* One round of _lease_and_cancel_loop.  The renewal writes one column that
\* only delays others, so its read and write are one step.
Renew(w) ==
    /\ run[w].lease
    /\ IF Owned(row, Node(w))
       THEN /\ row' = [row EXCEPT !.expired = FALSE]
            /\ IF row.cancel /\ ~run[w].cancelled
               THEN CancelJob(w, [run[w] EXCEPT !.cancelled = TRUE])
               ELSE UNCHANGED <<run, job>>
       ELSE /\ CancelJob(w, [run[w] EXCEPT !.lost = TRUE, !.cancelled = TRUE,
                                           !.lease = FALSE])
            /\ UNCHANGED row
    /\ UNCHANGED <<mode, hazards, up, stream, client, user, admin, faults,
                   expiries, overtaken>>

-----------------------------------------------------------------------------
(* Engine, clock and nodes *)

\* The scheduler settles the job of node n.
EngineFinishes(n) ==
    /\ job[n] = "running"
    /\ \E result \in {"done", "error"} : JobEnds(n, result, run)
    /\ UNCHANGED <<mode, hazards, row, up, stream, client, user, admin, faults,
                   expiries, overtaken>>

BackoffElapses ==
    /\ row.status = "failed" /\ ~row.ready
    /\ row' = [row EXCEPT !.ready = TRUE]
    /\ UNCHANGED <<mode, hazards, run, job, up, stream, client, user, admin,
                   faults, expiries, overtaken>>

\* A lease runs out because nobody is left to renew it, or because its owner
\* stalled (blocked loop, slow database, full stream before the job started).
Attended == \E w \in Workers : Node(w) = row.owner /\ ~At(w, "idle")

LeaseExpires ==
    /\ row.status = "processing" /\ ~row.expired
    /\ \/ ~Attended /\ UNCHANGED faults
       \/ Attended /\ Fault("stall")
    /\ row' = [row EXCEPT !.expired = TRUE]
    /\ expiries' = expiries + 1
    /\ UNCHANGED <<mode, hazards, run, job, up, stream, client, user, admin,
                   overtaken>>

Crash(n) ==
    /\ up[n] /\ Fault("crash")
    /\ run' = [w \in Workers |-> IF Node(w) = n THEN NoRun ELSE run[w]]
    /\ job' = [job EXCEPT ![n] = "none"]
    /\ up' = [up EXCEPT ![n] = FALSE]
    /\ UNCHANGED <<mode, hazards, row, stream, client, user, admin, expiries,
                   overtaken>>

\* run_until_stopped cancels its tasks: CancelledError at each one's await.
\* (Taken between transactions: one in flight commits on its thread.)
Stop(n) ==
    /\ up[n] /\ Fault("stop")
    /\ \A w \in Workers : Node(w) = n => run[w].update = NoUpdate
    /\ run' = [w \in Workers |->
                  IF Node(w) # n \/ At(w, "idle") THEN run[w]
                  ELSE IF run[w].handling THEN NoRun ELSE Unwind(run[w])]
    /\ up' = [up EXCEPT ![n] = FALSE]
    /\ UNCHANGED <<mode, hazards, row, job, stream, client, user, admin,
                   expiries, overtaken>>

Restart(n) ==
    /\ ~up[n]
    /\ \A w \in Workers : Node(w) = n => At(w, "idle")
    /\ up' = [up EXCEPT ![n] = TRUE]
    /\ job' = [job EXCEPT ![n] = "none"]
    /\ UNCHANGED <<mode, hazards, row, run, stream, client, user, admin, faults,
                   expiries, overtaken>>

-----------------------------------------------------------------------------
(* The client: the queue transport and the response stream reader *)

Reads(c) == client' = c /\ stream' = Tail(stream)

\* Finished: unsubscribed, unread entries are gone.
Finishes(c) == client' = [c EXCEPT !.pc = "done", !.update = NoUpdate]
               /\ stream' = <<>>

\* An exception out of entries(): the reader first cancels the row.
Leaving(c, outcome) == [c EXCEPT !.pc = "leaving", !.outcome = outcome]

\* _enqueue: subscribe, insert the row, then publish `queued' (an entry the
\* reader only counts as activity, left out of the stream).
Submit ==
    /\ client.pc = "new"
    /\ row' = Enqueued
    /\ client' = [client EXCEPT !.pc = "queued"]
    /\ UNCHANGED <<mode, hazards, run, job, up, stream, user, admin, faults,
                   expiries, overtaken>>

QueuedPublished ==
    /\ client.pc = "queued"
    /\ \/ client' = [client EXCEPT !.pc = "reading"] /\ UNCHANGED faults
       \/ /\ Fault("provider")
          /\ client' = Leaving(client, "rejected")
    /\ UNCHANGED <<mode, hazards, row, run, job, up, stream, user, admin,
                   expiries, overtaken>>

Reading == client.pc = "reading"

\* entries(): a new attempt restarts the expected sequence, a chunk out of
\* sequence is an error, end and error close the stream.
Receive ==
    /\ Reading /\ stream # <<>>
    /\ LET e == Head(stream)
       IN \/ /\ e.kind \in {"accepted", "retry"}
             /\ Reads([client EXCEPT !.expected = 0])
          \/ /\ e.kind = "chunk" /\ e.seq = client.expected
             /\ Reads([client EXCEPT !.expected = e.seq + 1,
                                     !.tokens = Append(@, e.seq)])
          \/ /\ e.kind = "chunk" /\ e.seq # client.expected
             /\ Reads(Leaving(client, "gap"))
          \/ /\ e.kind = "result"
             /\ Reads([client EXCEPT !.result = TRUE])
          \/ /\ e.kind = "end"
             /\ Finishes([client EXCEPT !.outcome = "ok"])
          \/ /\ e.kind = "error"
             /\ Finishes([client EXCEPT !.outcome = "error"])
    /\ UNCHANGED <<mode, hazards, row, run, job, up, user, admin, faults,
                   expiries, overtaken>>

\* Silence: the row decides.  A settled row opens the grace window.
CheckRow ==
    /\ Reading /\ stream = <<>> /\ ~client.grace
    /\ \/ row.status = "absent" /\ client' = Leaving(client, "missing")
       \/ row.status \in Terminal /\ client' = [client EXCEPT !.grace = TRUE]
    /\ UNCHANGED <<mode, hazards, row, run, job, up, stream, user, admin, faults,
                   expiries, overtaken>>

GraceEnds ==
    /\ Reading /\ stream = <<>> /\ client.grace
    /\ client' = Leaving(client, "truncated")
    /\ UNCHANGED <<mode, hazards, row, run, job, up, stream, user, admin, faults,
                   expiries, overtaken>>

\* The total timeout, or the consumer closes the generator.
GiveUp ==
    /\ "giveup" \in hazards /\ Reading
    /\ client' = Leaving(client, "gone")
    /\ UNCHANGED <<mode, hazards, row, run, job, up, stream, user, admin, faults,
                   expiries, overtaken>>

\* _request_cancel, then _cleanup.
LeaveRead ==
    /\ client.pc = "leaving" /\ client.update = NoUpdate
    /\ IF RequestCancel(row) = NoUpdate THEN Finishes(client)
       ELSE /\ client' = [client EXCEPT !.update = RequestCancel(row)]
            /\ UNCHANGED stream
    /\ UNCHANGED <<mode, hazards, row, run, job, up, user, admin, faults,
                   expiries, overtaken>>

LeaveCommit ==
    /\ client.pc = "leaving" /\ client.update # NoUpdate
    /\ row' = Apply(row, client.update)
    /\ Finishes(client)
    /\ overtaken' = (overtaken \/ client.update # RequestCancel(row))
    /\ UNCHANGED <<mode, hazards, run, job, up, user, admin, faults, expiries>>

-----------------------------------------------------------------------------
(* Others: a user's cancel, the tick that fails the row, the purge *)

\* cancel(request_id), from any node, as often as anyone likes.
CancelRead ==
    /\ "cancel" \in hazards /\ user = NoUpdate
    /\ Apply(row, RequestCancel(row)) # row
    /\ user' = RequestCancel(row)
    /\ UNCHANGED <<mode, hazards, row, run, job, up, stream, client, admin,
                   faults, expiries, overtaken>>

CancelCommit ==
    /\ user # NoUpdate
    /\ row' = Apply(row, user)
    /\ user' = NoUpdate
    /\ overtaken' = (overtaken \/ user # RequestCancel(row))
    /\ UNCHANGED <<mode, hazards, run, job, up, stream, client, admin, faults,
                   expiries>>

\* A tick peeks the row, finds its engine installed on no active node, and
\* fails it later without an owner; control rows are decided before that.
Peek ==
    /\ "uninstall" \in hazards /\ admin.pc = "idle"
    /\ mode # "control" /\ Claimable(row)
    /\ admin' = [admin EXCEPT !.pc = "peeked"]
    /\ UNCHANGED <<mode, hazards, row, run, job, up, stream, client, user,
                   faults, expiries, overtaken>>

FailUnclaimable ==
    /\ admin.pc = "peeked"
    /\ admin' = IF AdminFail(row) = NoUpdate THEN NoAdmin
                ELSE [pc |-> "write", update |-> AdminFail(row)]
    /\ UNCHANGED <<mode, hazards, row, run, job, up, stream, client, user,
                   faults, expiries, overtaken>>

FailUnclaimableCommit ==
    /\ admin.pc = "write"
    /\ row' = Apply(row, admin.update)
    /\ admin' = [pc |-> "error", update |-> NoUpdate]
    /\ overtaken' = (overtaken \/ admin.update # AdminFail(row))
    /\ UNCHANGED <<mode, hazards, run, job, up, stream, client, user, faults,
                   expiries>>

\* writer.error, whose own failure is swallowed.
FailUnclaimableError ==
    /\ admin.pc = "error"
    /\ Published("error", 0)
    /\ admin' = NoAdmin
    /\ UNCHANGED <<mode, hazards, row, run, job, up, client, user, faults,
                   expiries, overtaken>>

\* purge_terminal: the retention outlasts every run and transaction.
Purge ==
    /\ row.status \in Terminal
    /\ \A w \in Workers : At(w, "idle")
    /\ ~OpenTxn /\ admin = NoAdmin
    /\ row' = NoRow
    /\ UNCHANGED <<mode, hazards, run, job, up, stream, client, user, admin,
                   faults, expiries, overtaken>>

\* The request is over: the only place where the system may stop.
Over ==
    /\ client.pc = "done" /\ row.status = "absent"
    /\ UNCHANGED vars

-----------------------------------------------------------------------------

RunStep(w) == \/ Accept(w) \/ YieldChunk(w) \/ PublishChunk(w) \/ Return(w)
              \/ JobRaises(w) \/ PublishClosing(w) \/ PublishFails(w)
              \/ ReadCancelFlag(w) \/ TxnRead(w) \/ TxnCommit(w)

ClientStep == \/ Submit \/ QueuedPublished \/ Receive \/ CheckRow
              \/ GraceEnds \/ LeaveRead \/ LeaveCommit

AdminStep == FailUnclaimable \/ FailUnclaimableCommit \/ FailUnclaimableError

Next == \/ \E w \in Workers : Claim(w) \/ RunStep(w) \/ Renew(w)
        \/ \E n \in Nodes : EngineFinishes(n) \/ Crash(n) \/ Stop(n) \/ Restart(n)
        \/ BackoffElapses \/ LeaseExpires
        \/ ClientStep \/ GiveUp
        \/ CancelRead \/ CancelCommit
        \/ Peek \/ AdminStep
        \/ Purge \/ Over

Spec == Init /\ [][Next]_vars

(***************************************************************************)
(* Coroutines run, transactions commit, the claim loops poll, engines      *)
(* answer, clocks advance and stopped nodes are started again.  Nothing    *)
(* obliges a user to cancel, a client to give up, a lease held by a live   *)
(* run to expire, or a node to fail.                                       *)
(***************************************************************************)
Fairness ==
    /\ \A w \in Workers : WF_vars(RunStep(w)) /\ WF_vars(Renew(w))
    /\ WF_vars(\E w \in Workers : Claim(w))
    /\ \A n \in Nodes : WF_vars(EngineFinishes(n)) /\ WF_vars(Restart(n))
    /\ WF_vars(BackoffElapses)
    /\ WF_vars(~Attended /\ LeaseExpires)
    /\ WF_vars(ClientStep)
    /\ WF_vars(CancelCommit)
    /\ WF_vars(AdminStep)

FairSpec == Spec /\ Fairness

-----------------------------------------------------------------------------
(* Properties *)

\* Every variable has its type.
TypeOK ==
    /\ mode \in Modes /\ hazards \in Hazards
    /\ row \in Rows
    /\ run \in [Workers -> Runs]
    /\ job \in [Nodes -> JobStates]
    /\ up \in [Nodes -> BOOLEAN]
    /\ stream \in Seq(Entries)
    /\ client \in Clients
    /\ user \in Updates
    /\ admin \in Admins
    /\ faults \in Nat /\ expiries \in Nat /\ overtaken \in BOOLEAN

\* claim never consults max_attempts (InvocationStore.Claimed), so failures
\* alone respect the bound of fail() and each lease that ran out adds one.
AttemptsBounded == row.attempts <= MaxAttempts + expiries

\* What the row says and what the caller is told agree.  complete() comes after
\* the end entry: while its caller still reads, a completed row has its end in
\* the stream (_run_job, _run_stream_job).  And whatever attempts and zombies
\* published, a caller that read an end has read a result, which invoke returns.
AnswersAgree ==
    /\ row.status = "completed" /\ client.pc \in {"queued", "reading"}
        => \E i \in 1..Len(stream) : stream[i].kind = "end"
    /\ client.outcome = "ok" /\ mode # "stream" => client.result

ErrorSent == \/ client.outcome = "error"
             \/ \E i \in 1..Len(stream) : stream[i].kind = "error"

\* Workers, ticks and handlers write the row before the error entry, and are
\* silent when they could not: an error a client can read is a settled row,
\* or one somebody asked to cancel (a zombie still announces that), unless a
\* write overtook another, which may requeue what was settled.
ErrorIsSettledOrCancelled ==
    ErrorSent /\ ~overtaken
        => row.status \in Terminal \cup {"absent"} \/ row.cancel

Working(w) == run[w].pc \in {"accept", "job", "chunk", "mark",
                             "result", "end", "complete"}

\* No token reaches the client twice (_execute_row on a row with
\* first_chunk_at: "a re-run would duplicate tokens").
NoDuplicateTokens ==
    \A i, j \in 1..Len(client.tokens) :
        client.tokens[i] = client.tokens[j] => i = j

\* Two runs work on the request at once, and tokens repeat, only if a lease ran
\* out: claim, the running-job guard of _decide, failures, retries, cancels,
\* restarts and graceful stops never start a second run beside the first, nor a
\* later one that says again what was said.
DuplicatesOnlyAfterExpiry ==
    expiries = 0 =>
        /\ \A v, w \in Workers : Working(v) /\ Working(w) => v = w
        /\ NoDuplicateTokens

\* A client that got its end is not queued behind another execution, as long
\* as no fault interfered between the end entry and complete().
AnsweredIsNotRequeued ==
    client.outcome = "ok" /\ faults = 0
        => row.status \in {"processing"} \cup Terminal \cup {"absent"}

\* Worker w, on the node that holds the row, moves on in the store.
MovesAsHolder(w) == InStore(w) /\ Node(w) = row.owner /\ run'[w] # run[w]

\* A processing row is settled or requeued only by the node that holds it:
\* "a zombie whose row was reclaimed must not overwrite the new owner's
\* outcome" (EngineInvocationQueueStore._owned).
HolderSettles ==
    [][row.status = "processing" /\ row'.status # "processing"
        => \E w \in Workers : MovesAsHolder(w)]_vars

\* That guard fails only where a write meets another row than the one it was
\* decided on: as long as none did, through every crash, expiry, takeover,
\* cancel and administrative failure, the holder alone settles a processing row.
SettledByHolder ==
    [][row.status = "processing" /\ row'.status # "processing"
        => overtaken' \/ \E w \in Workers : MovesAsHolder(w)]_vars

\* The queue implements its abstract specification, step by step, until a
\* write overtakes another.
Phase == CASE row.status = "absent" -> IF client.pc = "new" THEN "none"
                                       ELSE "forgotten"
           [] row.status \in Idle -> "waiting"
           [] row.status = "processing" -> "held"
           [] OTHER -> "settled"

Request == INSTANCE DurableRequest WITH
    phase   <- Phase,
    holder  <- row.owner,
    outcome <- IF row.status \in Terminal THEN row.status ELSE "none"

ImplementsDurableRequest ==
    Request!Init /\ [][overtaken' \/ Request!Next]_(Request!dvars)

\* Whatever fails, a submitted request is settled, and its client gets an answer
\* or an exception.
RequestSettles ==
    client.pc # "new" ~>
        client.pc = "done" /\ row.status \in Terminal \cup {"absent"}

-----------------------------------------------------------------------------
(* The invariant behind the safety properties *)

\* What a method may be about to write, whatever became of the row it read.
Decided ==
    /\ \A w \in Workers : run[w].update # NoUpdate =>
          \/ At(w, "mark") /\ run[w].update = [NoUpdate EXCEPT !.first = TRUE]
          \/ At(w, "complete") /\ run[w].update = Settle("completed")
          \/ At(w, "settleCancel")
             /\ \E clear \in BOOLEAN : run[w].update =
                    [NoUpdate EXCEPT !.to = "cancelled", !.clear = clear]
          \/ At(w, "settleFail") /\ run[w].update = Settle("dead_letter")
          \/ At(w, "settleFail") /\ run[w].retriable
             /\ run[w].update = Settle("failed")
    /\ \A u \in {client.update, user} : u.to \in {"same", "cancelled"} /\ ~u.clear
    /\ IF admin.pc = "write" THEN admin.update.to = "dead_letter"
                             ELSE admin.update = NoUpdate

\* What a run remembers of the way it came.
Flags ==
    \A w \in Workers :
        /\ run[w].retriable => run[w].handling
        /\ Working(w) => ~run[w].handling
        /\ At(w, "retry") => run[w].handling
        /\ run[w].lease => Working(w)
        /\ Working(w) /\ run[w].seq > 0 => run[w].emitted

\* A row is inserted once, by the submit, and gone when all is over.
Submitted == /\ client.pc = "new" => row.status = "absent"
             /\ row.status = "absent"
                => ~OpenTxn /\ \A w \in Workers : At(w, "idle")

\* The row outside of a claim has no owner, unless a write overtook another.
Unowned == row.status # "processing" /\ ~overtaken => row.owner = NoNode

\* A run that has not let go of the row yet.
Holding(w) == run[w].pc \notin {"idle", "retry"}

\* The runs that may yet requeue the row, and those about to.
Active  == {w \in Workers : Holding(w)}
Failing == {w \in Workers : run[w].update.to = "failed"}

One(condition) == IF condition THEN 1 ELSE 0

Reclaimable == row.status = "processing" /\ row.expired

\* Where the runs come from: one claim of the pending row, one of each row
\* that a run requeued when it ended, one of each lease that ran out.
RunsCounted ==
    Cardinality(Active) + One(row.status \in Idle) + One(Reclaimable)
        <= 1 + expiries

\* Where the attempts come from: a row at the bound is claimed again only if
\* its lease ran out or a run decided to requeue it before the bound.
AttemptsCounted ==
    /\ row.status \in {"absent", "pending"} => row.attempts = 0
    /\ row.attempts >= MaxAttempts
       => row.attempts + Cardinality(Failing) + One(row.status = "failed")
            + One(Reclaimable) <= MaxAttempts + expiries

Inv == /\ TypeOK /\ Decided /\ Flags /\ Submitted /\ Unowned
       /\ RunsCounted /\ AttemptsCounted
=============================================================================
