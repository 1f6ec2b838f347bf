--------------------------- MODULE InvocationStore ---------------------------
(***************************************************************************)
(* The durable engine invocation queue, one row at a time: what each      *)
(* method of EngineInvocationQueueStore reads from a row and writes to it. *)
(*                                                                         *)
(* A method opens a session, loads the row with session.get, decides, and  *)
(* flushes an UPDATE of the columns it changed, addressed by primary key   *)
(* only: the WHERE clause repeats neither the owner nor the status.  So a  *)
(* method is two values here: the Update it decides on from the row it     *)
(* read, and Apply, which writes those columns to whatever row is there    *)
(* at the commit.  claim alone locks the row it reads (FOR UPDATE SKIP     *)
(* LOCKED), and is one step.                                               *)
(*                                                                         *)
(* Times are abstracted to what the queries compare: `ready' is            *)
(* available_at <= now, `expired' is lease_expires_at < now.               *)
(***************************************************************************)
EXTENDS Naturals

CONSTANTS Nodes,        \* claim worker nodes (owner is a node id)
          NoNode,       \* lease_owner IS NULL
          MaxAttempts   \* queue_max_attempts

ASSUME StoreAssumption == /\ NoNode \notin Nodes
                          /\ MaxAttempts \in Nat \ {0}

Idle     == {"pending", "failed"}                       \* CLAIMABLE_STATUSES
Terminal == {"completed", "dead_letter", "cancelled"}   \* TERMINAL_STATUSES
Status   == Idle \cup Terminal \cup {"processing", "absent"}

Rows == [status   : Status,
         owner    : Nodes \cup {NoNode},
         expired  : BOOLEAN,
         attempts : Nat,
         ready    : BOOLEAN,
         cancel   : BOOLEAN,
         first    : BOOLEAN]

\* No row under the request's primary key: before enqueue, after the purge.
NoRow == [status |-> "absent", owner |-> NoNode, expired |-> FALSE,
          attempts |-> 0, ready |-> FALSE, cancel |-> FALSE, first |-> FALSE]

\* Deviation: inserted under a status the queue does not know.
EnqueuedAsQueued == [NoRow EXCEPT !.status = "queued", !.ready = TRUE]

\* enqueue
Enqueued == [NoRow EXCEPT !.status = "pending", !.ready = TRUE]

\* Deviation: no row left behind by its node.
ClaimableIdle(r) == r.status \in Idle /\ r.ready

\* _claimable_filter
Claimable(r) == \/ r.status \in Idle /\ r.ready
                \/ r.status = "processing" /\ r.expired

\* claim: the attempt is counted, the bound on attempts is not consulted.
Claimed(r, n) == [r EXCEPT !.status = "processing", !.owner = n,
                           !.expired = FALSE, !.attempts = @ + 1]

\* Deviation: any worker may settle a processing row.
OwnedByAnyone(r, n) == r.status = "processing"

\* _owned, for a worker
Owned(r, n) == r.status = "processing" /\ r.owner = n

-----------------------------------------------------------------------------
(* Updates: the columns a method decides to write. *)

Updates == [to     : Status \cup {"same"},   \* status, or leave it
            clear  : BOOLEAN,                \* lease_owner, lease_expires_at
            cancel : BOOLEAN,                \* cancel_requested
            first  : BOOLEAN]                \* first_chunk_at

NoUpdate == [to |-> "same", clear |-> FALSE, cancel |-> FALSE, first |-> FALSE]

Settle(status) == [NoUpdate EXCEPT !.to = status, !.clear = TRUE]

Complete(r, n) == IF Owned(r, n) THEN Settle("completed") ELSE NoUpdate

\* Deviation: one attempt too many.
FailLate(r, n, retriable) ==
    IF ~Owned(r, n) THEN NoUpdate
    ELSE Settle(IF ~retriable \/ r.attempts > MaxAttempts
                THEN "dead_letter" ELSE "failed")

\* fail, called by the worker that ran the row ("stale" when it lost it)
Fail(r, n, retriable) ==
    IF ~Owned(r, n) THEN NoUpdate
    ELSE Settle(IF ~retriable \/ r.attempts >= MaxAttempts
                THEN "dead_letter" ELSE "failed")

\* Deviation: the administrative failure is retriable.
AdminFailRetriable(r) ==
    IF r.status \in {"absent", "processing"} THEN NoUpdate
    ELSE [NoUpdate EXCEPT !.to = "failed", !.clear = (r.owner # NoNode)]

\* fail with owner=None, retriable=False: only `processing' is refused.  (An
\* unchanged column is not written: clear only what is set.)
AdminFail(r) ==
    IF r.status \in {"absent", "processing"} THEN NoUpdate
    ELSE [NoUpdate EXCEPT !.to = "dead_letter", !.clear = (r.owner # NoNode)]

\* Deviation: a settled row is cancelled too.
MarkCancelledAlways(r, n) ==
    IF r.status = "absent" \/ (r.status = "processing" /\ r.owner # n)
    THEN NoUpdate
    ELSE [NoUpdate EXCEPT !.to = "cancelled", !.clear = (r.owner # NoNode)]

\* mark_cancelled: the owner matters only while the row is processing
MarkCancelled(r, n) ==
    IF \/ r.status \in Terminal \cup {"absent"}
       \/ r.status = "processing" /\ r.owner # n
    THEN NoUpdate
    ELSE [NoUpdate EXCEPT !.to = "cancelled", !.clear = (r.owner # NoNode)]

RequestCancel(r) ==
    CASE r.status \in Terminal \cup {"absent"} -> NoUpdate
      [] r.status \in Idle ->
            [NoUpdate EXCEPT !.to = "cancelled", !.cancel = TRUE]
      [] OTHER -> [NoUpdate EXCEPT !.cancel = TRUE]

MarkFirstChunk(r, n) ==
    IF Owned(r, n) /\ ~r.first THEN [NoUpdate EXCEPT !.first = TRUE]
    ELSE NoUpdate

\* The UPDATE reaching the table.  A failed row waits out its backoff.
Apply(r, u) ==
    [status   |-> IF u.to = "same" THEN r.status ELSE u.to,
     owner    |-> IF u.clear THEN NoNode ELSE r.owner,
     expired  |-> r.expired /\ ~u.clear,
     attempts |-> r.attempts,
     ready    |-> r.ready /\ u.to # "failed",
     cancel   |-> r.cancel \/ u.cancel,
     first    |-> r.first \/ u.first]
=============================================================================
