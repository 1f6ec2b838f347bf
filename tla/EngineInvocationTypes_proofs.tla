-------------------- MODULE EngineInvocationTypes_proofs --------------------
(***************************************************************************)
(* Type correctness of EngineInvocation, for every set of nodes and        *)
(* workers and every value of the bounds.                                  *)
(***************************************************************************)
EXTENDS EngineInvocation, TLAPS

-----------------------------------------------------------------------------
(* The store's operators and the run's exits are well typed. *)

LEMMA NoUpdateTyped == NoUpdate \in Updates
BY DEF NoUpdate, Updates

\* Every method of the store decides on an update.
LEMMA DecisionsTyped ==
    ASSUME NEW r \in Rows, NEW n \in Nodes, NEW b \in BOOLEAN
    PROVE  /\ NoUpdate \in Updates
           /\ Complete(r, n) \in Updates
           /\ Fail(r, n, b) \in Updates
           /\ AdminFail(r) \in Updates
           /\ MarkCancelled(r, n) \in Updates
           /\ RequestCancel(r) \in Updates
           /\ MarkFirstChunk(r, n) \in Updates
<1>1. NoUpdate \in Updates
  BY DEF NoUpdate, Updates
<1>2. \A s \in Status : Settle(s) \in Updates
  BY DEF NoUpdate, Updates, Settle
<1>3. {"completed", "dead_letter", "failed", "cancelled"} \subseteq Status
  BY DEF Status, Idle, Terminal
<1>4. Complete(r, n) \in Updates
  BY <1>1, <1>2, <1>3 DEF Complete
<1>5. Fail(r, n, b) \in Updates
  BY <1>1, <1>2, <1>3 DEF Fail
<1>6. \A s \in Status, c \in BOOLEAN :
         [NoUpdate EXCEPT !.to = s, !.clear = c] \in Updates
  BY DEF NoUpdate, Updates
<1>7. (r.owner # NoNode) \in BOOLEAN
  OBVIOUS
<1>8. MarkCancelled(r, n) \in Updates /\ AdminFail(r) \in Updates
  BY <1>1, <1>3, <1>6, <1>7 DEF MarkCancelled, AdminFail
<1>9. RequestCancel(r) \in Updates
  BY <1>1, <1>3 DEF RequestCancel, NoUpdate, Updates
<1>10. MarkFirstChunk(r, n) \in Updates
  BY <1>1 DEF MarkFirstChunk, NoUpdate, Updates
<1>11. QED
  BY <1>1, <1>4, <1>5, <1>8, <1>9, <1>10

LEMMA ApplyTyped ==
    ASSUME NEW r \in Rows, NEW u \in Updates
    PROVE  Apply(r, u) \in Rows
<1>1. (IF u.to = "same" THEN r.status ELSE u.to) \in Status
  BY DEF Rows, Updates
<1>2. (IF u.clear THEN NoNode ELSE r.owner) \in Nodes \cup {NoNode}
  BY DEF Rows, Updates
<1>3. /\ (r.expired /\ ~u.clear) \in BOOLEAN
      /\ (r.ready /\ u.to # "failed") \in BOOLEAN
      /\ (r.cancel \/ u.cancel) \in BOOLEAN
      /\ (r.first \/ u.first) \in BOOLEAN
  OBVIOUS
<1>4. r.attempts \in Nat
  BY DEF Rows
<1>5. QED
  BY <1>1, <1>2, <1>3, <1>4, Zenon DEF Apply, Rows

\* The row stays a row when it is inserted and claimed.
LEMMA RowsTyped ==
    ASSUME NEW r \in Rows, NEW n \in Nodes
    PROVE  NoRow \in Rows /\ Enqueued \in Rows /\ Claimed(r, n) \in Rows
<1>1. {"absent", "pending", "processing"} \subseteq Status
  BY DEF Status, Idle, Terminal
<1>2. NoRow \in Rows
  BY <1>1 DEF NoRow, Rows
<1>3. Enqueued \in Rows
  BY <1>1, <1>2 DEF Enqueued, Rows
<1>4. r.attempts + 1 \in Nat
  BY DEF Rows
<1>5. Claimed(r, n) \in Rows
  BY <1>1, <1>4 DEF Claimed, Rows
<1>6. QED
  BY <1>2, <1>3, <1>5

\* Every exit of _execute_row leaves a run.
LEMMA RunsTyped ==
    ASSUME NEW r \in Runs
    PROVE  /\ NoRun \in Runs
           /\ Unwind(r) \in Runs
           /\ \A b \in BOOLEAN : Raise(r, b) \in Runs
           /\ \A pc \in RunPCs : [r EXCEPT !.pc = pc] \in Runs
<1>1. NoRun \in Runs
  BY NoUpdateTyped DEF NoRun, Runs, RunPCs, JobStates
<1>2. ASSUME NEW p \in RunPCs, NEW ok \in BOOLEAN
      PROVE  Handler(r, p, ok) \in Runs
  <2>1. r.lost \in BOOLEAN /\ (ok /\ ~r.emitted) \in BOOLEAN
    BY DEF Runs
  <2>2. \A l \in BOOLEAN, b \in BOOLEAN :
           [NoRun EXCEPT !.pc = p, !.handling = TRUE, !.lost = l, !.retriable = b]
              \in Runs
    BY <1>1 DEF Runs
  <2>3. QED
    BY <2>1, <2>2 DEF Handler
<1>3. Unwind(r) \in Runs
  BY <1>1, <1>2 DEF Unwind, RunPCs
<1>4. \A b \in BOOLEAN : Raise(r, b) \in Runs
  BY <1>1, <1>2 DEF Raise, RunPCs
<1>5. QED
  BY <1>1, <1>3, <1>4 DEF Runs

LEMMA AfterTyped ==
    ASSUME TypeOK, NEW w \in Workers, NEW u
    PROVE  After(w, u) \in Runs
<1>1. run[w] \in Runs /\ NoUpdate \in Updates /\ NoRun \in Runs
  <2>1. run[w] \in Runs
    BY DEF TypeOK
  <2>2. NoUpdate \in Updates
    BY DEF NoUpdate, Updates
  <2>3. NoRun \in Runs
    BY <2>2 DEF NoRun, Runs, RunPCs, JobStates
  <2>4. QED
    BY <2>1, <2>2, <2>3
<1>2. \A pc \in RunPCs : [run[w] EXCEPT !.pc = pc, !.update = NoUpdate] \in Runs
  BY <1>1 DEF Runs
<1>3. {"job", "error", "retry"} \subseteq RunPCs
  BY DEF RunPCs
<1>4. QED
  BY <1>1, <1>2, <1>3 DEF After

LEMMA PublishedTyped ==
    ASSUME TypeOK, NEW kind, NEW seq, Published(kind, seq),
           [kind |-> kind, seq |-> seq] \in Entries
    PROVE  stream' \in Seq(Entries)
BY DEF TypeOK, Published

\* A run given a typed record leaves the worker table typed.
LEMMA BecomesTyped ==
    ASSUME TypeOK, NEW w \in Workers, NEW r \in Runs, Becomes(w, r)
    PROVE  run' \in [Workers -> Runs]
BY DEF TypeOK, Becomes

-----------------------------------------------------------------------------
(* Type correctness *)

LEMMA InitTyped == Init => TypeOK
<1>1. NoUpdate \in Updates
  BY DEF NoUpdate, Updates
<1>2. NoRow \in Rows
  BY DEF NoRow, Rows, Status, Idle, Terminal
<1>3. NoRun \in Runs
  BY <1>1 DEF NoRun, Runs, RunPCs, JobStates
<1>4. NewClient \in Clients
  BY <1>1 DEF NewClient, Clients, ClientPCs, Outcomes
<1>5. NoAdmin \in Admins
  BY <1>1 DEF NoAdmin, Admins
<1> SUFFICES ASSUME Init PROVE TypeOK
  OBVIOUS
<1>6. run \in [Workers -> Runs] /\ job \in [Nodes -> JobStates]
  BY <1>3 DEF Init, JobStates
<1>7. stream \in Seq(Entries) /\ up \in [Nodes -> BOOLEAN]
  BY DEF Init
<1>8. mode \in Modes /\ hazards \in Hazards /\ row \in Rows /\ client \in Clients
  BY <1>2, <1>4 DEF Init
<1>9. /\ user \in Updates /\ admin \in Admins
      /\ faults \in Nat /\ expiries \in Nat /\ overtaken \in BOOLEAN
  BY <1>1, <1>5 DEF Init
<1>10. QED
  BY <1>6, <1>7, <1>8, <1>9 DEF TypeOK

LEMMA ClaimTyped == ASSUME TypeOK, NEW w \in Workers, Claim(w) PROVE TypeOK'
<1>1. Node(w) \in Nodes
  BY InvocationAssumption DEF Node
<1>2. row' \in Rows
  BY <1>1, RowsTyped DEF Claim, TypeOK
<1>3. run' \in [Workers -> Runs]
  <2> DEFINE pc == CASE row.cancel -> "settleCancel"
                     [] ~row.cancel /\ mode = "stream" /\ row.first -> "settleFail"
                     [] OTHER -> "accept"
             r  == [NoRun EXCEPT !.pc = pc, !.lease = mode = "control" /\ ~row.cancel]
  <2>1. pc \in RunPCs
    BY Zenon DEF RunPCs
  <2>2. r \in Runs
    BY <2>1, NoUpdateTyped DEF NoRun, Runs, JobStates
  <2>3. Becomes(w, r)
    BY DEF Claim
  <2>4. QED
    BY <2>2, <2>3, BecomesTyped
<1>4. QED
  BY <1>2, <1>3 DEF Claim, TypeOK

LEMMA JobEndsTyped ==
    ASSUME TypeOK, NEW n \in Nodes, NEW result \in JobStates,
           NEW runs \in [Workers -> Runs], JobEnds(n, result, runs)
    PROVE  run' \in [Workers -> Runs] /\ job' \in [Nodes -> JobStates]
<1>1. \A w \in Workers : [runs[w] EXCEPT !.job = result] \in Runs
  BY DEF Runs
<1>2. QED
  BY <1>1 DEF JobEnds, TypeOK

LEMMA CancelJobTyped ==
    ASSUME TypeOK, NEW w \in Workers, NEW r \in Runs, CancelJob(w, r)
    PROVE  run' \in [Workers -> Runs] /\ job' \in [Nodes -> JobStates]
<1>1. CASE job[Node(w)] = "running"
  <2>1. Node(w) \in Nodes /\ "cancelled" \in JobStates
    BY InvocationAssumption DEF Node, JobStates
  <2>2. [run EXCEPT ![w] = r] \in [Workers -> Runs]
    BY DEF TypeOK
  <2>3. JobEnds(Node(w), "cancelled", [run EXCEPT ![w] = r])
    BY <1>1 DEF CancelJob
  <2>4. QED
    BY <2>1, <2>2, <2>3, JobEndsTyped
<1>2. CASE job[Node(w)] # "running"
  BY <1>2, BecomesTyped DEF CancelJob, TypeOK
<1>3. QED
  BY <1>1, <1>2

LEMMA AcceptTyped == ASSUME TypeOK, NEW w \in Workers, Accept(w) PROVE TypeOK'
<1>1. run[w] \in Runs /\ Node(w) \in Nodes
  BY InvocationAssumption DEF TypeOK, Node
<1>2. stream' \in Seq(Entries)
  <2>1. [kind |-> "accepted", seq |-> 0] \in Entries
    BY DEF Entries
  <2>2. QED
    BY <2>1, PublishedTyped DEF Accept
<1>3. /\ [run[w] EXCEPT !.pc = "job"] \in Runs
      /\ [run[w] EXCEPT !.pc = "job", !.lease = TRUE, !.job = "running"] \in Runs
  BY <1>1 DEF Runs, RunPCs, JobStates
<1>4. Raise(run[w], TRUE) \in Runs
  BY <1>1, RunsTyped
<1>5. \E r \in Runs : Becomes(w, r)
  <2>1. \/ Becomes(w, [run[w] EXCEPT !.pc = "job"])
        \/ Becomes(w, [run[w] EXCEPT !.pc = "job", !.lease = TRUE,
                                     !.job = "running"])
        \/ Becomes(w, Raise(run[w], TRUE))
    BY DEF Accept, Goto
  <2>2. QED
    BY <1>3, <1>4, <2>1
<1>6. job' \in [Nodes -> JobStates]
  BY DEF Accept, TypeOK, JobStates
<1>7. QED
  BY <1>2, <1>5, <1>6, BecomesTyped DEF Accept, TypeOK

\* The steps of a run that leave the store alone.
LEMMA RunStepTyped ==
    ASSUME TypeOK, NEW w \in Workers,
           \/ YieldChunk(w) \/ PublishChunk(w) \/ Return(w) \/ JobRaises(w)
           \/ PublishClosing(w) \/ PublishFails(w) \/ ReadCancelFlag(w)
    PROVE  TypeOK'
<1>1. run[w] \in Runs /\ NoRun \in Runs
  BY RunsTyped DEF TypeOK
<1>2. \A pc \in RunPCs : [run[w] EXCEPT !.pc = pc] \in Runs
  BY <1>1, RunsTyped
<1>3. \A b \in BOOLEAN : Raise(run[w], b) \in Runs /\ Unwind(run[w]) \in Runs
  BY <1>1, RunsTyped
<1>4. CASE YieldChunk(w)
  BY <1>2, <1>4, BecomesTyped DEF YieldChunk, Goto, TypeOK, RunPCs
<1>5. CASE PublishChunk(w)
  <2>1. run[w].seq \in Nat /\ run[w].seq + 1 \in Nat
    BY <1>1 DEF Runs
  <2>2. [kind |-> "chunk", seq |-> run[w].seq] \in Entries
    BY <2>1 DEF Entries
  <2>3. \A pc \in RunPCs :
          [run[w] EXCEPT !.pc = pc, !.emitted = TRUE, !.seq = @ + 1] \in Runs
    BY <1>1, <2>1 DEF Runs
  <2>4. \E r \in Runs : Becomes(w, r)
    BY <1>5, <2>3 DEF PublishChunk, RunPCs
  <2>5. stream' \in Seq(Entries)
    BY <1>5, <2>2, PublishedTyped DEF PublishChunk
  <2>6. QED
    BY <1>5, <2>4, <2>5, BecomesTyped DEF PublishChunk, TypeOK
<1>6. CASE Return(w)
  <2>1. \E r \in Runs : Becomes(w, r)
    BY <1>1, <1>2, <1>6 DEF Return, Goto, RunPCs
  <2>2. QED
    BY <1>6, <2>1, BecomesTyped DEF Return, TypeOK
<1>7. CASE JobRaises(w)
  <2>1. \E r \in Runs : Becomes(w, r)
    BY <1>3, <1>7 DEF JobRaises
  <2>2. QED
    BY <1>7, <2>1, BecomesTyped DEF JobRaises, TypeOK
<1>8. CASE PublishClosing(w)
  <2>1. [kind |-> run[w].pc, seq |-> 0] \in Entries
    BY <1>8 DEF PublishClosing, Entries
  <2>2. stream' \in Seq(Entries)
    BY <1>8, <2>1, PublishedTyped DEF PublishClosing
  <2>3. \E r \in Runs : Becomes(w, r)
    BY <1>1, <1>2, <1>8 DEF PublishClosing, Goto, RunPCs, At
  <2>4. QED
    BY <1>8, <2>2, <2>3, BecomesTyped DEF PublishClosing, TypeOK
<1>9. CASE PublishFails(w)
  <2>1. \E r \in Runs : Becomes(w, r)
    BY <1>3, <1>9 DEF PublishFails
  <2>2. QED
    BY <1>9, <2>1, BecomesTyped DEF PublishFails, TypeOK, Fault
<1>10. CASE ReadCancelFlag(w)
  <2>1. \E r \in Runs : Becomes(w, r)
    BY <1>2, <1>10 DEF ReadCancelFlag, Goto, RunPCs
  <2>2. QED
    BY <1>10, <2>1, BecomesTyped DEF ReadCancelFlag, TypeOK
<1>11. QED
  BY <1>4, <1>5, <1>6, <1>7, <1>8, <1>9, <1>10

\* The store transactions of a run.
LEMMA TxnTyped ==
    ASSUME TypeOK, NEW w \in Workers, TxnRead(w) \/ TxnCommit(w)
    PROVE  TypeOK'
<1>1. run[w] \in Runs /\ row \in Rows /\ Node(w) \in Nodes
  BY InvocationAssumption DEF TypeOK, Node
<1>2. run[w].update \in Updates /\ run[w].retriable \in BOOLEAN
  BY <1>1 DEF Runs
<1>3. CASE TxnRead(w)
  <2>1. Decision(w) \in Updates
    BY <1>1, <1>2, DecisionsTyped DEF Decision
  <2>2. [run[w] EXCEPT !.update = Decision(w)] \in Runs
    BY <1>1, <2>1 DEF Runs
  <2>3. \E r \in Runs : Becomes(w, r)
    BY <1>3, <2>2, AfterTyped DEF TxnRead
  <2>4. QED
    BY <1>3, <2>3, BecomesTyped DEF TxnRead, TypeOK
<1>4. CASE TxnCommit(w)
  <2>1. run' \in [Workers -> Runs]
    BY <1>4, AfterTyped, BecomesTyped DEF TxnCommit
  <2>2. row' \in Rows
    BY <1>1, <1>2, <1>4, ApplyTyped DEF TxnCommit
  <2>3. QED
    BY <1>4, <2>1, <2>2 DEF TxnCommit, TypeOK
<1>5. QED
  BY <1>3, <1>4

LEMMA RenewTyped == ASSUME TypeOK, NEW w \in Workers, Renew(w) PROVE TypeOK'
<1>1. run[w] \in Runs /\ row \in Rows
  BY DEF TypeOK
<1>2. /\ [run[w] EXCEPT !.cancelled = TRUE] \in Runs
      /\ [run[w] EXCEPT !.lost = TRUE, !.cancelled = TRUE, !.lease = FALSE] \in Runs
  BY <1>1 DEF Runs
<1>3. [row EXCEPT !.expired = FALSE] \in Rows
  BY <1>1 DEF Rows
<1>4. \/ UNCHANGED <<run, job>>
      \/ \E r \in Runs : CancelJob(w, r)
  BY <1>2 DEF Renew
<1>5. run' \in [Workers -> Runs] /\ job' \in [Nodes -> JobStates]
  BY <1>4, CancelJobTyped DEF TypeOK
<1>6. row' \in Rows
  BY <1>1, <1>3 DEF Renew
<1>7. QED
  BY <1>5, <1>6 DEF Renew, TypeOK

\* Engine, clock and nodes.
LEMMA EnvironmentTyped ==
    ASSUME TypeOK,
           \/ \E n \in Nodes : EngineFinishes(n) \/ Crash(n) \/ Stop(n) \/ Restart(n)
           \/ BackoffElapses \/ LeaseExpires
    PROVE  TypeOK'
<1>1. row \in Rows /\ run \in [Workers -> Runs] /\ NoRun \in Runs
  BY RunsTyped, NoUpdateTyped DEF TypeOK, NoRun, Runs, RunPCs, JobStates
<1>2. ASSUME NEW n \in Nodes, EngineFinishes(n) PROVE TypeOK'
  <2>1. \E result \in JobStates : JobEnds(n, result, run)
    BY <1>2 DEF EngineFinishes, JobStates
  <2>2. QED
    BY <1>1, <1>2, <2>1, JobEndsTyped DEF EngineFinishes, TypeOK
<1>3. ASSUME NEW n \in Nodes, Crash(n) PROVE TypeOK'
  BY <1>1, <1>3 DEF Crash, Fault, TypeOK, JobStates
<1>4. ASSUME NEW n \in Nodes, Stop(n) PROVE TypeOK'
  <2>1. \A w \in Workers : Unwind(run[w]) \in Runs
    BY <1>1, RunsTyped
  <2>2. run' \in [Workers -> Runs]
    BY <1>1, <1>4, <2>1 DEF Stop
  <2>3. QED
    BY <1>4, <2>2 DEF Stop, Fault, TypeOK
<1>5. ASSUME NEW n \in Nodes, Restart(n) PROVE TypeOK'
  BY <1>5 DEF Restart, TypeOK, JobStates
<1>6. ASSUME BackoffElapses PROVE TypeOK'
  <2>1. [row EXCEPT !.ready = TRUE] \in Rows
    BY <1>1 DEF Rows
  <2>2. QED
    BY <1>6, <2>1 DEF BackoffElapses, TypeOK
<1>7. ASSUME LeaseExpires PROVE TypeOK'
  <2>1. [row EXCEPT !.expired = TRUE] \in Rows
    BY <1>1 DEF Rows
  <2>2. faults' \in Nat /\ expiries' \in Nat
    BY <1>7 DEF LeaseExpires, Fault, TypeOK
  <2>3. QED
    BY <1>7, <2>1, <2>2 DEF LeaseExpires, TypeOK
<1>8. QED
  BY <1>2, <1>3, <1>4, <1>5, <1>6, <1>7

\* The client, in the words its actions use.
LEMMA ClientsTyped ==
    ASSUME NEW c \in Clients, NEW outcome \in Outcomes
    PROVE  /\ \A pc \in ClientPCs : [c EXCEPT !.pc = pc] \in Clients
           /\ Leaving(c, outcome) \in Clients
           /\ [c EXCEPT !.outcome = outcome] \in Clients
BY NoUpdateTyped DEF Clients, ClientPCs, Leaving

LEMMA FinishesTyped ==
    ASSUME NEW c \in Clients, Finishes(c)
    PROVE  client' \in Clients /\ stream' \in Seq(Entries)
<1>1. [c EXCEPT !.pc = "done", !.update = NoUpdate] \in Clients
  BY NoUpdateTyped DEF Clients, ClientPCs
<1>2. <<>> \in Seq(Entries)
  OBVIOUS
<1>3. QED
  BY <1>1, <1>2 DEF Finishes

LEMMA ReceiveTyped == ASSUME TypeOK, Receive PROVE TypeOK'
<1>1. client \in Clients /\ stream \in Seq(Entries) /\ stream # <<>>
  BY DEF TypeOK, Receive
<1>2. Head(stream) \in Entries /\ Tail(stream) \in Seq(Entries)
  BY <1>1
<1>3. Head(stream).seq \in Nat /\ Head(stream).seq + 1 \in Nat
  BY <1>2 DEF Entries
<1>4. /\ [client EXCEPT !.expected = 0] \in Clients
      /\ [client EXCEPT !.expected = Head(stream).seq + 1,
                        !.tokens = Append(@, Head(stream).seq)] \in Clients
      /\ [client EXCEPT !.result = TRUE] \in Clients
  <2>1. Append(client.tokens, Head(stream).seq) \in Seq(Nat)
    BY <1>1, <1>3 DEF Clients
  <2>2. QED
    BY <1>1, <1>3, <2>1 DEF Clients
<1>5. /\ Leaving(client, "gap") \in Clients
      /\ [client EXCEPT !.outcome = "ok"] \in Clients
      /\ [client EXCEPT !.outcome = "error"] \in Clients
  BY <1>1, ClientsTyped DEF Outcomes
<1>6. \/ \E c \in Clients : Reads(c)
      \/ \E c \in Clients : Finishes(c)
  <2>1. \/ Reads([client EXCEPT !.expected = 0])
        \/ Reads([client EXCEPT !.expected = Head(stream).seq + 1,
                                !.tokens = Append(@, Head(stream).seq)])
        \/ Reads(Leaving(client, "gap"))
        \/ Reads([client EXCEPT !.result = TRUE])
        \/ Finishes([client EXCEPT !.outcome = "ok"])
        \/ Finishes([client EXCEPT !.outcome = "error"])
    BY DEF Receive
  <2>2. QED
    BY <1>4, <1>5, <2>1
<1>7. client' \in Clients /\ stream' \in Seq(Entries)
  BY <1>2, <1>6, FinishesTyped DEF Reads
<1>8. QED
  BY <1>7 DEF Receive, TypeOK

\* The other steps of the client.
LEMMA ClientTyped ==
    ASSUME TypeOK,
           \/ Submit \/ QueuedPublished \/ CheckRow \/ GraceEnds
           \/ GiveUp \/ LeaveRead \/ LeaveCommit
    PROVE  TypeOK'
<1>1. client \in Clients /\ row \in Rows
  BY DEF TypeOK
<1>2. \A outcome \in Outcomes : Leaving(client, outcome) \in Clients
  BY <1>1, ClientsTyped
<1>3. CASE Submit
  <2>1. Enqueued \in Rows
    BY <1>1 DEF Enqueued, NoRow, Rows, Status, Idle, Terminal
  <2>2. QED
    BY <1>1, <1>3, <2>1 DEF Submit, TypeOK, Clients, ClientPCs
<1>4. CASE QueuedPublished
  <2>1. [client EXCEPT !.pc = "reading"] \in Clients
    BY <1>1 DEF Clients, ClientPCs
  <2>2. QED
    BY <1>2, <1>4, <2>1 DEF QueuedPublished, Fault, TypeOK, Outcomes
<1>5. CASE CheckRow
  <2>1. [client EXCEPT !.grace = TRUE] \in Clients
    BY <1>1 DEF Clients
  <2>2. QED
    BY <1>2, <1>5, <2>1 DEF CheckRow, TypeOK, Outcomes
<1>6. CASE GraceEnds
  BY <1>2, <1>6 DEF GraceEnds, TypeOK, Outcomes
<1>7. CASE GiveUp
  BY <1>2, <1>7 DEF GiveUp, TypeOK, Outcomes
<1>8. CASE LeaveRead
  <2>1. RequestCancel(row) \in Updates
    BY <1>1, NoUpdateTyped DEF RequestCancel, NoUpdate, Updates, Status, Terminal
  <2>2. [client EXCEPT !.update = RequestCancel(row)] \in Clients
    BY <1>1, <2>1 DEF Clients
  <2>3. client' \in Clients /\ stream' \in Seq(Entries)
    BY <1>1, <1>8, <2>2, FinishesTyped DEF LeaveRead, TypeOK
  <2>4. QED
    BY <1>8, <2>3 DEF LeaveRead, TypeOK
<1>9. CASE LeaveCommit
  <2>1. client.update \in Updates
    BY <1>1 DEF Clients
  <2>2. Apply(row, client.update) \in Rows
    BY <1>1, <2>1, ApplyTyped
  <2>3. QED
    BY <1>1, <1>9, <2>2, FinishesTyped DEF LeaveCommit, TypeOK
<1>10. QED
  BY <1>3, <1>4, <1>5, <1>6, <1>7, <1>8, <1>9

\* Cancels, ticks and the purge.
LEMMA OthersTyped ==
    ASSUME TypeOK,
           \/ CancelRead \/ CancelCommit \/ Peek \/ AdminStep \/ Purge \/ Over
    PROVE  TypeOK'
<1>1. row \in Rows /\ user \in Updates /\ admin \in Admins
  BY DEF TypeOK
<1>2. RequestCancel(row) \in Updates /\ AdminFail(row) \in Updates
  <2>1. {"cancelled", "dead_letter"} \subseteq Status
    BY DEF Status, Terminal
  <2>2. \A c \in BOOLEAN :
           [NoUpdate EXCEPT !.to = "dead_letter", !.clear = c] \in Updates
    BY <2>1, NoUpdateTyped DEF NoUpdate, Updates
  <2>3. (row.owner # NoNode) \in BOOLEAN
    OBVIOUS
  <2>4. AdminFail(row) \in Updates
    BY <2>2, <2>3, NoUpdateTyped DEF AdminFail
  <2>5. RequestCancel(row) \in Updates
    BY <2>1, NoUpdateTyped DEF RequestCancel, NoUpdate, Updates
  <2>6. QED
    BY <2>4, <2>5
<1>3. NoUpdate \in Updates /\ NoAdmin \in Admins /\ NoRow \in Rows
  BY NoUpdateTyped DEF NoAdmin, Admins, NoRow, Rows, Status
<1>4. admin.update \in Updates
  BY <1>1 DEF Admins
<1>5. CASE CancelRead
  BY <1>2, <1>5 DEF CancelRead, TypeOK
<1>6. CASE CancelCommit
  <2>1. Apply(row, user) \in Rows
    BY <1>1, ApplyTyped
  <2>2. QED
    BY <1>3, <1>6, <2>1 DEF CancelCommit, TypeOK
<1>7. CASE Peek
  <2>1. [admin EXCEPT !.pc = "peeked"] \in Admins
    BY <1>1 DEF Admins
  <2>2. QED
    BY <1>7, <2>1 DEF Peek, TypeOK
<1>8. CASE FailUnclaimable
  <2>1. [pc |-> "write", update |-> AdminFail(row)] \in Admins
    BY <1>2 DEF Admins
  <2>2. QED
    BY <1>3, <1>8, <2>1 DEF FailUnclaimable, TypeOK
<1>9. CASE FailUnclaimableCommit
  <2>1. Apply(row, admin.update) \in Rows
    BY <1>1, <1>4, ApplyTyped
  <2>2. [pc |-> "error", update |-> NoUpdate] \in Admins
    BY <1>3 DEF Admins
  <2>3. QED
    BY <1>9, <2>1, <2>2 DEF FailUnclaimableCommit, TypeOK
<1>10. CASE FailUnclaimableError
  <2>1. [kind |-> "error", seq |-> 0] \in Entries
    BY DEF Entries
  <2>2. stream' \in Seq(Entries)
    BY <1>10, <2>1, PublishedTyped DEF FailUnclaimableError
  <2>3. QED
    BY <1>3, <1>10, <2>2 DEF FailUnclaimableError, TypeOK
<1>11. CASE Purge
  BY <1>3, <1>11 DEF Purge, TypeOK
<1>12. CASE Over
  BY <1>12 DEF Over, vars, TypeOK
<1>13. QED
  BY <1>5, <1>6, <1>7, <1>8, <1>9, <1>10, <1>11, <1>12 DEF AdminStep

LEMMA NextTyped == TypeOK /\ [Next]_vars => TypeOK'
<1> SUFFICES ASSUME TypeOK, [Next]_vars PROVE TypeOK'
  OBVIOUS
<1>1. CASE UNCHANGED vars
  BY <1>1 DEF vars, TypeOK
<1>2. CASE \E w \in Workers : Claim(w) \/ RunStep(w) \/ Renew(w)
  BY <1>2, ClaimTyped, AcceptTyped, RunStepTyped, TxnTyped, RenewTyped DEF RunStep
<1>3. CASE \/ \E n \in Nodes : EngineFinishes(n) \/ Crash(n) \/ Stop(n) \/ Restart(n)
           \/ BackoffElapses \/ LeaseExpires
  BY <1>3, EnvironmentTyped
<1>4. CASE ClientStep \/ GiveUp
  BY <1>4, ReceiveTyped, ClientTyped DEF ClientStep
<1>5. CASE CancelRead \/ CancelCommit \/ Peek \/ AdminStep \/ Purge \/ Over
  BY <1>5, OthersTyped
<1>6. QED
  BY <1>1, <1>2, <1>3, <1>4, <1>5 DEF Next

\* Every variable keeps its type, however many nodes, workers and faults.
THEOREM TypeCorrect == Spec => []TypeOK
BY InitTyped, NextTyped, PTL DEF Spec
=============================================================================
