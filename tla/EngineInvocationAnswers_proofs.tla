------------------- MODULE EngineInvocationAnswers_proofs -------------------
(***************************************************************************)
(* What the caller of EngineInvocation is told: that answers and, until a  *)
(* write overtakes another, errors agree with the row, that without an     *)
(* expired lease a request is run once and no token repeats, and that      *)
(* without a fault an answered request is not run again.  Store methods    *)
(* read and write the row in two steps, as the code's transactions do.     *)
(*                                                                         *)
(* The argument has three layers: what a step does to the runs and to what *)
(* they are about to write (RunSteps, UpdateSteps), to the row (RowChanges *)
(* and, until a write overtakes another, RowSteps), from                   *)
(* EngineInvocation_proofs, and to the caller and the response stream      *)
(* (TalkSteps); then each part of the invariant is kept by every           *)
(* combination of them.                                                    *)
(***************************************************************************)
EXTENDS EngineInvocation_proofs

-----------------------------------------------------------------------------
(* The invariant *)

\* The caller still listens.
Attentive == client.pc \in {"queued", "reading"}

\* An entry of this kind waits to be read.
Sent(kind) == \E i \in 1..Len(stream) : stream[i].kind = kind

\* Before the submit there is nothing.
Unasked ==
    client.pc = "new" => /\ \A w \in Workers : At(w, "idle")
                         /\ stream = <<>> /\ client = NewClient /\ admin.pc = "idle"

\* Whoever completes the row has published an end before, and a result before
\* the end.
Announced ==
    /\ client.outcome = "ok" => client.pc = "done"
    /\ Attentive => /\ row.status = "completed" => Sent("end")
                    /\ \A w \in Workers : At(w, "complete") => Sent("end")

Resulted ==
    mode # "stream" =>
        /\ client.outcome = "ok" => client.result
        /\ Attentive =>
              /\ \A w \in Workers : At(w, "end") => client.result \/ Sent("result")
              /\ \A i \in 1..Len(stream) : stream[i].kind = "end" =>
                    client.result \/ \E k \in 1..(i-1) : stream[k].kind = "result"

\* The row is settled, or somebody asked to cancel it.
Closed == row.status \in Terminal \cup {"absent"} \/ row.cancel

\* Whoever is about to announce an error has closed the row, or found it closed.
Errors ==
    ~overtaken => /\ \A w \in Workers : run[w].pc \in {"settleCancel", "error"} => Closed
                  /\ admin.pc = "error" => Closed
                  /\ ErrorSent => Closed

\* Without an expired lease one run holds the row, on the node that owns it,
\* until the row is settled.
Undivided ==
    expiries = 0 =>
        /\ ~row.expired
        /\ \A v, w \in Workers : Holding(v) /\ Holding(w) => v = w
        /\ \A w \in Workers : Holding(w) =>
              \/ row.status \in Terminal \cup {"absent"}
              \/ /\ row.status = "processing" /\ row.owner = Node(w)
                 /\ ~run[w].lost /\ ~At(w, "error")

\* The chunks that were read or can be.
Said == {client.tokens[i] : i \in 1..Len(client.tokens)} \cup
        {stream[i].seq : i \in {k \in 1..Len(stream) : stream[k].kind = "chunk"}}

\* No chunk is among them twice.
Distinct ==
    /\ NoDuplicateTokens
    /\ \A i, k \in 1..Len(stream) :
          stream[i].kind = "chunk" /\ stream[k].kind = "chunk"
          /\ stream[i].seq = stream[k].seq => i = k
    /\ \A i \in 1..Len(client.tokens), k \in 1..Len(stream) :
          stream[k].kind = "chunk" => client.tokens[i] # stream[k].seq

\* Without an expired lease a chunk is said once: by the one run that holds
\* the row, which counts on, and which fails for good once it has spoken: what
\* decided to requeue the row has said nothing, whoever holds the row by then.
Once ==
    expiries = 0 =>
        /\ Distinct
        /\ \A w \in Workers : Working(w) => \A n \in Said : n < run[w].seq
        /\ row.status \in Idle => Said = {}
        /\ \A w \in Workers :
              /\ Holding(w) /\ ~Working(w) /\ row.status = "processing"
              /\ run[w].retriable \/ ~run[w].handling
              => Said = {}
        /\ \A w \in Workers : run[w].update.to = "failed" => Said = {}

\* Without a fault no lease expires, a processing row has a run that holds it,
\* and once the end is out that run only completes the row.
Faultless ==
    faults = 0 =>
        /\ expiries = 0
        /\ row.status = "processing" => \E w \in Workers : Holding(w)
        /\ client.outcome = "ok" \/ Sent("end") =>
              /\ row.status \notin Idle
              /\ row.status = "processing" =>
                    \A w \in Workers : Holding(w) => At(w, "complete")
              /\ \A w \in Workers : run[w].update.to # "failed"

-----------------------------------------------------------------------------
(* What a step does to the row *)

\* Nothing takes a cancel back, and only the clock lets a lease expire.
LEMMA Columns ==
    ASSUME TypeOK, [Next]_vars
    PROVE  /\ row'.expired => row.expired \/ expiries' # expiries
           /\ row.cancel => row'.cancel \/ row'.status = "absent" \/ client.pc = "new"
<1> USE DEF TypeOK
<1>1. row \in Rows
  OBVIOUS
<1>2. ASSUME NEW u, row' = Apply(row, u)
      PROVE  /\ row'.expired => row.expired
             /\ row.cancel => row'.cancel
  BY <1>2 DEF Apply
<1>3. ASSUME NEW w \in Workers, Claim(w)
      PROVE  ~row'.expired /\ row'.cancel = row.cancel
  BY <1>1, <1>3 DEF Claim, Claimed, Rows
<1>4. ASSUME NEW w \in Workers, Renew(w)
      PROVE  (row'.expired => row.expired) /\ row'.cancel = row.cancel
  BY <1>1, <1>4 DEF Renew, Rows
<1>5. CASE \/ \E w \in Workers : TxnCommit(w)
           \/ LeaveCommit \/ CancelCommit \/ FailUnclaimableCommit
  BY <1>2, <1>5 DEF TxnCommit, LeaveCommit, CancelCommit, FailUnclaimableCommit
<1>6. CASE Submit
  BY <1>6 DEF Submit, Enqueued, NoRow
<1>7. CASE Purge
  BY <1>7 DEF Purge, NoRow
<1>8. CASE BackoffElapses
  BY <1>1, <1>8 DEF BackoffElapses, Rows
<1>9. CASE LeaseExpires
  BY <1>1, <1>9 DEF LeaseExpires, Rows
<1>10. CASE \/ \E w \in Workers : \/ Accept(w) \/ YieldChunk(w) \/ PublishChunk(w) \/ Return(w)
                                  \/ JobRaises(w) \/ PublishClosing(w) \/ PublishFails(w)
                                  \/ ReadCancelFlag(w) \/ TxnRead(w)
            \/ \E n \in Nodes : EngineFinishes(n) \/ Crash(n) \/ Stop(n) \/ Restart(n)
            \/ QueuedPublished \/ Receive \/ CheckRow \/ GraceEnds \/ LeaveRead \/ GiveUp
            \/ CancelRead \/ Peek \/ FailUnclaimable \/ FailUnclaimableError
            \/ Over \/ UNCHANGED vars
  <2>1. row' = row
    BY <1>10 DEF Accept, YieldChunk, PublishChunk, Return, JobRaises, PublishClosing,
         PublishFails, ReadCancelFlag, TxnRead, EngineFinishes, Crash, Stop, Restart,
         QueuedPublished, Receive, CheckRow, GraceEnds, LeaveRead, GiveUp, CancelRead,
         Peek, FailUnclaimable, FailUnclaimableError, Over, vars
  <2>2. QED
    BY <2>1
<1>11. QED
  BY <1>3, <1>4, <1>5, <1>6, <1>7, <1>8, <1>9, <1>10 DEF Next, RunStep, ClientStep, AdminStep

\* A fault is counted, and a lease expires by a fault or because no run of its
\* owner is left.
LEMMA Counters ==
    ASSUME TypeOK, [Next]_vars
    PROVE  /\ faults' \in {faults, faults + 1}
           /\ \/ expiries' = expiries
              \/ /\ expiries' = expiries + 1 /\ row.status = "processing"
                 /\ ~Attended \/ faults' = faults + 1
<1>1. CASE LeaseExpires
  BY <1>1 DEF LeaseExpires, Fault
<1>2. CASE ~LeaseExpires
  <2>1. expiries' = expiries
    BY <1>2 DEF Next, RunStep, ClientStep, AdminStep, Claim, Renew, TxnCommit,
         Accept, YieldChunk, PublishChunk, Return, JobRaises, PublishClosing,
         PublishFails, ReadCancelFlag, TxnRead, EngineFinishes, Crash, Stop, Restart,
         BackoffElapses, Submit, LeaveCommit, CancelCommit, FailUnclaimableCommit, Purge,
         QueuedPublished, Receive, CheckRow, GraceEnds, LeaveRead, GiveUp, CancelRead,
         Peek, FailUnclaimable, FailUnclaimableError, Over, vars
  <2>2. faults' \in {faults, faults + 1}
    BY <1>2 DEF Next, RunStep, ClientStep, AdminStep, Claim, Renew, TxnCommit, Fault,
         Accept, YieldChunk, PublishChunk, Return, JobRaises, PublishClosing,
         PublishFails, ReadCancelFlag, TxnRead, EngineFinishes, Crash, Stop, Restart,
         BackoffElapses, Submit, LeaveCommit, CancelCommit, FailUnclaimableCommit, Purge,
         QueuedPublished, Receive, CheckRow, GraceEnds, LeaveRead, GiveUp, CancelRead,
         Peek, FailUnclaimable, FailUnclaimableError, Over, vars
  <2>3. QED
    BY <2>1, <2>2
<1>3. QED
  BY <1>1, <1>2

-----------------------------------------------------------------------------
(* What a step does to the caller and the response stream *)

\* A chunk is published, and the run counts on.
SpeaksChunk(w) ==
    /\ At(w, "chunk") /\ Published("chunk", run[w].seq) /\ client' = client
    /\ run'[w].pc \in {"job", "mark"} /\ run'[w].seq = run[w].seq + 1
    /\ row' = row

\* An entry that opens or closes an attempt.
SpeaksOther(w) ==
    /\ client' = client /\ row' = row
    /\ \/ At(w, "accept") /\ Published("accepted", 0)
       \/ run[w].pc \in {"result", "end", "error", "retry"} /\ Published(run[w].pc, 0)
    /\ At(w, "end") => At(w, "complete")'

Condemns == /\ admin.pc = "error" /\ Published("error", 0)
            /\ client' = client /\ row' = row

SameWords == /\ client'.tokens = client.tokens /\ client'.result = client.result

\* The caller goes on, without reading.
Listens ==
    /\ client.pc # "new" /\ SameWords /\ client'.outcome = client.outcome /\ stream' = stream
    /\ client'.pc = client.pc \/ (client.pc = "queued" /\ client'.pc = "reading")

\* It reads an entry that does not end the stream.
Hears ==
    /\ Reading /\ client'.pc = "reading" /\ client'.outcome = client.outcome
    /\ stream # <<>> /\ stream' = Tail(stream)
    /\ \/ /\ Head(stream).kind = "chunk"
          /\ client'.tokens = Append(client.tokens, Head(stream).seq)
          /\ client'.result = client.result
       \/ /\ Head(stream).kind = "result" /\ client'.result
          /\ client'.tokens = client.tokens
       \/ Head(stream).kind \in {"accepted", "retry"} /\ SameWords

Ends ==
    /\ Reading /\ client'.pc = "done" /\ SameWords
    /\ stream # <<>> /\ stream' = <<>>
    /\ \/ Head(stream).kind = "end" /\ client'.outcome = "ok"
       \/ Head(stream).kind = "error" /\ client'.outcome = "error"

\* It stops listening.
Quits ==
    /\ Attentive /\ client'.pc = "leaving" /\ SameWords
    /\ client'.outcome \notin {"ok", "error"}
    /\ stream' = stream \/ (stream # <<>> /\ stream' = Tail(stream))

Closes ==
    /\ client.pc = "leaving" /\ client'.pc = "done" /\ SameWords
    /\ client'.outcome = client.outcome /\ stream' = <<>>

TalkStep == \/ client' = client /\ stream' = stream
            \/ \E w \in Workers : SpeaksChunk(w) \/ SpeaksOther(w)
            \/ Condemns
            \/ Submit /\ stream' = stream /\ SameWords /\ client'.outcome = client.outcome
            \/ Listens \/ Hears \/ Ends \/ Quits \/ Closes

LEMMA ClientTalks ==
    ASSUME TypeOK, ClientStep \/ GiveUp PROVE TalkStep
<1>1. client \in Clients
  BY DEF TypeOK
<1>2. CASE Submit
  <2>1. client' = [client EXCEPT !.pc = "queued"] /\ stream' = stream
    BY <1>2 DEF Submit
  <2>2. SameWords /\ client'.outcome = client.outcome
    BY <1>1, <2>1 DEF SameWords, Clients
  <2>3. QED
    BY <1>2, <2>1, <2>2 DEF TalkStep
<1>3. ASSUME NEW outcome, client' = Leaving(client, outcome),
             outcome \notin {"ok", "error"}, Attentive,
             stream' = stream \/ (stream # <<>> /\ stream' = Tail(stream))
      PROVE  Quits
  BY <1>1, <1>3 DEF Quits, Leaving, Clients, SameWords
<1>4. CASE QueuedPublished
  <2>1. CASE client' = [client EXCEPT !.pc = "reading"]
    BY <1>1, <1>4, <2>1 DEF QueuedPublished, Listens, SameWords, Clients, TalkStep
  <2>2. CASE client' = Leaving(client, "rejected")
    BY <1>3, <1>4, <2>2 DEF QueuedPublished, Attentive, TalkStep
  <2>3. QED
    BY <1>4, <2>1, <2>2 DEF QueuedPublished
<1>5. CASE Receive
  <2> DEFINE e == Head(stream)
  <2>1. /\ Reading /\ stream # <<>> /\ client.pc = "reading"
    BY <1>5 DEF Receive, Reading
  <2>2. CASE e.kind \in {"accepted", "retry"} /\ Reads([client EXCEPT !.expected = 0])
    <3>1. Hears
      BY <1>1, <2>1, <2>2 DEF Hears, Reads, Clients, SameWords
    <3>2. QED
      BY <3>1 DEF TalkStep
  <2>3. CASE e.kind = "chunk" /\ Reads([client EXCEPT !.expected = e.seq + 1,
                                     !.tokens = Append(@, e.seq)])
    <3>1. Hears
      BY <1>1, <2>1, <2>3 DEF Hears, Reads, Clients
    <3>2. QED
      BY <3>1 DEF TalkStep
  <2>4. CASE Reads(Leaving(client, "gap"))
    <3>1. Quits
      BY <1>3, <2>1, <2>4 DEF Reads, Attentive
    <3>2. QED
      BY <3>1 DEF TalkStep
  <2>5. CASE e.kind = "result" /\ Reads([client EXCEPT !.result = TRUE])
    <3>1. Hears
      BY <1>1, <2>1, <2>5 DEF Hears, Reads, Clients
    <3>2. QED
      BY <3>1 DEF TalkStep
  <2>6. CASE e.kind = "end" /\ Finishes([client EXCEPT !.outcome = "ok"])
    <3>1. Ends
      BY <1>1, <2>1, <2>6 DEF Ends, Finishes, Clients, SameWords
    <3>2. QED
      BY <3>1 DEF TalkStep
  <2>7. CASE e.kind = "error" /\ Finishes([client EXCEPT !.outcome = "error"])
    <3>1. Ends
      BY <1>1, <2>1, <2>7 DEF Ends, Finishes, Clients, SameWords
    <3>2. QED
      BY <3>1 DEF TalkStep
  <2>8. QED
    BY <1>5, <2>2, <2>3, <2>4, <2>5, <2>6, <2>7 DEF Receive
<1>6. CASE CheckRow
  <2>1. CASE client' = [client EXCEPT !.grace = TRUE]
    BY <1>1, <1>6, <2>1 DEF CheckRow, Reading, Listens, SameWords, Clients, TalkStep
  <2>2. CASE client' = Leaving(client, "missing")
    BY <1>3, <1>6, <2>2 DEF CheckRow, Reading, Attentive, TalkStep
  <2>3. QED
    BY <1>6, <2>1, <2>2 DEF CheckRow
<1>7. CASE GraceEnds \/ GiveUp
  BY <1>3, <1>7 DEF GraceEnds, GiveUp, Reading, Attentive, TalkStep
<1>8. CASE LeaveRead
  <2>1. CASE Finishes(client)
    <3>1. Closes
      BY <1>1, <1>8, <2>1 DEF LeaveRead, Closes, Finishes, SameWords, Clients
    <3>2. QED
      BY <3>1 DEF TalkStep
  <2>2. CASE client' = [client EXCEPT !.update = RequestCancel(row)] /\ stream' = stream
    <3>1. Listens
      BY <1>1, <1>8, <2>2 DEF LeaveRead, Listens, SameWords, Clients
    <3>2. QED
      BY <3>1 DEF TalkStep
  <2>3. QED
    BY <1>8, <2>1, <2>2 DEF LeaveRead
<1>9. CASE LeaveCommit
  <2>1. Closes
    BY <1>1, <1>9 DEF LeaveCommit, Closes, Finishes, SameWords, Clients
  <2>2. QED
    BY <2>1 DEF TalkStep
<1>10. QED
  BY <1>2, <1>4, <1>5, <1>6, <1>7, <1>8, <1>9 DEF ClientStep

LEMMA WorkerTalks ==
    ASSUME TypeOK, NEW w \in Workers, Claim(w) \/ RunStep(w) \/ Renew(w) PROVE TalkStep
<1>1. run[w] \in Runs
  BY DEF TypeOK
<1>2. CASE Accept(w)
  <2>1. SpeaksOther(w)
    BY <1>2 DEF Accept, SpeaksOther, At
  <2>2. QED
    BY <2>1 DEF TalkStep
<1>3. CASE PublishChunk(w)
  <2>1. run'[w] = [run[w] EXCEPT !.pc = IF run[w].emitted THEN "job" ELSE "mark",
                                 !.emitted = TRUE, !.seq = @ + 1]
    BY <1>3, RunFacts DEF PublishChunk
  <2>2. run'[w].pc \in {"job", "mark"} /\ run'[w].seq = run[w].seq + 1
    BY <1>1, <2>1 DEF Runs
  <2>3. SpeaksChunk(w)
    BY <1>3, <2>2 DEF PublishChunk, SpeaksChunk
  <2>4. QED
    BY <2>3 DEF TalkStep
<1>4. CASE PublishClosing(w)
  <2>1. At(w, "end") => run'[w] = [run[w] EXCEPT !.pc = "complete"]
    BY <1>4, RunFacts DEF PublishClosing, Goto, At
  <2>2. At(w, "end") => At(w, "complete")'
    BY <1>1, <2>1 DEF At, Runs
  <2>3. SpeaksOther(w)
    BY <1>4, <2>2 DEF PublishClosing, SpeaksOther
  <2>4. QED
    BY <2>3 DEF TalkStep
<1>5. CASE \/ Claim(w) \/ Renew(w) \/ YieldChunk(w) \/ Return(w) \/ JobRaises(w)
           \/ PublishFails(w) \/ ReadCancelFlag(w) \/ TxnRead(w) \/ TxnCommit(w)
  <2>1. client' = client /\ stream' = stream
    BY <1>5 DEF Claim, Renew, YieldChunk, Return, JobRaises, PublishFails, ReadCancelFlag,
                TxnRead, TxnCommit
  <2>2. QED
    BY <2>1 DEF TalkStep
<1>6. QED
  BY <1>2, <1>3, <1>4, <1>5 DEF RunStep

LEMMA TalkSteps == ASSUME TypeOK, [Next]_vars PROVE TalkStep
<1>1. CASE \E w \in Workers : Claim(w) \/ RunStep(w) \/ Renew(w)
  BY <1>1, WorkerTalks
<1>2. CASE ClientStep \/ GiveUp
  BY <1>2, ClientTalks
<1>3. CASE FailUnclaimableError
  <2>1. Condemns
    BY <1>3 DEF FailUnclaimableError, Condemns
  <2>2. QED
    BY <2>1 DEF TalkStep
<1>4. CASE \/ \E n \in Nodes : EngineFinishes(n) \/ Crash(n) \/ Stop(n) \/ Restart(n)
           \/ BackoffElapses \/ LeaseExpires \/ CancelRead \/ CancelCommit \/ Peek
           \/ FailUnclaimable \/ FailUnclaimableCommit \/ Purge \/ Over \/ UNCHANGED vars
  <2>1. client' = client /\ stream' = stream
    BY <1>4 DEF EngineFinishes, Crash, Stop, Restart, BackoffElapses, LeaseExpires,
                CancelRead, CancelCommit, Peek, FailUnclaimable, FailUnclaimableCommit,
                Purge, Over, vars
  <2>2. QED
    BY <2>1 DEF TalkStep
<1>5. QED
  BY <1>1, <1>2, <1>3, <1>4 DEF Next, AdminStep

-----------------------------------------------------------------------------
(* The parts of the invariant are kept *)

\* The kind of request is fixed, and only the ticks write what they remember.
LEMMA Steady ==
    ASSUME [Next]_vars
    PROVE  mode' = mode /\ (admin' = admin \/ Peek \/ AdminStep)
<1>1. CASE Peek \/ AdminStep
  BY <1>1 DEF Peek, AdminStep, FailUnclaimable, FailUnclaimableCommit,
              FailUnclaimableError
<1>2. CASE ~(Peek \/ AdminStep)
  BY <1>2 DEF Next, RunStep, ClientStep, Claim, Renew, TxnCommit,
       Accept, YieldChunk, PublishChunk, Return, JobRaises, PublishClosing,
       PublishFails, ReadCancelFlag, TxnRead, EngineFinishes, Crash, Stop, Restart,
       BackoffElapses, LeaseExpires, Submit, LeaveCommit, CancelCommit, Purge,
       QueuedPublished, Receive, CheckRow, GraceEnds, LeaveRead, GiveUp, CancelRead,
       Over, vars
<1>3. QED
  BY <1>1, <1>2

LEMMA UnaskedKept ==
    ASSUME TypeOK, Submitted, Unasked, [Next]_vars, \A w \in Workers : Moves(w), TalkStep
    PROVE  Unasked'
<1> SUFFICES ASSUME client'.pc = "new"
             PROVE  /\ \A w \in Workers : At(w, "idle")'
                    /\ stream' = <<>> /\ client' = NewClient /\ admin'.pc = "idle"
  BY DEF Unasked
<1>1. client \in Clients
  BY DEF TypeOK
<1>2. \/ client' = client /\ stream' = stream
      \/ \E w \in Workers : SpeaksChunk(w) \/ SpeaksOther(w)
      \/ Condemns
  <2>1. ~Submit
    BY <1>1 DEF Submit, Clients
  <2>2. ~Listens /\ ~Hears /\ ~Ends /\ ~Quits /\ ~Closes
    BY DEF Listens, Hears, Ends, Quits, Closes
  <2>3. QED
    BY <2>1, <2>2 DEF TalkStep
<1>3. client' = client
  BY <1>2 DEF SpeaksChunk, SpeaksOther, Condemns
<1>4. /\ \A w \in Workers : At(w, "idle")
      /\ stream = <<>> /\ client = NewClient /\ admin.pc = "idle"
      /\ row.status = "absent"
  BY <1>3 DEF Unasked, Submitted
<1>5. ~Claimable(row)
  BY <1>4 DEF Claimable, Idle
<1>6. ASSUME NEW w \in Workers PROVE At(w, "idle")'
  <2>1. ~Begins(w)
    BY <1>5 DEF Begins, Claim
  <2>2. run[w].pc = "idle" /\ Moves(w)
    BY <1>4 DEF At
  <2>3. QED
    BY <2>1, <2>2 DEF Moves, At, Stays, Loses, Works, Working, Turns, Holding, Sorts,
                      Cancels, Fails, Vanishes, NoRun
<1>7. stream' = stream
  BY <1>2, <1>4 DEF SpeaksChunk, SpeaksOther, Condemns, At
<1>8. admin' = admin
  <2>1. ~Peek /\ ~AdminStep
    BY <1>4, <1>5 DEF Peek, AdminStep, FailUnclaimable, FailUnclaimableCommit,
                      FailUnclaimableError
  <2>2. QED
    BY <2>1, Steady
<1>9. QED
  BY <1>3, <1>4, <1>6, <1>7, <1>8

\* The stream of a caller that still listens: nothing, one entry more, or one
\* entry read.
LEMMA StreamSteps ==
    ASSUME TypeOK, TalkStep, Attentive', client.pc # "new"
    PROVE  /\ Attentive
           /\ \/ stream' = stream /\ SameWords
              \/ client' = client /\ \E e \in Entries : stream' = Append(stream, e)
              \/ Hears
<1>1. ASSUME NEW kind \in {"accepted", "chunk", "result", "end", "error", "retry"},
             NEW seq \in Nat, Published(kind, seq)
      PROVE  stream' = stream \/ \E e \in Entries : stream' = Append(stream, e)
  <2>1. [kind |-> kind, seq |-> seq] \in Entries
    BY DEF Entries
  <2>2. QED
    BY <1>1, <2>1 DEF Published
<1>2. CASE \E w \in Workers : SpeaksChunk(w)
  <2>1. PICK w \in Workers : SpeaksChunk(w)
    BY <1>2
  <2>2. run[w].seq \in Nat
    BY DEF TypeOK, Runs
  <2>3. QED
    BY <1>1, <2>1, <2>2 DEF SpeaksChunk, Attentive, SameWords
<1>3. CASE \E w \in Workers : SpeaksOther(w)
  BY <1>1, <1>3 DEF SpeaksOther, Attentive, SameWords
<1>4. CASE Condemns
  BY <1>1, <1>4 DEF Condemns, Attentive, SameWords
<1>5. CASE \/ client' = client /\ stream' = stream
           \/ Submit /\ stream' = stream /\ SameWords /\ client'.outcome = client.outcome
  BY <1>5 DEF Submit, Attentive, SameWords
<1>6. CASE Listens
  BY <1>6 DEF Listens, Attentive
<1>7. CASE Hears
  BY <1>7 DEF Hears, Reading, Attentive
<1>8. CASE Ends \/ Quits \/ Closes
  BY <1>8 DEF Ends, Quits, Closes, Attentive
<1>9. QED
  BY <1>2, <1>3, <1>4, <1>5, <1>6, <1>7, <1>8 DEF TalkStep

\* One entry more, or the first one gone.
LEMMA Grows ==
    ASSUME TypeOK, NEW e \in Entries, stream' = Append(stream, e)
    PROVE  /\ Len(stream') = Len(stream) + 1 /\ stream'[Len(stream) + 1] = e
           /\ \A i \in 1..Len(stream) : stream'[i] = stream[i]
           /\ Len(stream) \in Nat
BY DEF TypeOK

LEMMA Shrinks ==
    ASSUME TypeOK, stream # <<>>, stream' = Tail(stream)
    PROVE  /\ Len(stream) \in Nat \ {0} /\ Len(stream') = Len(stream) - 1
           /\ \A i \in 1..Len(stream') : stream'[i] = stream[i + 1]
           /\ Head(stream) = stream[1]
BY DEF TypeOK

\* An end that waits to be read is not lost while the caller listens.
LEMMA EndKept ==
    ASSUME TypeOK, TalkStep, Attentive', client.pc # "new", Sent("end") PROVE Sent("end")'
<1>1. PICK i \in 1..Len(stream) : stream[i].kind = "end"
  BY DEF Sent
<1>2. CASE stream' = stream
  BY <1>2 DEF Sent
<1>3. CASE \E e \in Entries : stream' = Append(stream, e)
  <2>1. Len(stream') = Len(stream) + 1 /\ stream'[i] = stream[i] /\ Len(stream) \in Nat
    BY <1>3, Grows
  <2>2. i \in 1..Len(stream')
    BY <2>1
  <2>3. QED
    BY <1>1, <2>1, <2>2 DEF Sent
<1>4. CASE Hears
  <2>1. stream # <<>> /\ stream' = Tail(stream) /\ Head(stream).kind # "end"
    BY <1>4 DEF Hears
  <2>2. i # 1 /\ i - 1 \in 1..Len(stream')
    BY <1>1, <2>1, Shrinks
  <2>3. stream'[i - 1] = stream[(i - 1) + 1]
    BY <2>1, <2>2, Shrinks
  <2>4. QED
    BY <1>1, <2>2, <2>3 DEF Sent
<1>5. QED
  BY <1>2, <1>3, <1>4, StreamSteps

\* What a listening caller is sent arrives.
LEMMA Arrives ==
    ASSUME TypeOK, NEW kind \in {"result", "end"}, Published(kind, 0), Attentive
    PROVE  Sent(kind)'
<1> DEFINE e == [kind |-> kind, seq |-> 0]
<1>1. Subscribed
  BY DEF Subscribed, Attentive
<1>2. e \in Entries /\ stream' = Append(stream, e)
  BY <1>1 DEF Published, Entries
<1>3. Len(stream) + 1 \in 1..Len(stream') /\ stream'[Len(stream) + 1] = e
  BY <1>2, Grows
<1>4. QED
  BY <1>3 DEF Sent

\* The caller starts to listen with the submit.
LEMMA Asking ==
    ASSUME TypeOK, TalkStep, Attentive', client.pc = "new" PROVE Submit
<1>1. ~Listens /\ ~Hears /\ ~Ends /\ ~Quits /\ ~Closes
  BY DEF Listens, Hears, Ends, Quits, Closes, Reading, Attentive
<1>2. client' # client
  BY DEF Attentive
<1>3. QED
  BY <1>1, <1>2 DEF TalkStep, SpeaksChunk, SpeaksOther, Condemns

LEMMA AnnouncedKept ==
    ASSUME TypeOK, Unasked, Announced, [Next]_vars, RowChange,
           \A w \in Workers : Moves(w), TalkStep
    PROVE  Announced'
<1>1. client'.outcome = "ok" => client'.pc = "done"
  <2>1. CASE client' = client
    BY <2>1 DEF Announced
  <2>2. CASE Submit /\ client'.outcome = client.outcome
    BY <2>2 DEF Submit, Announced
  <2>3. CASE Listens \/ Hears \/ Ends \/ Quits \/ Closes
    BY <2>3 DEF Listens, Hears, Ends, Quits, Closes, Announced, Reading
  <2>4. QED
    BY <2>1, <2>2, <2>3 DEF TalkStep, SpeaksChunk, SpeaksOther, Condemns
<1>2. CASE client.pc = "new" /\ Attentive'
  <2>1. Submit
    BY <1>2, Asking
  <2>2. row'.status = "pending" /\ run' = run
    BY <2>1 DEF Submit, Enqueued, NoRow
  <2>3. QED
    BY <1>1, <1>2, <2>2 DEF Announced, Unasked, At
<1>3. CASE client.pc # "new" /\ Attentive'
  <2>1. Attentive
    BY <1>3, StreamSteps
  <2>2. ASSUME row'.status = "completed" PROVE Sent("end")'
    <3>1. CASE row.status = "completed"
      BY <1>3, <2>1, <3>1, EndKept DEF Announced
    <3>2. CASE row.status # "completed"
      <4>1. ~Taken
        BY <2>2, BeginsTakes DEF Taken
      <4>2. Ended
        BY <1>3, <2>2, <3>2, <4>1
           DEF RowChange, Touched, Inserted, Requeued, Forgotten, NoRow
      <4>3. \E w \in Workers : At(w, "complete")
        BY <2>2, <3>2, <4>2 DEF Ended
      <4>4. QED
        BY <1>3, <2>1, <4>3, EndKept DEF Announced
    <3>3. QED
      BY <3>1, <3>2
  <2>3. ASSUME NEW w \in Workers, At(w, "complete")' PROVE Sent("end")'
    <3>1. CASE At(w, "complete")
      BY <1>3, <2>1, <3>1, EndKept DEF Announced
    <3>2. CASE Works(w)
      <4>1. Published("end", 0)
        BY <2>3, <3>2 DEF Works, At
      <4>2. QED
        BY <2>1, <4>1, Arrives
    <3>3. Moves(w)
      OBVIOUS
    <3>4. QED
      BY <2>3, <3>1, <3>2, <3>3 DEF Moves, At, Stays, Loses, Begins, Turns, Sorts, Cancels,
                                    Fails, Vanishes, NoRun
  <2>4. QED
    BY <1>1, <2>2, <2>3 DEF Announced
<1>4. QED
  BY <1>1, <1>2, <1>3 DEF Announced

LEMMA ResultedKept ==
    ASSUME TypeOK, Unasked, Announced, Resulted, [Next]_vars,
           \A w \in Workers : Moves(w), TalkStep
    PROVE  Resulted'
<1> SUFFICES ASSUME mode # "stream"
             PROVE  /\ client'.outcome = "ok" => client'.result
                    /\ Attentive' =>
                        /\ \A w \in Workers :
                              At(w, "end")' => client'.result \/ Sent("result")'
                        /\ \A i \in 1..Len(stream') : stream'[i].kind = "end" =>
                              client'.result \/ \E k \in 1..(i-1) : stream'[k].kind = "result"
  BY Steady DEF Resulted
<1>1. client'.outcome = "ok" => client'.result
  <2>1. CASE client' = client
    BY <2>1 DEF Resulted
  <2>2. CASE SameWords /\ client'.outcome = client.outcome
    BY <2>2 DEF SameWords, Resulted
  <2>3. CASE Ends
    <3>1. SUFFICES ASSUME client'.outcome = "ok" PROVE client.result
      BY <2>3 DEF Ends, SameWords
    <3>2. Attentive /\ stream # <<>> /\ Head(stream).kind = "end"
      BY <2>3, <3>1 DEF Ends, Reading, Attentive
    <3>3. 1 \in 1..Len(stream) /\ stream[1].kind = "end"
      BY <3>2 DEF TypeOK
    <3>4. client.result \/ \E k \in 1..(1-1) : stream[k].kind = "result"
      BY <3>2, <3>3 DEF Resulted
    <3>5. QED
      BY <3>4
  <2>4. CASE Hears
    BY <2>4 DEF Hears, Reading, Announced
  <2>5. CASE Quits
    BY <2>5 DEF Quits
  <2>6. QED
    BY <2>1, <2>2, <2>3, <2>4, <2>5
       DEF TalkStep, SpeaksChunk, SpeaksOther, Condemns, Listens, Closes
<1>2. CASE client.pc = "new" /\ Attentive'
  <2>1. Submit
    BY <1>2, Asking
  <2>2. run' = run /\ stream' = stream /\ stream = <<>>
    BY <1>2, <2>1 DEF Submit, Unasked
  <2>3. \A w \in Workers : ~At(w, "end")'
    BY <1>2, <2>2 DEF Unasked, At
  <2>4. Len(stream') = 0
    BY <2>2
  <2>5. QED
    BY <1>1, <2>3, <2>4
<1>3. CASE client.pc # "new" /\ Attentive'
  <2>1. /\ Attentive
        /\ \A w \in Workers : At(w, "end") => client.result \/ Sent("result")
        /\ \A i \in 1..Len(stream) : stream[i].kind = "end" =>
              client.result \/ \E k \in 1..(i-1) : stream[k].kind = "result"
        /\ \/ stream' = stream /\ client'.result = client.result
           \/ client' = client /\ \E e \in Entries : stream' = Append(stream, e)
           \/ Hears
    BY <1>3, StreamSteps DEF Resulted, SameWords
  <2>2. client.result => client'.result
    BY <2>1 DEF Hears, SameWords
  <2>3. Sent("result") => client'.result \/ Sent("result")'
    <3> SUFFICES ASSUME Sent("result") PROVE client'.result \/ Sent("result")'
      OBVIOUS
    <3>1. PICK i \in 1..Len(stream) : stream[i].kind = "result"
      BY DEF Sent
    <3>2. CASE stream' = stream
      BY <3>2 DEF Sent
    <3>3. CASE \E e \in Entries : stream' = Append(stream, e)
      <4>1. i \in 1..Len(stream') /\ stream'[i] = stream[i]
        BY <3>3, Grows
      <4>2. QED
        BY <3>1, <4>1 DEF Sent
    <3>4. CASE Hears /\ i = 1
      BY <3>1, <3>4, Shrinks DEF Hears
    <3>5. CASE Hears /\ i # 1
      <4>1. i - 1 \in 1..Len(stream') /\ stream'[i - 1] = stream[(i - 1) + 1]
        BY <3>1, <3>5, Shrinks DEF Hears
      <4>2. QED
        BY <3>1, <4>1 DEF Sent
    <3>6. QED
      BY <2>1, <3>2, <3>3, <3>4, <3>5
  <2>4. ASSUME NEW w \in Workers, At(w, "end")' PROVE client'.result \/ Sent("result")'
    <3>1. CASE At(w, "end")
      BY <2>1, <2>2, <2>3, <3>1
    <3>2. CASE Works(w)
      <4>1. Published("result", 0)
        BY <2>4, <3>2 DEF Works, At
      <4>2. QED
        BY <2>1, <4>1, Arrives
    <3>3. Moves(w)
      OBVIOUS
    <3>4. QED
      BY <2>4, <3>1, <3>2, <3>3 DEF Moves, At, Stays, Loses, Begins, Turns, Sorts, Cancels,
                                    Fails, Vanishes, NoRun
  <2>5. ASSUME NEW i \in 1..Len(stream'), stream'[i].kind = "end"
        PROVE  client'.result \/ \E k \in 1..(i-1) : stream'[k].kind = "result"
    <3>1. CASE stream' = stream
      BY <2>1, <2>2, <2>5, <3>1
    <3>2. ASSUME NEW e \in Entries, stream' = Append(stream, e), i \in 1..Len(stream)
          PROVE  client'.result \/ \E k \in 1..(i-1) : stream'[k].kind = "result"
      <4>1. \A k \in 1..Len(stream) : stream'[k] = stream[k]
        BY <3>2, Grows
      <4>2. client.result \/ \E k \in 1..(i-1) : stream[k].kind = "result"
        BY <2>1, <2>5, <3>2, <4>1
      <4>3. \A k \in 1..(i-1) : k \in 1..Len(stream)
        BY <3>2, Grows
      <4>4. QED
        BY <2>2, <4>1, <4>2, <4>3
    <3>3. ASSUME NEW e \in Entries, stream' = Append(stream, e), i \notin 1..Len(stream)
          PROVE  client'.result \/ \E k \in 1..(i-1) : stream'[k].kind = "result"
      <4>1. i = Len(stream) + 1 /\ e.kind = "end" /\ stream' # stream
        BY <2>5, <3>3, Grows
      <4>2. ASSUME NEW kind, NEW seq, kind # "end", Published(kind, seq) PROVE FALSE
        <5>1. stream' = Append(stream, [kind |-> kind, seq |-> seq])
          BY <4>1, <4>2 DEF Published
        <5>2. stream'[Len(stream) + 1] = [kind |-> kind, seq |-> seq]
          BY <5>1 DEF TypeOK
        <5>3. e = [kind |-> kind, seq |-> seq]
          BY <3>3, <5>2, Grows
        <5>4. QED
          BY <4>1, <4>2, <5>3
      <4>3. \E w \in Workers : At(w, "end")
        <5>1. ~Listens /\ ~Hears /\ ~Ends /\ ~Quits /\ ~Closes /\ ~Submit
          <6>1. client.pc # "new"
            BY <1>3
          <6>2. Len(stream') = Len(stream) + 1 /\ Len(stream) \in Nat
            BY <3>3, Grows
          <6>3. ~Hears
            BY <6>2, Shrinks DEF Hears
          <6>4. QED
            BY <1>3, <4>1, <6>1, <6>3 DEF Listens, Ends, Quits, Closes, Submit, Attentive
        <5>2. ~Condemns /\ \A w \in Workers : ~SpeaksChunk(w)
          BY <4>2 DEF Condemns, SpeaksChunk
        <5>3. PICK w \in Workers : SpeaksOther(w)
          BY <4>1, <5>1, <5>2 DEF TalkStep
        <5>4. QED
          BY <4>2, <5>3 DEF SpeaksOther, At
      <4>4. client.result \/ Sent("result")
        BY <2>1, <4>3
      <4>5. \A k \in 1..Len(stream) : stream'[k] = stream[k] /\ k \in 1..(i-1)
        BY <3>3, <4>1, Grows
      <4>6. QED
        BY <2>2, <4>4, <4>5 DEF Sent
    <3>4. CASE Hears
      <4>1. stream # <<>> /\ stream' = Tail(stream)
        BY <3>4 DEF Hears
      <4>2. i + 1 \in 1..Len(stream) /\ stream[i + 1].kind = "end"
        BY <2>5, <4>1, Shrinks
      <4>3. client.result \/ \E k \in 1..((i+1)-1) : stream[k].kind = "result"
        BY <2>1, <4>2
      <4>4. ASSUME NEW k \in 1..i, stream[k].kind = "result"
            PROVE  client'.result \/ \E m \in 1..(i-1) : stream'[m].kind = "result"
        <5>1. CASE k = 1
          BY <3>4, <4>1, <4>4, <5>1, Shrinks DEF Hears
        <5>2. CASE k # 1
          <6>1. k - 1 \in 1..Len(stream') /\ k - 1 \in 1..(i-1)
            BY <5>2, <4>1, <4>2, Shrinks
          <6>2. stream'[k - 1] = stream[(k - 1) + 1]
            BY <4>1, <6>1, Shrinks
          <6>3. QED
            BY <4>4, <6>1, <6>2
        <5>3. QED
          BY <5>1, <5>2
      <4>5. QED
        BY <2>2, <4>3, <4>4
    <3>5. QED
      BY <2>1, <3>1, <3>2, <3>3, <3>4
  <2>6. QED
    BY <1>1, <2>4, <2>5
<1>4. QED
  BY <1>1, <1>2, <1>3

LEMMA ClosedKept ==
    ASSUME TypeOK, [Next]_vars, RowStep, Closed, client.pc # "new" PROVE Closed'
<1>1. CASE row.cancel
  BY <1>1, Columns DEF Closed
<1>2. CASE row.status \in Terminal \cup {"absent"}
  BY <1>2, StatusKinds DEF RowStep, Touched, Inserted, Taken, Claimable, Released, Withdrawn,
                           Condemned, Forgotten, NoRow, Closed, Terminal
<1>3. QED
  BY <1>1, <1>2 DEF Closed

LEMMA ErrorsKept ==
    ASSUME TypeOK, Decided, Submitted, Unasked, Errors, [Next]_vars,
           ~overtaken' => RowStep, \A w \in Workers : Moves(w), TalkStep
    PROVE  Errors'
<1> SUFFICES ASSUME ~overtaken'
             PROVE  /\ \A w \in Workers :
                          run'[w].pc \in {"settleCancel", "error"} => Closed'
                    /\ admin'.pc = "error" => Closed'
                    /\ ErrorSent' => Closed'
  BY DEF Errors
<1>1. ~overtaken /\ RowStep
  BY OvertakenStays
<1>2. ASSUME NEW w \in Workers, run'[w].pc \in {"settleCancel", "error"} PROVE Closed'
  <2>1. Moves(w)
    OBVIOUS
  <2>2. CASE run[w].pc \in {"settleCancel", "error"}
    BY <1>1, <2>2, ClosedKept DEF Errors, Unasked, At
  <2>3. CASE Begins(w) \/ Sorts(w)
    <3>1. Closed
      BY <1>1, <1>2, <2>3, <2>2 DEF Begins, Sorts, Closed, At, Errors
    <3>2. client.pc # "new"
      BY <2>3 DEF Begins, Claim, Claimable, Submitted, Idle, Sorts, Unasked, At
    <3>3. QED
      BY <1>1, <3>1, <3>2, ClosedKept
  <2>4. CASE Fails(w)
    BY <1>2, <2>4 DEF Fails, Closed, Terminal
  <2>5. QED
    BY <1>2, <2>1, <2>2, <2>3, <2>4 DEF Moves, Stays, Loses, Works, Turns, Cancels,
                                        Vanishes, NoRun, At
<1>3. admin'.pc = "error" => Closed'
  <2>1. CASE admin' = admin
    BY <1>1, <2>1, ClosedKept DEF Errors, Unasked
  <2>2. CASE FailUnclaimableCommit
    <3>1. row' = Apply(row, admin.update) /\ admin.update.to = "dead_letter"
      BY <2>2 DEF FailUnclaimableCommit, Decided
    <3>2. QED
      BY <3>1 DEF Apply, Closed, Terminal
  <2>3. CASE FailUnclaimable \/ FailUnclaimableError \/ Peek
    BY <2>3 DEF FailUnclaimable, FailUnclaimableError, Peek, NoAdmin, TypeOK, Admins
  <2>4. QED
    BY <2>1, <2>2, <2>3, Steady DEF AdminStep
<1>4. ErrorSent' => Closed'
  <2>1. CASE ErrorSent
    <3>1. client.pc # "new"
      BY <2>1 DEF ErrorSent, Unasked, NewClient
    <3>2. Closed
      BY <1>1, <2>1 DEF Errors
    <3>3. QED
      BY <1>1, <3>1, <3>2, ClosedKept
  <2>2. ASSUME ~ErrorSent, ErrorSent' PROVE Closed'
    <3>1. ASSUME NEW kind, NEW seq, Published(kind, seq), client' = client, kind # "error"
          PROVE  FALSE
      <4>1. stream' = stream \/ stream' = Append(stream, [kind |-> kind, seq |-> seq])
        BY <3>1 DEF Published
      <4>2. CASE stream' = stream
        BY <2>2, <3>1, <4>2 DEF ErrorSent
      <4>3. CASE stream' = Append(stream, [kind |-> kind, seq |-> seq])
        <5>1. PICK i \in 1..Len(stream') : stream'[i].kind = "error"
          BY <2>2, <3>1 DEF ErrorSent
        <5>2. i \in 1..Len(stream) => stream'[i] = stream[i]
          BY <4>3 DEF TypeOK
        <5>3. i \notin 1..Len(stream) => stream'[i] = [kind |-> kind, seq |-> seq]
          BY <4>3 DEF TypeOK
        <5>4. QED
          BY <2>2, <3>1, <5>1, <5>2, <5>3 DEF ErrorSent
      <4>4. QED
        BY <4>1, <4>2, <4>3
    <3>2. ASSUME client'.outcome = client.outcome, stream # <<>>, stream' = Tail(stream)
          PROVE  FALSE
      <4>1. PICK i \in 1..Len(stream') : stream'[i].kind = "error"
        BY <2>2, <3>2 DEF ErrorSent
      <4>2. i + 1 \in 1..Len(stream) /\ stream[i + 1].kind = "error"
        BY <3>2, <4>1, Shrinks
      <4>3. QED
        BY <2>2, <4>2 DEF ErrorSent
    <3>3. CASE Condemns
      <4>1. Closed /\ row' = row
        BY <1>1, <3>3 DEF Condemns, Errors
      <4>2. QED
        BY <4>1 DEF Closed
    <3>4. ASSUME NEW w \in Workers, SpeaksOther(w) PROVE Closed'
      <4>1. run[w].pc = "error" /\ row' = row
        BY <3>1, <3>4 DEF SpeaksOther
      <4>2. QED
        BY <1>1, <4>1 DEF Errors, Closed
    <3>5. ASSUME NEW w \in Workers, SpeaksChunk(w) PROVE FALSE
      BY <3>1, <3>5 DEF SpeaksChunk
    <3>6. CASE client'.outcome = client.outcome /\ stream' = stream
      BY <2>2, <3>6 DEF ErrorSent
    <3>7. ~Hears
      BY <3>2 DEF Hears
    <3>8. ~Quits
      <4>1. SUFFICES ASSUME Quits PROVE FALSE
        OBVIOUS
      <4>2. PICK i \in 1..Len(stream') : stream'[i].kind = "error"
        BY <2>2, <4>1 DEF ErrorSent, Quits
      <4>3. CASE stream' = stream
        BY <2>2, <4>2, <4>3 DEF ErrorSent
      <4>4. CASE stream # <<>> /\ stream' = Tail(stream)
        <5>1. i + 1 \in 1..Len(stream) /\ stream[i + 1].kind = "error"
          BY <4>2, <4>4, Shrinks
        <5>2. QED
          BY <2>2, <5>1 DEF ErrorSent
      <4>5. QED
        BY <4>1, <4>3, <4>4 DEF Quits
    <3>9. ~Ends
      <4>1. SUFFICES ASSUME Ends PROVE FALSE
        OBVIOUS
      <4>2. stream # <<>> /\ Len(stream') = 0 /\ client'.outcome = "error"
            /\ Head(stream).kind = "error"
        BY <2>2, <4>1 DEF Ends, ErrorSent
      <4>3. 1 \in 1..Len(stream) /\ stream[1].kind = "error"
        BY <4>2 DEF TypeOK
      <4>4. QED
        BY <2>2, <4>3 DEF ErrorSent
    <3>10. ~Closes
      <4>1. Closes => client'.outcome = client.outcome /\ Len(stream') = 0
        BY DEF Closes
      <4>2. QED
        BY <2>2, <4>1 DEF ErrorSent
    <3>11. QED
      BY <3>3, <3>4, <3>5, <3>6, <3>7, <3>8, <3>9, <3>10 DEF TalkStep, Listens
  <2>3. QED
    BY <2>1, <2>2
<1>5. QED
  BY <1>2, <1>3, <1>4

LEMMA UndividedKept ==
    ASSUME TypeOK, TypeOK', Unasked, Undivided, [Next]_vars, RowChange,
           \A w \in Workers : Moves(w)
    PROVE  Undivided'
<1> SUFFICES ASSUME expiries' = 0
             PROVE  /\ ~row'.expired
                    /\ \A v, w \in Workers : Holding(v)' /\ Holding(w)' => v = w
                    /\ \A w \in Workers : Holding(w)' =>
                          \/ row'.status \in Terminal \cup {"absent"}
                          \/ /\ row'.status = "processing" /\ row'.owner = Node(w)
                             /\ ~run'[w].lost /\ ~At(w, "error")'
  BY DEF Undivided, Node
<1>1. expiries = 0
  BY Counters DEF TypeOK
<1>2. /\ ~row.expired
      /\ \A v, w \in Workers : Holding(v) /\ Holding(w) => v = w
      /\ \A w \in Workers : Holding(w) =>
            \/ row.status \in Terminal \cup {"absent"}
            \/ /\ row.status = "processing" /\ row.owner = Node(w)
               /\ ~run[w].lost /\ ~At(w, "error")
  BY <1>1 DEF Undivided
<1>3. ~row'.expired
  BY <1>1, <1>2, Columns
<1>4. ASSUME NEW v \in Workers, Begins(v), NEW w \in Workers PROVE ~Holding(w)
  BY <1>2, <1>4, BeginsTakes, StatusKinds DEF Claimable
<1>5. ASSUME NEW v \in Workers, NEW w \in Workers, Holding(v)', Holding(w)' PROVE v = w
  <2>1. CASE Begins(v)
    <3>1. w # v => run'[w] = run[w]
      BY <2>1, BeginsTakes
    <3>2. QED
      BY <1>4, <1>5, <2>1, <3>1 DEF Holding
  <2>2. CASE Begins(w)
    <3>1. w # v => run'[v] = run[v]
      BY <2>2, BeginsTakes
    <3>2. QED
      BY <1>4, <1>5, <2>2, <3>1 DEF Holding
  <2>3. QED
    BY <1>2, <1>5, <2>1, <2>2, HoldingBack
\* Whoever requeues the row is the one that held it.
<1>6. ASSUME NEW w \in Workers, Holding(w)' PROVE ~Requeued
  <2>1. SUFFICES ASSUME Requeued PROVE FALSE
    OBVIOUS
  <2>2. PICK v \in Workers : Fails(v) /\ run'[v].pc = "retry"
    BY <2>1 DEF Requeued
  <2>3. Holding(v)
    BY <2>2 DEF Fails, Holding, At
  <2>4. CASE Begins(w)
    BY <1>4, <2>3, <2>4
  <2>5. CASE Holding(w)
    <3>1. v = w
      BY <1>2, <2>3, <2>5
    <3>2. QED
      BY <1>6, <2>2, <3>1 DEF Holding
  <2>6. QED
    BY <1>6, <2>4, <2>5, HoldingBack
<1>7. ASSUME NEW w \in Workers, Holding(w)'
      PROVE  \/ row'.status \in Terminal \cup {"absent"}
             \/ /\ row'.status = "processing" /\ row'.owner = Node(w)
                /\ ~run'[w].lost /\ ~At(w, "error")'
  <2>1. CASE Begins(w)
    BY <2>1, BeginsTakes DEF Begins, At
  <2>2. CASE Holding(w) /\ row.status \in Terminal \cup {"absent"}
    <3>1. ~Inserted
      BY <2>2 DEF Inserted, Unasked, Holding, At
    <3>2. QED
      BY <1>6, <1>7, <2>2, <3>1, StatusKinds
         DEF RowChange, Touched, Taken, Claimable, Ended, Forgotten, NoRow, Terminal
  <2>3. CASE Holding(w) /\ row.status = "processing"
    <3>1. row.owner = Node(w) /\ ~run[w].lost /\ ~At(w, "error")
      BY <1>2, <2>3, StatusKinds
    <3>2. client.pc # "new"
      BY <2>3 DEF Unasked, Holding, At
    <3>3. CASE Touched
      <4>1. row'.status = "processing" /\ row'.owner = Node(w)
        BY <2>3, <3>1, <3>3 DEF Touched
      <4>2. Owned(row, Node(w)) /\ row'.status \notin {"cancelled", "dead_letter"}
        BY <2>3, <3>1, <4>1 DEF Owned
      <4>3. Moves(w) /\ ~Begins(w)
        BY <1>4, <2>3
      <4>4. ~run'[w].lost
        <5>1. CASE Loses(w) \/ Vanishes(w)
          BY <4>2, <5>1 DEF Loses, Vanishes, NoRun
        <5>2. CASE ~Loses(w) /\ ~Vanishes(w)
          BY <3>1, <4>3, <5>2 DEF Moves, Stays, Works, Turns, Sorts, Cancels, Fails, Remembers
        <5>3. QED
          BY <5>1, <5>2
      <4>5. ~At(w, "error")'
        BY <2>3, <3>1, <4>2, <4>3, StatusKinds
           DEF Moves, Stays, Loses, Works, Turns, Sorts, Cancels, Fails, Vanishes, NoRun, At
      <4>6. QED
        BY <4>1, <4>4, <4>5
    <3>4. QED
      BY <1>2, <1>6, <1>7, <2>3, <3>2, <3>3, StatusKinds
         DEF RowChange, Inserted, Taken, Claimable, Ended, Forgotten
  <2>4. QED
    BY <1>2, <1>7, <2>1, <2>2, <2>3, HoldingBack
<1>8. QED
  BY <1>3, <1>5, <1>7

LEMMA SaidWhere ==
    /\ \A n : n \in Said <=>
         \/ \E i \in 1..Len(client.tokens) : client.tokens[i] = n
         \/ \E k \in 1..Len(stream) : stream[k].kind = "chunk" /\ stream[k].seq = n
    /\ \A n : n \in Said' <=>
         \/ \E i \in 1..Len(client'.tokens) : client'.tokens[i] = n
         \/ \E k \in 1..Len(stream') : stream'[k].kind = "chunk" /\ stream'[k].seq = n
<1>1. \A n : n \in Said <=>
         \/ \E i \in 1..Len(client.tokens) : client.tokens[i] = n
         \/ \E k \in 1..Len(stream) : stream[k].kind = "chunk" /\ stream[k].seq = n
  BY DEF Said
<1>2. \A n : n \in Said' <=>
         \/ \E i \in 1..Len(client'.tokens) : client'.tokens[i] = n
         \/ \E k \in 1..Len(stream') : stream'[k].kind = "chunk" /\ stream'[k].seq = n
  BY DEF Said
<1>3. QED
  BY <1>1, <1>2

\* A stream that only loses entries at its front, or gains entries that are no
\* chunks, says nothing new.
LEMMA SaysNothing ==
    ASSUME client'.tokens = client.tokens, NEW s \in Nat,
           \A k \in 1..Len(stream') : stream'[k].kind = "chunk" =>
                k + s \in 1..Len(stream) /\ stream'[k] = stream[k + s]
    PROVE  Said' \subseteq Said /\ (Distinct => Distinct')
<1>1. Said' \subseteq Said
  BY SaidWhere
<1>2. ASSUME Distinct PROVE Distinct'
  <2>1. NoDuplicateTokens'
    BY <1>2 DEF Distinct, NoDuplicateTokens
  <2>2. ASSUME NEW i \in 1..Len(stream'), NEW k \in 1..Len(stream'),
               stream'[i].kind = "chunk", stream'[k].kind = "chunk",
               stream'[i].seq = stream'[k].seq
        PROVE  i = k
    <3>1. /\ i + s \in 1..Len(stream) /\ stream'[i] = stream[i + s]
          /\ k + s \in 1..Len(stream) /\ stream'[k] = stream[k + s]
      BY <2>2
    <3>2. i + s = k + s
      BY <1>2, <2>2, <3>1 DEF Distinct
    <3>3. QED
      BY <3>2
  <2>3. ASSUME NEW i \in 1..Len(client'.tokens), NEW k \in 1..Len(stream'),
               stream'[k].kind = "chunk"
        PROVE  client'.tokens[i] # stream'[k].seq
    <3>1. k + s \in 1..Len(stream) /\ stream'[k] = stream[k + s]
      BY <2>3
    <3>2. QED
      BY <1>2, <2>3, <3>1 DEF Distinct
  <2>4. QED
    BY <2>1, <2>2, <2>3 DEF Distinct
<1>3. QED
  BY <1>1, <1>2

\* A chunk that was never said is said once more.
LEMMA SaysOne ==
    ASSUME TypeOK, NEW n \in Nat, client' = client,
           stream' = Append(stream, [kind |-> "chunk", seq |-> n])
    PROVE  /\ Said' \subseteq Said \cup {n}
           /\ Distinct /\ n \notin Said => Distinct'
<1> DEFINE e == [kind |-> "chunk", seq |-> n]
<1>1. e \in Entries /\ e.kind = "chunk" /\ e.seq = n
  BY DEF Entries
<1>2. /\ Len(stream') = Len(stream) + 1 /\ stream'[Len(stream) + 1] = e
      /\ \A i \in 1..Len(stream) : stream'[i] = stream[i]
      /\ Len(stream) \in Nat
  BY <1>1, Grows
<1>3. Said' \subseteq Said \cup {n}
  <2>1. SUFFICES ASSUME NEW m \in Said', m \notin Said PROVE m = n
    OBVIOUS
  <2>2. PICK k \in 1..Len(stream') : stream'[k].kind = "chunk" /\ stream'[k].seq = m
    BY <2>1, SaidWhere
  <2>3. k \notin 1..Len(stream)
    BY <1>2, <2>1, <2>2, SaidWhere
  <2>4. k = Len(stream) + 1
    BY <1>2, <2>3
  <2>5. QED
    BY <1>1, <1>2, <2>2, <2>4
<1>4. ASSUME Distinct, n \notin Said PROVE Distinct'
  <2>1. NoDuplicateTokens'
    BY <1>4 DEF Distinct, NoDuplicateTokens
  <2>2. ASSUME NEW i \in 1..Len(stream'), NEW k \in 1..Len(stream'),
               stream'[i].kind = "chunk", stream'[k].kind = "chunk",
               stream'[i].seq = stream'[k].seq
        PROVE  i = k
    <3>1. CASE i \in 1..Len(stream) /\ k \in 1..Len(stream)
      BY <1>2, <1>4, <2>2, <3>1 DEF Distinct
    <3>2. ASSUME NEW j \in 1..Len(stream), stream[j].kind = "chunk" PROVE stream[j].seq # n
      BY <1>4, <3>2, SaidWhere
    <3>3. CASE i \notin 1..Len(stream) /\ k \in 1..Len(stream)
      <4>1. stream'[i].seq = n /\ stream[k].kind = "chunk" /\ stream'[k] = stream[k]
        <5>1. i = Len(stream) + 1 /\ stream'[k] = stream[k]
          BY <1>2, <3>3
        <5>2. QED
          BY <1>1, <1>2, <2>2, <5>1
      <4>2. QED
        BY <2>2, <3>2, <3>3, <4>1
    <3>4. CASE i \in 1..Len(stream) /\ k \notin 1..Len(stream)
      <4>1. stream'[k].seq = n /\ stream[i].kind = "chunk" /\ stream'[i] = stream[i]
        <5>1. k = Len(stream) + 1 /\ stream'[i] = stream[i]
          BY <1>2, <3>4
        <5>2. QED
          BY <1>1, <1>2, <2>2, <5>1
      <4>2. QED
        BY <2>2, <3>2, <3>4, <4>1
    <3>5. CASE i \notin 1..Len(stream) /\ k \notin 1..Len(stream)
      BY <1>2, <3>5
    <3>6. QED
      BY <3>1, <3>3, <3>4, <3>5
  <2>3. ASSUME NEW i \in 1..Len(client'.tokens), NEW k \in 1..Len(stream'),
               stream'[k].kind = "chunk"
        PROVE  client'.tokens[i] # stream'[k].seq
    <3>1. CASE k \in 1..Len(stream)
      BY <1>2, <1>4, <2>3, <3>1 DEF Distinct
    <3>2. CASE k \notin 1..Len(stream)
      <4>1. stream'[k].seq = n
        BY <1>1, <1>2, <3>2
      <4>2. client.tokens[i] # n
        BY <1>4, SaidWhere
      <4>3. QED
        BY <4>1, <4>2
    <3>3. QED
      BY <3>1, <3>2
  <2>4. QED
    BY <2>1, <2>2, <2>3 DEF Distinct
<1>5. QED
  BY <1>3, <1>4

\* A chunk that is read moves from the stream to the tokens.
LEMMA HearsOne ==
    ASSUME TypeOK, stream # <<>>, stream' = Tail(stream), Head(stream).kind = "chunk",
           client'.tokens = Append(client.tokens, Head(stream).seq)
    PROVE  Said' \subseteq Said /\ (Distinct => Distinct')
<1> DEFINE n == stream[1].seq
<1>1. /\ Len(stream) \in Nat \ {0} /\ Len(stream') = Len(stream) - 1
      /\ \A i \in 1..Len(stream') : stream'[i] = stream[i + 1]
      /\ stream[1].kind = "chunk" /\ Head(stream) = stream[1] /\ n \in Nat
  <2>1. stream[1] \in Entries
    BY Shrinks DEF TypeOK
  <2>2. QED
    BY <2>1, Shrinks DEF Entries
<1>2. /\ Len(client'.tokens) = Len(client.tokens) + 1 /\ Len(client.tokens) \in Nat
      /\ client'.tokens[Len(client.tokens) + 1] = n
      /\ \A i \in 1..Len(client.tokens) : client'.tokens[i] = client.tokens[i]
  <2>1. client.tokens \in Seq(Nat)
    BY DEF TypeOK, Clients
  <2>2. client'.tokens = Append(client.tokens, n)
    BY <1>1
  <2>3. QED
    BY <1>1, <2>1, <2>2
<1>3. Said' \subseteq Said
  <2>1. SUFFICES ASSUME NEW m \in Said' PROVE m \in Said
    OBVIOUS
  <2>2. ASSUME NEW i \in 1..Len(client'.tokens), client'.tokens[i] = m PROVE m \in Said
    <3>1. CASE i \in 1..Len(client.tokens)
      BY <1>2, <2>2, <3>1, SaidWhere
    <3>2. CASE i \notin 1..Len(client.tokens)
      <4>1. m = n
        BY <1>2, <2>2, <3>2
      <4>2. 1 \in 1..Len(stream)
        BY <1>1
      <4>3. QED
        BY <1>1, <4>1, <4>2, SaidWhere
    <3>3. QED
      BY <3>1, <3>2
  <2>3. ASSUME NEW k \in 1..Len(stream'), stream'[k].kind = "chunk", stream'[k].seq = m
        PROVE  m \in Said
    <3>1. k + 1 \in 1..Len(stream) /\ stream'[k] = stream[k + 1]
      BY <1>1
    <3>2. QED
      BY <2>3, <3>1, SaidWhere
  <2>4. QED
    BY <2>1, <2>2, <2>3, SaidWhere
<1>4. ASSUME Distinct PROVE Distinct'
  <2>0. 1 \in 1..Len(stream)
    BY <1>1
  <2>1. \A i \in 1..Len(client.tokens) : client.tokens[i] # n
    BY <1>1, <1>4, <2>0 DEF Distinct
  <2>2. ASSUME NEW i \in 1..Len(client'.tokens), NEW k \in 1..Len(client'.tokens),
               client'.tokens[i] = client'.tokens[k]
        PROVE  i = k
    <3>1. CASE i \in 1..Len(client.tokens) /\ k \in 1..Len(client.tokens)
      BY <1>2, <1>4, <2>2, <3>1 DEF Distinct, NoDuplicateTokens
    <3>2. CASE i \notin 1..Len(client.tokens) /\ k \in 1..Len(client.tokens)
      BY <1>2, <2>1, <2>2, <3>2
    <3>3. CASE i \in 1..Len(client.tokens) /\ k \notin 1..Len(client.tokens)
      BY <1>2, <2>1, <2>2, <3>3
    <3>4. CASE i \notin 1..Len(client.tokens) /\ k \notin 1..Len(client.tokens)
      BY <1>2, <3>4
    <3>5. QED
      BY <3>1, <3>2, <3>3, <3>4
  <2>3. \A k \in 1..Len(stream') : k + 1 \in 1..Len(stream) /\ stream'[k] = stream[k + 1]
    BY <1>1
  <2>4. ASSUME NEW i \in 1..Len(stream'), NEW k \in 1..Len(stream'),
               stream'[i].kind = "chunk", stream'[k].kind = "chunk",
               stream'[i].seq = stream'[k].seq
        PROVE  i = k
    <3>1. i + 1 = k + 1
      BY <1>4, <2>3, <2>4 DEF Distinct
    <3>2. QED
      BY <3>1
  <2>5. ASSUME NEW i \in 1..Len(client'.tokens), NEW k \in 1..Len(stream'),
               stream'[k].kind = "chunk"
        PROVE  client'.tokens[i] # stream'[k].seq
    <3>1. k + 1 \in 1..Len(stream) /\ stream'[k] = stream[k + 1]
      BY <2>3
    <3>2. CASE i \in 1..Len(client.tokens)
      BY <1>2, <1>4, <2>5, <3>1, <3>2 DEF Distinct
    <3>3. CASE i \notin 1..Len(client.tokens)
      <4>1. client'.tokens[i] = n
        BY <1>2, <3>3
      <4>2. stream[k + 1].seq # stream[1].seq
        <5>1. stream[k + 1].seq = stream[1].seq => k + 1 = 1
          BY <1>1, <1>4, <2>0, <2>5, <3>1 DEF Distinct
        <5>2. QED
          BY <5>1
      <4>3. QED
        BY <3>1, <4>1, <4>2
    <3>4. QED
      BY <3>2, <3>3
  <2>6. QED
    BY <2>2, <2>4, <2>5 DEF Distinct, NoDuplicateTokens
<1>5. QED
  BY <1>3, <1>4

\* The words of a step: none that is new, or the chunk of one run.
LEMMA SaidSteps ==
    ASSUME TypeOK, TalkStep
    PROVE  \/ Said' \subseteq Said /\ (Distinct => Distinct')
           \/ \E w \in Workers :
                /\ SpeaksChunk(w) /\ Said' \subseteq Said \cup {run[w].seq}
                /\ Distinct /\ run[w].seq \notin Said => Distinct'
<1>1. CASE stream' = stream /\ client'.tokens = client.tokens
  <2>1. \A k \in 1..Len(stream') : k + 0 \in 1..Len(stream) /\ stream'[k] = stream[k + 0]
    BY <1>1
  <2>2. QED
    BY <1>1, <2>1, SaysNothing
<1>2. ASSUME stream # <<>>, stream' = Tail(stream), client'.tokens = client.tokens
      PROVE  Said' \subseteq Said /\ (Distinct => Distinct')
  <2>1. \A k \in 1..Len(stream') : k + 1 \in 1..Len(stream) /\ stream'[k] = stream[k + 1]
    BY <1>2, Shrinks
  <2>2. QED
    BY <1>2, <2>1, SaysNothing
<1>3. ASSUME stream' = <<>>, client'.tokens = client.tokens
      PROVE  Said' \subseteq Said /\ (Distinct => Distinct')
  <2>1. \A k \in 1..Len(stream') : k + 1 \in 1..Len(stream) /\ stream'[k] = stream[k + 1]
    BY <1>3
  <2>2. QED
    BY <1>3, <2>1, SaysNothing
<1>4. ASSUME NEW kind \in {"accepted", "result", "end", "error", "retry"},
             Published(kind, 0), client' = client
      PROVE  Said' \subseteq Said /\ (Distinct => Distinct')
  <2>1. CASE stream' = stream
    <3>1. \A k \in 1..Len(stream') : k + 0 \in 1..Len(stream) /\ stream'[k] = stream[k + 0]
      BY <2>1
    <3>2. QED
      BY <1>4, <3>1, SaysNothing
  <2>2. CASE stream' = Append(stream, [kind |-> kind, seq |-> 0])
    <3>1. [kind |-> kind, seq |-> 0] \in Entries
      BY DEF Entries
    <3>2. \A k \in 1..Len(stream') : stream'[k].kind = "chunk" =>
              k + 0 \in 1..Len(stream) /\ stream'[k] = stream[k + 0]
      BY <2>2, <3>1, Grows
    <3>3. QED
      BY <1>4, <3>2, SaysNothing
  <2>3. QED
    BY <1>4, <2>1, <2>2 DEF Published
<1>5. ASSUME NEW w \in Workers, SpeaksChunk(w)
      PROVE  \/ stream' = stream /\ client'.tokens = client.tokens
             \/ /\ Said' \subseteq Said \cup {run[w].seq}
                /\ Distinct /\ run[w].seq \notin Said => Distinct'
  <2>1. run[w].seq \in Nat
    BY DEF TypeOK, Runs
  <2>2. CASE stream' = stream
    BY <1>5, <2>2 DEF SpeaksChunk
  <2>3. CASE stream' = Append(stream, [kind |-> "chunk", seq |-> run[w].seq])
    BY <1>5, <2>1, <2>3, SaysOne DEF SpeaksChunk
  <2>4. QED
    BY <1>5, <2>2, <2>3 DEF SpeaksChunk, Published
<1>6. CASE \E w \in Workers : SpeaksOther(w)
  BY <1>4, <1>6 DEF SpeaksOther
<1>7. CASE Condemns
  BY <1>4, <1>7 DEF Condemns
<1>8. CASE \E w \in Workers : SpeaksChunk(w)
  BY <1>1, <1>5, <1>8
<1>9. CASE Hears
  BY <1>2, <1>9, HearsOne DEF Hears, SameWords
<1>10. CASE Ends \/ Closes
  BY <1>3, <1>10 DEF Ends, Closes, SameWords
<1>11. CASE Quits
  BY <1>1, <1>2, <1>11 DEF Quits, SameWords
<1>12. QED
  BY <1>1, <1>6, <1>7, <1>8, <1>9, <1>10, <1>11 DEF TalkStep, Listens, SameWords

\* Where a step finds the row when no lease expired: what is claimed was idle.
LEMMA TakesIdle ==
    ASSUME TypeOK, Undivided, expiries = 0
    PROVE  /\ Claimable(row) => row.status \in Idle
           /\ \A w \in Workers : Holding(w) => ~Claimable(row) /\ row.status \notin Idle
           /\ \A v, w \in Workers : Holding(v) /\ Holding(w) => v = w
BY StatusKinds DEF Undivided, Claimable

LEMMA DecidesToRequeue ==
    ASSUME NEW w \in Workers, Decides(w), run'[w].update.to = "failed"
    PROVE  /\ At(w, "settleFail") /\ row.status = "processing" /\ run[w].retriable
           /\ At(w, "settleFail")'
<1>1. Decision(w).to = "failed" /\ InStore(w) /\ run'[w].pc = run[w].pc
  BY DEF Decides
<1>2. NoUpdate.to = "same"
  BY DEF NoUpdate
<1>3. At(w, "settleFail")
  <2>1. CASE At(w, "mark")
    BY <1>1, <2>1 DEF Decision, At, MarkFirstChunk, NoUpdate
  <2>2. CASE At(w, "complete")
    BY <1>1, <2>2 DEF Decision, At, Complete, Settle, NoUpdate
  <2>3. CASE At(w, "settleCancel")
    BY <1>1, <2>3 DEF Decision, At, MarkCancelled, NoUpdate
  <2>4. QED
    BY <1>1, <2>1, <2>2, <2>3 DEF InStore, At
<1>4. Decision(w) = Fail(row, Node(w), run[w].retriable)
  BY <1>3 DEF Decision, At
<1>5. QED
  BY <1>1, <1>2, <1>3, <1>4, SettleWrites DEF Fail, Owned, At

LEMMA OnceKept ==
    ASSUME TypeOK, TypeOK', Decided, Flags, Unasked, Undivided, Once, [Next]_vars,
           RowChange, \A w \in Workers : Moves(w) /\ (Keeps(w) \/ Decides(w)), TalkStep
    PROVE  Once'
<1> SUFFICES ASSUME expiries' = 0
             PROVE  /\ Distinct'
                    /\ \A w \in Workers : Working(w)' => \A n \in Said' : n < run'[w].seq
                    /\ row'.status \in Idle => Said' = {}
                    /\ \A w \in Workers :
                          /\ Holding(w)' /\ ~Working(w)' /\ row'.status = "processing"
                          /\ run'[w].retriable \/ ~run'[w].handling
                          => Said' = {}
                    /\ \A w \in Workers : run'[w].update.to = "failed" => Said' = {}
  BY DEF Once
<1>1. expiries = 0
  BY Counters DEF TypeOK
<1>2. /\ Distinct
      /\ \A w \in Workers : Working(w) => \A n \in Said : n < run[w].seq
      /\ row.status \in Idle => Said = {}
      /\ \A w \in Workers :
            /\ Holding(w) /\ ~Working(w) /\ row.status = "processing"
            /\ run[w].retriable \/ ~run[w].handling
            => Said = {}
      /\ \A w \in Workers : run[w].update.to = "failed" => Said = {}
  BY <1>1 DEF Once
<1>3. \A w \in Workers : run[w] \in Runs /\ run[w].seq \in Nat /\ Moves(w)
  BY DEF TypeOK, Runs
<1>4. \A w \in Workers : Working(w) => Holding(w)
  BY DEF Working, Holding
<1>5. Said \subseteq Nat
  <2>1. \A i \in 1..Len(client.tokens) : client.tokens[i] \in Nat
    BY DEF TypeOK, Clients
  <2>2. ASSUME NEW k \in 1..Len(stream) PROVE stream[k].seq \in Nat
    <3>1. stream[k] \in Entries
      BY DEF TypeOK
    <3>2. QED
      BY <3>1 DEF Entries
  <2>3. QED
    BY <2>1, <2>2, SaidWhere
\* Either nothing new is said, or one run, the only one that holds the row, speaks.
<1>6. ASSUME NEW v \in Workers, SpeaksChunk(v)
      PROVE  /\ Working(v) /\ Holding(v) /\ row' = row /\ Working(v)'
             /\ run'[v].seq = run[v].seq + 1 /\ run[v].seq \notin Said
             /\ row.status \notin Idle
  <2>1. Working(v) /\ row' = row /\ run'[v].seq = run[v].seq + 1 /\ Working(v)'
    BY <1>6 DEF SpeaksChunk, Working, At
  <2>2. run[v].seq \notin Said
    BY <1>2, <1>3, <2>1
  <2>3. QED
    BY <1>1, <1>4, <2>1, <2>2, TakesIdle
<1>7. Said' \subseteq Said \/ \E v \in Workers : SpeaksChunk(v)
  BY SaidSteps
<1>8. Distinct'
  BY <1>2, <1>6, SaidSteps
<1>9. ASSUME NEW w \in Workers, Begins(w) PROVE Said = {} /\ Said' = {}
  <2>1. Said = {}
    BY <1>1, <1>2, <1>9, BeginsTakes, TakesIdle
  <2>2. Said' = Said
    <3>1. stream' = stream /\ client' = client
      BY <1>9, BeginsTakes
    <3>2. QED
      BY <3>1 DEF Said
  <2>3. QED
    BY <2>1, <2>2
<1>10. ASSUME NEW w \in Workers, Working(w)', NEW n \in Said' PROVE n < run'[w].seq
  <2>1. ~Begins(w)
    BY <1>9, <1>10
  <2>2. Working(w) /\ run'[w].seq \in {run[w].seq, run[w].seq + 1}
    BY <1>3, <1>10, <2>1 DEF Moves, Stays, Loses, Works, Turns, Sorts, Cancels, Fails,
                             Vanishes, NoRun, Remembers, Working, At
  <2>3. CASE n \in Said
    BY <1>2, <1>3, <1>5, <2>2, <2>3
  <2>4. CASE n \notin Said
    <3>1. PICK v \in Workers : SpeaksChunk(v) /\ Said' \subseteq Said \cup {run[v].seq}
      BY <1>10, <2>4, SaidSteps
    <3>2. v = w
      BY <1>1, <1>4, <1>6, <2>2, <3>1, TakesIdle
    <3>3. n = run[w].seq /\ run'[w].seq = run[w].seq + 1
      BY <1>6, <1>10, <2>4, <3>1, <3>2
    <3>4. QED
      BY <1>3, <3>3
  <2>5. QED
    BY <2>3, <2>4
<1>11. ASSUME row'.status \in Idle PROVE Said' = {}
  <2>1. ASSUME NEW v \in Workers PROVE ~SpeaksChunk(v)
    BY <1>6, <1>11
  <2>2. SUFFICES Said = {}
    BY <1>7, <2>1
  <2>3. CASE row.status \in Idle
    BY <1>2, <2>3
  <2>4. CASE row.status \notin Idle /\ client.pc = "new"
    <3>1. client.tokens = <<>> /\ stream = <<>>
      BY <2>4 DEF Unasked, NewClient
    <3>2. QED
      BY <3>1, SaidWhere
  <2>5. CASE row.status \notin Idle /\ client.pc # "new"
    <3>1. ~Taken
      BY <1>11, BeginsTakes DEF Taken, Idle
    <3>2. Requeued
      BY <1>11, <2>5, <3>1, StatusKinds
         DEF RowChange, Touched, Inserted, Ended, Forgotten, NoRow, Idle, Terminal
    <3>3. PICK w \in Workers : Fails(w) /\ run'[w].pc = "retry"
      BY <3>2 DEF Requeued
    <3>4. run[w].update.to = "failed"
      BY <3>3 DEF Fails
    <3>5. QED
      BY <1>2, <3>4
  <2>6. QED
    BY <2>3, <2>4, <2>5
<1>12. ASSUME NEW w \in Workers, Holding(w)', ~Working(w)', row'.status = "processing",
              run'[w].retriable \/ ~run'[w].handling
       PROVE  Said' = {}
  <2>1. CASE Begins(w)
    BY <1>9, <2>1
  <2>2. CASE ~Begins(w)
    <3>1. Holding(w)
      BY <1>3, <1>12, <2>2, HoldingBack
    <3>2. row.status = "processing"
      <4>1. \/ row.status \in Terminal \cup {"absent"}
            \/ row.status = "processing"
        BY <1>1, <3>1 DEF Undivided
      <4>2. ~Inserted /\ ~Taken
        BY <1>1, <3>1, TakesIdle DEF Inserted, Unasked, Holding, At, Taken
      <4>3. QED
        BY <1>12, <4>1, <4>2, StatusKinds
           DEF RowChange, Touched, Ended, Requeued, Forgotten, NoRow, Terminal
    <3>3. ASSUME NEW v \in Workers PROVE ~SpeaksChunk(v)
      <4>1. SpeaksChunk(v) => v = w
        BY <1>1, <1>6, <3>1, TakesIdle
      <4>2. QED
        BY <1>6, <1>12, <4>1
    <3>4. SUFFICES Said = {}
      BY <1>7, <3>3
    <3>5. CASE Turns(w) /\ Working(w)
      <4>1. run[w].seq = 0
        <5>1. ~run[w].emitted
          BY <1>12, <3>5 DEF Turns
        <5>2. QED
          BY <1>3, <3>5, <5>1 DEF Flags
      <4>2. \A n \in Said : n < 0
        BY <1>2, <3>5, <4>1
      <4>3. QED
        BY <1>5, <4>2
    <3>6. CASE Turns(w) /\ ~Working(w)
      BY <1>2, <3>1, <3>2, <3>6 DEF Turns
    <3>7. CASE Stays(w) \/ Loses(w) \/ Sorts(w) \/ Cancels(w)
      <4>1. /\ ~Working(w)
            /\ run[w].retriable \/ ~run[w].handling
        BY <1>12, <3>7 DEF Stays, Loses, Sorts, Cancels, Remembers, Working, At
      <4>2. QED
        BY <1>2, <3>1, <3>2, <4>1
    <3>8. ~Works(w) /\ ~Fails(w) /\ ~Vanishes(w)
      BY <1>12 DEF Works, Fails, Vanishes, NoRun, Working, Holding
    <3>9. QED
      BY <1>3, <2>2, <3>5, <3>6, <3>7, <3>8 DEF Moves
  <2>3. QED
    BY <2>1, <2>2
<1>13. ASSUME NEW w \in Workers, run'[w].update.to = "failed" PROVE Said' = {}
  <2>1. NoUpdate.to = "same" /\ (Keeps(w) \/ Decides(w))
    BY DEF NoUpdate
  <2>2. CASE Keeps(w)
    <3>1. run[w].update.to = "failed"
      BY <1>13, <2>1, <2>2 DEF Keeps
    <3>2. At(w, "settleFail")
      BY <2>1, <3>1, SettleWrites DEF Decided, NoUpdate
    <3>3. ASSUME NEW v \in Workers PROVE ~SpeaksChunk(v)
      <4>1. SpeaksChunk(v) => v = w
        BY <1>1, <1>6, <3>2, TakesIdle DEF Holding, At
      <4>2. QED
        BY <3>2, <4>1 DEF SpeaksChunk, At
    <3>4. Said = {}
      BY <1>2, <3>1
    <3>5. QED
      BY <1>7, <3>3, <3>4
  <2>3. CASE Decides(w)
    <3>1. Said' = Said
      BY <2>3 DEF Decides, Said
    <3>2. At(w, "settleFail") /\ row.status = "processing" /\ run[w].retriable
      BY <1>13, <2>3, DecidesToRequeue
    <3>3. QED
      BY <1>2, <3>1, <3>2 DEF Holding, Working, At
  <2>4. QED
    BY <2>1, <2>2, <2>3
<1>14. QED
  BY <1>8, <1>10, <1>11, <1>12, <1>13

LEMMA FaultlessKept ==
    ASSUME TypeOK, TypeOK', Decided', Unasked, Undivided, Faultless, [Next]_vars,
           RowChange, \A w \in Workers : Moves(w) /\ (Keeps(w) \/ Decides(w)), TalkStep
    PROVE  Faultless'
<1> DEFINE Told == client.outcome = "ok" \/ Sent("end")
<1> SUFFICES ASSUME faults' = 0
             PROVE  /\ expiries' = 0
                    /\ row'.status = "processing" => \E w \in Workers : Holding(w)'
                    /\ Told' =>
                          /\ row'.status \notin Idle
                          /\ row'.status = "processing" =>
                                \A w \in Workers : Holding(w)' => At(w, "complete")'
                          /\ \A w \in Workers : run'[w].update.to # "failed"
  BY DEF Faultless
<1>1. faults = 0 /\ faults' # faults + 1
  BY Counters DEF TypeOK
<1>2. /\ expiries = 0
      /\ row.status = "processing" => \E w \in Workers : Holding(w)
      /\ Told =>
            /\ row.status \notin Idle
            /\ row.status = "processing" =>
                  \A w \in Workers : Holding(w) => At(w, "complete")
            /\ \A w \in Workers : run[w].update.to # "failed"
  BY <1>1 DEF Faultless
<1>3. ASSUME NEW w \in Workers, Holding(w), row.status = "processing"
      PROVE  row.owner = Node(w) /\ ~run[w].lost /\ ~At(w, "error") /\ Attended
  <2>1. row.owner = Node(w) /\ ~run[w].lost /\ ~At(w, "error")
    BY <1>2, <1>3, StatusKinds DEF Undivided
  <2>2. QED
    BY <1>3, <2>1 DEF Attended, Holding, At
<1>4. expiries' = 0
  BY <1>1, <1>2, <1>3, Counters
<1>5. row'.status = "processing" => row.status = "processing" \/ \E w \in Workers : Begins(w)
  <2>1. NoRow.status = "absent" /\ Enqueued.status = "pending"
    BY DEF NoRow, Enqueued
  <2>2. QED
    BY <2>1, StatusKinds DEF RowChange, Touched, Inserted, Taken, Ended, Requeued,
                             Forgotten, Terminal
\* Nobody claims a row that is held, or whose end is out.
<1>6. ASSUME NEW w \in Workers, Begins(w)
      PROVE  row.status \in Idle /\ ~Told
  <2>1. row.status \in Idle
    BY <1>2, <1>6, BeginsTakes, TakesIdle
  <2>2. QED
    BY <1>2, <2>1
<1>7. ASSUME row'.status = "processing" PROVE \E w \in Workers : Holding(w)'
  <2>1. CASE \E w \in Workers : Begins(w)
    BY <2>1 DEF Begins, Holding
  <2>2. CASE row.status = "processing" /\ \A w \in Workers : ~Begins(w)
    <3>1. PICK w \in Workers : Holding(w)
      BY <1>2, <2>2
    <3>2. row.owner = Node(w) /\ ~run[w].lost /\ ~At(w, "error")
      BY <1>3, <2>2, <3>1
    <3>3. row'.owner = row.owner
      <4>1. ~Taken /\ ~Inserted
        BY <1>2, <3>1, TakesIdle DEF Taken, Inserted, Unasked, Holding, At
      <4>2. QED
        BY <1>7, <4>1, StatusKinds
           DEF RowChange, Touched, Ended, Requeued, Forgotten, NoRow, Terminal
    <3>4. Moves(w) /\ Owned(row', Node(w))
      BY <1>7, <3>2, <3>3 DEF Owned
    <3>5. ~Vanishes(w)
      BY <1>1, <3>1, <3>2, <3>4 DEF Vanishes, Holding, At
    <3>6. ~Fails(w)
      BY <1>7 DEF Fails
    <3>7. Holding(w)'
      BY <2>2, <3>1, <3>4, <3>5, <3>6 DEF Moves, Stays, Loses, Works, Turns, Sorts, Cancels,
                                         Holding
    <3>8. QED
      BY <3>7
  <2>3. QED
    BY <1>5, <1>7, <2>1, <2>2
<1>8. ASSUME Told
      PROVE  /\ row'.status \notin Idle
             /\ row'.status = "processing" =>
                   \A w \in Workers : Holding(w)' => At(w, "complete")'
             /\ \A w \in Workers : run'[w].update.to # "failed"
  <2>1. client.pc # "new"
    BY <1>8 DEF Unasked, NewClient, Sent
  <2>2. \A w \in Workers : ~Begins(w)
    BY <1>6, <1>8
  <2>3. row'.status \notin Idle
    <3>1. ~Taken /\ ~Inserted
      BY <2>1, <2>2 DEF Taken, Inserted
    <3>2. ~Requeued
      BY <1>2, <1>8 DEF Requeued, Fails
    <3>3. QED
      BY <1>2, <1>8, <3>1, <3>2, StatusKinds
         DEF RowChange, Touched, Ended, Forgotten, NoRow, Idle, Terminal
  <2>4. ASSUME row'.status = "processing", NEW w \in Workers, Holding(w)'
        PROVE  At(w, "complete")'
    <3>1. row.status = "processing" /\ Moves(w) /\ ~Begins(w)
      BY <1>5, <2>2, <2>4
    <3>2. At(w, "complete")
      BY <1>2, <1>8, <2>4, <3>1, HoldingBack
    <3>3. QED
      BY <1>1, <2>4, <3>1, <3>2 DEF Moves, Stays, Loses, Works, Turns, Sorts, Cancels, Fails,
                                   Vanishes, NoRun, Holding, At
  <2>5. ASSUME NEW w \in Workers, run'[w].update.to = "failed" PROVE FALSE
    <3>1. CASE Keeps(w)
      BY <1>2, <1>8, <2>5, <3>1 DEF Keeps, NoUpdate
    <3>2. CASE Decides(w)
      <4>1. At(w, "settleFail") /\ row.status = "processing"
        BY <2>5, <3>2, DecidesToRequeue
      <4>2. QED
        BY <1>2, <1>8, <4>1 DEF Holding, At
    <3>3. QED
      BY <3>1, <3>2
  <2>6. QED
    BY <2>3, <2>4, <2>5
\* The end goes out: its run is the one that holds the row.
<1>9. ASSUME ~Told, Told'
      PROVE  /\ row'.status \notin Idle
             /\ row'.status = "processing" =>
                   \A w \in Workers : Holding(w)' => At(w, "complete")'
             /\ \A w \in Workers : run'[w].update.to # "failed"
  <2>1. \E w \in Workers : SpeaksOther(w) /\ At(w, "end")
    <3>1. ASSUME NEW kind, NEW seq, kind # "end", Published(kind, seq), client' = client
          PROVE  FALSE
      <4>1. CASE stream' = stream
        BY <1>9, <3>1, <4>1 DEF Sent
      <4>2. CASE stream' = Append(stream, [kind |-> kind, seq |-> seq])
        <5>1. PICK i \in 1..Len(stream') : stream'[i].kind = "end"
          BY <1>9, <3>1 DEF Sent
        <5>2. i \in 1..Len(stream) => stream'[i] = stream[i]
          BY <4>2 DEF TypeOK
        <5>3. i \notin 1..Len(stream) => stream'[i] = [kind |-> kind, seq |-> seq]
          BY <4>2 DEF TypeOK
        <5>4. QED
          BY <1>9, <3>1, <5>1, <5>2, <5>3 DEF Sent
      <4>3. QED
        BY <3>1, <4>1, <4>2 DEF Published
    <3>2. ASSUME client'.outcome # "ok",
                 stream' = stream \/ (stream # <<>> /\ stream' = Tail(stream))
          PROVE  FALSE
      <4>1. PICK i \in 1..Len(stream') : stream'[i].kind = "end"
        BY <1>9, <3>2 DEF Sent
      <4>2. CASE stream' = stream
        BY <1>9, <4>1, <4>2 DEF Sent
      <4>3. CASE stream # <<>> /\ stream' = Tail(stream)
        <5>1. i + 1 \in 1..Len(stream) /\ stream[i + 1].kind = "end"
          BY <4>1, <4>3, Shrinks
        <5>2. QED
          BY <1>9, <5>1 DEF Sent
      <4>4. QED
        BY <3>2, <4>2, <4>3
    <3>3. client.outcome # "ok"
      BY <1>9
    <3>4. ~Hears /\ ~Quits
      BY <3>2, <3>3 DEF Hears, Quits
    <3>5. ~Ends
      <4>1. SUFFICES ASSUME Ends PROVE FALSE
        OBVIOUS
      <4>2. Len(stream') = 0 /\ stream # <<>>
        BY <4>1 DEF Ends
      <4>3. Head(stream).kind = "end"
        BY <1>9, <4>1, <4>2 DEF Ends, Sent
      <4>4. 1 \in 1..Len(stream) /\ stream[1].kind = "end"
        BY <4>2, <4>3 DEF TypeOK
      <4>5. QED
        BY <1>9, <4>4 DEF Sent
    <3>6. ~Closes
      <4>1. Closes => client'.outcome = client.outcome /\ Len(stream') = 0
        BY DEF Closes
      <4>2. QED
        BY <1>9, <4>1 DEF Sent
    <3>7. ~Condemns /\ \A w \in Workers : ~SpeaksChunk(w)
      BY <3>1 DEF Condemns, SpeaksChunk
    <3>8. ~(client'.outcome = client.outcome /\ stream' = stream)
      BY <1>9 DEF Sent
    <3>9. PICK w \in Workers : SpeaksOther(w)
      BY <3>4, <3>5, <3>6, <3>7, <3>8 DEF TalkStep, Listens
    <3>10. QED
      BY <3>1, <3>9 DEF SpeaksOther, At
  <2>2. PICK w \in Workers : SpeaksOther(w) /\ At(w, "end")
    BY <2>1
  <2>3. Holding(w) /\ row' = row /\ At(w, "complete")'
    BY <2>2 DEF SpeaksOther, Holding, At
  <2>4. row.status \notin Idle
    BY <1>2, <2>3, TakesIdle
  <2>5. ASSUME NEW v \in Workers, Holding(v)' PROVE v = w
    <3>1. Holding(v)
      BY <1>6, <2>4, <2>5, HoldingBack
    <3>2. QED
      BY <1>2, <2>3, <3>1, TakesIdle
  <2>6. ASSUME NEW v \in Workers, run'[v].update.to = "failed" PROVE FALSE
    <3>1. At(v, "settleFail")'
      <4>1. /\ NoUpdate.to = "same" /\ [NoUpdate EXCEPT !.first = TRUE].to = "same"
            /\ \A clear : [NoUpdate EXCEPT !.to = "cancelled", !.clear = clear].to
                             = "cancelled"
            /\ Settle("completed").to = "completed"
        BY DEF NoUpdate, Settle
      <4>2. run'[v].update # NoUpdate
        BY <2>6, <4>1
      <4>3. QED
        BY <2>6, <4>1, <4>2 DEF Decided
    <3>2. v = w
      BY <2>5, <3>1 DEF Holding, At
    <3>3. QED
      BY <2>3, <3>1, <3>2 DEF At
  <2>7. QED
    BY <2>3, <2>4, <2>5, <2>6
<1>10. QED
  BY <1>4, <1>7, <1>8, <1>9

-----------------------------------------------------------------------------
(* Theorems *)

AnswersInv == /\ Unasked /\ Announced /\ Resulted /\ Errors
              /\ Undivided /\ Once /\ Faultless

LEMMA InitAnswers == Init => AnswersInv
<1> SUFFICES ASSUME Init PROVE AnswersInv
  OBVIOUS
<1>1. /\ row = NoRow /\ run = [w \in Workers |-> NoRun] /\ stream = <<>>
      /\ client = NewClient /\ admin = NoAdmin /\ faults = 0 /\ expiries = 0
  BY DEF Init
<1>2. /\ client.pc = "new" /\ client.outcome = "none" /\ client.tokens = <<>>
      /\ row.status = "absent" /\ ~row.expired /\ admin.pc = "idle"
      /\ \A w \in Workers : run[w] = NoRun
  BY <1>1 DEF NewClient, NoRow, NoAdmin
<1>3. \A w \in Workers : /\ run[w].pc = "idle" /\ ~run[w].retriable /\ ~run[w].lease
                         /\ ~Working(w) /\ ~Holding(w) /\ run[w].update.to = "same"
  BY <1>2 DEF NoRun, NoUpdate, Working, Holding
<1>4. Unasked /\ Announced /\ Resulted
  BY <1>1, <1>2, <1>3 DEF Unasked, Announced, Attentive, Resulted, At
<1>5. Errors
  BY <1>1, <1>2, <1>3 DEF Errors, ErrorSent
<1>6. Undivided
  BY <1>2, <1>3 DEF Undivided
<1>7. Distinct
  BY <1>1, <1>2 DEF Distinct, NoDuplicateTokens
<1>8. Once /\ Faultless
  BY <1>1, <1>2, <1>3, <1>7 DEF Once, Faultless, Sent, Idle
<1>9. QED
  BY <1>4, <1>5, <1>6, <1>8 DEF AnswersInv

LEMMA NextAnswers ==
    ASSUME Inv, AnswersInv, [Next]_vars PROVE AnswersInv'
<1>1. /\ TypeOK /\ Decided /\ Flags /\ Submitted /\ Unowned
      /\ Unasked /\ Announced /\ Resulted /\ Errors /\ Undivided /\ Once /\ Faultless
  BY DEF Inv, AnswersInv
<1>2. TypeOK' /\ Decided'
  BY NextInv DEF Inv
<1>3. RowChange /\ TalkStep /\ (~overtaken' => RowStep)
  BY <1>1, RowChanges, RowSteps, TalkSteps
<1>4. \A w \in Workers : Moves(w) /\ (Keeps(w) \/ Decides(w))
  BY <1>1, RunSteps, UpdateSteps
<1>5. Unasked'
  BY <1>1, <1>3, <1>4, UnaskedKept
<1>6. Announced' /\ Resulted' /\ Errors'
  BY <1>1, <1>3, <1>4, AnnouncedKept, ResultedKept, ErrorsKept
<1>7. Undivided'
  BY <1>1, <1>2, <1>3, <1>4, UndividedKept
<1>8. Once'
  BY <1>1, <1>2, <1>3, <1>4, OnceKept
<1>9. Faultless'
  BY <1>1, <1>2, <1>3, <1>4, FaultlessKept
<1>10. QED
  BY <1>5, <1>6, <1>7, <1>8, <1>9 DEF AnswersInv

\* What the caller, the stream and the runs know of the row, always.
THEOREM AnswersInvariant == Spec => [](Inv /\ AnswersInv)
<1>1. Init => Inv /\ AnswersInv
  BY InitInv, InitAnswers
<1>2. Inv /\ AnswersInv /\ [Next]_vars => (Inv /\ AnswersInv)'
  BY NextInv, NextAnswers
<1>3. QED
  BY <1>1, <1>2, PTL DEF Spec

\* While the caller reads, a completed row has its end in the stream, and who
\* read an end of a unary or control request has its result.
THEOREM AnswersAlwaysAgree == Spec => []AnswersAgree
<1>1. Inv /\ AnswersInv => AnswersAgree
  BY DEF AnswersInv, Announced, Resulted, AnswersAgree, Attentive, Sent
<1>2. QED
  BY <1>1, AnswersInvariant, PTL

\* Whatever workers, ticks and zombies announce, an error the caller can read
\* is a settled row or one somebody asked to cancel, until a write overtakes
\* another.
THEOREM ErrorsAreSettledOrCancelled == Spec => []ErrorIsSettledOrCancelled
<1>1. Inv /\ AnswersInv => ErrorIsSettledOrCancelled
  BY DEF AnswersInv, Errors, ErrorIsSettledOrCancelled, Closed
<1>2. QED
  BY <1>1, AnswersInvariant, PTL

\* Without an expired lease a request has one run at a time, and no token
\* reaches the caller twice, whatever crashes, stops, failures and retries.
THEOREM DuplicatesAreExpiries == Spec => []DuplicatesOnlyAfterExpiry
<1>1. Inv /\ AnswersInv => DuplicatesOnlyAfterExpiry
  BY DEF AnswersInv, Undivided, Once, Distinct, DuplicatesOnlyAfterExpiry, Working, Holding
<1>2. QED
  BY <1>1, AnswersInvariant, PTL

\* Without a fault, a request whose caller got its end never waits for
\* another execution.
THEOREM AnsweredStays == Spec => []AnsweredIsNotRequeued
<1>1. Inv /\ AnswersInv => AnsweredIsNotRequeued
  BY StatusKinds DEF Inv, AnswersInv, Faultless, AnsweredIsNotRequeued
<1>2. QED
  BY <1>1, AnswersInvariant, PTL
=============================================================================
