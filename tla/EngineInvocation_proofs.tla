----------------------- MODULE EngineInvocation_proofs -----------------------
(***************************************************************************)
(* Safety of EngineInvocation for every set of nodes and workers, every    *)
(* value of the bounds and every set of hazards, with methods that read    *)
(* and write the row in two steps, as the code's transactions do.          *)
(*                                                                         *)
(* The argument: a step moves every run in one of a few ways (RunSteps),   *)
(* changes what methods are about to write in one of three (UpdateSteps)   *)
(* and the row in one of six (RowChanges), whatever became of the row a    *)
(* decision was made on.  Runs and attempts are counted from that.  The    *)
(* finer RowSteps, of which the refinement consists, holds of every step   *)
(* after which no write has overtaken another.                             *)
(***************************************************************************)
EXTENDS EngineInvocationTypes_proofs, FiniteSetTheorems

LEMMA StatusKinds ==
    ASSUME TypeOK
    PROVE  /\ row.status \in Idle \cup Terminal \cup {"processing", "absent"}
           /\ "processing" \notin Idle \cup Terminal
           /\ "absent" \notin Idle \cup Terminal
           /\ \A s \in Idle : s \notin Terminal
           /\ "same" \notin Status
BY DEF TypeOK, Rows, Status, Idle, Terminal

-----------------------------------------------------------------------------
(* What a step does to a run *)

Remembers(w) ==
    /\ run'[w].handling = run[w].handling /\ run'[w].retriable = run[w].retriable
    /\ run'[w].lost = run[w].lost /\ run'[w].lease = run[w].lease
    /\ run'[w].emitted = run[w].emitted /\ run'[w].seq = run[w].seq

Stays(w) == run'[w].pc = run[w].pc /\ Remembers(w)

\* The lease loop found the row in other hands.
Loses(w) ==
    /\ run'[w].pc = run[w].pc /\ run[w].lease /\ ~Owned(row, Node(w))
    /\ run'[w].handling = run[w].handling /\ run'[w].retriable = run[w].retriable
    /\ run'[w].lost /\ ~run'[w].lease
    /\ run'[w].emitted = run[w].emitted /\ run'[w].seq = run[w].seq

Begins(w) ==
    /\ At(w, "idle") /\ Claim(w)
    /\ run'[w].pc \in {"accept", "settleCancel", "settleFail"}
    /\ run'[w].pc = "settleCancel" => row.cancel
    /\ run'[w].lease => run'[w].pc = "accept"
    /\ ~run'[w].handling /\ ~run'[w].retriable /\ ~run'[w].lost
    /\ ~run'[w].emitted /\ run'[w].seq = 0

\* From one step of the work to the next.
Works(w) ==
    /\ Working(w) /\ ~At(w, "complete")
    /\ run'[w].pc \in {"job", "chunk", "mark", "result", "end", "complete"}
    /\ run'[w].pc = "complete" => /\ At(w, "end") /\ Published("end", 0)
                                  /\ client' = client /\ row' = row
    /\ run'[w].pc = "end" => \/ mode = "stream"
                             \/ Published("result", 0) /\ client' = client
    /\ ~run'[w].handling /\ run'[w].retriable = run[w].retriable
    /\ run'[w].lost = run[w].lost
    /\ \/ run'[w].emitted = run[w].emitted /\ run'[w].seq = run[w].seq
       \/ At(w, "chunk") /\ run'[w].emitted /\ run'[w].seq = run[w].seq + 1

\* Into an except block; out of complete() only when the node is stopped.
Turns(w) ==
    /\ Holding(w) /\ ~run[w].handling
    /\ At(w, "complete") => faults' = faults + 1
    /\ run'[w].pc \in {"unwind", "failed"}
    /\ run'[w].handling /\ run'[w].lost = run[w].lost /\ ~run'[w].lease
    /\ run'[w].retriable => ~run[w].emitted

\* In the except block, before the store is asked to settle.
Sorts(w) ==
    /\ run[w].pc \in {"unwind", "failed"}
    /\ run'[w].pc \in {"settleCancel", "settleFail"}
    /\ run'[w].pc = "settleCancel" => row.cancel
    /\ Remembers(w)

\* Through mark_cancelled.
Cancels(w) ==
    /\ At(w, "settleCancel") /\ run'[w].pc = "error" /\ Remembers(w)
    /\ \/ row'.status = "cancelled"
       \/ /\ row' = row
          /\ \/ row.status \in Terminal \cup {"absent"}
             \/ row.status = "processing" /\ row.owner # Node(w)

\* Through fail, and the write it decided on.
Fails(w) ==
    /\ At(w, "settleFail") /\ Remembers(w)
    /\ \/ /\ run'[w].pc = "retry" /\ row'.status = "failed"
          /\ run[w].retriable /\ run[w].update.to = "failed"
       \/ run'[w].pc = "error" /\ row'.status = "dead_letter"

Vanishes(w) ==
    /\ run'[w] = NoRun
    /\ \/ faults' = faults + 1
       \/ run[w].pc \in {"idle", "error", "retry"}
       \/ run[w].lost
       \/ ~Owned(row', Node(w))

Moves(w) == \/ Stays(w) \/ Loses(w) \/ Begins(w) \/ Works(w) \/ Turns(w)
            \/ Sorts(w) \/ Cancels(w) \/ Fails(w) \/ Vanishes(w)

LEMMA StaysMoves == ASSUME NEW w \in Workers, run'[w] = run[w] PROVE Moves(w)
BY DEF Moves, Stays, Remembers

\* A job that ends changes no more than what the runs know of it.
LEMMA JobEndsStays ==
    ASSUME NEW n, NEW result, NEW runs \in [Workers -> Runs], JobEnds(n, result, runs),
           NEW v \in Workers
    PROVE  /\ run'[v].pc = runs[v].pc /\ run'[v].handling = runs[v].handling
           /\ run'[v].retriable = runs[v].retriable
           /\ run'[v].lost = runs[v].lost /\ run'[v].lease = runs[v].lease
           /\ run'[v].emitted = runs[v].emitted /\ run'[v].seq = runs[v].seq
<1>1. runs[v] \in Runs
  OBVIOUS
<1>2. \/ run'[v] = runs[v]
      \/ run'[v] = [runs[v] EXCEPT !.job = result]
  BY DEF JobEnds
<1>3. QED
  BY <1>1, <1>2 DEF Runs

\* Leaving the body through an except block, for a run that is in none yet.
LEMMA TurnsInto ==
    ASSUME NEW w \in Workers, Holding(w), ~run[w].handling, run[w] \in Runs,
           At(w, "complete") => faults' = faults + 1,
           \/ \E b \in BOOLEAN : run'[w] = Raise(run[w], b)
           \/ run'[w] = Unwind(run[w]) 
    PROVE  Turns(w) \/ Vanishes(w)
<1>1. ASSUME NEW pc \in {"unwind", "failed"}, NEW b \in BOOLEAN,
             run'[w] = Handler(run[w], pc, b)
      PROVE  Turns(w)
  BY <1>1 DEF Handler, NoRun, Turns, Runs
<1>2. CASE run[w].lost /\ run'[w] = Unwind(run[w])
  BY <1>2 DEF Unwind, Vanishes
<1>3. CASE \E b \in BOOLEAN : run'[w] = Raise(run[w], b)
  BY <1>1, <1>3 DEF Raise
<1>4. CASE ~run[w].lost /\ run'[w] = Unwind(run[w])
  BY <1>1, <1>4 DEF Unwind
<1>5. QED
  BY <1>2, <1>3, <1>4

LEMMA RunFacts ==
    ASSUME TypeOK, NEW w \in Workers
    PROVE  /\ run[w] \in Runs /\ row \in Rows /\ Node(w) \in Nodes /\ Node(w) # NoNode
           /\ \A r : Becomes(w, r) => \A v \in Workers :
                        run'[v] = IF v = w THEN r ELSE run[v]
BY InvocationAssumption, StoreAssumption DEF TypeOK, Node, Becomes

LEMMA ClaimBegins ==
    ASSUME TypeOK, NEW w \in Workers, Claim(w) PROVE Begins(w)
<1>1. /\ run'[w].pc \in {"accept", "settleCancel", "settleFail"}
      /\ run'[w].pc = "settleCancel" => row.cancel
      /\ run'[w].lease => run'[w].pc = "accept"
      /\ ~run'[w].handling /\ ~run'[w].retriable /\ ~run'[w].lost
      /\ ~run'[w].emitted /\ run'[w].seq = 0
  <2>1. row.cancel \in BOOLEAN /\ row.first \in BOOLEAN
    BY DEF TypeOK, Rows
  <2>2. run'[w] = [NoRun EXCEPT
            !.pc = CASE row.cancel                    -> "settleCancel"
                     [] ~row.cancel /\ mode = "stream" /\ row.first
                                                      -> "settleFail"
                     [] OTHER                         -> "accept",
            !.lease = mode = "control" /\ ~row.cancel]
    BY RunFacts DEF Claim
  <2>3. /\ run'[w].pc = CASE row.cancel                    -> "settleCancel"
                          [] ~row.cancel /\ mode = "stream" /\ row.first
                                                           -> "settleFail"
                          [] OTHER                         -> "accept"
        /\ run'[w].lease = (mode = "control" /\ ~row.cancel)
        /\ ~run'[w].handling /\ ~run'[w].retriable /\ ~run'[w].lost
        /\ ~run'[w].emitted /\ run'[w].seq = 0
    BY <2>2 DEF NoRun
  <2>4. CASE row.cancel
    BY <2>3, <2>4
  <2>5. CASE ~row.cancel /\ mode = "stream" /\ row.first
    BY <2>3, <2>5
  <2>6. CASE ~row.cancel /\ ~(mode = "stream" /\ row.first)
    BY <2>3, <2>6
  <2>7. QED
    BY <2>4, <2>5, <2>6
<1>2. QED
  BY <1>1 DEF Begins, Claim

LEMMA ClaimMoves ==
    ASSUME TypeOK, NEW w \in Workers, Claim(w), NEW v \in Workers PROVE Moves(v)
<1>1. CASE v = w
  BY <1>1, ClaimBegins DEF Moves
<1>2. CASE v # w
  BY <1>2, RunFacts, StaysMoves DEF Claim
<1>3. QED
  BY <1>1, <1>2

LEMMA RenewMoves ==
    ASSUME TypeOK, NEW w \in Workers, Renew(w), NEW v \in Workers PROVE Moves(v)
<1> DEFINE c == [run[w] EXCEPT !.cancelled = TRUE]
           l == [run[w] EXCEPT !.lost = TRUE, !.cancelled = TRUE, !.lease = FALSE]
<1>1. run[w] \in Runs /\ c \in Runs /\ l \in Runs /\ run \in [Workers -> Runs]
  BY DEF TypeOK, Runs
<1>2. \/ UNCHANGED run
      \/ CancelJob(w, c)
      \/ CancelJob(w, l) /\ ~Owned(row, Node(w)) /\ run[w].lease
  BY DEF Renew
<1>3. ASSUME NEW r \in Runs, CancelJob(w, r)
      PROVE  LET was == IF v = w THEN r ELSE run[v] IN
             /\ run'[v].pc = was.pc /\ run'[v].handling = was.handling
             /\ run'[v].retriable = was.retriable
             /\ run'[v].lost = was.lost /\ run'[v].lease = was.lease
             /\ run'[v].emitted = was.emitted /\ run'[v].seq = was.seq
  <2>1. [run EXCEPT ![w] = r] \in [Workers -> Runs]
        /\ [run EXCEPT ![w] = r][v] = IF v = w THEN r ELSE run[v]
    BY <1>1
  <2>2. CASE JobEnds(Node(w), "cancelled", [run EXCEPT ![w] = r])
    <3> DEFINE runs == [run EXCEPT ![w] = r]
    <3>1. /\ runs \in [Workers -> Runs] /\ JobEnds(Node(w), "cancelled", runs)
          /\ runs[v] = IF v = w THEN r ELSE run[v]
      BY <2>1, <2>2
    <3> HIDE DEF runs
    <3>2. /\ run'[v].pc = runs[v].pc /\ run'[v].handling = runs[v].handling
          /\ run'[v].retriable = runs[v].retriable
          /\ run'[v].lost = runs[v].lost /\ run'[v].lease = runs[v].lease
          /\ run'[v].emitted = runs[v].emitted /\ run'[v].seq = runs[v].seq
      BY <3>1, JobEndsStays
    <3>3. QED
      BY <3>1, <3>2
  <2>3. CASE Becomes(w, r)
    BY <2>3, RunFacts
  <2>4. QED
    BY <1>3, <2>2, <2>3 DEF CancelJob
<1>4. CASE UNCHANGED run
  BY <1>4, StaysMoves
<1>5. CASE CancelJob(w, c)
  <2>1. /\ c.pc = run[w].pc /\ c.handling = run[w].handling
        /\ c.retriable = run[w].retriable /\ c.lost = run[w].lost
        /\ c.lease = run[w].lease /\ c.emitted = run[w].emitted /\ c.seq = run[w].seq
    BY <1>1 DEF Runs
  <2>2. Stays(v)
    BY <1>1, <1>3, <1>5, <2>1 DEF Stays, Remembers
  <2>3. QED
    BY <2>2 DEF Moves
<1>6. CASE CancelJob(w, l) /\ ~Owned(row, Node(w)) /\ run[w].lease
  <2>1. /\ l.pc = run[w].pc /\ l.handling = run[w].handling
        /\ l.retriable = run[w].retriable /\ l.lost /\ ~l.lease
        /\ l.emitted = run[w].emitted /\ l.seq = run[w].seq
    BY <1>1 DEF Runs
  <2>2. CASE v = w
    BY <1>1, <1>3, <1>6, <2>1, <2>2 DEF Loses, Moves
  <2>3. CASE v # w
    BY <1>1, <1>3, <1>6, <2>3 DEF Stays, Remembers, Moves
  <2>4. QED
    BY <2>2, <2>3
<1>7. QED
  BY <1>2, <1>4, <1>5, <1>6

LEMMA WorkMoves ==
    ASSUME TypeOK, Flags, NEW w \in Workers,
           \/ Accept(w) \/ YieldChunk(w) \/ PublishChunk(w) \/ Return(w)
           \/ JobRaises(w) \/ ReadCancelFlag(w),
           NEW v \in Workers
    PROVE  Moves(v)
<1>1. run[w] \in Runs
  BY DEF TypeOK
<1>2. CASE v # w
  <2>1. \E r : Becomes(w, r)
    BY DEF Accept, YieldChunk, PublishChunk, Return, JobRaises, ReadCancelFlag, Goto
  <2>2. QED
    BY <1>2, <2>1, RunFacts, StaysMoves
<1>3. CASE v = w /\ ReadCancelFlag(w)
  <2>1. run'[w] = [run[w] EXCEPT !.pc = IF row.cancel THEN "settleCancel" ELSE "settleFail"]
    BY <1>3, RunFacts DEF ReadCancelFlag, Goto
  <2>2. Sorts(w)
    BY <1>1, <1>3, <2>1 DEF ReadCancelFlag, Sorts, Remembers, Runs
  <2>3. QED
    BY <1>3, <2>2 DEF Moves
<1>4. CASE v = w /\ ~ReadCancelFlag(w)
  <2>1. Working(w) /\ ~run[w].handling /\ Holding(w)
    BY <1>4 DEF Flags, Working, Holding, At, Accept, YieldChunk, PublishChunk, Return, JobRaises
  <2>2. CASE \/ \E b \in BOOLEAN : run'[w] = Raise(run[w], b)
             \/ run'[w] = Unwind(run[w]) 
    <3>1. ~At(w, "complete")
      BY <1>4 DEF At, Accept, YieldChunk, PublishChunk, Return, JobRaises
    <3>2. QED
      BY <1>1, <1>4, <2>1, <2>2, <3>1, TurnsInto DEF Moves
  <2>3. CASE run'[w] = NoRun /\ run[w].lost
    BY <1>4, <2>3 DEF Moves, Vanishes
  <2>4. CASE \/ Accept(w) /\ run'[w] = [run[w] EXCEPT !.pc = "job"]
             \/ Accept(w) /\ run'[w] = [run[w] EXCEPT !.pc = "job", !.lease = TRUE,
                                         !.job = "running"]
             \/ YieldChunk(w) /\ run'[w] = [run[w] EXCEPT !.pc = "chunk"]
             \/ PublishChunk(w) /\ run'[w] = [run[w] EXCEPT
                   !.pc = IF run[w].emitted THEN "job" ELSE "mark",
                   !.emitted = TRUE, !.seq = @ + 1]
             \/ Return(w) /\ run'[w] = [run[w] EXCEPT
                                !.pc = IF mode = "stream" THEN "end" ELSE "result"]
    <3>1. Works(w)
      BY <1>1, <2>1, <2>4 DEF Works, At, Accept, YieldChunk, PublishChunk, Return, Runs
    <3>2. QED
      BY <1>4, <3>1 DEF Moves
  <2>5. CASE Accept(w)
    <3>1. \/ Becomes(w, [run[w] EXCEPT !.pc = "job"])
          \/ Becomes(w, [run[w] EXCEPT !.pc = "job", !.lease = TRUE, !.job = "running"])
          \/ Becomes(w, Raise(run[w], TRUE))
      BY <2>5 DEF Accept, Goto
    <3>2. \/ run'[w] = [run[w] EXCEPT !.pc = "job"]
          \/ run'[w] = [run[w] EXCEPT !.pc = "job", !.lease = TRUE, !.job = "running"]
          \/ run'[w] = Raise(run[w], TRUE)
      BY <3>1, RunFacts
    <3>3. run'[w] = Raise(run[w], TRUE) => \E b \in BOOLEAN : run'[w] = Raise(run[w], b)
      OBVIOUS
    <3>4. QED
      BY <2>2, <2>4, <2>5, <3>2, <3>3
  <2>6. CASE YieldChunk(w) \/ PublishChunk(w)
    BY <2>4, <2>6, RunFacts DEF YieldChunk, PublishChunk, Goto
  <2>7. CASE Return(w)
    BY <2>3, <2>4, <2>7, RunFacts DEF Return, Goto
  <2>8. CASE JobRaises(w)
    BY <2>2, <2>8, RunFacts DEF JobRaises
  <2>9. QED
    BY <1>4, <2>5, <2>6, <2>7, <2>8
<1>5. QED
  BY <1>2, <1>3, <1>4

LEMMA PublishMoves ==
    ASSUME TypeOK, Flags, NEW w \in Workers, PublishClosing(w) \/ PublishFails(w),
           NEW v \in Workers
    PROVE  Moves(v)
<1>1. run[w] \in Runs
  BY DEF TypeOK
<1>2. CASE v # w
  <2>1. \E r : Becomes(w, r)
    BY DEF PublishClosing, PublishFails, Goto
  <2>2. QED
    BY <1>2, <2>1, RunFacts, StaysMoves
<1>3. CASE v = w /\ PublishClosing(w)
  <2>1. \/ At(w, "result") /\ run'[w] = [run[w] EXCEPT !.pc = "end"]
        \/ At(w, "end") /\ run'[w] = [run[w] EXCEPT !.pc = "complete"]
        \/ run[w].pc \in {"error", "retry"} /\ run'[w] = NoRun
    BY <1>3, RunFacts DEF PublishClosing, Goto, At
  <2>2. CASE At(w, "result") /\ run'[w] = [run[w] EXCEPT !.pc = "end"]
    <3>0. Working(w) /\ ~run[w].handling
      BY <2>2 DEF Working, At, Flags
    <3>1. Works(w)
      <4>1. run'[w].pc = "end" /\ Remembers(w)
        BY <1>1, <2>2 DEF Remembers, Runs
      <4>2. Published("result", 0) /\ client' = client
        BY <1>3, <2>2 DEF PublishClosing, At
      <4>3. QED
        BY <2>2, <3>0, <4>1, <4>2 DEF Works, Remembers, At
    <3>2. QED
      BY <1>3, <3>1 DEF Moves
  <2>3. CASE At(w, "end") /\ run'[w] = [run[w] EXCEPT !.pc = "complete"]
    <3>0. Published("end", 0) /\ client' = client /\ row' = row
      BY <1>3, <2>3 DEF PublishClosing, At
    <3>1. Works(w)
      BY <1>1, <2>3, <3>0 DEF Works, Working, At, Runs, Flags
    <3>2. QED
      BY <1>3, <3>1 DEF Moves
  <2>4. CASE run[w].pc \in {"error", "retry"} /\ run'[w] = NoRun
    BY <1>3, <2>4 DEF Vanishes, Moves
  <2>5. QED
    BY <2>1, <2>2, <2>3, <2>4
<1>4. CASE v = w /\ PublishFails(w)
  <2>1. PICK b \in BOOLEAN : run'[w] = Raise(run[w], b)
    BY <1>4, RunFacts DEF PublishFails
  <2>2. CASE run[w].handling
    <3>1. run'[w] = NoRun /\ run[w].pc \in {"error", "retry"}
      BY <1>4, <2>1, <2>2 DEF PublishFails, Raise, Flags, Working
    <3>2. QED
      BY <1>4, <3>1 DEF Vanishes, Moves
  <2>3. CASE ~run[w].handling
    <3>1. Holding(w) /\ ~At(w, "complete")
      BY <1>4, <2>3 DEF Holding, Flags, At, PublishFails
    <3>2. QED
      BY <1>1, <1>4, <2>1, <2>3, <3>1, TurnsInto DEF Moves
  <2>4. QED
    BY <2>2, <2>3
<1>5. QED
  BY <1>2, <1>3, <1>4

LEMMA SettleWrites ==
    ASSUME NEW s \in {"completed", "dead_letter", "failed"}
    PROVE  /\ Settle(s) # NoUpdate /\ Settle(s).to = s
           /\ Apply(row, Settle(s)).status = s
<1>1. Settle(s).to = s /\ NoUpdate.to = "same"
  BY DEF Settle, NoUpdate
<1>2. QED
  BY <1>1 DEF Apply

\* A method that returns having written what it decided on, or nothing.
LEMMA TxnMoves ==
    ASSUME TypeOK, Decided, Flags, NEW w \in Workers, TxnRead(w) \/ TxnCommit(w),
           NEW v \in Workers
    PROVE  Moves(v)
<1>1. run[w] \in Runs /\ row \in Rows
  BY DEF TypeOK
<1>2. CASE v # w
  <2>1. \E r : Becomes(w, r)
    BY DEF TxnRead, TxnCommit
  <2>2. QED
    BY <1>2, <2>1, RunFacts, StaysMoves
<1>3. CASE TxnRead(w) /\ Decision(w) # NoUpdate /\ v = w
  <2>1. run'[w] = [run[w] EXCEPT !.update = Decision(w)]
    BY <1>3, RunFacts DEF TxnRead
  <2>2. Stays(w)
    BY <1>1, <2>1 DEF Stays, Remembers, Runs
  <2>3. QED
    BY <1>3, <2>2 DEF Moves
<1>4. ASSUME NEW pc \in RunPCs, run'[w] = [run[w] EXCEPT !.pc = pc, !.update = NoUpdate]
      PROVE  run'[w].pc = pc /\ Remembers(w)
  BY <1>1, <1>4 DEF Remembers, Runs
<1>5. ASSUME At(w, "mark"), run'[w] = After(w, run[w].update) \/ run'[w] = After(w, NoUpdate)
      PROVE  Works(w)
  <2>1. run'[w] = [run[w] EXCEPT !.pc = "job", !.update = NoUpdate]
    BY <1>5 DEF After, At
  <2>2. run'[w].pc = "job" /\ Remembers(w)
    BY <1>4, <2>1 DEF RunPCs
  <2>3. QED
    BY <1>5, <2>2 DEF Works, Working, At, Remembers, Flags
<1>6. CASE v = w /\ TxnRead(w) /\ Decision(w) = NoUpdate
  <2>1. InStore(w) /\ run'[w] = After(w, NoUpdate) /\ row' = row
    <3>1. InStore(w) /\ Becomes(w, After(w, NoUpdate)) /\ row' = row
      BY <1>6 DEF TxnRead
    <3>2. QED
      BY <3>1, RunFacts
  <2>2. CASE At(w, "mark")
    BY <1>5, <1>6, <2>1, <2>2 DEF Moves
  <2>3. CASE At(w, "settleCancel")
    <3>1. run'[w] = [run[w] EXCEPT !.pc = "error", !.update = NoUpdate]
      BY <2>1, <2>3 DEF After, At
    <3>2. run'[w].pc = "error" /\ Remembers(w)
      BY <1>4, <3>1 DEF RunPCs
    <3>3. MarkCancelled(row, Node(w)) = NoUpdate
      BY <1>6, <2>3 DEF Decision, At
    <3>4. ASSUME NEW clear
          PROVE  [NoUpdate EXCEPT !.to = "cancelled", !.clear = clear] # NoUpdate
      <4>1. [NoUpdate EXCEPT !.to = "cancelled", !.clear = clear].to = "cancelled"
            /\ NoUpdate.to = "same"
        BY DEF NoUpdate
      <4>2. QED
        BY <4>1
    <3>5. \/ row.status \in Terminal \cup {"absent"}
          \/ row.status = "processing" /\ row.owner # Node(w)
      BY <3>3, <3>4 DEF MarkCancelled
    <3>6. QED
      BY <1>6, <2>1, <2>3, <3>2, <3>5 DEF Cancels, Moves
  <2>4. CASE At(w, "complete") \/ At(w, "settleFail")
    <3>1. run'[w] = NoRun
      BY <2>1, <2>4 DEF After, At, NoUpdate
    <3>2. ~Owned(row, Node(w))
      BY <1>6, <2>4, SettleWrites DEF Decision, At, Complete, Fail
    <3>3. QED
      BY <1>6, <2>1, <3>1, <3>2 DEF Vanishes, Moves
  <2>5. QED
    BY <2>1, <2>2, <2>3, <2>4 DEF InStore, At
<1>7. CASE v = w /\ TxnCommit(w)
  <2> DEFINE u == run[w].update
  <2>1. u # NoUpdate /\ run'[w] = After(w, u) /\ row' = Apply(row, u)
    <3>1. u # NoUpdate /\ Becomes(w, After(w, u)) /\ row' = Apply(row, u)
      BY <1>7 DEF TxnCommit
    <3>2. QED
      BY <3>1, RunFacts
  <2>2. CASE At(w, "mark")
    BY <1>5, <1>7, <2>1, <2>2 DEF Moves
  <2>3. CASE At(w, "complete") /\ u = Settle("completed")
    <3>1. run'[w] = NoRun /\ row'.status = "completed"
      BY <2>1, <2>3, SettleWrites DEF After, At
    <3>2. QED
      BY <1>7, <3>1 DEF Vanishes, Owned, Moves
  <2>4. CASE /\ At(w, "settleCancel")
             /\ \E clear \in BOOLEAN :
                   u = [NoUpdate EXCEPT !.to = "cancelled", !.clear = clear]
    <3>1. run'[w] = [run[w] EXCEPT !.pc = "error", !.update = NoUpdate]
      BY <2>1, <2>4 DEF After, At
    <3>2. run'[w].pc = "error" /\ Remembers(w)
      BY <1>4, <3>1 DEF RunPCs
    <3>3. u.to = "cancelled"
      BY <2>4 DEF NoUpdate
    <3>4. row'.status = "cancelled"
      BY <2>1, <3>3 DEF Apply
    <3>5. QED
      BY <1>7, <2>4, <3>2, <3>4 DEF Cancels, Moves
  <2>5. CASE At(w, "settleFail") /\ u = Settle("dead_letter")
    <3>1. run'[w] = [run[w] EXCEPT !.pc = "error", !.update = NoUpdate]
          /\ row'.status = "dead_letter"
      BY <2>1, <2>5, SettleWrites DEF After, At
    <3>2. run'[w].pc = "error" /\ Remembers(w)
      BY <1>4, <3>1 DEF RunPCs
    <3>3. QED
      BY <1>7, <2>5, <3>1, <3>2 DEF Fails, Moves
  <2>6. CASE At(w, "settleFail") /\ run[w].retriable /\ u = Settle("failed")
    <3>1. run'[w] = [run[w] EXCEPT !.pc = "retry", !.update = NoUpdate]
          /\ row'.status = "failed" /\ u.to = "failed"
      BY <2>1, <2>6, SettleWrites DEF After, At
    <3>2. run'[w].pc = "retry" /\ Remembers(w)
      BY <1>4, <3>1 DEF RunPCs
    <3>3. QED
      BY <1>7, <2>6, <3>1, <3>2 DEF Fails, Moves
  <2>7. QED
    BY <2>1, <2>2, <2>3, <2>4, <2>5, <2>6 DEF Decided
<1>8. QED
  BY <1>2, <1>3, <1>6, <1>7

LEMMA EnvironmentMoves ==
    ASSUME TypeOK, Flags, NEW n \in Nodes,
           EngineFinishes(n) \/ Crash(n) \/ Stop(n) \/ Restart(n),
           NEW v \in Workers
    PROVE  Moves(v)
<1>1. run \in [Workers -> Runs] /\ run[v] \in Runs
  BY DEF TypeOK
<1>2. CASE EngineFinishes(n)
  <2>1. PICK result : JobEnds(n, result, run)
    BY <1>2 DEF EngineFinishes
  <2>2. Stays(v)
    BY <1>1, <2>1, JobEndsStays DEF Stays, Remembers
  <2>3. QED
    BY <2>2 DEF Moves
<1>3. CASE Crash(n)
  <2>1. run'[v] = run[v] \/ (run'[v] = NoRun /\ faults' = faults + 1)
    BY <1>3 DEF Crash, Fault
  <2>2. QED
    BY <2>1, StaysMoves DEF Vanishes, Moves
<1>4. CASE Stop(n)
  <2>1. \/ run'[v] = run[v]
        \/ run'[v] = NoRun /\ faults' = faults + 1
        \/ ~At(v, "idle") /\ ~run[v].handling /\ run'[v] = Unwind(run[v])
    BY <1>4 DEF Stop, Fault
  <2>2. CASE ~At(v, "idle") /\ ~run[v].handling /\ run'[v] = Unwind(run[v])
    <3>1. CASE run[v].lost
      BY <2>2, <3>1 DEF Unwind, Vanishes, Moves
    <3>2. CASE At(v, "retry") /\ ~run[v].lost
      <4>1. FALSE
        BY <2>2, <3>2 DEF Flags
      <4>2. QED
        BY <4>1
    <3>3. CASE ~At(v, "retry")
      <4>1. Holding(v)
        BY <2>2, <3>3 DEF Holding, At
      <4>2. faults' = faults + 1
        BY <1>4 DEF Stop, Fault
      <4>3. QED
        BY <1>1, <2>2, <4>1, <4>2, TurnsInto DEF Moves
    <3>4. QED
      BY <3>1, <3>2, <3>3
  <2>3. QED
    BY <2>1, <2>2, StaysMoves DEF Vanishes, Moves
<1>5. CASE Restart(n)
  BY <1>5, StaysMoves DEF Restart
<1>6. QED
  BY <1>2, <1>3, <1>4, <1>5

\* What a step can do to any run.
LEMMA RunSteps ==
    ASSUME TypeOK, Decided, Flags, [Next]_vars, NEW v \in Workers PROVE Moves(v)
<1>1. CASE UNCHANGED vars
  BY <1>1, StaysMoves DEF vars
<1>2. ASSUME NEW w \in Workers, Claim(w) \/ RunStep(w) \/ Renew(w) PROVE Moves(v)
  BY <1>2, ClaimMoves, RenewMoves, WorkMoves, PublishMoves, TxnMoves DEF RunStep
<1>3. ASSUME NEW n \in Nodes, EngineFinishes(n) \/ Crash(n) \/ Stop(n) \/ Restart(n)
      PROVE  Moves(v)
  BY <1>3, EnvironmentMoves
<1>4. CASE \/ BackoffElapses \/ LeaseExpires \/ ClientStep \/ GiveUp
           \/ CancelRead \/ CancelCommit \/ Peek \/ AdminStep \/ Purge \/ Over
  <2>1. run' = run
    BY <1>4 DEF BackoffElapses, LeaseExpires, ClientStep, Submit, QueuedPublished, Receive,
         CheckRow, GraceEnds, LeaveRead, LeaveCommit, GiveUp, CancelRead, CancelCommit, Peek,
         AdminStep, FailUnclaimable, FailUnclaimableCommit, FailUnclaimableError,
         Purge, Over, vars
  <2>2. QED
    BY <2>1, StaysMoves
<1>5. QED
  BY <1>1, <1>2, <1>3, <1>4 DEF Next

LEMMA FlagsKept ==
    ASSUME TypeOK, Flags, \A w \in Workers : Moves(w) PROVE Flags'
<1> SUFFICES ASSUME NEW w \in Workers
             PROVE  /\ run'[w].retriable => run'[w].handling
                    /\ Working(w)' => ~run'[w].handling
                    /\ At(w, "retry")' => run'[w].handling
                    /\ run'[w].lease => Working(w)'
                    /\ Working(w)' /\ run'[w].seq > 0 => run'[w].emitted
  BY DEF Flags
<1>1. /\ run[w].retriable => run[w].handling
      /\ Working(w) => ~run[w].handling
      /\ At(w, "retry") => run[w].handling
      /\ run[w].lease => Working(w)
      /\ Working(w) /\ run[w].seq > 0 => run[w].emitted
      /\ run[w].seq \in Nat
  BY DEF Flags, TypeOK, Runs
<1>2. Moves(w)
  OBVIOUS
<1>3. CASE Stays(w) \/ Loses(w)
  BY <1>1, <1>3 DEF Stays, Loses, Remembers, Working, At
<1>4. CASE Begins(w)
  BY <1>4 DEF Begins, Working, At
<1>5. CASE Works(w)
  BY <1>1, <1>5 DEF Works, Working, At
<1>6. CASE Turns(w)
  BY <1>6 DEF Turns, Working, At
<1>7. CASE Sorts(w)
  BY <1>1, <1>7 DEF Sorts, Remembers, Working, At
<1>8. CASE Cancels(w) \/ Fails(w)
  BY <1>1, <1>8 DEF Cancels, Fails, Remembers, Working, At
<1>9. CASE Vanishes(w)
  BY <1>9 DEF Vanishes, NoRun, Working, At
<1>10. QED
  BY <1>2, <1>3, <1>4, <1>5, <1>6, <1>7, <1>8, <1>9 DEF Moves

\* A run that holds the row did so before, or has just claimed it.
LEMMA HoldingBack ==
    ASSUME NEW w \in Workers, Moves(w), Holding(w)' PROVE Holding(w) \/ Begins(w)
BY DEF Moves, Stays, Loses, Works, Working, Turns, Sorts, Cancels, Fails, Vanishes,
       NoRun, Holding, At

LEMMA BeginsTakes ==
    ASSUME TypeOK, NEW w \in Workers, Begins(w)
    PROVE  /\ Claimable(row) /\ stream' = stream /\ client' = client
           /\ row'.status = "processing" /\ row'.owner = Node(w)
           /\ \A v \in Workers \ {w} : run'[v] = run[v]
BY RunFacts DEF Begins, Claim, Claimed, Rows

-----------------------------------------------------------------------------
(* What a step does to what a method is about to write *)

Keeps(w) == \/ run'[w].update = NoUpdate
            \/ /\ run'[w].update = run[w].update /\ run'[w].pc = run[w].pc
               /\ run'[w].retriable = run[w].retriable

\* A run reads the row; nobody else moves.
Decides(w) == /\ InStore(w) /\ run'[w].update = Decision(w)
              /\ run'[w].pc = run[w].pc /\ run'[w].retriable = run[w].retriable
              /\ UNCHANGED <<row, client, stream, admin>>

LEMMA ExitsKeep ==
    ASSUME NEW r
    PROVE  /\ NoRun.update = NoUpdate
           /\ Unwind(r).update = NoUpdate
           /\ \A b : Raise(r, b).update = NoUpdate
BY DEF NoRun, Unwind, Raise, Handler

\* A run outside the store that moves on without deciding anything.
LEMMA RunKeeps ==
    ASSUME TypeOK, Decided, NEW w \in Workers, ~InStore(w), NEW r, Becomes(w, r),
           r.update \in {NoUpdate, run[w].update}, NEW v \in Workers
    PROVE  Keeps(v)
<1>1. run[w].update = NoUpdate
  BY DEF Decided, InStore, At
<1>2. run'[v] = IF v = w THEN r ELSE run[v]
  BY DEF TypeOK, Becomes
<1>3. QED
  BY <1>1, <1>2 DEF Keeps

LEMMA RenewKeeps ==
    ASSUME TypeOK, NEW w \in Workers, Renew(w), NEW v \in Workers PROVE Keeps(v)
<1>1. \/ UNCHANGED run
      \/ \E r \in Runs : r.update = run[w].update /\ r.pc = run[w].pc
                         /\ r.retriable = run[w].retriable /\ CancelJob(w, r)
  <2>1. run[w] \in Runs
    BY DEF TypeOK
  <2> DEFINE c == [run[w] EXCEPT !.cancelled = TRUE]
             l == [run[w] EXCEPT !.lost = TRUE, !.cancelled = TRUE, !.lease = FALSE]
  <2>2. /\ c \in Runs /\ c.update = run[w].update /\ c.pc = run[w].pc
        /\ c.retriable = run[w].retriable
        /\ l \in Runs /\ l.update = run[w].update /\ l.pc = run[w].pc
        /\ l.retriable = run[w].retriable
    BY <2>1 DEF Runs
  <2>3. UNCHANGED run \/ CancelJob(w, c) \/ CancelJob(w, l)
    BY DEF Renew
  <2>4. QED
    BY <2>2, <2>3
<1>2. ASSUME NEW r \in Runs, r.update = run[w].update, r.pc = run[w].pc,
             r.retriable = run[w].retriable, CancelJob(w, r)
      PROVE  Keeps(v)
  <2>1. /\ [run EXCEPT ![w] = r] \in [Workers -> Runs]
        /\ [run EXCEPT ![w] = r][v] = IF v = w THEN r ELSE run[v]
    BY DEF TypeOK
  <2>2. ASSUME NEW runs \in [Workers -> Runs], JobEnds(Node(w), "cancelled", runs)
        PROVE  /\ run'[v].update = runs[v].update /\ run'[v].pc = runs[v].pc
               /\ run'[v].retriable = runs[v].retriable
    BY <2>2 DEF JobEnds, Runs
  <2>3. CASE JobEnds(Node(w), "cancelled", [run EXCEPT ![w] = r])
    <3> DEFINE runs == [run EXCEPT ![w] = r]
    <3>1. runs \in [Workers -> Runs] /\ JobEnds(Node(w), "cancelled", runs)
      BY <2>1, <2>3
    <3>2. runs[v].update = run[v].update /\ runs[v].pc = run[v].pc
          /\ runs[v].retriable = run[v].retriable
      BY <1>2, <2>1
    <3> HIDE DEF runs
    <3>3. QED
      BY <2>2, <3>1, <3>2 DEF Keeps
  <2>4. CASE Becomes(w, r)
    BY <1>2, <2>4, RunFacts DEF Keeps
  <2>5. QED
    BY <1>2, <2>3, <2>4 DEF CancelJob
<1>3. QED
  BY <1>1, <1>2 DEF Keeps

LEMMA TxnUpdates ==
    ASSUME TypeOK, NEW w \in Workers, TxnRead(w) \/ TxnCommit(w), NEW v \in Workers
    PROVE  Keeps(v) \/ Decides(v)
<1>1. run[w] \in Runs
  BY DEF TypeOK
<1>2. CASE v # w
  <2>1. \E r : Becomes(w, r)
    BY DEF TxnRead, TxnCommit
  <2>2. QED
    BY <1>2, <2>1, RunFacts DEF Keeps
<1>3. \A u : After(w, u).update = NoUpdate
  BY <1>1 DEF After, NoRun, Runs
<1>4. CASE v = w /\ TxnRead(w) /\ Decision(w) # NoUpdate
  <2>1. run'[w] = [run[w] EXCEPT !.update = Decision(w)]
    BY <1>4, RunFacts DEF TxnRead
  <2>2. QED
    BY <1>1, <1>4, <2>1 DEF Decides, TxnRead, Runs
<1>5. CASE v = w /\ ((TxnRead(w) /\ Decision(w) = NoUpdate) \/ TxnCommit(w))
  <2>1. \E u : run'[w] = After(w, u)
    BY <1>5, RunFacts DEF TxnRead, TxnCommit
  <2>2. QED
    BY <1>3, <1>5, <2>1 DEF Keeps
<1>6. QED
  BY <1>2, <1>4, <1>5

LEMMA WorkKeeps ==
    ASSUME TypeOK, Decided, NEW w \in Workers, NEW v \in Workers,
           \/ Claim(w) \/ Accept(w) \/ YieldChunk(w) \/ PublishChunk(w) \/ Return(w)
           \/ JobRaises(w) \/ PublishClosing(w) \/ PublishFails(w) \/ ReadCancelFlag(w)
    PROVE  Keeps(v)
<1>1. ~InStore(w)
  BY DEF InStore, At, Claim, Accept, YieldChunk, PublishChunk, Return, JobRaises,
         PublishClosing, PublishFails, ReadCancelFlag
<1>2. run[w] \in Runs
  BY DEF TypeOK
<1>3. /\ \A pc : [run[w] EXCEPT !.pc = pc].update = run[w].update
      /\ [run[w] EXCEPT !.pc = "job", !.lease = TRUE, !.job = "running"].update
            = run[w].update
      /\ \A pc : [run[w] EXCEPT !.pc = pc, !.emitted = TRUE, !.seq = @ + 1].update
            = run[w].update
      /\ \A pc, l : [NoRun EXCEPT !.pc = pc, !.lease = l].update = NoUpdate
  BY <1>2 DEF Runs, NoRun
<1>4. \E r : Becomes(w, r) /\ r.update \in {NoUpdate, run[w].update}
  <2>0. CASE Claim(w)
    <3>1. \E pc, l : Becomes(w, [NoRun EXCEPT !.pc = pc, !.lease = l])
      BY <2>0 DEF Claim
    <3>2. QED
      BY <1>3, <3>1
  <2>1. CASE Accept(w)
    <3>1. \/ Becomes(w, [run[w] EXCEPT !.pc = "job"])
          \/ Becomes(w, [run[w] EXCEPT !.pc = "job", !.lease = TRUE,
                                       !.job = "running"])
          \/ Becomes(w, Raise(run[w], TRUE))
      BY <2>1 DEF Accept, Goto
    <3>2. CASE Becomes(w, [run[w] EXCEPT !.pc = "job"])
      BY <1>3, <3>2
    <3>3. CASE Becomes(w, [run[w] EXCEPT !.pc = "job", !.lease = TRUE,
                                         !.job = "running"])
      BY <1>3, <3>3
    <3>4. CASE Becomes(w, Raise(run[w], TRUE))
      BY <3>4, ExitsKeep
    <3>5. QED
      BY <3>1, <3>2, <3>3, <3>4
  <2>2. CASE YieldChunk(w) \/ ReadCancelFlag(w)
    BY <1>3, <2>2 DEF YieldChunk, ReadCancelFlag, Goto
  <2>3. CASE PublishChunk(w)
    <3>1. \E pc : Becomes(w, [run[w] EXCEPT !.pc = pc, !.emitted = TRUE, !.seq = @ + 1])
      BY <2>3 DEF PublishChunk
    <3>2. QED
      BY <1>3, <3>1
  <2>4. CASE Return(w)
    BY <1>3, <2>4, ExitsKeep DEF Return, Goto
  <2>5. CASE JobRaises(w)
    BY <2>5, ExitsKeep DEF JobRaises
  <2>6. CASE PublishClosing(w)
    BY <1>3, <2>6, ExitsKeep DEF PublishClosing, Goto
  <2>7. CASE PublishFails(w)
    BY <2>7, ExitsKeep DEF PublishFails
  <2>8. QED
    BY <2>0, <2>1, <2>2, <2>3, <2>4, <2>5, <2>6, <2>7
<1>5. QED
  BY <1>1, <1>4, RunKeeps

LEMMA EnvironmentKeeps ==
    ASSUME TypeOK, NEW n \in Nodes, NEW v \in Workers,
           EngineFinishes(n) \/ Crash(n) \/ Stop(n) \/ Restart(n)
    PROVE  Keeps(v)
<1>1. run \in [Workers -> Runs]
  BY DEF TypeOK
<1>2. CASE EngineFinishes(n)
  BY <1>1, <1>2 DEF EngineFinishes, JobEnds, Keeps, Runs
<1>3. CASE Crash(n)
  BY <1>3 DEF Crash, Keeps, NoRun
<1>4. CASE Stop(n)
  <2>1. run'[v] \in {run[v], NoRun, Unwind(run[v])}
    BY <1>4 DEF Stop
  <2>2. QED
    BY <2>1, ExitsKeep DEF Keeps
<1>5. CASE Restart(n)
  BY <1>5 DEF Restart, Keeps
<1>6. QED
  BY <1>2, <1>3, <1>4, <1>5

LEMMA UpdateSteps ==
    ASSUME TypeOK, Decided, [Next]_vars, NEW v \in Workers
    PROVE  Keeps(v) \/ Decides(v)
<1>1. CASE run' = run
  BY <1>1 DEF Keeps
<1>2. ASSUME NEW w \in Workers, Claim(w) \/ RunStep(w) \/ Renew(w)
      PROVE  Keeps(v) \/ Decides(v)
  BY <1>2, RenewKeeps, TxnUpdates, WorkKeeps DEF RunStep
<1>3. ASSUME NEW n \in Nodes, EngineFinishes(n) \/ Crash(n) \/ Stop(n) \/ Restart(n)
      PROVE  Keeps(v)
  BY <1>3, EnvironmentKeeps
<1>4. CASE \/ BackoffElapses \/ LeaseExpires \/ ClientStep \/ GiveUp
           \/ CancelRead \/ CancelCommit \/ Peek \/ AdminStep \/ Purge \/ Over
           \/ UNCHANGED vars
  <2>1. run' = run
    BY <1>4 DEF BackoffElapses, LeaseExpires, ClientStep, Submit, QueuedPublished, Receive,
         CheckRow, GraceEnds, LeaveRead, LeaveCommit, GiveUp, CancelRead, CancelCommit, Peek,
         AdminStep, FailUnclaimable, FailUnclaimableCommit, FailUnclaimableError,
         Purge, Over, vars
  <2>2. QED
    BY <1>1, <2>1
<1>5. QED
  BY <1>2, <1>3, <1>4 DEF Next

\* The same for the caller, the user and the ticks.
LEMMA ClerkSteps ==
    ASSUME TypeOK, [Next]_vars
    PROVE  /\ client'.update \in {NoUpdate, client.update, RequestCancel(row)}
           /\ \/ user' \in {NoUpdate, user}
              \/ user' = RequestCancel(row) /\ Apply(row, RequestCancel(row)) # row
           /\ \/ admin' = admin
              \/ admin'.pc \in {"idle", "peeked", "error"} /\ admin'.update = NoUpdate
              \/ Peek /\ admin'.pc = "peeked" /\ admin'.update = admin.update
              \/ /\ admin'.pc = "write" /\ admin'.update = AdminFail(row)
                 /\ AdminFail(row) # NoUpdate
<1>1. client \in Clients /\ admin \in Admins
  BY DEF TypeOK
<1>2. /\ \A outcome : Leaving(client, outcome).update = client.update
      /\ \A c \in Clients : [c EXCEPT !.pc = "done", !.update = NoUpdate].update = NoUpdate
  BY <1>1 DEF Leaving, Clients
<1>3. CASE Receive
  <2>1. \/ \E c \in Clients : client' = [c EXCEPT !.pc = "done", !.update = NoUpdate]
        \/ client'.update = client.update
    <3>1. /\ [client EXCEPT !.outcome = "ok"] \in Clients
          /\ [client EXCEPT !.outcome = "error"] \in Clients
      BY <1>1 DEF Clients, Outcomes
    <3>2. /\ [client EXCEPT !.expected = 0].update = client.update
          /\ \A e : [client EXCEPT !.expected = e.seq + 1,
                                   !.tokens = Append(@, e.seq)].update
                        = client.update
          /\ [client EXCEPT !.result = TRUE].update = client.update
      BY <1>1 DEF Clients
    <3>3. QED
      BY <1>2, <1>3, <3>1, <3>2 DEF Receive, Reads, Finishes
  <2>2. UNCHANGED <<user, admin>>
    BY <1>3 DEF Receive
  <2>3. QED
    BY <1>2, <2>1, <2>2
<1>4. CASE Submit \/ QueuedPublished \/ CheckRow \/ GraceEnds \/ GiveUp \/ LeaveRead
           \/ LeaveCommit
  <2>1. UNCHANGED <<user, admin>>
    BY <1>4 DEF Submit, QueuedPublished, CheckRow, GraceEnds, GiveUp, LeaveRead, LeaveCommit
  <2>2. client'.update \in {NoUpdate, client.update, RequestCancel(row)}
    BY <1>1, <1>2, <1>4 DEF Submit, QueuedPublished, CheckRow, GraceEnds, GiveUp, LeaveRead,
       LeaveCommit, Finishes, Leaving, Clients
  <2>3. QED
    BY <2>1, <2>2
<1>5. CASE CancelRead \/ CancelCommit
  BY <1>5 DEF CancelRead, CancelCommit
<1>6. CASE Peek
  BY <1>1, <1>6 DEF Peek, Admins
<1>7. CASE AdminStep
  BY <1>7 DEF AdminStep, FailUnclaimable, FailUnclaimableCommit, FailUnclaimableError, NoAdmin
<1>8. CASE ~(ClientStep \/ GiveUp \/ CancelRead \/ CancelCommit \/ Peek \/ AdminStep)
  <2>1. UNCHANGED <<client, user, admin>>
    BY <1>8 DEF Next, RunStep, Claim, Renew, TxnCommit,
         Accept, YieldChunk, PublishChunk, Return, JobRaises, PublishClosing,
         PublishFails, ReadCancelFlag, TxnRead, EngineFinishes, Crash, Stop, Restart,
         BackoffElapses, LeaseExpires, Purge, Over, vars
  <2>2. QED
    BY <2>1
<1>9. QED
  BY <1>3, <1>4, <1>5, <1>6, <1>7, <1>8 DEF ClientStep

LEMMA DecidedKept ==
    ASSUME TypeOK, Decided, Flags, [Next]_vars PROVE Decided'
<1>1. ASSUME NEW w \in Workers, run'[w].update # NoUpdate
      PROVE  \/ At(w, "mark")' /\ run'[w].update = [NoUpdate EXCEPT !.first = TRUE]
             \/ At(w, "complete")' /\ run'[w].update = Settle("completed")
             \/ At(w, "settleCancel")'
                /\ \E clear \in BOOLEAN : run'[w].update =
                       [NoUpdate EXCEPT !.to = "cancelled", !.clear = clear]
             \/ At(w, "settleFail")' /\ run'[w].update = Settle("dead_letter")
             \/ At(w, "settleFail")' /\ run'[w].retriable
                /\ run'[w].update = Settle("failed")
  <2>1. CASE Keeps(w)
    BY <1>1, <2>1 DEF Keeps, Decided, At
  <2>2. CASE Decides(w)
    <3>1. CASE At(w, "mark")
      BY <1>1, <2>2, <3>1 DEF Decides, Decision, At, MarkFirstChunk
    <3>2. CASE At(w, "complete")
      BY <1>1, <2>2, <3>2 DEF Decides, Decision, At, Complete
    <3>3. CASE At(w, "settleCancel")
      <4>1. run'[w].update = MarkCancelled(row, Node(w)) /\ At(w, "settleCancel")'
        BY <2>2, <3>3 DEF Decides, Decision, At
      <4>2. run'[w].update = [NoUpdate EXCEPT !.to = "cancelled",
                                              !.clear = (row.owner # NoNode)]
        BY <1>1, <4>1 DEF MarkCancelled
      <4>3. (row.owner # NoNode) \in BOOLEAN
        OBVIOUS
      <4>4. QED
        BY <4>1, <4>2, <4>3
    <3>4. CASE At(w, "settleFail")
      <4>1. /\ run'[w].update = Fail(row, Node(w), run[w].retriable) /\ At(w, "settleFail")'
            /\ run'[w].retriable = run[w].retriable
        BY <2>2, <3>4 DEF Decides, Decision, At
      <4>2. \/ run'[w].update = Settle("dead_letter")
            \/ run'[w].update = Settle("failed") /\ run[w].retriable
        BY <1>1, <4>1 DEF Fail
      <4>3. QED
        BY <4>1, <4>2
    <3>5. QED
      BY <2>2, <3>1, <3>2, <3>3, <3>4 DEF Decides, InStore, At
  <2>3. QED
    BY <2>1, <2>2, UpdateSteps
<1>2. \A u \in {client'.update, user'} : u.to \in {"same", "cancelled"} /\ ~u.clear
  <2>1. \A u \in {NoUpdate, RequestCancel(row)} : u.to \in {"same", "cancelled"} /\ ~u.clear
    <3>1. NoUpdate.to = "same" /\ ~NoUpdate.clear
      BY DEF NoUpdate
    <3>2. /\ RequestCancel(row).to \in {"same", "cancelled"}
          /\ ~RequestCancel(row).clear
      BY DEF RequestCancel, NoUpdate
    <3>3. QED
      BY <3>1, <3>2
  <2>2. \A u \in {client'.update, user'} :
           u \in {client.update, user, NoUpdate, RequestCancel(row)}
    BY ClerkSteps
  <2>3. QED
    BY <2>1, <2>2 DEF Decided
<1>3. IF admin'.pc = "write" THEN admin'.update.to = "dead_letter"
                             ELSE admin'.update = NoUpdate
  <2>1. AdminFail(row) # NoUpdate => AdminFail(row).to = "dead_letter"
    BY DEF AdminFail
  <2>2. Peek => admin.update = NoUpdate
    BY DEF Peek, Decided
  <2>3. QED
    BY <2>1, <2>2, ClerkSteps DEF Decided
<1>4. QED
  BY <1>1, <1>2, <1>3 DEF Decided

-----------------------------------------------------------------------------
(* What a step can do to the row *)

NewKept == (client'.pc = "new") <=> (client.pc = "new")

Touched == /\ NewKept /\ row'.status = row.status /\ row'.owner = row.owner
           /\ row'.attempts = row.attempts
           /\ \/ expiries' = expiries /\ (row'.expired => row.expired)
              \/ expiries' = expiries + 1

Inserted == client.pc = "new" /\ client'.pc # "new" /\ row' = Enqueued
            /\ expiries' = expiries

Taken == /\ NewKept /\ expiries' = expiries /\ Claimable(row)
         /\ \E w \in Workers : Begins(w) /\ row' = Claimed(row, Node(w))

\* Settled, on whatever grounds.
Ended == /\ NewKept /\ expiries' = expiries /\ row.status # "absent"
         /\ row'.status \in Terminal /\ row'.attempts = row.attempts
         /\ row'.status = "completed" =>
               row.status = "completed" \/ \E w \in Workers : At(w, "complete")

\* Given back by a run that had decided to.
Requeued == /\ NewKept /\ expiries' = expiries /\ row.status # "absent"
            /\ row'.status = "failed" /\ row'.attempts = row.attempts
            /\ ~row'.expired
            /\ \E w \in Workers : /\ Fails(w) /\ run'[w].pc = "retry"
                                  /\ run'[w].update = NoUpdate

Forgotten == /\ NewKept /\ expiries' = expiries
             /\ row.status \in Terminal /\ row' = NoRow
             /\ run' = run /\ \A w \in Workers : At(w, "idle")
             /\ ~OpenTxn /\ UNCHANGED <<client, user, admin>>

RowChange == \/ Touched \/ Inserted \/ Taken \/ Ended \/ Requeued \/ Forgotten

LEMMA BeginsClaims ==
    ASSUME TypeOK, NEW w \in Workers, Begins(w)
    PROVE  row' = Claimed(row, Node(w)) /\ row'.attempts = row.attempts + 1
BY DEF Begins, Claim, Claimed, TypeOK, Rows

LEMMA ClaimTakes == ASSUME TypeOK, NEW w \in Workers, Claim(w) PROVE Taken
BY ClaimBegins, BeginsClaims DEF Claim, Taken, NewKept

\* A write that neither completes nor requeues the row.
LEMMA WriteEnds ==
    ASSUME TypeOK, NewKept, expiries' = expiries, row.status # "absent",
           NEW u, row' = Apply(row, u), u.to \in {"same", "cancelled", "dead_letter"},
           u.to = "same" => ~u.clear
    PROVE  Touched \/ Ended
<1>1. row \in Rows
  BY DEF TypeOK
<1>2. CASE u.to = "same"
  BY <1>1, <1>2 DEF Touched, Apply, Rows
<1>3. CASE u.to # "same"
  <2>1. row'.status \in {"cancelled", "dead_letter"} /\ row'.attempts = row.attempts
    BY <1>3 DEF Apply
  <2>2. QED
    BY <2>1 DEF Ended, Terminal
<1>4. QED
  BY <1>2, <1>3

LEMMA CommitChanges ==
    ASSUME TypeOK, Decided, Flags, Submitted, NEW w \in Workers, TxnCommit(w)
    PROVE  RowChange
<1> DEFINE u == run[w].update
<1>1. /\ u # NoUpdate /\ row' = Apply(row, u) /\ run'[w] = After(w, u)
      /\ NewKept /\ expiries' = expiries
  <2>1. /\ u # NoUpdate /\ row' = Apply(row, u) /\ Becomes(w, After(w, u))
        /\ client' = client /\ expiries' = expiries
    BY DEF TxnCommit
  <2>2. QED
    BY <2>1, RunFacts DEF NewKept
<1>2. row.status # "absent" /\ row \in Rows /\ run[w] \in Runs
  <2>1. OpenTxn
    BY <1>1 DEF OpenTxn, WorkerTxn
  <2>2. QED
    BY <2>1 DEF Submitted, TypeOK
<1>3. CASE At(w, "mark") /\ u = [NoUpdate EXCEPT !.first = TRUE]
  <2>1. u.to = "same" /\ ~u.clear
    BY <1>3 DEF NoUpdate
  <2>2. QED
    BY <1>1, <1>2, <2>1, WriteEnds DEF RowChange
<1>4. CASE At(w, "complete") /\ u = Settle("completed")
  <2>1. row'.status = "completed"
    BY <1>1, <1>4, SettleWrites
  <2>2. row'.attempts = row.attempts
    BY <1>1 DEF Apply
  <2>3. Ended
    BY <1>1, <1>2, <1>4, <2>1, <2>2 DEF Ended, Terminal
  <2>4. QED
    BY <2>3 DEF RowChange
<1>5. CASE \/ /\ At(w, "settleCancel")
              /\ \E clear \in BOOLEAN :
                    u = [NoUpdate EXCEPT !.to = "cancelled", !.clear = clear]
           \/ At(w, "settleFail") /\ u = Settle("dead_letter")
  <2>1. u.to \in {"cancelled", "dead_letter"}
    BY <1>5 DEF NoUpdate, Settle
  <2>2. QED
    BY <1>1, <1>2, <2>1, WriteEnds DEF RowChange
<1>6. CASE At(w, "settleFail") /\ run[w].retriable /\ u = Settle("failed")
  <2>1. u.to = "failed" /\ row'.status = "failed"
    BY <1>1, <1>6, SettleWrites
  <2>2. row'.attempts = row.attempts /\ ~row'.expired
    <3>1. u.clear
      BY <1>6 DEF Settle, NoUpdate
    <3>2. QED
      BY <1>1, <3>1 DEF Apply
  <2>3. run'[w] = [run[w] EXCEPT !.pc = "retry", !.update = NoUpdate]
    BY <1>1, <1>6, <2>1 DEF After, At
  <2>4. run'[w].pc = "retry" /\ run'[w].update = NoUpdate /\ Remembers(w)
    BY <1>2, <2>3 DEF Runs, Remembers
  <2>5. Fails(w)
    BY <1>6, <2>1, <2>4 DEF Fails
  <2>6. Requeued
    BY <1>1, <1>2, <2>1, <2>2, <2>4, <2>5 DEF Requeued
  <2>7. QED
    BY <2>6 DEF RowChange
<1>7. QED
  BY <1>1, <1>3, <1>4, <1>5, <1>6 DEF Decided

\* The steps that leave the row as it is, but for the clock and the lease.
LEMMA WorkerTouches ==
    ASSUME TypeOK, NEW w \in Workers,
           \/ Accept(w) \/ YieldChunk(w) \/ PublishChunk(w) \/ Return(w)
           \/ JobRaises(w) \/ PublishClosing(w) \/ PublishFails(w)
           \/ ReadCancelFlag(w) \/ TxnRead(w) \/ Renew(w)
    PROVE  Touched
<1>1. row \in Rows
  BY DEF TypeOK
<1>2. NewKept /\ expiries' = expiries
  BY DEF NewKept, Accept, YieldChunk, PublishChunk, Return, JobRaises,
         PublishClosing, PublishFails, ReadCancelFlag, TxnRead, Renew
<1>3. CASE Renew(w)
  BY <1>1, <1>2, <1>3 DEF Touched, Renew, Rows
<1>4. CASE ~Renew(w)
  <2>1. row' = row
    BY <1>4 DEF Accept, YieldChunk, PublishChunk, Return, JobRaises,
         PublishClosing, PublishFails, ReadCancelFlag, TxnRead
  <2>2. QED
    BY <1>2, <2>1 DEF Touched
<1>5. QED
  BY <1>3, <1>4

LEMMA OtherTouches ==
    ASSUME TypeOK,
           \/ \E n \in Nodes : EngineFinishes(n) \/ Crash(n) \/ Stop(n) \/ Restart(n)
           \/ BackoffElapses \/ LeaseExpires
           \/ CancelRead \/ Peek \/ FailUnclaimable \/ FailUnclaimableError \/ Over
    PROVE  Touched
<1>1. row \in Rows
  BY DEF TypeOK
<1>2. NewKept
  BY DEF NewKept, EngineFinishes, Crash, Stop, Restart, BackoffElapses, LeaseExpires,
         CancelRead, Peek, FailUnclaimable, FailUnclaimableError, Over, vars
<1>3. CASE BackoffElapses \/ LeaseExpires
  BY <1>1, <1>2, <1>3 DEF Touched, BackoffElapses, LeaseExpires, Rows
<1>4. CASE ~(BackoffElapses \/ LeaseExpires)
  <2>1. row' = row /\ expiries' = expiries
    BY <1>4 DEF EngineFinishes, Crash, Stop, Restart,
         CancelRead, Peek, FailUnclaimable, FailUnclaimableError, Over, vars
  <2>2. QED
    BY <1>2, <2>1 DEF Touched
<1>5. QED
  BY <1>3, <1>4

\* The client keeps to its place before or after the submit.
LEMMA ClientTouches ==
    ASSUME TypeOK, ClientStep \/ GiveUp
    PROVE  \/ Inserted
           \/ Touched
           \/ NewKept /\ expiries' = expiries /\ LeaveCommit
<1>1. client \in Clients
  BY DEF TypeOK
<1>2. CASE Submit
  <2>1. client'.pc = "queued"
    BY <1>1, <1>2 DEF Submit, Clients
  <2>2. QED
    BY <1>2, <2>1 DEF Submit, Inserted
<1>3. CASE ~Submit
  <2>1. NewKept
    BY <1>1, <1>3 DEF NewKept, ClientStep, QueuedPublished, Receive, CheckRow,
         GraceEnds, GiveUp, LeaveRead, LeaveCommit, Reads, Finishes, Leaving,
         Reading, Clients
  <2>2. CASE LeaveCommit
    BY <2>1, <2>2 DEF LeaveCommit
  <2>3. CASE ~LeaveCommit
    <3>1. row' = row /\ expiries' = expiries
      BY <1>3, <2>3 DEF ClientStep, QueuedPublished, Receive, CheckRow,
                        GraceEnds, GiveUp, LeaveRead
    <3>2. QED
      BY <2>1, <3>1 DEF Touched
  <2>4. QED
    BY <2>2, <2>3
<1>4. QED
  BY <1>2, <1>3

LEMMA RowChanges ==
    ASSUME TypeOK, Decided, Flags, Submitted, [Next]_vars PROVE RowChange
<1>1. CASE UNCHANGED vars
  BY <1>1 DEF vars, RowChange, Touched, NewKept
<1>2. ASSUME NEW w \in Workers, Claim(w) \/ RunStep(w) \/ Renew(w) PROVE RowChange
  BY <1>2, ClaimTakes, CommitChanges, WorkerTouches DEF RunStep, RowChange
<1>3. CASE \/ \E n \in Nodes : EngineFinishes(n) \/ Crash(n) \/ Stop(n) \/ Restart(n)
           \/ BackoffElapses \/ LeaseExpires
           \/ CancelRead \/ Peek \/ FailUnclaimable \/ FailUnclaimableError \/ Over
  <2>1. Touched
    BY <1>3, OtherTouches
  <2>2. QED
    BY <2>1 DEF RowChange
<1>4. CASE ClientStep \/ GiveUp
  <2>1. CASE NewKept /\ expiries' = expiries /\ LeaveCommit
    <3>1. row' = Apply(row, client.update) /\ row.status # "absent"
      BY <2>1 DEF LeaveCommit, Submitted, OpenTxn
    <3>2. client.update.to \in {"same", "cancelled"} /\ ~client.update.clear
      BY DEF Decided
    <3>3. QED
      BY <2>1, <3>1, <3>2, WriteEnds DEF RowChange
  <2>2. QED
    BY <1>4, <2>1, ClientTouches DEF RowChange
<1>5. CASE CancelCommit
  <2>1. /\ row' = Apply(row, user) /\ row.status # "absent"
        /\ NewKept /\ expiries' = expiries
    BY <1>5 DEF CancelCommit, Submitted, OpenTxn, NewKept
  <2>2. user.to \in {"same", "cancelled"} /\ ~user.clear
    BY DEF Decided
  <2>3. QED
    BY <2>1, <2>2, WriteEnds DEF RowChange
<1>6. CASE FailUnclaimableCommit
  <2>1. row' = Apply(row, admin.update) /\ NewKept /\ expiries' = expiries
    BY <1>6 DEF FailUnclaimableCommit, NewKept
  <2>2. admin.update.to = "dead_letter"
    BY <1>6 DEF FailUnclaimableCommit, Decided
  <2>3. row.status # "absent"
    BY <2>2 DEF Submitted, OpenTxn, NoUpdate
  <2>4. QED
    BY <2>1, <2>2, <2>3, WriteEnds DEF RowChange
<1>7. CASE Purge
  BY <1>7 DEF Purge, RowChange, Forgotten, NewKept
<1>8. QED
  BY <1>1, <1>2, <1>3, <1>4, <1>5, <1>6, <1>7 DEF Next, AdminStep

\* Nobody works on a request before it is there.
LEMMA SubmittedKept ==
    ASSUME TypeOK, Submitted, [Next]_vars, RowChange,
           \A w \in Workers : Moves(w) /\ (Keeps(w) \/ Decides(w))
    PROVE  Submitted'
<1>1. CASE row.status = "absent"
  <2>1. ~OpenTxn /\ \A w \in Workers : At(w, "idle") /\ run[w].update = NoUpdate
    BY <1>1 DEF Submitted, OpenTxn, WorkerTxn
  <2>2. \A w \in Workers : ~Begins(w)
    BY <1>1, BeginsTakes DEF Claimable, Idle
  <2>3. ASSUME NEW w \in Workers PROVE At(w, "idle")' /\ run'[w].update = NoUpdate
    <3>1. run[w].pc = "idle" /\ Moves(w) /\ (Keeps(w) \/ Decides(w)) /\ ~Begins(w)
          /\ run[w].update = NoUpdate
      BY <2>1, <2>2 DEF At
    <3>2. At(w, "idle")'
      BY <3>1 DEF Moves, At, Stays, Loses, Works, Working, Turns, Holding, Sorts,
                  Cancels, Fails, Vanishes, NoRun
    <3>3. run'[w].update = NoUpdate
      BY <3>1 DEF Keeps, Decides, InStore
    <3>4. QED
      BY <3>2, <3>3
  <2>4. RequestCancel(row) = NoUpdate /\ AdminFail(row) = NoUpdate
    BY <1>1, StatusKinds DEF RequestCancel, AdminFail
  <2>5. client'.update = NoUpdate /\ user' = NoUpdate /\ admin'.update = NoUpdate
    BY <2>1, <2>4, ClerkSteps DEF OpenTxn
  <2>6. ~OpenTxn'
    BY <2>3, <2>5 DEF OpenTxn, WorkerTxn
  <2>7. client'.pc = "new" => row'.status = "absent"
    BY <1>1, <2>2, StatusKinds
       DEF RowChange, Touched, Inserted, Taken, Ended, Requeued, Forgotten, NoRow
  <2>8. QED
    BY <2>3, <2>6, <2>7 DEF Submitted
<1>2. CASE row.status # "absent"
  <2>1. client.pc # "new"
    BY <1>2 DEF Submitted
  <2>2. CASE Forgotten
    <3>1. ~OpenTxn' /\ \A w \in Workers : At(w, "idle")'
      BY <2>2 DEF Forgotten, OpenTxn, WorkerTxn, At
    <3>2. QED
      BY <2>1, <2>2, <3>1 DEF Submitted, Forgotten, NewKept
  <2>3. CASE ~Forgotten
    <3>1. client'.pc # "new"
      BY <2>1, <2>3 DEF RowChange, Touched, Inserted, Taken, Ended, Requeued, NewKept
    <3>2. row'.status # "absent"
      <4>1. CASE Taken
        <5>1. PICK w \in Workers : Begins(w)
          BY <4>1 DEF Taken
        <5>2. QED
          BY <5>1, BeginsTakes
      <4>2. QED
        BY <1>2, <2>1, <2>3, <4>1
           DEF RowChange, Touched, Inserted, Ended, Requeued, Terminal
    <3>3. QED
      BY <3>1, <3>2 DEF Submitted
  <2>4. QED
    BY <2>2, <2>3
<1>3. QED
  BY <1>1, <1>2


-----------------------------------------------------------------------------
(* Runs and attempts *)

LEMMA Sizes ==
    /\ Cardinality({}) = 0
    /\ \A S, T \in SUBSET Workers :
          /\ Cardinality(S) \in Nat
          /\ S \subseteq T => Cardinality(S) <= Cardinality(T)
          /\ \A w \in T : S \subseteq T \ {w} => Cardinality(S) + 1 <= Cardinality(T)
          /\ \A w \in Workers : S \subseteq T \cup {w}
                                => Cardinality(S) <= Cardinality(T) + 1
<1>1. Cardinality({}) = 0
  BY FS_EmptySet
<1>2. ASSUME NEW S \in SUBSET Workers, NEW T \in SUBSET Workers
      PROVE  /\ Cardinality(S) \in Nat
             /\ S \subseteq T => Cardinality(S) <= Cardinality(T)
             /\ \A w \in T : S \subseteq T \ {w} => Cardinality(S) + 1 <= Cardinality(T)
             /\ \A w \in Workers : S \subseteq T \cup {w}
                                   => Cardinality(S) <= Cardinality(T) + 1
  <2>1. /\ IsFiniteSet(S) /\ IsFiniteSet(T)
        /\ Cardinality(S) \in Nat /\ Cardinality(T) \in Nat
    BY FS_Subset, FS_CardinalityType, InvocationAssumption
  <2>2. S \subseteq T => Cardinality(S) <= Cardinality(T)
    BY <2>1, FS_Subset
  <2>3. ASSUME NEW w \in T, S \subseteq T \ {w}
        PROVE  Cardinality(S) + 1 <= Cardinality(T)
    <3>1. IsFiniteSet(T \ {w}) /\ Cardinality(T \ {w}) = Cardinality(T) - 1
      BY <2>1, FS_RemoveElement
    <3>2. Cardinality(S) <= Cardinality(T \ {w})
      BY <2>3, <3>1, FS_Subset
    <3>3. QED
      BY <2>1, <3>1, <3>2
  <2>4. ASSUME NEW w \in Workers, S \subseteq T \cup {w}
        PROVE  Cardinality(S) <= Cardinality(T) + 1
    <3>1. /\ IsFiniteSet(T \cup {w})
          /\ \/ Cardinality(T \cup {w}) = Cardinality(T)
             \/ Cardinality(T \cup {w}) = Cardinality(T) + 1
      BY <2>1, FS_AddElement
    <3>2. Cardinality(S) <= Cardinality(T \cup {w})
      BY <2>4, <3>1, FS_Subset
    <3>3. QED
      BY <2>1, <3>1, <3>2
  <2>5. QED
    BY <2>1, <2>2, <2>3, <2>4
<1>3. QED
  BY <1>1, <1>2

\* Only the run that claims becomes active; one that requeues ceases to be.
LEMMA ActiveSteps ==
    ASSUME TypeOK, \A w \in Workers : Moves(w)
    PROVE  /\ Active \in SUBSET Workers /\ Active' \in SUBSET Workers
           /\ (\A w \in Workers : ~Begins(w)) => Active' \subseteq Active
           /\ \A w \in Workers : Begins(w) =>
                 w \notin Active /\ w \in Active' /\ Active' \subseteq Active \cup {w}
           /\ \A w \in Workers : Fails(w) /\ run'[w].pc = "retry"
                 => w \in Active /\ w \notin Active'
<1>1. Active \in SUBSET Workers /\ Active' \in SUBSET Workers
  BY DEF Active
<1>2. \A w \in Workers : w \in Active' => w \in Active \/ Begins(w)
  BY HoldingBack DEF Active
<1>3. ASSUME NEW w \in Workers, Begins(w)
      PROVE  /\ w \notin Active /\ w \in Active'
             /\ \A v \in Workers \ {w} : v \in Active' => v \in Active
  <2>1. \A v \in Workers \ {w} : run'[v] = run[v]
    BY <1>3, BeginsTakes
  <2>2. QED
    BY <1>3, <2>1 DEF Begins, Active, Holding, At
<1>4. \A w \in Workers : Fails(w) /\ run'[w].pc = "retry"
                            => w \in Active /\ w \notin Active'
  BY DEF Fails, Active, Holding, At
<1>5. QED
  BY <1>1, <1>2, <1>3, <1>4

\* A step that counts an attempt, or none.
LEMMA Begun ==
    ASSUME TypeOK, NEW w \in Workers, Begins(w)
    PROVE  row'.attempts # row.attempts /\ row'.status = "processing"
BY BeginsClaims, BeginsTakes DEF TypeOK, Rows

LEMMA RunsCountedKept ==
    ASSUME TypeOK, TypeOK', Submitted, RunsCounted, RowChange, \A w \in Workers : Moves(w)
    PROVE  RunsCounted'
<1> DEFINE A == Cardinality(Active)
           B == Cardinality(Active')
           P == One(row.status \in Idle)
           Q == One(Reclaimable)
           X == One(row'.status \in Idle)
           Y == One(Reclaimable')
<1>1. /\ A \in Nat /\ B \in Nat /\ expiries \in Nat /\ expiries' \in Nat
      /\ A + P + Q <= 1 + expiries
      /\ P \in {0, 1} /\ Q \in {0, 1} /\ X \in {0, 1} /\ Y \in {0, 1}
  BY Sizes, ActiveSteps DEF RunsCounted, One, TypeOK
<1>2. B + X + Y <= 1 + expiries' => RunsCounted'
  BY DEF RunsCounted, One
<1>3. CASE Touched
  <2>1. \A w \in Workers : ~Begins(w)
    BY <1>3, Begun DEF Touched
  <2>2. B <= A
    BY <2>1, Sizes, ActiveSteps
  <2>3. X = P
    BY <1>3 DEF Touched
  <2>4. CASE expiries' = expiries /\ (row'.expired => row.expired)
    <3>1. Y = 0 \/ Q = 1
      BY <1>3, <2>4 DEF Touched, Reclaimable, One
    <3> HIDE DEF A, B, P, Q, X, Y
    <3>2. QED
      BY <1>1, <1>2, <2>2, <2>3, <2>4, <3>1
  <2>5. CASE expiries' = expiries + 1
    <3> HIDE DEF A, B, P, Q, X, Y
    <3>2. QED
      BY <1>1, <1>2, <2>2, <2>3, <2>5
  <2>6. QED
    BY <1>3, <2>4, <2>5 DEF Touched
<1>4. CASE Ended
  <2>1. \A w \in Workers : ~Begins(w)
    BY <1>4, Begun DEF Ended, Terminal
  <2>2. B <= A
    BY <2>1, Sizes, ActiveSteps
  <2>3. X = 0 /\ Y = 0 /\ expiries' = expiries
    BY <1>4 DEF Ended, Terminal, Idle, Reclaimable, One
  <2> HIDE DEF A, B, P, Q, X, Y
  <2>4. QED
    BY <1>1, <1>2, <2>2, <2>3
<1>5. CASE Taken
  <2>1. PICK w \in Workers : Begins(w) /\ row' = Claimed(row, Node(w))
    BY <1>5 DEF Taken
  <2>2. B <= A + 1
    BY <2>1, Sizes, ActiveSteps
  <2>3. row'.status = "processing" /\ ~row'.expired
    BY <2>1 DEF Claimed, TypeOK, Rows
  <2>4. X = 0 /\ Y = 0 /\ expiries' = expiries
    BY <1>5, <2>3 DEF Taken, Idle, Reclaimable, One
  <2>5. P = 1 \/ Q = 1
    BY <1>5 DEF Taken, Claimable, Reclaimable, One
  <2> HIDE DEF A, B, P, Q, X, Y
  <2>6. QED
    BY <1>1, <1>2, <2>2, <2>4, <2>5
<1>6. CASE Requeued
  <2>1. \A w \in Workers : ~Begins(w)
    BY <1>6, Begun DEF Requeued
  <2>2. PICK w \in Workers : w \in Active /\ w \notin Active'
    BY <1>6, ActiveSteps DEF Requeued
  <2>3. Active' \subseteq Active \ {w}
    BY <2>1, <2>2, ActiveSteps
  <2>4. B + 1 <= A
    BY <2>2, <2>3, Sizes, ActiveSteps
  <2>5. Y = 0 /\ expiries' = expiries
    BY <1>6 DEF Requeued, Reclaimable, One
  <2> HIDE DEF A, B, P, Q, X, Y
  <2>6. QED
    BY <1>1, <1>2, <2>4, <2>5
<1>7. CASE Inserted
  <2>1. row' = [status |-> "pending", owner |-> NoNode, expired |-> FALSE, attempts |-> 0,
                ready |-> TRUE, cancel |-> FALSE, first |-> FALSE]
    BY <1>7 DEF Inserted, Enqueued, NoRow
  <2>2. \A w \in Workers : ~Begins(w)
    BY <2>1, BeginsTakes
  <2>3. Active = {}
    BY <1>7 DEF Inserted, Submitted, Active, Holding, At
  <2>4. Active' = {}
    BY <2>2, <2>3, ActiveSteps
  <2>5. B = 0
    BY <2>4, Sizes
  <2>6. Y = 0 /\ expiries' = expiries
    BY <1>7, <2>1 DEF Inserted, Reclaimable, One
  <2> HIDE DEF A, B, P, Q, X, Y
  <2>7. QED
    BY <1>1, <1>2, <2>5, <2>6
<1>8. CASE Forgotten
  <2>1. row'.status = "absent" /\ expiries' = expiries
    BY <1>8 DEF Forgotten, NoRow
  <2>2. X = 0 /\ Y = 0
    BY <2>1 DEF Idle, Reclaimable, One
  <2>3. Active' = {}
    BY <1>8 DEF Forgotten, Active, Holding, At
  <2>4. B = 0
    BY <2>3, Sizes
  <2> HIDE DEF A, B, P, Q, X, Y
  <2>5. QED
    BY <1>1, <1>2, <2>1, <2>2, <2>4
<1>9. QED
  BY <1>3, <1>4, <1>5, <1>6, <1>7, <1>8 DEF RowChange

\* A run decides to requeue only below the bound, and nobody moves then.
LEMMA FailingSteps ==
    ASSUME TypeOK, TypeOK', Decided', \A w \in Workers : Moves(w) /\ (Keeps(w) \/ Decides(w))
    PROVE  /\ Failing \in SUBSET Workers /\ Failing' \in SUBSET Workers
           /\ row.attempts >= MaxAttempts => Failing' \subseteq Failing
           /\ \A w \in Workers : Begins(w) =>
                 Failing' \subseteq Failing /\ Failing' \subseteq Active' \ {w}
           /\ \A w \in Workers : Fails(w) /\ run'[w].pc = "retry"
                                 /\ run'[w].update = NoUpdate
                 => w \in Failing /\ w \notin Failing'
<1>1. Failing \in SUBSET Workers /\ Failing' \in SUBSET Workers
  BY DEF Failing
<1>2. NoUpdate.to = "same"
  BY DEF NoUpdate
<1>3. ASSUME NEW w \in Workers, w \in Failing', w \notin Failing
      PROVE  row' = row /\ ~(row.attempts >= MaxAttempts)
  <2>1. Decides(w)
    BY <1>2, <1>3 DEF Keeps, Failing
  <2>2. row' = row /\ Decision(w).to = "failed"
    BY <1>3, <2>1 DEF Decides, Failing
  <2>3. At(w, "settleFail")
    <3>1. CASE At(w, "mark")
      BY <2>2, <3>1 DEF Decision, At, MarkFirstChunk, NoUpdate
    <3>2. CASE At(w, "complete")
      BY <2>2, <3>2 DEF Decision, At, Complete, Settle, NoUpdate
    <3>3. CASE At(w, "settleCancel")
      BY <2>2, <3>3 DEF Decision, At, MarkCancelled, NoUpdate
    <3>4. QED
      BY <2>1, <3>1, <3>2, <3>3 DEF Decides, InStore, At
  <2>4. Decision(w) = Fail(row, Node(w), run[w].retriable)
    BY <2>3 DEF Decision, At
  <2>5. QED
    BY <1>2, <2>2, <2>4, SettleWrites DEF Fail
<1>4. ASSUME NEW w \in Workers, Begins(w)
      PROVE  Failing' \subseteq Failing /\ Failing' \subseteq Active' \ {w}
  <2>1. row' # row
    BY <1>4, Begun
  <2>2. w \notin Failing'
    <3>1. ~InStore(w) /\ run'[w].pc # run[w].pc
      BY <1>4 DEF Begins, InStore, At
    <3>2. run'[w].update = NoUpdate
      BY <3>1 DEF Keeps, Decides
    <3>3. QED
      BY <1>2, <3>2 DEF Failing
  <2>3. \A v \in Workers : v \in Failing' => v \in Active'
    <3>1. ASSUME NEW v \in Workers, run'[v].update.to = "failed"
          PROVE  run'[v].pc \notin {"idle", "retry"}
      BY <1>2, <3>1 DEF Decided, At
    <3>2. QED
      BY <3>1 DEF Failing, Active, Holding
  <2>4. QED
    BY <1>1, <1>3, <2>1, <2>2, <2>3
<1>5. \A w \in Workers : Fails(w) /\ run'[w].pc = "retry" /\ run'[w].update = NoUpdate
                            => w \in Failing /\ w \notin Failing'
  BY <1>2 DEF Fails, Failing
<1>6. QED
  BY <1>1, <1>3, <1>4, <1>5

LEMMA AttemptsCountedKept ==
    ASSUME TypeOK, TypeOK', Decided', RunsCounted', AttemptsCounted, RowChange,
           \A w \in Workers : Moves(w) /\ (Keeps(w) \/ Decides(w))
    PROVE  AttemptsCounted'
<1> DEFINE F == Cardinality(Failing)
           G == Cardinality(Failing')
           P == One(row.status = "failed")
           Q == One(Reclaimable)
           X == One(row'.status = "failed")
           Y == One(Reclaimable')
           a == row.attempts
           b == row'.attempts
           e == expiries'
<1>1. /\ F \in Nat /\ G \in Nat /\ expiries \in Nat /\ e \in Nat /\ a \in Nat /\ b \in Nat
      /\ P \in {0, 1} /\ Q \in {0, 1} /\ X \in {0, 1} /\ Y \in {0, 1}
      /\ MaxAttempts \in Nat \ {0}
      /\ row.status \in {"absent", "pending"} => a = 0
      /\ a >= MaxAttempts => a + F + P + Q <= MaxAttempts + expiries
  BY Sizes, FailingSteps, StoreAssumption DEF AttemptsCounted, One, TypeOK, Rows
<1>2. ASSUME row'.status \in {"absent", "pending"} => b = 0,
             b >= MaxAttempts => b + G + X + Y <= MaxAttempts + e
      PROVE  AttemptsCounted'
  BY <1>2 DEF AttemptsCounted, One
<1>3. a >= MaxAttempts => G <= F
  BY Sizes, FailingSteps
<1>4. CASE Touched
  <2>1. b = a /\ X = P /\ (row'.status \in {"absent", "pending"} => b = 0)
    BY <1>1, <1>4 DEF Touched
  <2>2. CASE e = expiries /\ (row'.expired => row.expired)
    <3>1. Y = 0 \/ Q = 1
      BY <1>4, <2>2 DEF Touched, Reclaimable, One
    <3> HIDE DEF F, G, P, Q, X, Y, a, b, e
    <3>2. QED
      BY <1>1, <1>2, <1>3, <2>1, <2>2, <3>1
  <2>3. CASE e = expiries + 1
    <3> HIDE DEF F, G, P, Q, X, Y, a, b, e
    <3>1. QED
      BY <1>1, <1>2, <1>3, <2>1, <2>3
  <2>4. QED
    BY <1>4, <2>2, <2>3 DEF Touched
<1>5. CASE Taken
  <2>1. PICK w \in Workers : Begins(w) /\ row' = Claimed(row, Node(w))
    BY <1>5 DEF Taken
  <2>2. row'.status = "processing" /\ ~row'.expired /\ b = a + 1 /\ e = expiries
    BY <1>5, <2>1 DEF Claimed, TypeOK, Rows, Taken
  <2>3. X = 0 /\ Y = 0
    BY <2>2 DEF Reclaimable, One
  <2>4. row.status \notin {"absent", "pending"} => P = 1 \/ Q = 1
    BY <1>5 DEF Taken, Claimable, Idle, Reclaimable, One
  <2>5. G <= expiries
    <3> DEFINE B == Cardinality(Active')
    <3>1. w \in Active' /\ Active' \in SUBSET Workers
          /\ Failing' \in SUBSET Workers /\ Failing' \subseteq Active' \ {w}
      BY <2>1, ActiveSteps, FailingSteps
    <3>2. G + 1 <= B /\ B \in Nat
      BY <3>1, Sizes
    <3>3. One(row'.status \in Idle) \in {0, 1} /\ Y \in {0, 1}
      BY DEF One
    <3>4. B + One(row'.status \in Idle) + Y <= 1 + e
      BY DEF RunsCounted, One
    <3> HIDE DEF B, G, Y, e
    <3>5. QED
      BY <1>1, <2>2, <3>2, <3>3, <3>4
  <2>6. row'.status \notin {"absent", "pending"}
    BY <2>2
  <2> HIDE DEF F, G, P, Q, X, Y, a, b, e
  <2>7. QED
    BY <1>1, <1>2, <1>3, <2>2, <2>3, <2>4, <2>5, <2>6
<1>6. CASE Ended
  <2>1. b = a /\ e = expiries /\ row'.status \notin {"absent", "pending"}
    BY <1>6 DEF Ended, Terminal
  <2>2. X = 0 /\ Y = 0
    BY <1>6 DEF Ended, Terminal, Reclaimable, One
  <2> HIDE DEF F, G, P, Q, X, Y, a, b, e
  <2>3. QED
    BY <1>1, <1>2, <1>3, <2>1, <2>2
<1>7. CASE Requeued
  <2>1. b = a /\ e = expiries /\ row'.status = "failed"
    BY <1>7 DEF Requeued
  <2>2. Y = 0
    BY <1>7 DEF Requeued, Reclaimable, One
  <2>3. PICK w \in Workers : w \in Failing /\ w \notin Failing'
    BY <1>7, FailingSteps DEF Requeued
  <2>4. a >= MaxAttempts => G + 1 <= F
    BY <2>3, Sizes, FailingSteps
  <2>5. row'.status \notin {"absent", "pending"}
    BY <2>1
  <2> HIDE DEF F, G, P, Q, X, Y, a, b, e
  <2>6. QED
    BY <1>1, <1>2, <2>1, <2>2, <2>4, <2>5
<1>8. CASE Inserted \/ Forgotten
  <2>1. b = 0
    <3>1. NoRow.attempts = 0 /\ Enqueued.attempts = 0
      BY DEF NoRow, Enqueued
    <3>2. QED
      BY <1>8, <3>1 DEF Inserted, Forgotten
  <2> HIDE DEF F, G, P, Q, X, Y, a, b, e
  <2>2. QED
    BY <1>1, <1>2, <2>1
<1>9. QED
  BY <1>4, <1>5, <1>6, <1>7, <1>8 DEF RowChange

-----------------------------------------------------------------------------
(* What a step does to the row as long as no write overtook another *)

\* Settled or requeued by its holder.
Released ==
    /\ NewKept /\ expiries' = expiries
    /\ \E w \in Workers : MovesAsHolder(w)
    /\ row.status = "processing" /\ row'.owner = NoNode
    /\ row'.status \in Terminal \cup {"failed"}

Withdrawn ==
    /\ NewKept /\ expiries' = expiries
    /\ row.status \in Idle /\ row'.status \in {"cancelled", "dead_letter"}
    /\ row'.owner = NoNode

Condemned ==
    /\ NewKept /\ expiries' = expiries
    /\ row.status \in Terminal /\ row'.status = "dead_letter"
    /\ row'.owner = NoNode

RowStep == \/ Touched \/ Inserted \/ Taken \/ Released
           \/ Withdrawn \/ Condemned \/ Forgotten

\* A write that overtook another is not forgotten.
LEMMA OvertakenStays ==
    ASSUME TypeOK, [Next]_vars, overtaken PROVE overtaken'
BY DEF TypeOK, Next, RunStep, ClientStep, AdminStep, Claim, Renew, TxnCommit,
       Accept, YieldChunk, PublishChunk, Return, JobRaises, PublishClosing,
       PublishFails, ReadCancelFlag, TxnRead, EngineFinishes, Crash, Stop, Restart,
       BackoffElapses, LeaseExpires, Submit, QueuedPublished, Receive, CheckRow,
       GraceEnds, LeaveRead, LeaveCommit, GiveUp, CancelRead, CancelCommit, Peek,
       FailUnclaimable, FailUnclaimableCommit, FailUnclaimableError, Purge, Over, vars

LEMMA CommitSteps ==
    ASSUME TypeOK, Unowned, ~overtaken', NEW w \in Workers, TxnCommit(w)
    PROVE  RowStep
<1>1. /\ row \in Rows /\ Node(w) \in Nodes /\ run[w] \in Runs
      /\ Node(w) # NoNode
  BY InvocationAssumption, StoreAssumption DEF TypeOK, Node
<1>2. /\ run[w].update # NoUpdate /\ run[w].update = Decision(w) /\ InStore(w)
      /\ row' = Apply(row, Decision(w)) /\ NewKept /\ expiries' = expiries
      /\ ~overtaken
  BY DEF TxnCommit, NewKept, TypeOK
<1>3. run'[w] # run[w]
  <2>1. run'[w] = After(w, run[w].update)
    BY <1>1 DEF TxnCommit, Becomes, TypeOK
  <2>2. After(w, run[w].update).update = NoUpdate
    BY <1>1 DEF After, NoRun, Runs
  <2>3. QED
    BY <1>2, <2>1, <2>2
<1>4. row'.attempts = row.attempts
  BY <1>2 DEF Apply
<1>5. CASE At(w, "mark")
  <2>1. Decision(w) = [NoUpdate EXCEPT !.first = TRUE]
    BY <1>2, <1>5 DEF Decision, At, MarkFirstChunk
  <2>2. Touched
    BY <1>1, <1>2, <2>1 DEF Touched, Apply, NoUpdate
  <2>3. QED
    BY <2>2 DEF RowStep
<1>6. CASE At(w, "complete")
  <2>1. Owned(row, Node(w)) /\ Decision(w) = Settle("completed")
    BY <1>2, <1>6 DEF Decision, At, Complete
  <2>2. row'.status = "completed" /\ row'.owner = NoNode
    BY <1>2, <2>1 DEF Apply, Settle, NoUpdate
  <2>3. Released
    BY <1>2, <1>3, <1>4, <2>1, <2>2 DEF Released, MovesAsHolder, Owned, Terminal
  <2>4. QED
    BY <2>3 DEF RowStep
<1>7. CASE At(w, "settleCancel")
  <2>1. /\ row.status \notin Terminal \cup {"absent"}
        /\ row.status = "processing" => row.owner = Node(w)
        /\ Decision(w) = [NoUpdate EXCEPT !.to = "cancelled",
                                          !.clear = (row.owner # NoNode)]
    BY <1>2, <1>7 DEF Decision, At, MarkCancelled
  <2>2. row'.status = "cancelled" /\ row'.owner = NoNode
    BY <1>2, <2>1 DEF Apply, NoUpdate
  <2>3. CASE row.status = "processing"
    <3>1. Released
      BY <1>2, <1>3, <1>4, <2>1, <2>2, <2>3 DEF Released, MovesAsHolder, Terminal
    <3>2. QED
      BY <3>1 DEF RowStep
  <2>4. CASE row.status # "processing"
    <3>1. row.status \in Idle
      BY <2>1, <2>4, StatusKinds
    <3>2. Withdrawn
      BY <1>2, <1>4, <2>2, <3>1 DEF Withdrawn
    <3>3. QED
      BY <3>2 DEF RowStep
  <2>5. QED
    BY <2>3, <2>4
<1>8. CASE At(w, "settleFail")
  <2>1. /\ Owned(row, Node(w))
        /\ \/ Decision(w) = Settle("dead_letter")
           \/ Decision(w) = Settle("failed") /\ ~(row.attempts >= MaxAttempts)
    BY <1>2, <1>8 DEF Decision, At, Fail
  <2>2. /\ row'.owner = NoNode
        /\ \/ row'.status = "dead_letter"
           \/ row'.status = "failed" /\ row.attempts < MaxAttempts
    <3>1. \A s \in {"dead_letter", "failed"} :
             Apply(row, Settle(s)).owner = NoNode /\ Apply(row, Settle(s)).status = s
      BY DEF Apply, Settle, NoUpdate
    <3>2. ~(row.attempts >= MaxAttempts) => row.attempts < MaxAttempts
      BY <1>1, StoreAssumption DEF Rows
    <3>3. QED
      BY <1>2, <2>1, <3>1, <3>2
  <2>3. Released
    BY <1>2, <1>3, <1>4, <2>1, <2>2 DEF Released, MovesAsHolder, Owned, Terminal
  <2>4. QED
    BY <2>3 DEF RowStep
<1>9. QED
  BY <1>2, <1>5, <1>6, <1>7, <1>8 DEF InStore, At

\* A cancel that reaches the row.
LEMMA CancelSteps ==
    ASSUME TypeOK, Unowned, ~overtaken, NewKept, expiries' = expiries,
           RequestCancel(row) # NoUpdate, row' = Apply(row, RequestCancel(row))
    PROVE  RowStep
<1>1. CASE row.status \in Idle
  <2>1. RequestCancel(row) = [NoUpdate EXCEPT !.to = "cancelled", !.cancel = TRUE]
    BY <1>1, StatusKinds DEF RequestCancel
  <2>2. Withdrawn
    BY <1>1, <2>1, StatusKinds DEF Withdrawn, Apply, NoUpdate, Unowned
  <2>3. QED
    BY <2>2 DEF RowStep
<1>2. CASE row.status \notin Idle
  <2>1. RequestCancel(row) = [NoUpdate EXCEPT !.cancel = TRUE]
    BY <1>2 DEF RequestCancel
  <2>2. Touched
    BY <2>1 DEF Touched, Apply, NoUpdate
  <2>3. QED
    BY <2>2 DEF RowStep
<1>3. QED
  BY <1>1, <1>2

LEMMA AdminSteps ==
    ASSUME TypeOK, Decided, ~overtaken', FailUnclaimableCommit PROVE RowStep
<1>1. /\ NewKept /\ expiries' = expiries /\ row' = Apply(row, admin.update)
      /\ admin.update = AdminFail(row) /\ admin.update.to = "dead_letter"
  BY DEF FailUnclaimableCommit, NewKept, Decided, TypeOK
<1>2. /\ row.status \notin {"absent", "processing"}
      /\ admin.update = [NoUpdate EXCEPT !.to = "dead_letter",
                                         !.clear = (row.owner # NoNode)]
  BY <1>1 DEF AdminFail, NoUpdate
<1>3. row'.status = "dead_letter" /\ row'.owner = NoNode
  BY <1>1, <1>2 DEF Apply, NoUpdate
<1>4. Withdrawn \/ Condemned
  BY <1>1, <1>2, <1>3, StatusKinds DEF Withdrawn, Condemned
<1>5. QED
  BY <1>4 DEF RowStep

LEMMA RowSteps ==
    ASSUME TypeOK, Decided, Unowned, [Next]_vars, ~overtaken' PROVE RowStep
<1>1. CASE UNCHANGED vars
  BY <1>1 DEF vars, RowStep, Touched, NewKept
<1>2. ASSUME NEW w \in Workers, Claim(w) \/ RunStep(w) \/ Renew(w) PROVE RowStep
  BY <1>2, ClaimTakes, CommitSteps, WorkerTouches DEF RunStep, RowStep
<1>3. CASE \/ \E n \in Nodes : EngineFinishes(n) \/ Crash(n) \/ Stop(n) \/ Restart(n)
           \/ BackoffElapses \/ LeaseExpires
           \/ CancelRead \/ Peek \/ FailUnclaimable \/ FailUnclaimableError \/ Over
  <2>1. Touched
    BY <1>3, OtherTouches
  <2>2. QED
    BY <2>1 DEF RowStep
<1>4. CASE ClientStep \/ GiveUp
  <2>1. CASE NewKept /\ expiries' = expiries /\ LeaveCommit
    BY <2>1, OvertakenStays, CancelSteps DEF LeaveCommit, TypeOK
  <2>2. QED
    BY <1>4, <2>1, ClientTouches DEF RowStep
<1>5. CASE CancelCommit
  BY <1>5, CancelSteps DEF CancelCommit, NewKept, TypeOK
<1>6. CASE FailUnclaimableCommit
  BY <1>6, AdminSteps
<1>7. CASE Purge
  BY <1>7 DEF Purge, RowStep, Forgotten, NewKept
<1>8. QED
  BY <1>1, <1>2, <1>3, <1>4, <1>5, <1>6, <1>7 DEF Next, AdminStep

LEMMA UnownedKept ==
    ASSUME TypeOK, Unowned, Submitted, [Next]_vars, ~overtaken' => RowStep
    PROVE  Unowned'
<1> SUFFICES ASSUME row'.status # "processing", ~overtaken' PROVE row'.owner = NoNode
  BY DEF Unowned
<1>1. RowStep /\ ~overtaken
  BY OvertakenStays
<1>2. CASE Touched
  BY <1>1, <1>2 DEF Touched, Unowned
<1>3. CASE Inserted \/ Forgotten
  <2>1. NoRow.owner = NoNode /\ Enqueued.owner = NoNode
    BY DEF NoRow, Enqueued
  <2>2. QED
    BY <1>3, <2>1 DEF Inserted, Forgotten
<1>4. CASE Taken
  BY <1>4, BeginsTakes DEF Taken
<1>5. CASE Released \/ Withdrawn \/ Condemned
  BY <1>5 DEF Released, Withdrawn, Condemned
<1>6. QED
  BY <1>1, <1>2, <1>3, <1>4, <1>5 DEF RowStep

-----------------------------------------------------------------------------
(* The invariant *)

LEMMA InitInv == Init => Inv
<1> SUFFICES ASSUME Init PROVE Inv
  OBVIOUS
<1>1. /\ \A w \in Workers : run[w] = NoRun
      /\ row = NoRow /\ client = NewClient /\ user = NoUpdate /\ admin = NoAdmin
      /\ expiries = 0
  BY DEF Init
<1>2. /\ NoRun.update = NoUpdate /\ NoRun.pc = "idle" /\ ~NoRun.retriable
      /\ ~NoRun.handling /\ ~NoRun.lease
      /\ NewClient.update = NoUpdate /\ NoAdmin.update = NoUpdate /\ NoAdmin.pc = "idle"
      /\ NoUpdate.to = "same" /\ ~NoUpdate.clear
      /\ NoRow.status = "absent" /\ NoRow.owner = NoNode /\ NoRow.attempts = 0
  BY DEF NoRun, NewClient, NoAdmin, NoUpdate, NoRow
<1>3. TypeOK
  BY InitTyped
<1>4. Decided
  BY <1>1, <1>2 DEF Decided
<1>5. Flags
  BY <1>1, <1>2 DEF Flags, Working, At
<1>6. Submitted
  BY <1>1, <1>2 DEF Submitted, OpenTxn, WorkerTxn, At
<1>7. Unowned
  BY <1>1, <1>2 DEF Unowned
<1>8. RunsCounted
  <2>1. Active = {}
    BY <1>1, <1>2 DEF Active, Holding
  <2>2. One(row.status \in Idle) = 0 /\ One(Reclaimable) = 0
    BY <1>1, <1>2 DEF One, Idle, Reclaimable
  <2>3. QED
    BY <1>1, <2>1, <2>2, Sizes DEF RunsCounted
<1>9. AttemptsCounted
  BY <1>1, <1>2, StoreAssumption DEF AttemptsCounted
<1>10. QED
  BY <1>3, <1>4, <1>5, <1>6, <1>7, <1>8, <1>9 DEF Inv

LEMMA NextInv == ASSUME Inv, [Next]_vars PROVE Inv'
<1>1. TypeOK /\ Decided /\ Flags /\ Submitted /\ Unowned
  BY DEF Inv
<1>2. TypeOK' /\ Decided' /\ RowChange
  BY <1>1, NextTyped, DecidedKept, RowChanges
<1>3. \A w \in Workers : Moves(w) /\ (Keeps(w) \/ Decides(w))
  BY <1>1, RunSteps, UpdateSteps
<1>4. Flags'
  BY <1>1, <1>3, FlagsKept
<1>5. Submitted'
  BY <1>1, <1>2, <1>3, SubmittedKept
<1>6. Unowned'
  BY <1>1, RowSteps, UnownedKept
<1>7. RunsCounted'
  BY <1>1, <1>2, <1>3, RunsCountedKept DEF Inv
<1>8. AttemptsCounted'
  BY <1>1, <1>2, <1>3, <1>7, AttemptsCountedKept DEF Inv
<1>9. QED
  BY <1>2, <1>4, <1>5, <1>6, <1>7, <1>8 DEF Inv

-----------------------------------------------------------------------------
(* Theorems *)

\* The invariant of a queue whose methods read and write in two steps.
THEOREM Invariant == Spec => []Inv
<1>1. Inv /\ [Next]_vars => Inv'
  BY NextInv
<1>2. QED
  BY InitInv, <1>1, PTL DEF Spec

\* A request is never attempted more often than max_attempts, but for the
\* leases that ran out, for any number of nodes and faults, and whatever
\* write overtakes another.
THEOREM AttemptsAreBounded == Spec => []AttemptsBounded
<1>1. ASSUME Inv PROVE AttemptsBounded
  <2> DEFINE F == Cardinality(Failing)
             P == One(row.status = "failed")
             Q == One(Reclaimable)
  <2>1. /\ F \in Nat /\ P \in {0, 1} /\ Q \in {0, 1}
        /\ row.attempts \in Nat /\ expiries \in Nat /\ MaxAttempts \in Nat
        /\ row.attempts >= MaxAttempts
              => row.attempts + F + P + Q <= MaxAttempts + expiries
    <3>1. Failing \in SUBSET Workers
      BY DEF Failing
    <3>2. QED
      BY <1>1, <3>1, Sizes, StoreAssumption DEF Inv, AttemptsCounted, One, TypeOK, Rows
  <2> HIDE DEF F, P, Q
  <2>2. QED
    BY <2>1 DEF AttemptsBounded
<1>2. QED
  BY <1>1, Invariant, PTL

\* Only the node that holds a processing row settles or requeues it (what
\* _owned promises), through every crash, expiry, takeover and cancel, until
\* a write meets another row than the one it was decided on.
THEOREM HoldersSettle == Spec => SettledByHolder
<1> DEFINE Settled == row.status = "processing" /\ row'.status # "processing"
                        => overtaken' \/ \E w \in Workers : MovesAsHolder(w)
<1>1. ASSUME Inv, [Next]_vars PROVE [Settled]_vars
  <2>1. CASE ~overtaken'
    <3>1. RowStep /\ TypeOK /\ Submitted
      BY <1>1, <2>1, RowSteps DEF Inv
    <3>2. CASE Taken
      BY <3>1, <3>2, BeginsTakes DEF Taken
    <3>3. CASE Touched \/ Released
      BY <3>3 DEF Touched, Released
    <3>4. CASE Inserted \/ Withdrawn \/ Condemned \/ Forgotten
      BY <3>1, <3>4, StatusKinds DEF Inserted, Submitted, Withdrawn, Condemned, Forgotten
    <3>5. QED
      BY <3>1, <3>2, <3>3, <3>4 DEF RowStep
  <2>2. QED
    BY <2>1
<1>2. QED
  BY <1>1, Invariant, PTL DEF Spec, SettledByHolder

-----------------------------------------------------------------------------
(* Refinement of DurableRequest *)

Outcome == IF row.status \in Terminal THEN row.status ELSE "none"

LEMMA InitRefines == Init => Request!Init
BY DEF Init, Request!Init, Phase, NoRow, NewClient, Idle, Terminal

LEMMA StepRefines ==
    ASSUME TypeOK, TypeOK', Unowned, Submitted, ~overtaken, RowStep
    PROVE  [Request!Next]_(Request!dvars)
<1>1. /\ row \in Rows /\ row' \in Rows
      /\ row.status \in Idle => Phase = "waiting" /\ Outcome = "none"
      /\ row.status = "processing" => Phase = "held" /\ Outcome = "none"
      /\ row.status \in Terminal => Phase = "settled" /\ Outcome = row.status
      /\ row.status = "absent" => Outcome = "none"
  BY StatusKinds DEF TypeOK, Phase, Outcome
<1>2. /\ row'.status \in Idle => Phase' = "waiting" /\ Outcome' = "none"
      /\ row'.status = "processing" => Phase' = "held" /\ Outcome' = "none"
      /\ row'.status \in Terminal => Phase' = "settled" /\ Outcome' = row'.status
      /\ row'.status = "absent" => Outcome' = "none"
  BY <1>1 DEF Phase, Outcome, Rows, Status, Idle, Terminal
<1>3. CASE Touched
  <2>1. Phase' = Phase /\ Outcome' = Outcome /\ row'.owner = row.owner
    BY <1>3 DEF Touched, NewKept, Phase, Outcome
  <2>2. QED
    BY <2>1 DEF Request!dvars, Outcome
<1>4. CASE Inserted
  <2>1. Phase = "none" /\ row.owner = NoNode /\ Outcome = "none"
    BY <1>1, <1>4 DEF Inserted, Unowned, Submitted, Phase, Idle
  <2>2. Phase' = "waiting" /\ row'.owner = NoNode /\ Outcome' = "none"
    BY <1>2, <1>4 DEF Inserted, Enqueued, NoRow, Idle
  <2>3. QED
    BY <2>1, <2>2 DEF Request!Submit, Request!Next, Outcome
<1>5. CASE Taken
  <2>1. row.status \in Idle \cup {"processing"}
    BY <1>5 DEF Taken, Claimable
  <2>2. row'.status = "processing" /\ row'.owner \in Nodes
    BY <1>5, BeginsTakes, RunFacts DEF Taken
  <2>3. QED
    BY <1>1, <1>2, <2>1, <2>2 DEF Request!Take, Request!Next, Outcome
<1>6. CASE Released
  <2>1. Phase = "held" /\ Outcome = "none" /\ row'.owner = NoNode
    BY <1>1, <1>6 DEF Released
  <2>2. CASE row'.status = "failed"
    <3>1. Phase' = "waiting" /\ Outcome' = "none"
      BY <1>2, <2>2 DEF Idle
    <3>2. QED
      BY <2>1, <3>1 DEF Request!GiveBack, Request!Next, Outcome
  <2>3. CASE row'.status \in Terminal
    <3>1. Phase' = "settled" /\ Outcome' \in {"completed", "cancelled", "dead_letter"}
      BY <1>2, <2>3 DEF Terminal
    <3>2. QED
      BY <2>1, <3>1 DEF Request!Settle, Request!Next, Outcome
  <2>4. QED
    BY <1>6, <2>2, <2>3 DEF Released
<1>7. CASE Withdrawn
  <2>1. Phase = "waiting" /\ row.owner = NoNode /\ row'.owner = NoNode
    BY <1>1, <1>7, StatusKinds DEF Withdrawn, Unowned
  <2>2. Phase' = "settled" /\ Outcome' \in {"cancelled", "dead_letter"}
    BY <1>2, <1>7 DEF Withdrawn, Terminal
  <2>3. QED
    BY <2>1, <2>2 DEF Request!Withdraw, Request!Next, Outcome
<1>8. CASE Condemned
  <2>1. Phase = "settled" /\ row.owner = NoNode /\ row'.owner = NoNode
    BY <1>1, <1>8, StatusKinds DEF Condemned, Unowned
  <2>2. Phase' = "settled" /\ Outcome' = "dead_letter"
    BY <1>2, <1>8 DEF Condemned, Terminal
  <2>3. QED
    BY <2>1, <2>2 DEF Request!Condemn, Request!Next, Outcome
<1>9. CASE Forgotten
  <2>1. Phase = "settled" /\ row.owner = NoNode
    BY <1>1, <1>9, StatusKinds DEF Forgotten, Unowned
  <2>2. row'.status = "absent" /\ row'.owner = NoNode /\ client'.pc # "new"
    BY <1>9, StatusKinds DEF Forgotten, NoRow, NewKept, Submitted
  <2>3. Phase' = "forgotten" /\ Outcome' = "none"
    BY <1>2, <2>2 DEF Phase, Idle
  <2>4. QED
    BY <2>1, <2>2, <2>3 DEF Request!Forget, Request!Next, Outcome
<1>10. QED
  BY <1>3, <1>4, <1>5, <1>6, <1>7, <1>8, <1>9 DEF RowStep

\* The queue with its retries, leases, cancels, crashes and administrative
\* failures is a durable request, for any number of nodes, until a write meets
\* another row than the one it was decided on.
THEOREM ImplementsRequest == Spec => ImplementsDurableRequest
<1>1. ASSUME Inv, Inv', [Next]_vars
      PROVE  [overtaken' \/ Request!Next]_(Request!dvars)
  <2>1. CASE ~overtaken'
    <3>1. ~overtaken
      BY <1>1, <2>1, OvertakenStays DEF Inv
    <3>2. QED
      BY <1>1, <2>1, <3>1, RowSteps, StepRefines DEF Inv
  <2>2. QED
    BY <2>1
<1>2. QED
  BY <1>1, InitRefines, Invariant, PTL DEF Spec, ImplementsDurableRequest
=============================================================================
