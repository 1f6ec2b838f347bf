------------------------- MODULE EngineJobs_proofs --------------------------
(***************************************************************************)
(* Safety of EngineJobs for all calls, requests and bounds: its types, the *)
(* account of slots, the registration of running jobs, the finality of     *)
(* outcomes and what stop() leaves behind.                                 *)
(***************************************************************************)
EXTENDS EngineJobs, FiniteSetTheorems, TLAPS

\* TypeOK, but for the sign of the count, which follows from the account.
Typed ==
    /\ mode \in [Requests -> {"unary", "stream"}]
    /\ waits \in BOOLEAN
    /\ job \in [Calls -> Jobs]
    /\ registry \in [Requests -> Calls \cup {NoCall}]
    /\ since \in [Requests -> {"none", "fresh", "old"}]
    /\ queue \in Seq(Calls)
    /\ unfinished \in Int /\ slots \in Nat
    /\ dispatcher \in {"slot", "get", "off"}
    /\ scheduler \in {"up", "joining", "gathering", "stopped"}
    /\ call \in [Calls -> CallRecords]
    /\ outlived \subseteq Calls

\* A step in which jobs stay where they are and no ended one changes.
QuietJobs ==
    \A d \in Calls :
        /\ (job[d].status = "none") <=> (job'[d].status = "none")
        /\ Ended(job[d]) => job'[d].status = job[d].status
        /\ (job[d].task = "none") <=> (job'[d].task = "none")
        /\ Alive(d) <=> Alive(d)'
        /\ (job[d].task = "lost") <=> (job'[d].task = "lost")

QuietCalls ==
    \A d \in Calls :
        /\ call'[d].pc \in {"new", "entered"} => call[d].pc \in {"new", "entered"}
        /\ call'[d].pc = "putting" => call[d].pc = "putting"

Quiet == /\ QuietJobs /\ QuietCalls
         /\ UNCHANGED <<mode, waits, queue, unfinished, slots, dispatcher, scheduler>>

\* Outcomes are final, and no job comes to life.
Kept == \A d \in Calls : /\ Ended(job[d]) => job'[d].status = job[d].status
                         /\ Live(d)' => Live(d)

\* A step in which the task of c is over and gives back what it held.
Release(c) ==
    /\ Alive(c) /\ job'[c].task = "over"
    /\ job[c].status # "none" /\ Ended(job[c])'
    /\ Ended(job[c]) => job'[c].status = job[c].status
    /\ \A d \in Calls \ {c} : job'[d] = job[d]
    /\ slots' = slots + 1 /\ unfinished' = unfinished - 1
    /\ UNCHANGED <<mode, waits, queue, dispatcher, scheduler, call>>

-----------------------------------------------------------------------------
(* What happens to a job record *)

LEMMA NoteTyped ==
    ASSUME NEW j \in Jobs
    PROVE  /\ WithNote(j) \in Jobs
           /\ WithNote(j).status = j.status
           /\ WithNote(j).task = j.task
           /\ WithNote(j).cancelling = j.cancelling
<1>1. Append(j.output, "note") \in Seq({"note", "chunk"})
  BY DEF Jobs
<1>2. QED
  BY <1>1 DEF WithNote, Jobs

LEMMA CancelledTyped ==
    ASSUME NEW j \in Jobs
    PROVE  /\ Cancelled(j) \in Jobs
           /\ Cancelled(j).task = j.task
           /\ Cancelled(j).status = IF Ended(j) THEN j.status ELSE "cancelled"
<1>1. CASE Ended(j)
  BY <1>1 DEF Cancelled
<1>2. CASE ~Ended(j)
  <2> DEFINE k == [j EXCEPT !.status = "cancelled", !.cancelling = @ \/ Attached(j)]
  <2>1. (j.cancelling \/ Attached(j)) \in BOOLEAN
    BY DEF Attached
  <2>2. k \in Jobs /\ k.status = "cancelled" /\ k.task = j.task
    BY <2>1 DEF Jobs, Statuses, Terminal
  <2>3. Cancelled(j) = WithNote(k)
    BY <1>2 DEF Cancelled
  <2> HIDE DEF k
  <2>4. QED
    BY <1>2, <2>2, <2>3, NoteTyped
<1>3. QED
  BY <1>1, <1>2

LEMMA SettledTyped ==
    ASSUME NEW j \in Jobs, NEW s \in Terminal
    PROVE  /\ Settled(j, s) \in Jobs
           /\ Settled(j, s).task = j.task
           /\ Settled(j, s).status = IF Ended(j) THEN j.status ELSE s
<1> DEFINE k == [j EXCEPT !.status = s]
<1>1. k \in Jobs /\ k.status = s /\ k.task = j.task
  BY DEF Jobs, Statuses
<1>2. Settled(j, s) = IF Ended(j) THEN j ELSE WithNote(k)
  BY DEF Settled
<1> HIDE DEF k
<1>3. QED
  BY <1>1, <1>2, NoteTyped

LEMMA ChunkTyped ==
    ASSUME NEW j \in Jobs
    PROVE  /\ WithChunk(j) \in Jobs
           /\ WithChunk(j).status = j.status
           /\ WithChunk(j).task = j.task
<1>1. /\ Append(j.output, "chunk") \in Seq({"note", "chunk"})
      /\ j.chunks + 1 \in Nat
  BY DEF Jobs
<1>2. QED
  BY <1>1 DEF WithChunk, Jobs

LEMMA NewTyped ==
    /\ NoJob \in Jobs /\ NewJob \in Jobs
    /\ NoJob.status = "none" /\ NoJob.task = "none"
    /\ NewJob.status = "queued" /\ NewJob.task = "none"
<1>1. <<"note">> \in Seq({"note", "chunk"}) /\ <<>> \in Seq({"note", "chunk"})
  OBVIOUS
<1>2. QED
  BY <1>1 DEF NoJob, NewJob, Jobs, Statuses, Terminal

LEMMA MarkedTyped ==
    ASSUME Typed, NEW r \in Requests, NEW j
    PROVE  /\ Marked(r, j) \in [Requests -> {"none", "fresh", "old"}]
           /\ \A q \in Requests : Marked(r, j)[q] = "old" => since[q] = "old"
BY DEF Typed, Marked

LEMMA PrunedTyped ==
    ASSUME Typed
    PROVE  /\ Pruned \in [Requests -> Calls \cup {NoCall}]
           /\ Unexpired \in [Requests -> {"none", "fresh", "old"}]
           /\ \A q \in Requests : Unexpired[q] # "old"
BY DEF Typed, Pruned, Unexpired

-----------------------------------------------------------------------------
(* Counting tasks *)

LEMMA HoldingFinite ==
    /\ IsFiniteSet(Holding) /\ Cardinality(Holding) \in Nat
    /\ IsFiniteSet(Lost) /\ Cardinality(Lost) \in Nat
<1>1. IsFiniteSet(Holding) /\ IsFiniteSet(Lost)
  BY JobsAssumption, FS_Subset DEF Holding, Lost
<1>2. QED
  BY <1>1, FS_CardinalityType

\* The types follow once the queue and the tasks are counted.
LEMMA TypesComplete ==
    ASSUME Typed, SlotsAccounted
    PROVE  TypeOK
<1>1. Len(queue) \in Nat
  BY DEF Typed
<1>2. unfinished \in Nat
  BY <1>1, HoldingFinite DEF SlotsAccounted
<1>3. QED
  BY <1>2 DEF Typed, TypeOK

-----------------------------------------------------------------------------
(* Steps that leave everything in its place *)

LEMMA QuietPlaced ==
    ASSUME Typed, Placed, Quiet
    PROVE  Placed'
<1>1. \A d \in Calls : Queued(d)' <=> Queued(d)
  BY DEF Quiet, Queued
<1>2. \A i \in 1..Len(queue) : queue[i] \in Calls
  BY DEF Typed
<1>3. (\A c \in Calls : call[c].pc \in {"new", "entered"} => job[c].status = "none")'
  BY DEF Quiet, QuietJobs, QuietCalls, Placed
<1>4. (\A c \in Calls : call[c].pc \in {"new", "entered", "putting"}
                          => job[c].task = "none" /\ ~Queued(c))'
  BY <1>1 DEF Quiet, QuietJobs, QuietCalls, Placed
<1>5. (\A i \in 1..Len(queue) : job[queue[i]].task = "none")'
  BY <1>2 DEF Quiet, QuietJobs, Placed
<1>6. (\A i, k \in 1..Len(queue) : queue[i] = queue[k] => i = k)'
  BY DEF Quiet, Placed
<1>7. (\A c \in Calls : Queued(c) \/ Alive(c) \/ call[c].pc = "putting"
                          => job[c].status # "none")'
  BY <1>1 DEF Quiet, QuietJobs, QuietCalls, Placed
<1>8. QED
  BY <1>3, <1>4, <1>5, <1>6, <1>7 DEF Placed

LEMMA QuietCounts ==
    ASSUME Quiet
    PROVE  Holding' = Holding /\ Lost' = Lost
BY DEF Quiet, QuietJobs, Holding, Lost

LEMMA QuietAccount ==
    ASSUME SlotsAccounted, Quiet
    PROVE  SlotsAccounted'
BY QuietCounts DEF SlotsAccounted, Quiet

LEMMA QuietStopping ==
    ASSUME Stopping, Quiet
    PROVE  Stopping'
<1>1. \A d \in Calls : (Queued(d)' <=> Queued(d)) /\ (Live(d)' => Live(d))
  BY DEF Quiet, QuietJobs, Queued, Live, Ended
<1>2. QED
  BY <1>1, QuietCounts DEF Quiet, QuietJobs, QuietCalls, Stopping

LEMMA QuietKeeps ==
    ASSUME Inv, Quiet, Typed', Attending'
    PROVE  Inv' /\ Kept
<1>1. Typed
  BY DEF Inv, TypeOK, Typed
<1>2. Placed' /\ SlotsAccounted' /\ Stopping'
  BY <1>1, QuietPlaced, QuietAccount, QuietStopping DEF Inv
<1>3. TypeOK'
  BY <1>2, TypesComplete, PTL
<1>4. Kept
  BY DEF Kept, Quiet, QuietJobs, Live, Ended
<1>5. QED
  BY <1>2, <1>3, <1>4 DEF Inv

-----------------------------------------------------------------------------
(* A task that ends *)

LEMMA ReleasePlaced ==
    ASSUME Typed, Placed, NEW c \in Calls, Release(c)
    PROVE  Placed'
<1>1. \A d \in Calls : (Queued(d)' <=> Queued(d)) /\ (Alive(d)' => Alive(d))
  BY DEF Release, Queued, Alive
<1>2. \A i \in 1..Len(queue) : queue[i] \in Calls /\ queue[i] # c
  <2>1. job[c].task # "none"
    BY DEF Release, Alive
  <2>2. QED
    BY <2>1 DEF Typed, Placed
<1>3. call[c].pc \notin {"new", "entered", "putting"}
  BY DEF Placed, Release, Alive
<1>4. (\A d \in Calls : call[d].pc \in {"new", "entered"} => job[d].status = "none")'
  BY <1>3 DEF Release, Placed
<1>5. (\A d \in Calls : call[d].pc \in {"new", "entered", "putting"}
                          => job[d].task = "none" /\ ~Queued(d))'
  BY <1>1, <1>3 DEF Release, Placed
<1>6. (\A i \in 1..Len(queue) : job[queue[i]].task = "none")'
  BY <1>2 DEF Release, Placed
<1>7. (\A i, k \in 1..Len(queue) : queue[i] = queue[k] => i = k)'
  BY DEF Release, Placed
<1>8. (\A d \in Calls : Queued(d) \/ Alive(d) \/ call[d].pc = "putting"
                          => job[d].status # "none")'
  BY <1>1, <1>3 DEF Release, Placed, Ended, Terminal
<1>9. QED
  BY <1>4, <1>5, <1>6, <1>7, <1>8 DEF Placed

\* The account is kept when what is counted on each side moves together.
LEMMA AccountMoves ==
    ASSUME SlotsAccounted, slots \in Nat, unfinished \in Int, Slots \in Nat,
           Len(queue) \in Nat, Len(queue') = Len(queue), dispatcher' = dispatcher,
           NEW h \in Int, NEW l \in Int,
           Cardinality(Holding') = Cardinality(Holding) + h,
           Cardinality(Lost') = Cardinality(Lost) + l,
           slots' = slots - h - l, unfinished' = unfinished + h + l
    PROVE  SlotsAccounted'
<1> DEFINE held == Cardinality(Holding)
           lost == Cardinality(Lost)
           one == IF dispatcher = "get" THEN 1 ELSE 0
<1>1. held \in Nat /\ lost \in Nat /\ one \in Nat
  BY HoldingFinite
<1>2. slots + held + lost + one = Slots /\ unfinished = Len(queue) + held + lost
  BY DEF SlotsAccounted
<1>3. /\ SlotsAccounted' <=>
           /\ slots' + Cardinality(Holding') + Cardinality(Lost') + one = Slots
           /\ unfinished' = Len(queue') + Cardinality(Holding') + Cardinality(Lost')
  BY DEF SlotsAccounted
<1> HIDE DEF held, lost, one
<1>4. slots' + (held + h) + (lost + l) + one = Slots
  BY <1>1, <1>2
<1>5. unfinished' = Len(queue) + (held + h) + (lost + l)
  BY <1>1, <1>2
<1>6. QED
  BY <1>3, <1>4, <1>5 DEF held, lost

LEMMA ReleaseAccount ==
    ASSUME Typed, SlotsAccounted, NEW c \in Calls, Release(c)
    PROVE  SlotsAccounted'
<1>1. Holding' = Holding \ {c} /\ c \in Holding /\ Lost' = Lost
  BY DEF Release, Holding, Lost, Alive
<1>2. Cardinality(Holding') = Cardinality(Holding) - 1 /\ Cardinality(Holding) \in Nat
  BY <1>1, HoldingFinite, FS_RemoveElement
<1>3. Len(queue) \in Nat
  BY DEF Typed
<1>4. Cardinality(Lost') = Cardinality(Lost)
  BY <1>1
<1>5. slots' = slots + 1 /\ unfinished' = unfinished - 1
      /\ queue' = queue /\ dispatcher' = dispatcher
  BY DEF Release
<1>6. slots \in Nat /\ unfinished \in Int /\ Slots \in Nat
  BY JobsAssumption DEF Typed
<1>7. /\ Cardinality(Holding') = Cardinality(Holding) + (-1)
      /\ Cardinality(Lost') = Cardinality(Lost) + 0
      /\ slots' = slots - (-1) - 0 /\ unfinished' = unfinished + (-1) + 0
      /\ Len(queue') = Len(queue)
  BY <1>2, <1>3, <1>4, <1>5, <1>6, HoldingFinite
<1>8. -1 \in Int /\ 0 \in Int
  OBVIOUS
<1>9. QED
  BY <1>3, <1>5, <1>6, <1>7, <1>8, AccountMoves

LEMMA ReleaseStopping ==
    ASSUME Stopping, NEW c \in Calls, Release(c)
    PROVE  Stopping'
<1>1. \A d \in Calls : d # c =>
         /\ Queued(d)' <=> Queued(d)
         /\ Alive(d)' <=> Alive(d)
         /\ Live(d)' <=> Live(d)
         /\ d \in Lost' <=> d \in Lost
  BY DEF Release, Queued, Alive, Live, Lost
<1>2. ~Alive(c)' /\ ~Live(c)'
  BY DEF Release, Alive, Live, Ended, Terminal
<1>3. QED
  BY <1>1, <1>2 DEF Release, Stopping

LEMMA ReleaseKeeps ==
    ASSUME Inv, NEW c \in Calls, Release(c), Typed', Attending'
    PROVE  Inv' /\ Kept
<1>1. Typed
  BY DEF Inv, TypeOK, Typed
<1>2. Placed' /\ SlotsAccounted' /\ Stopping'
  BY <1>1, ReleasePlaced, ReleaseAccount, ReleaseStopping DEF Inv
<1>3. TypeOK'
  BY <1>2, TypesComplete, PTL
<1>4. Kept
  BY DEF Kept, Release, Live, Ended
<1>5. QED
  BY <1>2, <1>3, <1>4 DEF Inv

-----------------------------------------------------------------------------
(* Quiet steps, one by one *)

\* A step that writes one job and moves it nowhere.
LEMMA QuietUpdate ==
    ASSUME Typed, NEW c \in Calls, NEW k \in Jobs,
           job' = [job EXCEPT ![c] = k],
           (job[c].status = "none") <=> (k.status = "none"),
           Ended(job[c]) => k.status = job[c].status,
           \/ k.task = job[c].task
           \/ {k.task, job[c].task} \subseteq {"created", "running", "blocked"}
    PROVE  QuietJobs /\ job' \in [Calls -> Jobs]
<1>1. job' \in [Calls -> Jobs] /\ job'[c] = k
  BY DEF Typed
<1>2. \A d \in Calls : d # c => job'[d] = job[d]
  BY DEF Typed
<1>3. QED
  BY <1>1, <1>2 DEF QuietJobs, Alive, Ended

LEMMA Unchanged ==
    ASSUME job' = job
    PROVE  QuietJobs
BY DEF QuietJobs, Alive, Ended

\* What exists stays, and so does what has ended.
JobsStay == \A d \in Calls : /\ job[d].status # "none" => job'[d].status # "none"
                             /\ Ended(job[d]) => Ended(job[d])'

LEMMA QuietJobsStay ==
    ASSUME QuietJobs
    PROVE  JobsStay
BY DEF QuietJobs, JobsStay, Ended

LEMMA ReleaseJobsStay ==
    ASSUME NEW c \in Calls, Release(c)
    PROVE  JobsStay
BY DEF Release, JobsStay, Ended, Terminal

\* Entries only leave the registry.
Evicts == \A r \in Requests : registry'[r] \in {registry[r], NoCall}

\* What callers wait for stays a job, and an ended job stays ended.
LEMMA AttendingKept ==
    ASSUME Typed, Attending, JobsStay, Evicts,
           \A d \in Calls :
             /\ call'[d].pc \in {"putting", "waiting", "draining"}
                  => call'[d].job \in Calls /\ job[call'[d].job].status # "none"
             /\ call'[d].pc = "draining"
                  => call[d].pc = "draining" \/ Ended(job[d])
    PROVE  Attending'
<1>1. (\A r \in Requests : registry[r] # NoCall => job[registry[r]].status # "none")'
  <2> SUFFICES ASSUME NEW r \in Requests, registry'[r] # NoCall
               PROVE  job'[registry'[r]].status # "none"
    OBVIOUS
  <2>1. registry'[r] = registry[r] /\ registry[r] \in Calls
    BY DEF Evicts, Typed
  <2>2. QED
    BY <2>1 DEF Attending, JobsStay
<1>2. QED
  BY <1>1 DEF Attending, JobsStay

\* A call that ends or moves on within the calls that have a job.
LEMMA CallMoves ==
    ASSUME Typed, Attending, QuietJobs, Evicts, NEW c \in Calls, NEW k \in CallRecords,
           call' = [call EXCEPT ![c] = k],
           k.pc \in {"putting", "waiting", "draining"}
             => k.job \in Calls /\ job[k.job].status # "none",
           k.pc = "draining" => Ended(job[c]),
           k.pc \in {"new", "entered"} => call[c].pc \in {"new", "entered"},
           k.pc # "putting"
    PROVE  /\ call' \in [Calls -> CallRecords]
           /\ QuietCalls
           /\ Attending'
<1>1. call' \in [Calls -> CallRecords] /\ call'[c] = k
  BY DEF Typed
<1>2. \A d \in Calls : d # c => call'[d] = call[d]
  BY DEF Typed
<1>3. QuietCalls
  BY <1>1, <1>2 DEF QuietCalls
<1>4. Attending'
  BY <1>1, <1>2, AttendingKept, QuietJobsStay DEF Attending
<1>5. QED
  BY <1>1, <1>3, <1>4

LEMMA InvTyped ==
    ASSUME Inv
    PROVE  Typed /\ Attending /\ Placed /\ Stopping
BY DEF Inv, TypeOK, Typed

LEMMA EnterKeeps ==
    ASSUME Inv, NEW c \in Calls, Enter(c)
    PROVE  Inv' /\ Kept
<1>1. Typed /\ Attending
  BY InvTyped
<1> DEFINE k == [call[c] EXCEPT !.pc = "entered"]
<1>2. k \in CallRecords /\ k.pc = "entered" /\ call[c].pc = "new"
  BY <1>1 DEF Typed, CallRecords, Enter
<1>3. call' = [call EXCEPT ![c] = k] /\ job' = job
  BY DEF Enter
<1> HIDE DEF k
<1>4. registry' \in [Requests -> Calls \cup {NoCall}] /\ Evicts
  BY <1>1 DEF Enter, Typed, Evicts
<1>5. call' \in [Calls -> CallRecords] /\ QuietCalls /\ Attending' /\ QuietJobs
  BY <1>1, <1>2, <1>3, <1>4, CallMoves, Unchanged
<1>6. Typed' /\ Quiet
  BY <1>1, <1>3, <1>4, <1>5 DEF Typed, Quiet, Enter
<1>7. QED
  BY <1>5, <1>6, QuietKeeps

LEMMA JoinKeeps ==
    ASSUME Inv, NEW c \in Calls, Join(c)
    PROVE  Inv' /\ Kept
<1>1. Typed /\ Attending
  BY InvTyped
<1> DEFINE r == RequestOf[c]
           k == IF Streams(c)
                THEN [call[c] EXCEPT !.pc = "done", !.outcome = "refused"]
                ELSE [call[c] EXCEPT !.pc = "waiting", !.job = Pruned[r]]
<1>2. /\ Pruned[r] \in Calls
      /\ job[Pruned[r]].status # "none"
      /\ Evicts
  <2>1. Evicts
    BY <1>1 DEF Join, Evicts, Pruned, Typed
  <2>2. r \in Requests /\ Pruned[r] \in Calls /\ Pruned[r] = registry[r]
    BY <1>1, PrunedTyped, JobsAssumption DEF Join, Pruned
  <2>3. QED
    BY <1>1, <2>1, <2>2, JobsAssumption DEF Attending
<1>3. k \in CallRecords /\ k.pc \in {"done", "waiting"}
      /\ (k.pc = "waiting" => k.job \in Calls /\ job[k.job].status # "none")
  <2>1. call[c] \in CallRecords
    BY <1>1 DEF Typed
  <2>2. CASE Streams(c)
    BY <2>1, <2>2 DEF CallRecords
  <2>3. CASE ~Streams(c)
    BY <1>2, <2>1, <2>3 DEF CallRecords
  <2>4. QED
    BY <2>2, <2>3
<1>4. call' = [call EXCEPT ![c] = k] /\ job' = job
  BY DEF Join
<1> HIDE DEF k
<1>5. call' \in [Calls -> CallRecords] /\ QuietCalls /\ Attending' /\ QuietJobs
  BY <1>1, <1>2, <1>3, <1>4, CallMoves, Unchanged
<1>6. Typed' /\ Quiet
  BY <1>1, <1>4, <1>5, PrunedTyped DEF Typed, Quiet, Join
<1>7. QED
  BY <1>5, <1>6, QuietKeeps

LEMMA PutTimesOutKeeps ==
    ASSUME Inv, NEW c \in Calls, PutTimesOut(c)
    PROVE  Inv' /\ Kept
<1>1. Typed /\ Attending /\ Placed
  BY InvTyped
<1>2. job[c] \in Jobs /\ job[c].status # "none"
  BY <1>1 DEF Typed, Placed, PutTimesOut
<1>3. QuietJobs /\ job' \in [Calls -> Jobs]
  <2> DEFINE k == Settled(job[c], "error")
  <2>1. job' = [job EXCEPT ![c] = k]
    BY DEF PutTimesOut
  <2>2. /\ k \in Jobs /\ k.task = job[c].task
        /\ k.status = IF Ended(job[c]) THEN job[c].status ELSE "error"
    BY <1>2, SettledTyped DEF Terminal
  <2> HIDE DEF k
  <2>3. QED
    BY <1>1, <1>2, <2>1, <2>2, QuietUpdate
<1> DEFINE k == [call[c] EXCEPT !.pc = "done", !.outcome = "rejected"]
<1>4. k \in CallRecords /\ k.pc = "done" /\ call' = [call EXCEPT ![c] = k]
  BY <1>1 DEF Typed, CallRecords, PutTimesOut
<1> HIDE DEF k
<1>5. call' \in [Calls -> CallRecords] /\ QuietCalls /\ Attending'
  BY <1>1, <1>3, <1>4, CallMoves DEF PutTimesOut, Evicts
<1>6. since' \in [Requests -> {"none", "fresh", "old"}]
  BY <1>1, MarkedTyped, JobsAssumption DEF PutTimesOut, Typed
<1>7. Typed' /\ Quiet
  BY <1>1, <1>3, <1>5, <1>6 DEF Typed, Quiet, PutTimesOut
<1>8. QED
  BY <1>5, <1>7, QuietKeeps

\* A call that is over.
LEMMA CallEnds ==
    ASSUME Typed, Attending, QuietJobs, NEW c \in Calls,
           NEW o \in Terminal \cup {"left", "gone"}, Ends(c, o), registry' = registry,
           call[c].pc \notin {"new", "entered"}
    PROVE  /\ call' \in [Calls -> CallRecords]
           /\ QuietCalls
           /\ Attending'
           /\ since' \in [Requests -> {"none", "fresh", "old"}]
<1> DEFINE k == [call[c] EXCEPT !.pc = "done", !.outcome = o]
<1>0. call[c] \in CallRecords
  BY DEF Typed
<1>1. k \in CallRecords /\ k.pc = "done"
  BY <1>0 DEF CallRecords
<1>2. call' = [call EXCEPT ![c] = k]
  BY DEF Ends, Typed, CallRecords
<1> HIDE DEF k
<1>3. call' \in [Calls -> CallRecords] /\ QuietCalls /\ Attending'
  BY <1>1, <1>2, CallMoves DEF Evicts
<1>4. since' \in [Requests -> {"none", "fresh", "old"}]
  BY MarkedTyped, JobsAssumption DEF Ends
<1>5. QED
  BY <1>3, <1>4

LEMMA AnswerKeeps ==
    ASSUME Inv, NEW c \in Calls, Answer(c)
    PROVE  Inv' /\ Kept
<1>1. Typed /\ Attending
  BY InvTyped
<1>2. job' = job /\ QuietJobs
  BY Unchanged DEF Answer
<1>3. job[call[c].job].status \in Terminal
  BY DEF Answer, Ended
<1>4. /\ call' \in [Calls -> CallRecords] /\ QuietCalls /\ Attending'
      /\ since' \in [Requests -> {"none", "fresh", "old"}]
  BY <1>1, <1>2, <1>3, CallEnds DEF Answer
<1>5. Typed' /\ Quiet
  BY <1>1, <1>2, <1>4 DEF Typed, Quiet, Answer
<1>6. QED
  BY <1>4, <1>5, QuietKeeps

LEMMA FinishKeeps ==
    ASSUME Inv, NEW c \in Calls, Finish(c)
    PROVE  Inv' /\ Kept
<1>1. Typed /\ Attending
  BY InvTyped
<1>2. job' = job /\ QuietJobs
  BY Unchanged DEF Finish
<1>3. job[c].status \in Terminal
  BY <1>1 DEF Finish, Attending, Ended
<1>4. /\ call' \in [Calls -> CallRecords] /\ QuietCalls /\ Attending'
      /\ since' \in [Requests -> {"none", "fresh", "old"}]
  BY <1>1, <1>2, <1>3, CallEnds DEF Finish
<1>5. Typed' /\ Quiet
  BY <1>1, <1>2, <1>4 DEF Typed, Quiet, Finish
<1>6. QED
  BY <1>4, <1>5, QuietKeeps

LEMMA DropKeeps ==
    ASSUME Inv, NEW c \in Calls, Drop(c)
    PROVE  Inv' /\ Kept
<1>1. Typed /\ Attending
  BY InvTyped
<1>2. job' = job /\ QuietJobs
  BY Unchanged DEF Drop
<1>3. call[c].pc \notin {"new", "entered"} /\ Ends(c, "gone")
  BY DEF Drop
<1>4. /\ call' \in [Calls -> CallRecords] /\ QuietCalls /\ Attending'
      /\ since' \in [Requests -> {"none", "fresh", "old"}]
  BY <1>1, <1>2, <1>3, CallEnds DEF Drop
<1>5. Typed' /\ Quiet
  BY <1>1, <1>2, <1>4 DEF Typed, Quiet, Drop
<1>6. QED
  BY <1>4, <1>5, QuietKeeps

\* What a call waits for exists.
LEMMA CancelledQuiet ==
    ASSUME Typed, NEW d \in Calls, job[d].status # "none",
           job' = [job EXCEPT ![d] = Cancelled(@)]
    PROVE  QuietJobs /\ job' \in [Calls -> Jobs]
<1> DEFINE k == Cancelled(job[d])
<1>1. k \in Jobs /\ k.task = job[d].task
      /\ k.status = IF Ended(job[d]) THEN job[d].status ELSE "cancelled"
  BY CancelledTyped DEF Typed
<1>2. job' = [job EXCEPT ![d] = k]
  OBVIOUS
<1> HIDE DEF k
<1>3. QED
  BY <1>1, <1>2, QuietUpdate

LEMMA LeaveKeeps ==
    ASSUME Inv, NEW c \in Calls, Leave(c)
    PROVE  Inv' /\ Kept
<1>1. Typed /\ Attending
  BY InvTyped
<1>2. call[c].job \in Calls /\ job[call[c].job].status # "none"
  BY <1>1 DEF Leave, Attending
<1>3. QuietJobs /\ job' \in [Calls -> Jobs]
  BY <1>1, <1>2, CancelledQuiet DEF Leave
<1>4. /\ call' \in [Calls -> CallRecords] /\ QuietCalls /\ Attending'
      /\ since' \in [Requests -> {"none", "fresh", "old"}]
  BY <1>1, <1>3, CallEnds DEF Leave
<1>5. Typed' /\ Quiet
  BY <1>1, <1>3, <1>4 DEF Typed, Quiet, Leave
<1>6. QED
  BY <1>4, <1>5, QuietKeeps

LEMMA ReadKeeps ==
    ASSUME Inv, NEW c \in Calls, Read(c)
    PROVE  Inv' /\ Kept
<1>1. Typed /\ Attending /\ job[c] \in Jobs /\ call[c] \in CallRecords
  BY InvTyped DEF Typed
<1>2. QuietJobs /\ job' \in [Calls -> Jobs]
  <2> DEFINE k == [job[c] EXCEPT !.output = Tail(@)]
  <2>1. Tail(job[c].output) \in Seq({"note", "chunk"})
    BY <1>1 DEF Jobs, Read
  <2>2. k \in Jobs /\ k.status = job[c].status /\ k.task = job[c].task
    BY <1>1, <2>1 DEF Jobs
  <2>3. job' = [job EXCEPT ![c] = k]
    BY DEF Read, Typed
  <2> HIDE DEF k
  <2>4. QED
    BY <1>1, <2>2, <2>3, QuietUpdate
<1> DEFINE p == IF Ended(job[c]) THEN "draining" ELSE call[c].pc
           g == IF Head(job[c].output) = "chunk" THEN call[c].got + 1 ELSE call[c].got
           k == [call[c] EXCEPT !.pc = p, !.got = g]
<1>3. /\ k \in CallRecords /\ k.job = call[c].job
      /\ k.pc \in {"waiting", "draining"}
      /\ k.pc = "draining" => call[c].pc = "draining" \/ Ended(job[c])
  <2>1. p \in {"waiting", "draining"}
        /\ (p = "draining" => call[c].pc = "draining" \/ Ended(job[c]))
    BY DEF Read
  <2>2. g \in Nat
    BY <1>1 DEF CallRecords
  <2> HIDE DEF p, g
  <2>3. QED
    BY <1>1, <2>1, <2>2 DEF CallRecords
<1>4. call' = [call EXCEPT ![c] = k]
  BY <1>1 DEF Read, Typed, CallRecords
<1>5. Evicts
  BY DEF Read, Evicts
<1>6. /\ call[c].job \in Calls /\ job[call[c].job].status # "none"
      /\ call[c].pc = "draining" => Ended(job[c])
  BY <1>1 DEF Attending, Read
<1> HIDE DEF p, g, k
<1>7. call' \in [Calls -> CallRecords] /\ QuietCalls /\ Attending'
  BY <1>1, <1>2, <1>3, <1>4, <1>5, <1>6, CallMoves
<1>8. Typed' /\ Quiet
  BY <1>1, <1>2, <1>7 DEF Typed, Quiet, Read
<1>9. QED
  BY <1>7, <1>8, QuietKeeps

\* A job changes and nothing else does.
LEMMA JobMoves ==
    ASSUME Inv, QuietJobs, job' \in [Calls -> Jobs],
           UNCHANGED <<mode, waits, registry, queue, unfinished, slots,
                       dispatcher, scheduler, call>>,
           since' \in [Requests -> {"none", "fresh", "old"}], outlived' \subseteq Calls
    PROVE  Inv' /\ Kept
<1>1. Typed /\ Attending
  BY InvTyped
<1>2. QuietCalls /\ Evicts
  BY DEF QuietCalls, Evicts
<1>3. Attending'
  BY <1>1, <1>2, AttendingKept, QuietJobsStay DEF Attending
<1>4. Typed' /\ Quiet
  BY <1>1, <1>2 DEF Typed, Quiet
<1>5. QED
  BY <1>3, <1>4, QuietKeeps

LEMMA CancelRequestKeeps ==
    ASSUME Inv, NEW r \in Requests, CancelRequest(r)
    PROVE  Inv' /\ Kept
<1>1. Typed /\ registry[r] \in Calls /\ job[registry[r]].status # "none"
  BY InvTyped DEF Typed, CancelRequest, Live
<1>2. QuietJobs /\ job' \in [Calls -> Jobs]
  BY <1>1, CancelledQuiet DEF CancelRequest
<1>3. since' \in [Requests -> {"none", "fresh", "old"}] /\ outlived' \subseteq Calls
  BY <1>1 DEF Typed, CancelRequest
<1>4. QED
  BY <1>2, <1>3, JobMoves DEF CancelRequest

LEMMA ExpiresKeeps ==
    ASSUME Inv, NEW r \in Requests, Expires(r)
    PROVE  Inv' /\ Kept
<1>1. Typed /\ job' = job
  BY InvTyped DEF Expires
<1>2. since' \in [Requests -> {"none", "fresh", "old"}] /\ outlived' \subseteq Calls
  BY <1>1 DEF Typed, Expires
<1>3. QuietJobs /\ job' \in [Calls -> Jobs]
  BY <1>1, Unchanged DEF Typed
<1>4. QED
  BY <1>2, <1>3, JobMoves DEF Expires

-----------------------------------------------------------------------------
(* Tasks *)

\* One task moves on.
LEMMA TaskMoves ==
    ASSUME Inv, NEW c \in Calls, NEW k \in Jobs, job' = [job EXCEPT ![c] = k],
           job[c].status # "none", k.status # "none",
           Ended(job[c]) => k.status = job[c].status,
           Alive(c), k.task \in {"created", "running", "blocked"},
           UNCHANGED <<mode, waits, registry, since, queue, unfinished, slots,
                       dispatcher, scheduler, call, outlived>>
    PROVE  Inv' /\ Kept
<1>1. Typed
  BY InvTyped
<1>2. QuietJobs /\ job' \in [Calls -> Jobs]
  BY <1>1, QuietUpdate DEF Alive
<1>3. QED
  BY <1>1, <1>2, JobMoves DEF Typed

\* One task ends.
LEMMA TaskEndsKeeps ==
    ASSUME Inv, NEW c \in Calls, NEW j \in Jobs, NEW mark, TaskEnds(c, j, mark),
           Alive(c), Ended(j), Ended(job[c]) => j.status = job[c].status
    PROVE  Inv' /\ Kept
<1>1. Typed /\ Attending /\ Placed
  BY InvTyped
<1> DEFINE k == [j EXCEPT !.task = "over", !.cancelling = FALSE]
<1>2. k \in Jobs /\ k.task = "over" /\ k.status = j.status /\ Ended(k)
  BY DEF Jobs, Ended
<1>3. job' = [job EXCEPT ![c] = k]
  BY DEF TaskEnds
<1> HIDE DEF k
<1>4. /\ job' \in [Calls -> Jobs] /\ job'[c] = k
      /\ \A d \in Calls \ {c} : job'[d] = job[d]
  BY <1>1, <1>2, <1>3 DEF Typed
<1>5. job[c].status # "none"
  BY <1>1 DEF Placed
<1>6. Release(c)
  BY <1>2, <1>4, <1>5 DEF Release, TaskEnds, Ended
<1>7. Attending'
  <2>1. JobsStay /\ Evicts
    BY <1>6, ReleaseJobsStay DEF TaskEnds, Evicts
  <2>2. QED
    BY <1>1, <1>6, <2>1, AttendingKept DEF Release, Attending
<1>8. since' \in [Requests -> {"none", "fresh", "old"}]
  BY <1>1, MarkedTyped, JobsAssumption DEF TaskEnds, Typed
<1>9. Typed'
  BY <1>1, <1>4, <1>8 DEF Typed, TaskEnds
<1>10. QED
  BY <1>6, <1>7, <1>9, ReleaseKeeps

\* A task that runs has a job of some status.
LEMMA TaskTyped ==
    ASSUME Inv, NEW c \in Calls
    PROVE  job[c] \in Jobs /\ (Alive(c) => job[c].status # "none")
BY InvTyped DEF Typed, Placed

LEMMA TaskStartsKeeps ==
    ASSUME Inv, NEW c \in Calls, TaskStarts(c)
    PROVE  Inv' /\ Kept
<1>1. Alive(c) /\ job[c] \in Jobs /\ job[c].status # "none"
  BY TaskTyped DEF TaskStarts, Alive
<1>2. CASE Ended(job[c]) /\ TaskEnds(c, job[c], FALSE)
  BY <1>1, <1>2, TaskEndsKeeps
<1>3. CASE ~Ended(job[c])
  <2> DEFINE i == [job[c] EXCEPT !.status = "resolving", !.task = "running"]
             k == WithNote(i)
  <2>1. i \in Jobs /\ i.status = "resolving" /\ i.task = "running"
    BY <1>1 DEF Jobs, Statuses
  <2>2. job' = [job EXCEPT ![c] = k]
    BY <1>3 DEF TaskStarts
  <2> HIDE DEF i
  <2>3. k \in Jobs /\ k.status = "resolving" /\ k.task = "running"
    BY <2>1, NoteTyped
  <2> HIDE DEF k
  <2>4. UNCHANGED <<mode, waits, registry, since, queue, unfinished, slots,
                    dispatcher, scheduler, call, outlived>>
    BY <1>3 DEF TaskStarts
  <2>5. QED
    BY <1>1, <1>3, <2>2, <2>3, <2>4, TaskMoves
<1>4. QED
  BY <1>2, <1>3 DEF TaskStarts

LEMMA TaskInvokesKeeps ==
    ASSUME Inv, NEW c \in Calls, TaskInvokes(c)
    PROVE  Inv' /\ Kept
<1>1. /\ Alive(c) /\ job[c] \in Jobs /\ job[c].status # "none"
      /\ job[c].task = "running" /\ ~Ended(job[c])
  BY TaskTyped DEF TaskInvokes, Running, Alive, Ended, Terminal
<1> DEFINE i == [job[c] EXCEPT !.status = "invoking"]
           k == WithNote(i)
<1>2. i \in Jobs /\ i.status = "invoking" /\ i.task = "running"
  BY <1>1 DEF Jobs, Statuses
<1>3. job' = [job EXCEPT ![c] = k]
  BY DEF TaskInvokes
<1> HIDE DEF i
<1>4. k \in Jobs /\ k.status = "invoking" /\ k.task = "running"
  BY <1>2, NoteTyped
<1> HIDE DEF k
<1>5. QED
  BY <1>1, <1>3, <1>4, TaskMoves DEF TaskInvokes

LEMMA TaskPublishesKeeps ==
    ASSUME Inv, NEW c \in Calls, TaskPublishes(c)
    PROVE  Inv' /\ Kept
<1>1. /\ Alive(c) /\ job[c] \in Jobs /\ job[c].status # "none"
      /\ job[c].task = "running"
  BY TaskTyped DEF TaskPublishes, Running, Alive
<1> DEFINE k == IF HasRoom(job[c]) THEN WithChunk(job[c])
                ELSE [job[c] EXCEPT !.task = "blocked"]
<1>2. job' = [job EXCEPT ![c] = k]
  BY DEF TaskPublishes
<1>3. k \in Jobs /\ k.status = job[c].status /\ k.task \in {"running", "blocked"}
  <2>1. [job[c] EXCEPT !.task = "blocked"] \in Jobs
    BY <1>1 DEF Jobs
  <2>2. QED
    BY <1>1, <2>1, ChunkTyped DEF Jobs
<1> HIDE DEF k
<1>4. QED
  BY <1>1, <1>2, <1>3, TaskMoves DEF TaskPublishes

LEMMA TaskPutsKeeps ==
    ASSUME Inv, NEW c \in Calls, TaskPuts(c)
    PROVE  Inv' /\ Kept
<1>1. Alive(c) /\ job[c] \in Jobs /\ job[c].status # "none"
  BY TaskTyped DEF TaskPuts, Alive
<1> DEFINE i == [job[c] EXCEPT !.task = "running"]
           k == WithChunk(i)
<1>2. i \in Jobs /\ i.status = job[c].status /\ i.task = "running"
  BY <1>1 DEF Jobs
<1>3. job' = [job EXCEPT ![c] = k]
  BY DEF TaskPuts
<1> HIDE DEF i
<1>4. k \in Jobs /\ k.status = job[c].status /\ k.task = "running"
  BY <1>2, ChunkTyped
<1> HIDE DEF k
<1>5. QED
  BY <1>1, <1>3, <1>4, TaskMoves DEF TaskPuts

\* A task whose job is settled or cancelled as it ends.
LEMMA TaskSettles ==
    ASSUME Inv, NEW c \in Calls, NEW s \in Terminal, Alive(c),
           TaskEnds(c, Settled(job[c], s), TRUE)
    PROVE  Inv' /\ Kept
<1> DEFINE k == Settled(job[c], s)
<1>1. /\ k \in Jobs
      /\ k.status = IF Ended(job[c]) THEN job[c].status ELSE s
  BY TaskTyped, SettledTyped
<1>2. Ended(k) /\ (Ended(job[c]) => k.status = job[c].status)
  BY <1>1 DEF Ended
<1> HIDE DEF k
<1>3. TaskEnds(c, k, TRUE)
  BY DEF k
<1>4. QED
  BY <1>1, <1>2, <1>3, TaskEndsKeeps

LEMMA TaskCompletesKeeps ==
    ASSUME Inv, NEW c \in Calls, TaskCompletes(c)
    PROVE  Inv' /\ Kept
<1>1. Alive(c)
  BY DEF TaskCompletes, Running, Alive
<1>2. QED
  BY <1>1, TaskSettles DEF TaskCompletes, Terminal

LEMMA TaskFailsKeeps ==
    ASSUME Inv, NEW c \in Calls, TaskFails(c)
    PROVE  Inv' /\ Kept
<1>1. Alive(c)
  BY DEF TaskFails, Running, Alive
<1>2. QED
  BY <1>1, TaskSettles DEF TaskFails, Terminal

LEMMA TaskUnwindsKeeps ==
    ASSUME Inv, NEW c \in Calls, TaskUnwinds(c)
    PROVE  Inv' /\ Kept
<1>1. Alive(c)
  BY DEF TaskUnwinds, Attached, Alive
<1> DEFINE k == Cancelled(job[c])
<1>2. /\ k \in Jobs
      /\ k.status = IF Ended(job[c]) THEN job[c].status ELSE "cancelled"
  BY TaskTyped, CancelledTyped
<1>3. Ended(k) /\ (Ended(job[c]) => k.status = job[c].status)
  BY <1>2 DEF Ended, Terminal
<1>4. TaskEnds(c, k, TRUE)
  BY DEF TaskUnwinds
<1> HIDE DEF k
<1>5. QED
  BY <1>1, <1>2, <1>3, <1>4, TaskEndsKeeps

LEMMA TaskDroppedKeeps ==
    ASSUME Inv, NEW c \in Calls, TaskDropped(c)
    PROVE  Inv' /\ Kept
<1>1. Typed /\ Attending /\ Placed /\ Stopping
  BY InvTyped
<1> DEFINE k == [job[c] EXCEPT !.task = "lost"]
<1>2. k \in Jobs /\ k.status = job[c].status /\ k.task = "lost"
  BY <1>1 DEF Typed, Jobs
<1>3. job' = [job EXCEPT ![c] = k]
  BY <1>1 DEF TaskDropped, Typed
<1> HIDE DEF k
<1>4. /\ job' \in [Calls -> Jobs] /\ job'[c] = k
      /\ \A d \in Calls \ {c} : job'[d] = job[d]
  BY <1>1, <1>2, <1>3 DEF Typed
<1>5. UNCHANGED <<mode, waits, registry, since, queue, unfinished, slots,
                  dispatcher, scheduler, call, outlived>>
  BY DEF TaskDropped
<1>6. Typed'
  BY <1>1, <1>4, <1>5 DEF Typed
<1>7. Alive(c) /\ ~Alive(c)' /\ job[c].status # "none" /\ c \notin Lost
  BY <1>1, <1>2, <1>4 DEF TaskDropped, Alive, Placed, Lost
<1>8. Attending'
  <2>1. JobsStay /\ Evicts
    BY <1>2, <1>4, <1>5 DEF JobsStay, Evicts, Ended
  <2>2. QED
    BY <1>1, <1>5, <2>1, AttendingKept DEF Attending
<1>9. \A d \in Calls : Queued(d)' <=> Queued(d)
  BY <1>5 DEF Queued
<1>10. Placed'
  <2>1. call[c].pc \notin {"new", "entered", "putting"} /\ ~Queued(c)
    BY <1>1, <1>7 DEF Placed, Queued, Alive
  <2>2. \A i \in 1..Len(queue) : queue[i] \in Calls \ {c}
    BY <1>1, <2>1 DEF Typed, Queued
  <2>3. \A d \in Calls \ {c} : Alive(d)' <=> Alive(d)
    BY <1>4 DEF Alive
  <2>4. (\A i \in 1..Len(queue) : job[queue[i]].task = "none")'
    BY <1>1, <1>4, <1>5, <2>2 DEF Placed
  <2>5. QED
    BY <1>1, <1>2, <1>4, <1>5, <1>7, <1>9, <2>1, <2>3, <2>4 DEF Placed
<1>11. Holding' = Holding \ {c} /\ c \in Holding /\ Lost' = Lost \cup {c}
  BY <1>2, <1>4, <1>7 DEF Holding, Lost, Alive
<1>12. SlotsAccounted'
  <2>1. Cardinality(Holding') = Cardinality(Holding) - 1
    BY <1>11, HoldingFinite, FS_RemoveElement
  <2>2. Cardinality(Lost') = Cardinality(Lost) + 1
    BY <1>7, <1>11, HoldingFinite, FS_AddElement
  <2>3. slots' = slots /\ unfinished' = unfinished /\ Len(queue') = Len(queue)
        /\ dispatcher' = dispatcher /\ slots \in Nat /\ unfinished \in Int
        /\ Len(queue) \in Nat /\ Slots \in Nat
    BY <1>1, <1>5, JobsAssumption DEF Typed
  <2>4. /\ Cardinality(Holding') = Cardinality(Holding) + (-1)
        /\ Cardinality(Lost') = Cardinality(Lost) + 1
        /\ slots' = slots - (-1) - 1 /\ unfinished' = unfinished + (-1) + 1
    BY <2>1, <2>2, <2>3, HoldingFinite
  <2>5. -1 \in Int /\ 1 \in Int
    OBVIOUS
  <2>6. QED
    BY <2>3, <2>4, <2>5, AccountMoves DEF Inv
<1>13. Stopping'
  <2>1. \A d \in Calls : /\ Live(d)' <=> Live(d)
                         /\ Alive(d)' => Alive(d)
                         /\ d # c => (Alive(d)' <=> Alive(d))
    BY <1>2, <1>4, <1>7 DEF Live, Alive
  <2>2. QED
    BY <1>1, <1>5, <1>9, <1>11, <2>1 DEF Stopping
<1>14. Kept
  BY <1>2, <1>4 DEF Kept, Ended, Live
<1>15. TypeOK'
  BY <1>6, <1>12, TypesComplete, PTL
<1>16. QED
  BY <1>8, <1>10, <1>12, <1>13, <1>14, <1>15 DEF Inv

-----------------------------------------------------------------------------
(* Queue and dispatcher *)

LEMMA TakeSlotKeeps ==
    ASSUME Inv, TakeSlot
    PROVE  Inv' /\ Kept
<1>1. Typed /\ Attending /\ Placed /\ Stopping
  BY InvTyped
<1>2. UNCHANGED <<mode, waits, job, registry, since, queue, unfinished,
                  scheduler, call>>
  BY DEF TakeSlot
<1>3. Typed' /\ Attending' /\ Placed'
  BY <1>1, <1>2 DEF TakeSlot, Typed, Attending, Placed, Queued, Alive, Ended
<1>4. Holding' = Holding /\ Lost' = Lost
  BY <1>2 DEF Holding, Lost, Alive
<1>5. SlotsAccounted'
  BY <1>1, <1>4, HoldingFinite, JobsAssumption DEF SlotsAccounted, Inv, TakeSlot, Typed
<1>6. Stopping' /\ Kept
  BY <1>1, <1>2, <1>4 DEF Stopping, TakeSlot, Queued, Alive, Live, Kept, Ended
<1>7. TypeOK'
  BY <1>3, <1>5, TypesComplete, PTL
<1>8. QED
  BY <1>3, <1>5, <1>6, <1>7 DEF Inv

LEMMA DispatchKeeps ==
    ASSUME Inv, Dispatch
    PROVE  Inv' /\ Kept
<1>1. Typed /\ Attending /\ Placed /\ Stopping
  BY InvTyped
<1>0. PICK c \in Calls : c = Head(queue)
  BY <1>1 DEF Typed, Dispatch
<1> DEFINE k == [job[c] EXCEPT !.task = "created"]
<1>2. /\ queue \in Seq(Calls) /\ Len(queue) \in Nat /\ 1 \in 1..Len(queue)
      /\ c = queue[1] /\ c \in Calls
      /\ Tail(queue) \in Seq(Calls) /\ Len(Tail(queue)) = Len(queue) - 1
      /\ \A i \in 1..Len(Tail(queue)) : i + 1 \in 1..Len(queue) /\ Tail(queue)[i] = queue[i + 1]
  BY <1>0, <1>1 DEF Typed, Dispatch
<1>3. job[c].task = "none" /\ Queued(c) /\ job[c].status # "none"
  BY <1>1, <1>2 DEF Placed, Queued
<1>4. k \in Jobs /\ k.status = job[c].status /\ k.task = "created"
  <2>1. job[c] \in Jobs
    BY <1>1, <1>2 DEF Typed
  <2>2. QED
    BY <2>1 DEF Jobs
<1>5. job' = [job EXCEPT ![c] = k] /\ queue' = Tail(queue)
  BY <1>0, <1>1, <1>2 DEF Dispatch, Typed
<1> HIDE DEF k
<1>6. /\ job' \in [Calls -> Jobs] /\ job'[c] = k
      /\ \A d \in Calls \ {c} : job'[d] = job[d]
  BY <1>1, <1>2, <1>4, <1>5 DEF Typed
<1>7. /\ UNCHANGED <<mode, waits, registry, since, unfinished, slots, scheduler, call,
                     outlived>>
      /\ dispatcher = "get" /\ dispatcher' = "slot"
  BY DEF Dispatch
<1>8. Typed'
  BY <1>1, <1>2, <1>5, <1>6, <1>7 DEF Typed
<1>9. ~Queued(c)' /\ \A d \in Calls \ {c} : Queued(d)' <=> Queued(d)
  <2>1. ~Queued(c)'
    BY <1>1, <1>2, <1>5 DEF Queued, Placed
  <2>2. ASSUME NEW d \in Calls \ {c}
        PROVE  Queued(d)' <=> Queued(d)
    <3>1. Queued(d)' => Queued(d)
      BY <1>2, <1>5 DEF Queued
    <3>2. ASSUME NEW i \in 1..Len(queue), queue[i] = d
          PROVE  i - 1 \in 1..Len(Tail(queue)) /\ Tail(queue)[i - 1] = d
      <4>1. i # 1
        BY <1>2, <2>2, <3>2
      <4>2. i - 1 \in 1..Len(Tail(queue)) /\ (i - 1) + 1 = i
        BY <1>2, <4>1
      <4>3. QED
        BY <1>2, <3>2, <4>2
    <3>3. QED
      BY <1>5, <3>1, <3>2 DEF Queued
  <2>3. QED
    BY <2>1, <2>2
<1>10. Alive(c)' /\ ~Alive(c) /\ c \notin Lost
       /\ \A d \in Calls \ {c} : Alive(d)' <=> Alive(d)
  BY <1>2, <1>3, <1>4, <1>6 DEF Alive, Lost
<1>11. Attending'
  <2>1. JobsStay /\ Evicts
    BY <1>4, <1>6, <1>7 DEF JobsStay, Evicts, Ended
  <2>2. QED
    BY <1>1, <1>7, <2>1, AttendingKept DEF Attending
<1>12. Placed'
  <2>1. call[c].pc \notin {"new", "entered", "putting"}
    BY <1>1, <1>2, <1>3 DEF Placed
  <2>2. (\A d \in Calls : call[d].pc \in {"new", "entered"} => job[d].status = "none")'
    BY <1>1, <1>6, <1>7, <2>1 DEF Placed
  <2>3. (\A d \in Calls : call[d].pc \in {"new", "entered", "putting"}
                           => job[d].task = "none" /\ ~Queued(d))'
    BY <1>1, <1>6, <1>7, <1>9, <2>1 DEF Placed
  <2>4. (\A i \in 1..Len(queue) : job[queue[i]].task = "none")'
    <3> SUFFICES ASSUME NEW i \in 1..Len(Tail(queue))
                 PROVE  job'[Tail(queue)[i]].task = "none"
      BY <1>5
    <3>1. queue[i + 1] \in Calls \ {c} /\ i + 1 \in 1..Len(queue)
      BY <1>1, <1>2 DEF Placed
    <3>2. QED
      BY <1>1, <1>2, <1>6, <3>1 DEF Placed
  <2>5. (\A i, m \in 1..Len(queue) : queue[i] = queue[m] => i = m)'
    BY <1>1, <1>2, <1>5 DEF Placed
  <2>6. (\A d \in Calls : Queued(d) \/ Alive(d) \/ call[d].pc = "putting"
                           => job[d].status # "none")'
    BY <1>1, <1>3, <1>4, <1>6, <1>7, <1>9, <1>10 DEF Placed
  <2>7. QED
    BY <2>2, <2>3, <2>4, <2>5, <2>6 DEF Placed
<1>13. SlotsAccounted'
  <2>1. Holding' = Holding \cup {c} /\ c \notin Holding /\ Lost' = Lost
    BY <1>2, <1>3, <1>4, <1>6, <1>10 DEF Holding, Lost
  <2>2. Cardinality(Holding') = Cardinality(Holding) + 1
    BY <2>1, HoldingFinite, FS_AddElement
  <2>3. slots \in Nat /\ unfinished \in Int /\ Slots \in Nat
        /\ Len(queue') = Len(queue) - 1 /\ Cardinality(Lost') = Cardinality(Lost)
    BY <1>1, <1>2, <1>5, <2>1, JobsAssumption DEF Typed
  <2>4. /\ slots + Cardinality(Holding) + Cardinality(Lost) + 1 = Slots
        /\ unfinished = Len(queue) + Cardinality(Holding) + Cardinality(Lost)
    BY <1>7 DEF SlotsAccounted, Inv
  <2>5. /\ slots' + Cardinality(Holding') + Cardinality(Lost') + 0 = Slots
        /\ unfinished' = Len(queue') + Cardinality(Holding') + Cardinality(Lost')
    <3>1. slots' = slots /\ unfinished' = unfinished
      BY <1>7
    <3>2. Cardinality(Holding) \in Nat /\ Cardinality(Lost) \in Nat /\ Len(queue) \in Nat
      BY <1>2, HoldingFinite
    <3>3. slots' + Cardinality(Holding') + Cardinality(Lost') + 0 = Slots
      BY <2>2, <2>3, <2>4, <3>1, <3>2
    <3>4. unfinished' = Len(queue') + Cardinality(Holding') + Cardinality(Lost')
      BY <2>2, <2>3, <2>4, <3>1, <3>2
    <3>5. QED
      BY <3>3, <3>4
  <2>6. QED
    BY <1>7, <2>5 DEF SlotsAccounted
<1>14. Stopping'
  <2>1. \A d \in Calls : Live(d)' <=> Live(d)
    BY <1>4, <1>6 DEF Live
  <2>2. \A d \in Calls : d \in Lost' <=> d \in Lost
    BY <1>3, <1>4, <1>6 DEF Lost
  <2>3. scheduler \notin {"gathering", "stopped"}
    BY <1>1, <1>7 DEF Stopping
  <2>4. QED
    BY <1>1, <1>7, <1>9, <1>10, <2>1, <2>2, <2>3 DEF Stopping
<1>15. Kept
  BY <1>4, <1>6 DEF Kept, Ended, Live
<1>16. TypeOK'
  BY <1>8, <1>13, TypesComplete, PTL
<1>17. QED
  BY <1>11, <1>12, <1>13, <1>14, <1>15, <1>16 DEF Inv

LEMMA Enqueued ==
    ASSUME Typed, Placed, NEW c \in Calls, ~Queued(c), queue' = Append(queue, c)
    PROVE  /\ queue' \in Seq(Calls) /\ Len(queue') = Len(queue) + 1
           /\ \A i \in 1..Len(queue') : IF i \in 1..Len(queue) THEN queue'[i] = queue[i]
                                         ELSE queue'[i] = c
           /\ Queued(c)'
           /\ \A d \in Calls \ {c} : Queued(d)' <=> Queued(d)
           /\ \A i, k \in 1..Len(queue') : queue'[i] = queue'[k] => i = k
<1>1. queue \in Seq(Calls) /\ Len(queue) \in Nat
  BY DEF Typed
<1>2. /\ queue' \in Seq(Calls) /\ Len(queue') = Len(queue) + 1
      /\ \A i \in 1..Len(queue') : IF i \in 1..Len(queue) THEN queue'[i] = queue[i]
                                    ELSE queue'[i] = c
  BY <1>1
<1>3. Queued(c)'
  <2>1. Len(queue) + 1 \in 1..Len(queue') /\ queue'[Len(queue) + 1] = c
    BY <1>1, <1>2
  <2>2. QED
    BY <2>1 DEF Queued
<1>4. ASSUME NEW d \in Calls \ {c}
      PROVE  Queued(d)' <=> Queued(d)
  <2>1. Queued(d)' => Queued(d)
    BY <1>1, <1>2, <1>4 DEF Queued
  <2>2. Queued(d) => Queued(d)'
    BY <1>1, <1>2 DEF Queued
  <2>3. QED
    BY <2>1, <2>2
<1>5. \A i \in 1..Len(queue) : queue[i] # c
  BY DEF Queued
<1>6. \A i, k \in 1..Len(queue') : queue'[i] = queue'[k] => i = k
  BY <1>1, <1>2, <1>5 DEF Placed
<1>7. QED
  BY <1>2, <1>3, <1>4, <1>6

\* No task moves, and what is put is counted.
LEMMA AccountKept ==
    ASSUME Typed, SlotsAccounted,
           \A d \in Calls : job'[d].task = job[d].task,
           slots' = slots, dispatcher' = dispatcher,
           Len(queue') \in Nat,
           unfinished' = unfinished + (Len(queue') - Len(queue))
    PROVE  SlotsAccounted'
<1>1. Holding' = Holding /\ Lost' = Lost
  BY DEF Holding, Lost, Alive
<1>2. /\ Cardinality(Holding) \in Nat /\ Cardinality(Lost) \in Nat
      /\ Len(queue) \in Nat /\ slots \in Nat /\ unfinished \in Int
  BY HoldingFinite DEF Typed
<1>3. Cardinality(Holding') = Cardinality(Holding) /\ Cardinality(Lost') = Cardinality(Lost)
  BY <1>1
<1>4. unfinished = Len(queue) + Cardinality(Holding) + Cardinality(Lost)
  BY DEF SlotsAccounted
<1>5. unfinished' = Len(queue') + Cardinality(Holding') + Cardinality(Lost')
  BY <1>2, <1>3, <1>4
<1>6. QED
  BY <1>3, <1>5 DEF SlotsAccounted

LEMMA PutKeeps ==
    ASSUME Inv, NEW c \in Calls, Put(c)
    PROVE  Inv' /\ Kept
<1>1. Typed /\ Attending /\ Placed /\ Stopping
  BY InvTyped
<1>2. ~Queued(c) /\ job[c].task = "none" /\ job[c].status # "none" /\ waits
  BY <1>1 DEF Put, Placed, Stopping
<1>3. UNCHANGED <<mode, waits, job, registry, since, slots, dispatcher, scheduler,
                  outlived>>
      /\ queue' = Append(queue, c) /\ unfinished' = unfinished + 1
  BY DEF Put
<1>4. /\ queue' \in Seq(Calls) /\ Len(queue') = Len(queue) + 1 /\ Len(queue) \in Nat
      /\ \A i \in 1..Len(queue') : IF i \in 1..Len(queue) THEN queue'[i] = queue[i]
                                    ELSE queue'[i] = c
      /\ Queued(c)' /\ \A d \in Calls \ {c} : Queued(d)' <=> Queued(d)
      /\ \A i, k \in 1..Len(queue') : queue'[i] = queue'[k] => i = k
  BY <1>1, <1>2, <1>3, Enqueued DEF Typed
<1> DEFINE k == [call[c] EXCEPT !.pc = IF Streams(c) /\ Ended(job[c]) THEN "draining"
                                       ELSE "waiting"]
<1>5. /\ k \in CallRecords /\ k.pc \in {"waiting", "draining"} /\ k.job = call[c].job
      /\ k.pc = "draining" => Ended(job[c])
  BY <1>1 DEF Typed, CallRecords
<1>6. call' = [call EXCEPT ![c] = k]
  BY <1>1 DEF Put, Typed
<1> HIDE DEF k
<1>7. /\ call' \in [Calls -> CallRecords] /\ call'[c] = k
      /\ \A d \in Calls \ {c} : call'[d] = call[d]
  BY <1>1, <1>5, <1>6 DEF Typed
<1>8. Typed'
  BY <1>1, <1>3, <1>4, <1>7 DEF Typed
<1>9. Attending'
  <2>1. JobsStay /\ Evicts
    BY <1>3 DEF JobsStay, Evicts, Ended
  <2>2. call[c].job \in Calls /\ job[call[c].job].status # "none"
    BY <1>1 DEF Put, Attending
  <2>3. QED
    BY <1>1, <1>5, <1>7, <2>1, <2>2, AttendingKept DEF Attending
<1>10. Placed'
  <2>1. \A d \in Calls : Alive(d)' <=> Alive(d)
    BY <1>3 DEF Alive
  <2>2. (\A i \in 1..Len(queue) : job[queue[i]].task = "none")'
    BY <1>1, <1>2, <1>3, <1>4 DEF Placed
  <2>3. QED
    BY <1>1, <1>2, <1>3, <1>4, <1>5, <1>7, <2>1, <2>2 DEF Placed
<1>11. SlotsAccounted'
  <2>1. unfinished' = unfinished + (Len(queue') - Len(queue))
    BY <1>1, <1>3, <1>4 DEF Typed
  <2>2. QED
    BY <1>1, <1>3, <1>4, <2>1, AccountKept DEF Inv
<1>12. Stopping' /\ Kept
  BY <1>1, <1>2, <1>3 DEF Stopping, Kept, Alive, Live, Ended
<1>13. TypeOK'
  BY <1>8, <1>11, TypesComplete, PTL
<1>14. QED
  BY <1>9, <1>10, <1>11, <1>12, <1>13 DEF Inv

\* A job comes to life under a name that had none.
LEMMA CreateKeeps ==
    ASSUME Inv, NEW c \in Calls, Create(c)
    PROVE  Inv' /\ \A d \in Calls : Ended(job[d]) => job'[d].status = job[d].status
<1>1. Typed /\ Attending /\ Placed /\ Stopping
  BY InvTyped
<1>2. job[c].status = "none" /\ job[c].task = "none" /\ ~Queued(c)
  BY <1>1 DEF Create, Placed
<1> DEFINE r        == RequestOf[c]
           full     == Len(queue) >= QueueDepth
           rejected == scheduler # "up" \/ (full /\ ~waits)
           new      == IF rejected THEN Settled(NewJob, "error") ELSE NewJob
           k        == IF rejected
                       THEN [call[c] EXCEPT !.pc = "done", !.outcome = "rejected", !.job = c]
                       ELSE [call[c] EXCEPT !.pc = IF full THEN "putting" ELSE "waiting",
                                            !.job = c]
<1>3. /\ registry' = [Pruned EXCEPT ![r] = c]
      /\ job' = [job EXCEPT ![c] = new]
      /\ since' = [Unexpired EXCEPT ![r] = IF rejected /\ ~Streams(c) THEN "fresh" ELSE @]
      /\ call' = [call EXCEPT ![c] = k]
      /\ UNCHANGED <<mode, waits, slots, dispatcher, scheduler, outlived>>
  BY DEF Create
<1>4. \/ /\ rejected \/ full
         /\ UNCHANGED <<queue, unfinished>>
      \/ /\ ~rejected /\ ~full
         /\ queue' = Append(queue, c) /\ unfinished' = unfinished + 1
  BY DEF Create
<1>5. /\ new \in Jobs /\ new.task = "none" /\ new.status # "none"
      /\ rejected => Ended(new)
  BY NewTyped, SettledTyped DEF Terminal, Ended
<1>6. /\ k \in CallRecords /\ k.job = c /\ k.pc \in {"done", "putting", "waiting"}
      /\ k.pc = "putting" => full /\ waits
      /\ k.pc = "waiting" => ~full
      /\ rejected <=> k.pc = "done"
      /\ ~rejected => scheduler = "up"
  BY <1>1 DEF Typed, CallRecords
<1>7. r \in Requests
  BY JobsAssumption
<1> HIDE DEF r, full, rejected, new, k
<1>8. /\ job' \in [Calls -> Jobs] /\ job'[c] = new
      /\ \A d \in Calls \ {c} : job'[d] = job[d]
      /\ call' \in [Calls -> CallRecords] /\ call'[c] = k
      /\ \A d \in Calls \ {c} : call'[d] = call[d]
  BY <1>1, <1>3, <1>5, <1>6 DEF Typed
<1>9. /\ registry' \in [Requests -> Calls \cup {NoCall}]
      /\ since' \in [Requests -> {"none", "fresh", "old"}]
      /\ registry'[r] = c
      /\ \A q \in Requests \ {r} : registry'[q] \in {registry[q], NoCall}
  BY <1>1, <1>3, <1>7, PrunedTyped DEF Pruned
<1>10. /\ queue' \in Seq(Calls) /\ Len(queue') \in Nat
       /\ unfinished' = unfinished + (Len(queue') - Len(queue))
       /\ \A i, m \in 1..Len(queue') : queue'[i] = queue'[m] => i = m
       /\ \A d \in Calls \ {c} : Queued(d)' <=> Queued(d)
       /\ Queued(c)' <=> ~rejected /\ ~full
       /\ \A i \in 1..Len(queue') :
             \/ i \in 1..Len(queue) /\ queue'[i] = queue[i]
             \/ queue'[i] = c
  <2>1. CASE (rejected \/ full) /\ UNCHANGED <<queue, unfinished>>
    <3>1. \A d \in Calls : Queued(d)' <=> Queued(d)
      BY <2>1 DEF Queued
    <3>2. Len(queue) \in Nat /\ unfinished' = unfinished + (Len(queue') - Len(queue))
      BY <1>1, <2>1 DEF Typed
    <3>3. QED
      BY <1>1, <1>2, <2>1, <3>1, <3>2 DEF Typed, Placed
  <2>2. CASE /\ ~rejected /\ ~full
             /\ queue' = Append(queue, c) /\ unfinished' = unfinished + 1
    <3>1. /\ queue' \in Seq(Calls) /\ Len(queue') = Len(queue) + 1
          /\ \A i \in 1..Len(queue') : IF i \in 1..Len(queue) THEN queue'[i] = queue[i]
                                        ELSE queue'[i] = c
          /\ Queued(c)' /\ \A d \in Calls \ {c} : Queued(d)' <=> Queued(d)
          /\ \A i, m \in 1..Len(queue') : queue'[i] = queue'[m] => i = m
      BY <1>1, <1>2, <2>2, Enqueued
    <3>2. Len(queue) \in Nat /\ Len(queue') \in Nat
          /\ unfinished' = unfinished + (Len(queue') - Len(queue))
      BY <1>1, <2>2, <3>1 DEF Typed
    <3>3. QED
      BY <2>2, <3>1, <3>2
  <2>3. QED
    BY <1>4, <2>1, <2>2
<1>11. Typed'
  <2>1. unfinished' \in Int
    BY <1>1, <1>10 DEF Typed
  <2>2. QED
    BY <1>1, <1>3, <1>8, <1>9, <1>10, <2>1 DEF Typed
<1>12. \A d \in Calls : /\ job'[d].task = job[d].task
                        /\ Alive(d)' <=> Alive(d)
                        /\ Ended(job[d]) => job'[d].status = job[d].status
  BY <1>2, <1>5, <1>8 DEF Alive, Ended, Terminal
<1>13. Attending'
  <2>1. (\A q \in Requests : registry[q] # NoCall => job[registry[q]].status # "none")'
    <3> SUFFICES ASSUME NEW q \in Requests, registry'[q] # NoCall
                 PROVE  job'[registry'[q]].status # "none"
      OBVIOUS
    <3>1. CASE q = r
      BY <1>5, <1>8, <1>9, <3>1
    <3>2. CASE q # r
      <4>1. registry'[q] = registry[q] /\ registry[q] \in Calls
        BY <1>1, <1>9, <3>2 DEF Typed
      <4>2. job[registry[q]].status # "none"
        BY <1>1, <4>1 DEF Attending
      <4>3. registry[q] # c
        BY <1>2, <4>2
      <4>4. QED
        BY <1>8, <4>1, <4>2, <4>3
    <3>3. QED
      BY <3>1, <3>2
  <2>2. \A d \in Calls : job[d].status # "none" => job'[d].status # "none"
    BY <1>2, <1>8
  <2>3. QED
    BY <1>1, <1>5, <1>6, <1>8, <1>12, <2>1, <2>2 DEF Attending, Ended
<1>14. Placed'
  <2>1. (\A d \in Calls : call[d].pc \in {"new", "entered"} => job[d].status = "none")'
    BY <1>1, <1>6, <1>8 DEF Placed
  <2>2. (\A d \in Calls : call[d].pc \in {"new", "entered", "putting"}
                           => job[d].task = "none" /\ ~Queued(d))'
    BY <1>1, <1>2, <1>5, <1>6, <1>8, <1>10 DEF Placed
  <2>3. (\A i \in 1..Len(queue) : job[queue[i]].task = "none")'
    BY <1>1, <1>2, <1>8, <1>10, <1>12 DEF Placed, Typed
  <2>4. (\A d \in Calls : Queued(d) \/ Alive(d) \/ call[d].pc = "putting"
                           => job[d].status # "none")'
    BY <1>1, <1>5, <1>8, <1>10, <1>12 DEF Placed
  <2>5. QED
    BY <1>10, <2>1, <2>2, <2>3, <2>4 DEF Placed
<1>15. SlotsAccounted'
  BY <1>1, <1>3, <1>10, <1>12, AccountKept DEF Inv
<1>16. Stopping'
  <2>1. /\ \A d \in Calls \ {c} : /\ Live(d)' <=> Live(d)
                                  /\ d \in Lost' <=> d \in Lost
        /\ Live(c)' => ~rejected
    BY <1>5, <1>8 DEF Live, Lost, Ended
  <2>2. ~waits => /\ \A d \in Calls : call'[d].pc # "putting"
                  /\ Live(c)' => Queued(c)'
    BY <1>1, <1>6, <1>8, <1>10, <2>1 DEF Stopping
  <2>3. dispatcher = "off" => queue' = queue
    BY <1>1, <1>4, <1>6 DEF Stopping
  <2>4. QED
    BY <1>1, <1>3, <1>10, <1>12, <2>1, <2>2, <2>3 DEF Stopping
<1>17. TypeOK'
  BY <1>11, <1>15, TypesComplete, PTL
<1>18. QED
  BY <1>12, <1>13, <1>14, <1>15, <1>16, <1>17 DEF Inv

-----------------------------------------------------------------------------
(* Shutdown *)

\* Nothing but the scheduler's own state changes.
LEMMA SchedulerOnly ==
    ASSUME Inv, UNCHANGED <<mode, waits, job, registry, since, queue, unfinished, call,
                       outlived>>,
           slots' \in Nat, dispatcher' \in {"slot", "get", "off"},
           scheduler' \in {"up", "joining", "gathering", "stopped"},
           slots' + (IF dispatcher' = "get" THEN 1 ELSE 0)
             = slots + (IF dispatcher = "get" THEN 1 ELSE 0)
    PROVE  TypeOK' /\ Placed' /\ Attending' /\ SlotsAccounted' /\ Kept
<1>1. Typed /\ Attending /\ Placed
  BY InvTyped
<1>2. Typed' /\ Attending' /\ Placed' /\ Kept
  BY <1>1 DEF Typed, Attending, Placed, Queued, Alive, Ended, Kept, Live
<1>3. Holding' = Holding /\ Lost' = Lost
  BY DEF Holding, Lost, Alive
<1>4. SlotsAccounted'
  <2>1. Cardinality(Holding') = Cardinality(Holding) /\ Cardinality(Lost') = Cardinality(Lost)
    BY <1>3
  <2>2. Cardinality(Holding) \in Nat /\ Cardinality(Lost) \in Nat
    BY HoldingFinite
  <2>3. slots \in Nat
    BY <1>1 DEF Typed
  <2>4. SlotsAccounted
    BY DEF Inv
  <2>5. slots' + Cardinality(Holding') + Cardinality(Lost')
          + (IF dispatcher' = "get" THEN 1 ELSE 0) = Slots
    <3>1. PICK x \in Nat : x = IF dispatcher = "get" THEN 1 ELSE 0
      OBVIOUS
    <3>2. PICK y \in Nat : y = IF dispatcher' = "get" THEN 1 ELSE 0
      OBVIOUS
    <3>3. slots' + y = slots + x
      BY <3>1, <3>2
    <3>4. slots + Cardinality(Holding) + Cardinality(Lost) + x = Slots
      BY <2>4, <3>1 DEF SlotsAccounted
    <3>5. slots' + Cardinality(Holding) + Cardinality(Lost) + y = Slots
      <4>1. PICK h \in Nat, l \in Nat : h = Cardinality(Holding) /\ l = Cardinality(Lost)
        BY <2>2
      <4>2. PICK a \in Nat, b \in Nat : a = slots /\ b = slots'
        BY <2>3
      <4>3. a + h + l + x = Slots /\ b + y = a + x /\ Slots \in Nat
        BY <3>3, <3>4, <4>1, <4>2, JobsAssumption
      <4>4. b + h + l + y = Slots
        BY <4>3
      <4>5. QED
        BY <4>1, <4>2, <4>4
    <3>6. QED
      BY <2>1, <3>2, <3>5
  <2>6. unfinished' = Len(queue') + Cardinality(Holding') + Cardinality(Lost')
    BY <2>1, <2>4 DEF SlotsAccounted
  <2>7. QED
    BY <2>5, <2>6 DEF SlotsAccounted
<1>5. TypeOK'
  BY <1>2, <1>4, TypesComplete, PTL
<1>6. QED
  BY <1>2, <1>4, <1>5

LEMMA StopKeeps ==
    ASSUME Inv, Stop
    PROVE  Inv' /\ Kept
<1>1. Typed /\ Stopping
  BY InvTyped
<1>2. /\ UNCHANGED <<mode, waits, job, registry, since, queue, unfinished, slots,
                     dispatcher, call, outlived>>
      /\ scheduler = "up" /\ scheduler' = "joining"
  BY DEF Stop
<1>3. TypeOK' /\ Placed' /\ Attending' /\ SlotsAccounted' /\ Kept
  BY <1>1, <1>2, SchedulerOnly DEF Typed
<1>4. Stopping'
  BY <1>1, <1>2 DEF Stopping, Live, Alive, Queued, Lost, Ended
<1>5. QED
  BY <1>3, <1>4 DEF Inv

LEMMA StopEndsKeeps ==
    ASSUME Inv, StopEnds
    PROVE  Inv' /\ Kept
<1>1. Typed /\ Stopping
  BY InvTyped
<1>2. /\ UNCHANGED <<mode, waits, job, registry, since, queue, unfinished, slots,
                     dispatcher, call, outlived>>
      /\ scheduler = "gathering" /\ scheduler' = "stopped"
      /\ \A c \in Calls : ~Alive(c)
  BY DEF StopEnds
<1>3. TypeOK' /\ Placed' /\ Attending' /\ SlotsAccounted' /\ Kept
  BY <1>1, <1>2, SchedulerOnly DEF Typed
<1>4. Stopping'
  BY <1>1, <1>2 DEF Stopping, Live, Alive, Queued, Lost, Ended
<1>5. QED
  BY <1>3, <1>4 DEF Inv

\* Nothing is queued and no task runs when the join returns.
LEMMA StopJoinedKeeps ==
    ASSUME Inv, StopJoined
    PROVE  Inv' /\ Kept
<1>1. Typed /\ Stopping /\ SlotsAccounted
  BY InvTyped DEF Inv
<1>2. /\ UNCHANGED <<mode, waits, job, registry, since, queue, unfinished, call,
                   outlived>>
      /\ scheduler = "joining" /\ scheduler' = "gathering" /\ unfinished = 0
      /\ dispatcher' = "off"
      /\ slots' = IF dispatcher = "get" THEN slots + 1 ELSE slots
  BY DEF StopJoined, DispatcherEnds
<1>3. TypeOK' /\ Placed' /\ Attending' /\ SlotsAccounted' /\ Kept
  <2>1. slots \in Nat /\ slots' \in Nat
    BY <1>1, <1>2 DEF Typed
  <2>2. slots' + (IF dispatcher' = "get" THEN 1 ELSE 0)
          = slots + (IF dispatcher = "get" THEN 1 ELSE 0)
    BY <1>2, <2>1
  <2>3. QED
    BY <1>2, <2>1, <2>2, SchedulerOnly
<1>4. queue = <<>>
  <2>1. Len(queue) \in Nat /\ queue \in Seq(Calls)
    BY <1>1 DEF Typed
  <2>2. Len(queue) = 0
    BY <1>1, <1>2, <2>1, HoldingFinite DEF SlotsAccounted
  <2>3. QED
    BY <2>1, <2>2
<1>5. Stopping'
  BY <1>1, <1>2, <1>4 DEF Stopping, Live, Alive, Queued, Lost, Ended
<1>6. QED
  BY <1>3, <1>5 DEF Inv

LEMMA StopTimesOutKeeps ==
    ASSUME Inv, StopTimesOut
    PROVE  Inv' /\ Kept
<1>1. Typed /\ Attending /\ Placed /\ Stopping /\ SlotsAccounted
  BY InvTyped DEF Inv
<1>2. /\ UNCHANGED <<mode, waits, registry, since, call, outlived>>
      /\ scheduler = "joining" /\ scheduler' = "gathering"
      /\ queue' = <<>> /\ unfinished' = unfinished - Len(queue)
      /\ dispatcher' = "off"
      /\ slots' = IF dispatcher = "get" THEN slots + 1 ELSE slots
  BY DEF StopTimesOut, DispatcherEnds
<1>3. job' = [c \in Calls |-> CASE Queued(c) -> Cancelled(job[c])
                                [] Alive(c)  -> [job[c] EXCEPT !.cancelling = TRUE]
                                [] OTHER     -> job[c]]
  BY DEF StopTimesOut
<1>4. ASSUME NEW d \in Calls
      PROVE  /\ job'[d] \in Jobs /\ job'[d].task = job[d].task
             /\ Queued(d) => Ended(job'[d])
             /\ Ended(job[d]) \/ ~Queued(d) => job'[d].status = job[d].status
             /\ job'[d].status = "none" => job[d].status = "none"
             /\ job[d].status = "none" => job'[d].status = "none"
  <2>1. job[d] \in Jobs
    BY <1>1 DEF Typed
  <2>2. CASE Queued(d)
    <3>0. ~Alive(d)
      BY <1>1, <2>2 DEF Placed, Queued, Alive
    <3>1. job'[d] = Cancelled(job[d])
      BY <1>3, <2>2, <3>0
    <3>2. job[d].status # "none"
      BY <1>1, <2>2 DEF Placed
    <3>3. QED
      BY <2>1, <2>2, <3>1, <3>2, CancelledTyped DEF Ended, Terminal
  <2>3. CASE ~Queued(d) /\ Alive(d)
    <3>1. job'[d] = [job[d] EXCEPT !.cancelling = TRUE]
      BY <1>3, <2>3
    <3>2. QED
      BY <2>1, <2>3, <3>1 DEF Jobs
  <2>4. CASE ~Queued(d) /\ ~Alive(d)
    <3>1. job'[d] = job[d]
      BY <1>3, <2>4
    <3>2. QED
      BY <2>1, <2>4, <3>1
  <2>5. QED
    BY <2>2, <2>3, <2>4
<1>5. job' \in [Calls -> Jobs]
  BY <1>3, <1>4
<1>6. Len(queue) \in Nat /\ slots \in Nat /\ slots' \in Nat /\ unfinished' \in Int
      /\ queue' \in Seq(Calls) /\ Len(queue') = 0
  BY <1>1, <1>2 DEF Typed
<1>7. Typed'
  BY <1>1, <1>2, <1>5, <1>6 DEF Typed
<1>8. \A d \in Calls : /\ Alive(d)' <=> Alive(d)
                       /\ d \in Lost' <=> d \in Lost
                       /\ ~Queued(d)'
  BY <1>2, <1>4, <1>6 DEF Alive, Lost, Queued
<1>9. Attending'
  <2>1. JobsStay /\ Evicts
    BY <1>2, <1>4 DEF JobsStay, Evicts, Ended
  <2>2. QED
    BY <1>1, <1>2, <2>1, AttendingKept DEF Attending
<1>10. Placed'
  BY <1>1, <1>2, <1>4, <1>6, <1>8 DEF Placed
<1>11. SlotsAccounted'
  <2>1. Holding' = Holding /\ Lost' = Lost
    BY <1>4 DEF Holding, Lost, Alive
  <2>2. Cardinality(Holding') = Cardinality(Holding) /\ Cardinality(Lost') = Cardinality(Lost)
    BY <2>1
  <2>3. Cardinality(Holding) \in Nat /\ Cardinality(Lost) \in Nat
    BY HoldingFinite
  <2>4. slots' + Cardinality(Holding') + Cardinality(Lost')
          + (IF dispatcher' = "get" THEN 1 ELSE 0) = Slots
    BY <1>1, <1>2, <1>6, <2>2, <2>3 DEF SlotsAccounted
  <2>5. unfinished' = Len(queue') + Cardinality(Holding') + Cardinality(Lost')
    BY <1>1, <1>2, <1>6, <2>2, <2>3 DEF SlotsAccounted
  <2>6. QED
    BY <2>4, <2>5 DEF SlotsAccounted
<1>12. Kept
  BY <1>4 DEF Kept, Live, Ended, Terminal
<1>13. Stopping'
  <2>1. \A d \in Calls : Live(d)' => Live(d) /\ ~Queued(d)
    BY <1>4, <1>12 DEF Live, Kept, Ended
  <2>2. QED
    BY <1>1, <1>2, <1>8, <2>1 DEF Stopping
<1>14. TypeOK'
  BY <1>7, <1>11, TypesComplete, PTL
<1>15. QED
  BY <1>9, <1>10, <1>11, <1>12, <1>13, <1>14 DEF Inv

-----------------------------------------------------------------------------
(* The theorems *)

OutcomesKept == \A d \in Calls : Ended(job[d]) => job'[d].status = job[d].status

LEMMA InitInv ==
    ASSUME Init
    PROVE  Inv
<1>1. job = [c \in Calls |-> NoJob] /\ call = [c \in Calls |-> NewCall]
  BY DEF Init
<1>2. NewCall \in CallRecords /\ NewCall.pc = "new"
  BY DEF NewCall, CallRecords
<1>3. Typed
  <2>1. job \in [Calls -> Jobs] /\ call \in [Calls -> CallRecords]
    BY <1>1, <1>2, NewTyped
  <2>2. mode \in [Requests -> {"unary", "stream"}] /\ waits \in BOOLEAN
    BY JobsAssumption DEF Init
  <2>3. /\ registry \in [Requests -> Calls \cup {NoCall}]
        /\ since \in [Requests -> {"none", "fresh", "old"}]
        /\ outlived \subseteq Calls
    BY DEF Init
  <2>4. /\ queue \in Seq(Calls) /\ unfinished \in Int /\ slots \in Nat
        /\ dispatcher \in {"slot", "get", "off"}
        /\ scheduler \in {"up", "joining", "gathering", "stopped"}
    BY JobsAssumption DEF Init
  <2>5. QED
    BY <2>1, <2>2, <2>3, <2>4 DEF Typed
<1>4. \A c \in Calls : /\ ~Alive(c) /\ ~Live(c) /\ ~Queued(c)
                       /\ job[c].status = "none" /\ job[c].task = "none"
                       /\ call[c].pc = "new"
  BY <1>1, <1>2, NewTyped DEF Alive, Live, Queued, Init
<1>5. Placed /\ Attending /\ Stopping
  <2>1. Len(queue) = 0 /\ queue = <<>> /\ dispatcher = "slot" /\ scheduler = "up"
        /\ \A r \in Requests : registry[r] = NoCall
    BY DEF Init
  <2>2. QED
    BY <1>4, <2>1 DEF Placed, Attending, Stopping
<1>6. SlotsAccounted
  <2>1. Holding = {} /\ Lost = {}
    BY <1>4 DEF Holding, Lost
  <2>2. Cardinality(Holding) = 0 /\ Cardinality(Lost) = 0
    BY <2>1, FS_EmptySet
  <2>3. QED
    BY <2>2, JobsAssumption DEF SlotsAccounted, Init
<1>7. QED
  BY <1>3, <1>5, <1>6, TypesComplete DEF Inv

LEMMA StutterKeeps ==
    ASSUME Inv, UNCHANGED vars
    PROVE  Inv' /\ OutcomesKept
BY DEF vars, Inv, TypeOK, Placed, Attending, SlotsAccounted, Stopping, Holding, Lost,
       Alive, Live, Queued, Ended, OutcomesKept

LEMMA CallKeeps ==
    ASSUME Inv, NEW c \in Calls, CallStep(c)
    PROVE  Inv' /\ OutcomesKept
<1>1. CASE Join(c)         BY <1>1, JoinKeeps DEF Kept, OutcomesKept
<1>2. CASE Create(c)       BY <1>2, CreateKeeps DEF OutcomesKept
<1>3. CASE Put(c)          BY <1>3, PutKeeps DEF Kept, OutcomesKept
<1>4. CASE PutTimesOut(c)  BY <1>4, PutTimesOutKeeps DEF Kept, OutcomesKept
<1>5. CASE Answer(c)       BY <1>5, AnswerKeeps DEF Kept, OutcomesKept
<1>6. CASE Read(c)         BY <1>6, ReadKeeps DEF Kept, OutcomesKept
<1>7. CASE Finish(c)       BY <1>7, FinishKeeps DEF Kept, OutcomesKept
<1>8. QED
  BY <1>1, <1>2, <1>3, <1>4, <1>5, <1>6, <1>7 DEF CallStep

LEMMA TaskKeeps ==
    ASSUME Inv, NEW c \in Calls, TaskStep(c)
    PROVE  Inv' /\ Kept
<1>1. CASE TaskStarts(c)     BY <1>1, TaskStartsKeeps
<1>2. CASE TaskDropped(c)    BY <1>2, TaskDroppedKeeps
<1>3. CASE TaskInvokes(c)    BY <1>3, TaskInvokesKeeps
<1>4. CASE TaskPublishes(c)  BY <1>4, TaskPublishesKeeps
<1>5. CASE TaskPuts(c)       BY <1>5, TaskPutsKeeps
<1>6. CASE TaskCompletes(c)  BY <1>6, TaskCompletesKeeps
<1>7. CASE TaskFails(c)      BY <1>7, TaskFailsKeeps
<1>8. CASE TaskUnwinds(c)    BY <1>8, TaskUnwindsKeeps
<1>9. QED
  BY <1>1, <1>2, <1>3, <1>4, <1>5, <1>6, <1>7, <1>8 DEF TaskStep

LEMMA StopStepKeeps ==
    ASSUME Inv, StopStep
    PROVE  Inv' /\ Kept
<1>1. CASE StopJoined    BY <1>1, StopJoinedKeeps
<1>2. CASE StopTimesOut  BY <1>2, StopTimesOutKeeps
<1>3. CASE StopEnds      BY <1>3, StopEndsKeeps
<1>4. QED
  BY <1>1, <1>2, <1>3 DEF StopStep

LEMMA NextKeeps ==
    ASSUME Inv, [Next]_vars
    PROVE  Inv' /\ OutcomesKept
<1>1. ASSUME NEW c \in Calls, Enter(c)
      PROVE  Inv' /\ OutcomesKept
  BY <1>1, EnterKeeps DEF Kept, OutcomesKept
<1>2. ASSUME NEW c \in Calls, CallStep(c)
      PROVE  Inv' /\ OutcomesKept
  BY <1>2, CallKeeps
<1>3. ASSUME NEW c \in Calls, Leave(c)
      PROVE  Inv' /\ OutcomesKept
  BY <1>3, LeaveKeeps DEF Kept, OutcomesKept
<1>4. ASSUME NEW c \in Calls, Drop(c)
      PROVE  Inv' /\ OutcomesKept
  BY <1>4, DropKeeps DEF Kept, OutcomesKept
<1>5. ASSUME NEW c \in Calls, TaskStep(c)
      PROVE  Inv' /\ OutcomesKept
  BY <1>5, TaskKeeps DEF Kept, OutcomesKept
<1>6. ASSUME NEW r \in Requests, CancelRequest(r)
      PROVE  Inv' /\ OutcomesKept
  BY <1>6, CancelRequestKeeps DEF Kept, OutcomesKept
<1>7. ASSUME NEW r \in Requests, Expires(r)
      PROVE  Inv' /\ OutcomesKept
  BY <1>7, ExpiresKeeps DEF Kept, OutcomesKept
<1>8. CASE TakeSlot  BY <1>8, TakeSlotKeeps DEF Kept, OutcomesKept
<1>9. CASE Dispatch  BY <1>9, DispatchKeeps DEF Kept, OutcomesKept
<1>10. CASE Stop     BY <1>10, StopKeeps DEF Kept, OutcomesKept
<1>11. CASE StopStep BY <1>11, StopStepKeeps DEF Kept, OutcomesKept
<1>12. CASE UNCHANGED vars
  BY <1>12, StutterKeeps
<1>13. QED
  BY <1>1, <1>2, <1>3, <1>4, <1>5, <1>6, <1>7, <1>8, <1>9, <1>10, <1>11, <1>12 DEF Next

\* The inductive invariant: jobs are in one place, what is waited for exists,
\* slots and tasks are counted, and a stopping scheduler leaves nothing behind.
THEOREM Invariant == Spec => []Inv
<1>1. Init => Inv
  BY InitInv
<1>2. Inv /\ [Next]_vars => Inv'
  BY NextKeeps
<1>3. QED
  BY <1>1, <1>2, PTL DEF Spec

\* Every variable has its type.
THEOREM TypeCorrect == Spec => []TypeOK
<1>1. Inv => TypeOK
  BY DEF Inv
<1>2. QED
  BY <1>1, Invariant, PTL

\* Slots and task_done calls balance, whatever cancels, fails or stops a job.
THEOREM SlotsAreAccounted == Spec => []SlotsAccounted
<1>1. Inv => SlotsAccounted
  BY DEF Inv
<1>2. QED
  BY <1>1, Invariant, PTL

\* A stopped scheduler has left no job that could run or be waited for, but
\* for tasks cancelled before their first step.
THEOREM StopLeavesNoJob == Spec => []StopEndsJobs
<1>1. Inv => StopEndsJobs
  BY DEF Inv, StopEndsJobs, Stopping, Queued
<1>2. QED
  BY <1>1, Invariant, PTL

\* No job changes its outcome.
THEOREM OutcomesAreFinal == Spec => OutcomeIsFinal
<1> DEFINE Final == \A c \in Calls : Ended(job[c]) => job'[c].status = job[c].status
<1>1. Inv /\ [Next]_vars => [Final]_vars
  BY NextKeeps DEF OutcomesKept
<1>2. QED
  BY <1>1, Invariant, PTL DEF Spec, OutcomeIsFinal

-----------------------------------------------------------------------------
(* The registry knows every job that is not finished *)

Known == RunningIsRegistered /\ Expiry

\* A step that creates no job, evicts none and lets no timestamp run out.
LEMMA KnownKept ==
    ASSUME Known, Kept, registry' = registry, outlived' = outlived,
           \A r \in Requests : since'[r] = "old" => since[r] = "old"
    PROVE  Known'
<1>1. \A c \in Calls : RequestOf[c] \in Requests /\ (Live(c)' => Live(c))
  BY JobsAssumption DEF Kept
<1>2. QED
  BY <1>1 DEF Known, RunningIsRegistered, Expiry

\* A running job is not pruned, but for one that has outlived a timestamp.
LEMMA PruneSparesRunning ==
    ASSUME Typed, Known
    PROVE  /\ \A c \in Calls :
                 Live(c) => Pruned[RequestOf[c]] = c \/ c \in outlived
           /\ \A r \in Requests : Unexpired[r] # "old"
BY JobsAssumption, PrunedTyped DEF Known, RunningIsRegistered, Expiry, Pruned

LEMMA EnterKnown ==
    ASSUME Inv, Known, NEW c \in Calls, Enter(c)
    PROVE  Known'
<1>1. Typed
  BY InvTyped
<1>2. job' = job /\ since' = since /\ outlived' = outlived
  BY DEF Enter
<1>3. \A d \in Calls : /\ Live(d)' <=> Live(d)
                       /\ RequestOf[d] \in Requests
                       /\ Live(d) => ~Ended(job[d])
  BY <1>2, JobsAssumption DEF Live, Ended
<1>4. \A d \in Calls : Live(d) => registry'[RequestOf[d]] = d \/ d \in outlived
  BY <1>1, <1>3 DEF Enter, Known, RunningIsRegistered, Typed
<1>5. QED
  BY <1>2, <1>3, <1>4 DEF Known, RunningIsRegistered, Expiry

LEMMA JoinKnown ==
    ASSUME Inv, Known, NEW c \in Calls, Join(c)
    PROVE  Known'
<1>1. Typed
  BY InvTyped
<1>2. \A d \in Calls : (Live(d)' <=> Live(d)) /\ RequestOf[d] \in Requests
  BY JobsAssumption DEF Join, Live
<1>3. QED
  BY <1>1, <1>2, PruneSparesRunning DEF Join, Known, RunningIsRegistered, Expiry

LEMMA CreateKnown ==
    ASSUME Inv, Known, NEW c \in Calls, Create(c)
    PROVE  Known'
<1>1. Typed
  BY InvTyped
<1>2. /\ Pruned[RequestOf[c]] = NoCall
      /\ registry' = [Pruned EXCEPT ![RequestOf[c]] = c]
      /\ \A d \in Calls \ {c} : job'[d] = job[d]
      /\ \A r \in Requests : since'[r] # "old"
      /\ outlived' = outlived
  BY <1>1, PruneSparesRunning DEF Create, Unexpired, Typed
<1>3. \A d \in Calls \ {c} : (Live(d)' <=> Live(d))
  BY <1>2 DEF Live
<1>4. \A d \in Calls : RequestOf[d] \in Requests /\ d # NoCall
  BY JobsAssumption
<1>5. \A d \in Calls \ {c} :
         Live(d) => RequestOf[d] # RequestOf[c] \/ d \in outlived
  BY <1>1, <1>2, <1>4, PruneSparesRunning
<1>6. \A d \in Calls : Live(d)' => registry'[RequestOf[d]] = d \/ d \in outlived
  BY <1>1, <1>2, <1>3, <1>4, <1>5, PruneSparesRunning, PrunedTyped
<1>7. QED
  BY <1>2, <1>4, <1>6 DEF Known, RunningIsRegistered, Expiry

LEMMA ExpiresKnown ==
    ASSUME Inv, Known, NEW r \in Requests, Expires(r)
    PROVE  Known'
<1>1. Typed
  BY InvTyped
<1>2. /\ registry' = registry /\ job' = job
      /\ since' = [since EXCEPT ![r] = "old"]
      /\ outlived \subseteq outlived'
      /\ \A c \in Calls : RequestOf[c] = r /\ Live(c) => c \in outlived'
  BY DEF Expires
<1>3. \A d \in Calls : (Live(d)' <=> Live(d)) /\ RequestOf[d] \in Requests
  BY <1>2, JobsAssumption DEF Live
<1>4. QED
  BY <1>1, <1>2, <1>3 DEF Known, RunningIsRegistered, Expiry, Typed

\* Timestamps are only made.
LEMMA MarksFresh ==
    ASSUME Typed, Known, Kept, registry' = registry, outlived' = outlived,
           NEW c \in Calls, NEW j,
           since' \in {since, Marked(RequestOf[c], j)}
    PROVE  Known'
BY KnownKept, MarkedTyped, JobsAssumption

LEMMA CallKnown ==
    ASSUME Inv, Known, NEW c \in Calls, CallStep(c) \/ Leave(c) \/ Drop(c)
    PROVE  Known'
<1>1. Typed
  BY InvTyped
<1>2. CASE Join(c)    BY <1>2, JoinKnown
<1>3. CASE Create(c)  BY <1>3, CreateKnown
<1>4. CASE Put(c)
  BY <1>4, PutKeeps, KnownKept DEF Put
<1>5. CASE PutTimesOut(c)
  <2>1. Kept /\ registry' = registry /\ outlived' = outlived
    BY <1>5, PutTimesOutKeeps DEF PutTimesOut
  <2>2. since' \in {since, Marked(RequestOf[c], job'[c])}
    BY <1>5 DEF PutTimesOut
  <2>3. QED
    BY <1>1, <2>1, <2>2, MarksFresh
<1>6. CASE Answer(c)
  <2>1. Kept /\ registry' = registry /\ outlived' = outlived
    BY <1>6, AnswerKeeps DEF Answer
  <2>2. since' = Marked(RequestOf[c], job'[call[c].job])
    BY <1>6 DEF Answer, Ends
  <2>3. QED
    BY <1>1, <2>1, <2>2, MarksFresh
<1>7. CASE Read(c)
  BY <1>7, ReadKeeps, KnownKept DEF Read
<1>8. CASE Finish(c)
  <2>1. Kept /\ registry' = registry /\ outlived' = outlived
    BY <1>8, FinishKeeps DEF Finish
  <2>2. since' = Marked(RequestOf[c], job'[call[c].job])
    BY <1>8 DEF Finish, Ends
  <2>3. QED
    BY <1>1, <2>1, <2>2, MarksFresh
<1>9. CASE Leave(c)
  <2>1. Kept /\ registry' = registry /\ outlived' = outlived
    BY <1>9, LeaveKeeps DEF Leave
  <2>2. since' = Marked(RequestOf[c], job'[call[c].job])
    BY <1>9 DEF Leave, Ends
  <2>3. QED
    BY <1>1, <2>1, <2>2, MarksFresh
<1>10. CASE Drop(c)
  <2>1. Kept /\ registry' = registry /\ outlived' = outlived
    BY <1>10, DropKeeps DEF Drop
  <2>2. since' = Marked(RequestOf[c], job'[call[c].job])
    BY <1>10 DEF Drop, Ends
  <2>3. QED
    BY <1>1, <2>1, <2>2, MarksFresh
<1>11. QED
  BY <1>2, <1>3, <1>4, <1>5, <1>6, <1>7, <1>8, <1>9, <1>10 DEF CallStep

LEMMA TaskKnown ==
    ASSUME Inv, Known, NEW c \in Calls, TaskStep(c)
    PROVE  Known'
<1>1. Typed /\ Kept
  BY InvTyped, TaskKeeps
<1>2. ASSUME NEW j, NEW mark, TaskEnds(c, j, mark)
      PROVE  Known'
  BY <1>1, <1>2, MarksFresh DEF TaskEnds
<1>3. CASE UNCHANGED <<registry, since, outlived>>
  BY <1>1, <1>3, KnownKept
<1>4. QED
  BY <1>2, <1>3 DEF TaskStep, TaskStarts, TaskDropped, TaskInvokes, TaskPublishes,
       TaskPuts, TaskCompletes, TaskFails, TaskUnwinds

LEMMA KnownNext ==
    ASSUME Inv, Known, [Next]_vars
    PROVE  Known'
<1>1. ASSUME NEW c \in Calls, Enter(c)
      PROVE  Known'
  BY <1>1, EnterKnown
<1>2. ASSUME NEW c \in Calls, CallStep(c) \/ Leave(c) \/ Drop(c)
      PROVE  Known'
  BY <1>2, CallKnown
<1>3. ASSUME NEW c \in Calls, TaskStep(c)
      PROVE  Known'
  BY <1>3, TaskKnown
<1>4. ASSUME NEW r \in Requests, CancelRequest(r)
      PROVE  Known'
  <2>1. \A q \in Requests : since'[q] = "old" => since[q] = "old"
    BY <1>4, InvTyped DEF CancelRequest, Typed
  <2>2. QED
    BY <1>4, <2>1, CancelRequestKeeps, KnownKept DEF CancelRequest
<1>5. ASSUME NEW r \in Requests, Expires(r)
      PROVE  Known'
  BY <1>5, ExpiresKnown
<1>6. CASE TakeSlot  BY <1>6, TakeSlotKeeps, KnownKept DEF TakeSlot
<1>7. CASE Dispatch  BY <1>7, DispatchKeeps, KnownKept DEF Dispatch
<1>8. CASE Stop      BY <1>8, StopKeeps, KnownKept DEF Stop
<1>9. CASE StopStep
  BY <1>9, StopStepKeeps, KnownKept DEF StopStep, StopJoined, StopTimesOut, StopEnds
<1>10. CASE UNCHANGED vars
  <2>1. Kept /\ registry' = registry /\ since' = since /\ outlived' = outlived
    BY <1>10 DEF vars, Kept, Live, Ended
  <2>2. QED
    BY <2>1, KnownKept
<1>11. QED
  BY <1>1, <1>2, <1>3, <1>4, <1>5, <1>6, <1>7, <1>8, <1>9, <1>10 DEF Next

\* A job that is not finished is the one its request is registered with, or the
\* timestamp of an earlier job ran out while it ran.
THEOREM RunningJobsAreRegistered == Spec => []RunningIsRegistered
<1>1. Init => Known
  BY NewTyped, JobsAssumption
     DEF Init, Known, RunningIsRegistered, Expiry, Live
<1>2. Inv /\ Known /\ [Next]_vars => Known'
  BY KnownNext
<1>3. Known => RunningIsRegistered
  BY DEF Known
<1>4. QED
  BY <1>1, <1>2, <1>3, Invariant, PTL DEF Spec

-----------------------------------------------------------------------------
(* A stream delivers what its job puts *)

Chunks(output) == {i \in 1..Len(output) : output[i] = "chunk"}

\* Chunks put and not read yet.
Pending(j) == Cardinality(Chunks(j.output))

\* A job that was ended under its running task has had the task cancelled.
Interrupted(j) == Ended(j) /\ Attached(j) => j.cancelling

\* What the call of a stream has read and what waits for it is what was put.
Ledger(c) ==
    /\ call[c].pc \in {"new", "entered"} => call[c].got = 0
    /\ call[c].pc \in {"putting", "waiting", "draining"} =>
          /\ call[c].job = c
          /\ call[c].got + Pending(job[c]) = job[c].chunks
    /\ call[c].pc # "done" => call[c].outcome = "none"
    /\ call[c].outcome = "done" => Ended(job[c]) /\ call[c].got = job[c].chunks

Delivering == /\ \A c \in Calls : Interrupted(job[c])
              /\ \A c \in Calls : Streams(c) => Ledger(c)

\* A job becomes another one, and no chunk is put or read.
Carries(j, k) == /\ k.chunks = j.chunks /\ Pending(k) = Pending(j)
                 /\ Ended(j) => Ended(k)
                 /\ Interrupted(j) => Interrupted(k)

\* The task of c puts a chunk.
Emits(c) == /\ ~Ended(job[c]) /\ ~Ended(job'[c])
            /\ job'[c].chunks = job[c].chunks + 1
            /\ Pending(job'[c]) = Pending(job[c]) + 1

LEMMA ChunksFinite ==
    ASSUME NEW output \in Seq({"note", "chunk"})
    PROVE  IsFiniteSet(Chunks(output)) /\ Cardinality(Chunks(output)) \in Nat
<1>1. Len(output) \in Nat
  OBVIOUS
<1>2. IsFiniteSet(1..Len(output))
  BY <1>1, FS_Interval
<1>3. Chunks(output) \in SUBSET (1..Len(output))
  BY DEF Chunks
<1>4. QED
  BY <1>2, <1>3, FS_Subset, FS_CardinalityType

LEMMA ChunksAppended ==
    ASSUME NEW output \in Seq({"note", "chunk"})
    PROVE  /\ Cardinality(Chunks(Append(output, "note"))) = Cardinality(Chunks(output))
           /\ Cardinality(Chunks(Append(output, "chunk"))) = Cardinality(Chunks(output)) + 1
<1>1. Chunks(Append(output, "note")) = Chunks(output)
  BY DEF Chunks
<1>2. Chunks(Append(output, "chunk")) = Chunks(output) \cup {Len(output) + 1}
  BY DEF Chunks
<1>3. Len(output) + 1 \notin Chunks(output)
  BY DEF Chunks
<1>4. QED
  BY <1>1, <1>2, <1>3, ChunksFinite, FS_AddElement

LEMMA ChunksRead ==
    ASSUME NEW output \in Seq({"note", "chunk"}), output # <<>>
    PROVE  Cardinality(Chunks(output)) =
              Cardinality(Chunks(Tail(output))) + (IF Head(output) = "chunk" THEN 1 ELSE 0)
<1> DEFINE t   == Tail(output)
           rest == Chunks(output) \ {1}
           f   == [i \in Chunks(t) |-> i + 1]
<1>1. /\ t \in Seq({"note", "chunk"}) /\ Len(t) = Len(output) - 1
      /\ Len(output) \in Nat \ {0} /\ Head(output) = output[1]
      /\ \A i \in 1..Len(t) : t[i] = output[i + 1]
  OBVIOUS
<1>2. f \in Bijection(Chunks(t), rest)
  <2>1. f \in [Chunks(t) -> rest]
    BY <1>1 DEF Chunks
  <2>2. \A i, k \in Chunks(t) : f[i] = f[k] => i = k
    BY <1>1 DEF Chunks
  <2>3. ASSUME NEW i \in rest PROVE \E k \in Chunks(t) : f[k] = i
    <3>1. i - 1 \in 1..Len(t) /\ i \in 1..Len(output) /\ output[i] = "chunk"
      BY <1>1 DEF Chunks
    <3>2. t[i - 1] = output[(i - 1) + 1] /\ (i - 1) + 1 = i
      BY <1>1, <3>1
    <3>3. i - 1 \in Chunks(t)
      BY <3>1, <3>2 DEF Chunks
    <3>4. f[i - 1] = i
      BY <3>2, <3>3
    <3>5. QED
      BY <3>3, <3>4
  <2>4. QED
    BY <2>1, <2>2, <2>3 DEF Bijection, Injection, Surjection, IsInjective
<1>3. Cardinality(rest) = Cardinality(Chunks(t))
  <2>1. ExistsBijection(Chunks(t), rest)
    BY <1>2 DEF ExistsBijection
  <2>2. QED
    BY <1>1, <2>1, ChunksFinite, FS_Bijection
<1>4. 1 \in Chunks(output) <=> Head(output) = "chunk"
  BY <1>1 DEF Chunks
<1>5. Cardinality(rest) = IF 1 \in Chunks(output) THEN Cardinality(Chunks(output)) - 1
                                                  ELSE Cardinality(Chunks(output))
  BY ChunksFinite, FS_RemoveElement
<1>6. QED
  BY <1>1, <1>3, <1>4, <1>5, ChunksFinite

LEMMA NoteCarries ==
    ASSUME NEW j \in Jobs
    PROVE  Carries(j, WithNote(j))
<1>1. j.output \in Seq({"note", "chunk"})
  BY DEF Jobs
<1>2. /\ WithNote(j).chunks = j.chunks
      /\ WithNote(j).output \in {j.output, Append(j.output, "note")}
  BY DEF WithNote, Jobs
<1>3. Pending(WithNote(j)) = Pending(j)
  BY <1>1, <1>2, ChunksAppended DEF Pending
<1>4. QED
  BY <1>2, <1>3, NoteTyped DEF Carries, Interrupted, Ended, Attached

LEMMA Carried ==
    ASSUME NEW j, NEW k, NEW m, Carries(j, k), Carries(k, m) PROVE Carries(j, m)
BY DEF Carries

\* A change of what says where the job stands carries the chunks along.
LEMMA FieldsCarry ==
    ASSUME NEW j, NEW k, k.chunks = j.chunks, k.output = j.output, Ended(j) => Ended(k),
           Interrupted(j) => Interrupted(k)
    PROVE  Carries(j, k)
BY DEF Carries, Pending

LEMMA CancelledCarries ==
    ASSUME NEW j \in Jobs PROVE Carries(j, Cancelled(j))
<1>1. CASE Ended(j)
  BY <1>1, FieldsCarry DEF Cancelled
<1>2. CASE ~Ended(j)
  <2> DEFINE k == [j EXCEPT !.status = "cancelled", !.cancelling = @ \/ Attached(j)]
  <2>1. (j.cancelling \/ Attached(j)) \in BOOLEAN
    BY DEF Attached
  <2>2. /\ k \in Jobs /\ k.status = "cancelled" /\ k.task = j.task
        /\ k.chunks = j.chunks /\ k.output = j.output
        /\ k.cancelling = (j.cancelling \/ Attached(j))
    BY <2>1 DEF Jobs, Statuses, Terminal
  <2>3. Cancelled(j) = WithNote(k)
    BY <1>2 DEF Cancelled
  <2> HIDE DEF k
  <2>4. Interrupted(k) /\ (Ended(j) => Ended(k))
    BY <1>2, <2>2 DEF Interrupted, Attached
  <2>5. Carries(j, k)
    BY <2>2, <2>4, FieldsCarry
  <2>6. QED
    BY <2>2, <2>3, <2>5, NoteCarries, Carried
<1>3. QED
  BY <1>1, <1>2

\* A job is settled by its task, which is over, or before it has one.
LEMMA SettledCarries ==
    ASSUME NEW j \in Jobs, NEW s \in Terminal, ~Attached(j)
    PROVE  Carries(j, Settled(j, s))
<1> DEFINE k == [j EXCEPT !.status = s]
<1>1. /\ k \in Jobs /\ k.status = s /\ k.task = j.task
      /\ k.chunks = j.chunks /\ k.output = j.output
  BY DEF Jobs, Statuses
<1>2. Settled(j, s) = IF Ended(j) THEN j ELSE WithNote(k)
  BY DEF Settled
<1> HIDE DEF k
<1>3. Carries(j, k)
  BY <1>1, FieldsCarry DEF Interrupted, Attached, Ended
<1>4. Carries(j, j)
  BY DEF Carries
<1>5. QED
  BY <1>1, <1>2, <1>3, <1>4, NoteCarries, Carried

\* The finally of a task, with the job becoming k.
LEMMA EndCarries ==
    ASSUME NEW j \in Jobs, NEW k \in Jobs, Pending(k) = Pending(j), k.chunks = j.chunks,
           Ended(j) => Ended(k)
    PROVE  Carries(j, [k EXCEPT !.task = "over", !.cancelling = FALSE])
<1> DEFINE m == [k EXCEPT !.task = "over", !.cancelling = FALSE]
<1>1. /\ m.chunks = k.chunks /\ m.output = k.output /\ m.status = k.status
      /\ m.task = "over"
  BY DEF Jobs
<1> HIDE DEF m
<1>2. Carries(j, m)
  BY <1>1 DEF Carries, Pending, Interrupted, Ended, Attached
<1>3. QED
  BY <1>2 DEF m

\* What settling does to the chunks, whatever the task.
LEMMA SettledChunks ==
    ASSUME NEW j \in Jobs, NEW s \in Terminal
    PROVE  Pending(Settled(j, s)) = Pending(j) /\ Settled(j, s).chunks = j.chunks
<1> DEFINE k == [j EXCEPT !.status = s]
<1>1. k \in Jobs /\ k.chunks = j.chunks /\ k.output = j.output
  BY DEF Jobs, Statuses
<1>2. Settled(j, s) = IF Ended(j) THEN j ELSE WithNote(k)
  BY DEF Settled
<1> HIDE DEF k
<1>3. QED
  BY <1>1, <1>2, NoteCarries DEF Carries, Pending

LEMMA SameCarries == ASSUME NEW j PROVE Carries(j, j)
BY DEF Carries

LEMMA OneCarries ==
    ASSUME Inv, NEW c \in Calls, NEW k, job' = [job EXCEPT ![c] = k], Carries(job[c], k)
    PROVE  \A d \in Calls : Carries(job[d], job'[d])
<1>1. job'[c] = k /\ \A d \in Calls \ {c} : job'[d] = job[d]
  BY DEF Inv, TypeOK
<1>2. QED
  BY <1>1, SameCarries

\* A task puts a chunk, or carries on.
LEMMA TaskCarries ==
    ASSUME Inv, Delivering, NEW c \in Calls, TaskStep(c)
    PROVE  \A d \in Calls : Carries(job[d], job'[d]) \/ Emits(d)
<1> DEFINE j == job[c]
<1>1. j \in Jobs /\ j.output \in Seq({"note", "chunk"}) /\ Interrupted(j) /\ job \in [Calls -> Jobs]
  BY DEF Inv, TypeOK, Jobs, Delivering
<1>2. ASSUME NEW k \in Jobs, Pending(k) = Pending(j), k.chunks = j.chunks,
             Ended(j) => Ended(k), NEW mark, TaskEnds(c, k, mark)
      PROVE  \A d \in Calls : Carries(job[d], job'[d])
  BY <1>1, <1>2, EndCarries, OneCarries DEF TaskEnds
<1>3. ASSUME NEW k \in Jobs, k.output = j.output, k.chunks = j.chunks, ~Ended(j), ~Ended(k),
             job' = [job EXCEPT ![c] = WithNote(k)]
      PROVE  \A d \in Calls : Carries(job[d], job'[d])
  <2>1. Carries(j, k)
    BY <1>3, FieldsCarry DEF Interrupted
  <2>2. Carries(j, WithNote(k))
    BY <1>3, <2>1, NoteCarries, Carried
  <2>3. QED
    BY <1>3, <2>2, OneCarries
<1>4. ASSUME NEW k \in Jobs, k.output = j.output, k.chunks = j.chunks, ~Ended(j), ~Ended(k),
             job' = [job EXCEPT ![c] = WithChunk(k)]
      PROVE  \A d \in Calls : Carries(job[d], job'[d]) \/ Emits(d)
  <2>1. job'[c] = WithChunk(k) /\ \A d \in Calls \ {c} : job'[d] = job[d]
    BY <1>1, <1>4
  <2>2. /\ WithChunk(k).chunks = j.chunks + 1 /\ ~Ended(WithChunk(k))
        /\ WithChunk(k).output = Append(j.output, "chunk")
    BY <1>4 DEF WithChunk, Jobs, Ended
  <2>3. Emits(c)
    BY <1>1, <1>4, <2>1, <2>2, ChunksAppended DEF Emits, Pending
  <2>4. QED
    BY <2>1, <2>3, SameCarries
<1>5. CASE TaskStarts(c)
  <2>1. CASE Ended(j)
    BY <1>1, <1>2, <1>5, <2>1 DEF TaskStarts
  <2>2. CASE ~Ended(j)
    <3> DEFINE k == [j EXCEPT !.status = "resolving", !.task = "running"]
    <3>1. job' = [job EXCEPT ![c] = WithNote(k)]
      BY <1>5, <2>2 DEF TaskStarts
    <3>2. k \in Jobs /\ k.output = j.output /\ k.chunks = j.chunks /\ ~Ended(k)
      BY <1>1 DEF Jobs, Statuses, Ended, Terminal
    <3> HIDE DEF k
    <3>3. QED
      BY <1>3, <2>2, <3>1, <3>2
  <2>3. QED
    BY <2>1, <2>2
<1>6. CASE TaskDropped(c)
  <2> DEFINE k == [j EXCEPT !.task = "lost"]
  <2>1. job' = [job EXCEPT ![c] = k]
    BY <1>6 DEF TaskDropped
  <2>2. /\ k.output = j.output /\ k.chunks = j.chunks /\ k.status = j.status
        /\ k.task = "lost"
    BY <1>1 DEF Jobs
  <2> HIDE DEF k
  <2>3. Carries(j, k)
    BY <2>2, FieldsCarry DEF Interrupted, Attached, Ended
  <2>4. QED
    BY <2>1, <2>3, OneCarries
<1>7. CASE TaskInvokes(c)
  <2> DEFINE k == [j EXCEPT !.status = "invoking"]
  <2>1. job' = [job EXCEPT ![c] = WithNote(k)] /\ j.status = "resolving"
    BY <1>7 DEF TaskInvokes, Running
  <2>2. k \in Jobs /\ k.output = j.output /\ k.chunks = j.chunks /\ ~Ended(k) /\ ~Ended(j)
    BY <1>1, <2>1 DEF Jobs, Statuses, Ended, Terminal
  <2> HIDE DEF k
  <2>3. QED
    BY <1>3, <2>1, <2>2
<1>8. CASE TaskPublishes(c)
  <2>1. ~Ended(j)
    BY <1>8 DEF TaskPublishes, Running, Ended, Terminal
  <2>2. CASE HasRoom(j)
    BY <1>1, <1>4, <1>8, <2>1, <2>2 DEF TaskPublishes
  <2>3. CASE ~HasRoom(j)
    <3> DEFINE k == [j EXCEPT !.task = "blocked"]
    <3>1. job' = [job EXCEPT ![c] = k]
      BY <1>8, <2>3 DEF TaskPublishes
    <3>2. k.output = j.output /\ k.chunks = j.chunks /\ k.status = j.status
      BY <1>1 DEF Jobs
    <3> HIDE DEF k
    <3>3. Carries(j, k)
      BY <2>1, <3>2, FieldsCarry DEF Interrupted, Ended
    <3>4. QED
      BY <3>1, <3>3, OneCarries
  <2>4. QED
    BY <2>2, <2>3
<1>9. CASE TaskPuts(c)
  <2> DEFINE k == [j EXCEPT !.task = "running"]
  <2>1. /\ job' = [job EXCEPT ![c] = WithChunk(k)]
        /\ j.task = "blocked" /\ ~j.cancelling
    BY <1>9 DEF TaskPuts
  <2>2. ~Ended(j)
    BY <1>1, <2>1 DEF Interrupted, Attached
  <2>3. k \in Jobs /\ k.output = j.output /\ k.chunks = j.chunks /\ ~Ended(k)
    BY <1>1, <2>2 DEF Jobs, Ended
  <2> HIDE DEF k
  <2>4. QED
    BY <1>4, <2>1, <2>2, <2>3
<1>10. CASE TaskCompletes(c) \/ TaskFails(c)
  <2>1. PICK s \in {"done", "error"} : TaskEnds(c, Settled(j, s), TRUE)
    BY <1>10 DEF TaskCompletes, TaskFails
  <2>2. s \in Terminal
    BY DEF Terminal
  <2>3. /\ Settled(j, s) \in Jobs /\ Pending(Settled(j, s)) = Pending(j)
        /\ Settled(j, s).chunks = j.chunks /\ (Ended(j) => Ended(Settled(j, s)))
    BY <1>1, <2>2, SettledTyped, SettledChunks DEF Ended
  <2>4. QED
    BY <1>2, <2>1, <2>3
<1>11. CASE TaskUnwinds(c)
  <2>1. /\ Cancelled(j) \in Jobs /\ Pending(Cancelled(j)) = Pending(j)
        /\ Cancelled(j).chunks = j.chunks /\ (Ended(j) => Ended(Cancelled(j)))
    BY <1>1, CancelledTyped, CancelledCarries DEF Carries
  <2>2. QED
    BY <1>2, <1>11, <2>1 DEF TaskUnwinds
<1>12. QED
  BY <1>5, <1>6, <1>7, <1>8, <1>9, <1>10, <1>11 DEF TaskStep

\* Whoever else touches jobs leaves the chunks alone.
LEMMA OthersCarry ==
    ASSUME Inv,
           \/ \E c \in Calls : \/ Enter(c) \/ Join(c) \/ Put(c) \/ PutTimesOut(c) \/ Answer(c)
                               \/ Finish(c) \/ Leave(c) \/ Drop(c)
           \/ \E r \in Requests : CancelRequest(r) \/ Expires(r)
           \/ TakeSlot \/ Dispatch \/ Stop \/ StopStep
           \/ UNCHANGED vars
    PROVE  \A d \in Calls : Carries(job[d], job'[d])
<1>1. job \in [Calls -> Jobs] /\ \A d \in Calls : job[d] \in Jobs
  BY DEF Inv, TypeOK
<1>2. ASSUME job' = job PROVE \A d \in Calls : Carries(job[d], job'[d])
  BY <1>2, SameCarries
<1>3. ASSUME NEW c \in Calls, Enter(c) \/ Join(c) \/ Put(c) \/ Answer(c) \/ Finish(c) \/ Drop(c)
      PROVE  job' = job
  BY <1>3 DEF Enter, Join, Put, Answer, Finish, Drop
<1>4. CASE \/ \E r \in Requests : Expires(r)
           \/ TakeSlot \/ Stop \/ StopJoined \/ StopEnds \/ UNCHANGED vars
  <2>1. job' = job
    BY <1>4 DEF Expires, TakeSlot, Stop, StopJoined, StopEnds, vars
  <2>2. QED
    BY <1>2, <2>1
<1>5. ASSUME NEW c \in Calls, PutTimesOut(c) PROVE \A d \in Calls : Carries(job[d], job'[d])
  <2>1. job' = [job EXCEPT ![c] = Settled(job[c], "error")] /\ job[c].task = "none"
    BY <1>5 DEF PutTimesOut, Inv, Placed
  <2>2. Carries(job[c], Settled(job[c], "error"))
    BY <1>1, <2>1, SettledCarries DEF Attached, Terminal
  <2>3. QED
    BY <2>1, <2>2, OneCarries
<1>6. ASSUME NEW c \in Calls, job' = [job EXCEPT ![c] = Cancelled(job[c])]
      PROVE  \A d \in Calls : Carries(job[d], job'[d])
  BY <1>1, <1>6, CancelledCarries, OneCarries
<1>7. ASSUME NEW c \in Calls, Leave(c) PROVE \A d \in Calls : Carries(job[d], job'[d])
  <2>1. call[c].job \in Calls /\ job' = [job EXCEPT ![call[c].job] = Cancelled(job[call[c].job])]
    BY <1>7 DEF Leave, Inv, Attending
  <2>2. QED
    BY <1>6, <2>1
<1>8. ASSUME NEW r \in Requests, CancelRequest(r)
      PROVE  \A d \in Calls : Carries(job[d], job'[d])
  <2>1. registry[r] \in Calls /\ job' = [job EXCEPT ![registry[r]] = Cancelled(job[registry[r]])]
    BY <1>8 DEF CancelRequest, Inv, TypeOK
  <2>2. QED
    BY <1>6, <2>1
<1>9. CASE Dispatch
  <2> DEFINE c == Head(queue)
             k == [job[c] EXCEPT !.task = "created"]
  <2>1. c \in Calls
    BY <1>9 DEF Dispatch, Inv, TypeOK
  <2>2. job' = [job EXCEPT ![c] = k]
    BY <1>9 DEF Dispatch
  <2>3. /\ k.output = job[c].output /\ k.chunks = job[c].chunks /\ k.status = job[c].status
        /\ k.task = "created"
    BY <1>1, <2>1 DEF Jobs
  <2> HIDE DEF k, c
  <2>4. Carries(job[c], k)
    BY <2>3, FieldsCarry DEF Interrupted, Attached, Ended
  <2>5. QED
    BY <2>1, <2>2, <2>4, OneCarries
<1>10. CASE StopTimesOut
  <2>1. SUFFICES ASSUME NEW d \in Calls PROVE Carries(job[d], job'[d])
    OBVIOUS
  <2>2. job'[d] = CASE Queued(d) -> Cancelled(job[d])
                    [] Alive(d)  -> [job[d] EXCEPT !.cancelling = TRUE]
                    [] OTHER     -> job[d]
    BY <1>10 DEF StopTimesOut
  <2>3. \/ job'[d] = Cancelled(job[d])
        \/ job'[d] = [job[d] EXCEPT !.cancelling = TRUE]
        \/ job'[d] = job[d]
    BY <2>2
  <2>4. CASE job'[d] = [job[d] EXCEPT !.cancelling = TRUE]
    <3> DEFINE k == [job[d] EXCEPT !.cancelling = TRUE]
    <3>1. /\ k.output = job[d].output /\ k.chunks = job[d].chunks
          /\ k.status = job[d].status /\ k.cancelling
      BY <1>1 DEF Jobs
    <3> HIDE DEF k
    <3>2. Carries(job[d], k)
      BY <3>1, FieldsCarry DEF Interrupted, Ended
    <3>3. QED
      BY <2>4, <3>2 DEF k
  <2>5. QED
    BY <1>1, <2>3, <2>4, CancelledCarries, SameCarries
<1>11. QED
  BY <1>2, <1>3, <1>4, <1>5, <1>7, <1>8, <1>9, <1>10 DEF StopStep

\* What a step may do to the call of a stream without a chunk being read.
Proceeds(c) ==
    \/ call'[c] = call[c]
    \/ /\ call[c].pc = "new" /\ call'[c].pc = "entered"
       /\ call'[c].got = call[c].got /\ call'[c].outcome = call[c].outcome
    \/ /\ call[c].pc = "putting" /\ call'[c].pc \in {"waiting", "draining"}
       /\ call'[c].job = call[c].job
       /\ call'[c].got = call[c].got /\ call'[c].outcome = call[c].outcome
    \/ call'[c].pc = "done" /\ call'[c].outcome # "done"
    \/ /\ call[c].pc = "draining" /\ call'[c].pc = "done" /\ call'[c].got = call[c].got
       /\ job[c].output = <<>> /\ job'[c] = job[c]

LEMMA LedgerKept ==
    ASSUME Inv, NEW c \in Calls, Ledger(c), Proceeds(c), Carries(job[c], job'[c])
    PROVE  Ledger(c)'
<1>1. /\ call[c] \in CallRecords /\ job[c] \in Jobs
      /\ call[c].pc = "draining" => Ended(job[c])
  BY DEF Inv, TypeOK, Attending
<1>2. /\ job'[c].chunks = job[c].chunks /\ Pending(job'[c]) = Pending(job[c])
      /\ Ended(job[c]) => Ended(job'[c])
  BY DEF Carries
<1>3. CASE call'[c] = call[c]
  BY <1>2, <1>3 DEF Ledger
<1>4. CASE call[c].pc = "new" /\ call'[c].pc = "entered"
           /\ call'[c].got = call[c].got /\ call'[c].outcome = call[c].outcome
  BY <1>2, <1>4 DEF Ledger
<1>5. CASE /\ call[c].pc = "putting" /\ call'[c].pc \in {"waiting", "draining"}
           /\ call'[c].job = call[c].job
           /\ call'[c].got = call[c].got /\ call'[c].outcome = call[c].outcome
  BY <1>2, <1>5 DEF Ledger
<1>6. CASE call'[c].pc = "done" /\ call'[c].outcome # "done"
  BY <1>6 DEF Ledger
<1>7. CASE /\ call[c].pc = "draining" /\ call'[c].pc = "done" /\ call'[c].got = call[c].got
           /\ job[c].output = <<>> /\ job'[c] = job[c]
  <2>1. Chunks(job[c].output) = {}
    BY <1>7 DEF Chunks
  <2>2. Pending(job[c]) = 0
    BY <2>1, FS_EmptySet DEF Pending
  <2>3. call[c].got = job[c].chunks
    BY <1>1, <1>7, <2>2 DEF Ledger, CallRecords
  <2>4. QED
    BY <1>1, <1>7, <2>3 DEF Ledger
<1>8. QED
  BY <1>3, <1>4, <1>5, <1>6, <1>7 DEF Proceeds

\* A chunk is put while the call reads, or after it has gone away.
LEMMA LedgerCredited ==
    ASSUME Inv, NEW c \in Calls, Ledger(c), call'[c] = call[c], Emits(c)
    PROVE  Ledger(c)'
<1>1. call[c] \in CallRecords /\ job[c] \in Jobs /\ job[c].chunks \in Nat /\ call[c].got \in Nat
  BY DEF Inv, TypeOK, CallRecords, Jobs
<1>2. Pending(job[c]) \in Nat
  BY <1>1, ChunksFinite DEF Pending, Jobs
<1>3. QED
  BY <1>1, <1>2 DEF Ledger, Emits

\* The call takes the next event of its job.
LEMMA LedgerRead ==
    ASSUME Inv, NEW c \in Calls, Ledger(c), Read(c)
    PROVE  Ledger(c)' /\ (Interrupted(job[c]) => Interrupted(job'[c]))
<1> DEFINE j == job[c]
           more == IF Head(j.output) = "chunk" THEN 1 ELSE 0
<1>1. /\ call[c] \in CallRecords /\ j \in Jobs /\ call[c].got \in Nat /\ j.chunks \in Nat
      /\ j.output \in Seq({"note", "chunk"}) /\ j.output # <<>>
      /\ call[c].pc \in {"waiting", "draining"}
  BY DEF Inv, TypeOK, CallRecords, Jobs, Read
<1>2. /\ job'[c].output = Tail(j.output) /\ job'[c].chunks = j.chunks
      /\ job'[c].status = j.status /\ job'[c].task = j.task
      /\ job'[c].cancelling = j.cancelling
  BY <1>1 DEF Read, Inv, TypeOK, Jobs
<1>3. /\ call'[c].pc \in {"waiting", "draining"} /\ call'[c].got = call[c].got + more
      /\ call'[c].job = call[c].job /\ call'[c].outcome = call[c].outcome
  BY <1>1 DEF Read, Inv, TypeOK, CallRecords
<1>4. Pending(j) = Pending(job'[c]) + more
  BY <1>1, <1>2, ChunksRead DEF Pending
<1>5. Tail(j.output) \in Seq({"note", "chunk"})
  BY <1>1
<1>6. Pending(job'[c]) \in Nat
  BY <1>2, <1>5, ChunksFinite DEF Pending
<1>7. Ledger(c)'
  BY <1>1, <1>2, <1>3, <1>4, <1>6 DEF Ledger
<1>8. QED
  BY <1>2, <1>7 DEF Interrupted, Ended, Attached

\* A new job owes its call nothing.
LEMMA LedgerOpened ==
    ASSUME Inv, NEW c \in Calls, Ledger(c), Create(c)
    PROVE  Ledger(c)' /\ Interrupted(job'[c])
<1> DEFINE rejected == scheduler # "up" \/ (Len(queue) >= QueueDepth /\ ~waits)
           new == IF rejected THEN Settled(NewJob, "error") ELSE NewJob
<1>1. /\ call[c] \in CallRecords /\ call[c].pc = "entered" /\ call[c].got = 0
      /\ call[c].outcome = "none"
  BY DEF Inv, TypeOK, Create, Ledger
<1>2. NewJob \in Jobs /\ NewJob.task = "none" /\ NewJob.chunks = 0 /\ NewJob.output = <<"note">>
  BY NewTyped DEF NewJob, NoJob
<1>3. Chunks(NewJob.output) = {}
  BY <1>2 DEF Chunks
<1>4. Pending(NewJob) = 0
  BY <1>3, FS_EmptySet DEF Pending
<1>5. job'[c] = new
  BY DEF Create, Inv, TypeOK
<1>6. new.task = "none" /\ new.chunks = 0 /\ Pending(new) = 0
  <2>1. /\ Settled(NewJob, "error").task = NewJob.task
        /\ Settled(NewJob, "error").chunks = NewJob.chunks
        /\ Pending(Settled(NewJob, "error")) = Pending(NewJob)
    BY <1>2, SettledTyped, SettledChunks DEF Terminal
  <2>2. new = NewJob \/ new = Settled(NewJob, "error")
    OBVIOUS
  <2> HIDE DEF new
  <2>3. QED
    BY <1>2, <1>4, <2>1, <2>2
<1>7. Interrupted(job'[c])
  BY <1>5, <1>6 DEF Interrupted, Attached
<1>8. /\ call'[c].got = 0
      /\ \/ call'[c].pc = "done" /\ call'[c].outcome = "rejected"
         \/ call'[c].pc \in {"putting", "waiting"} /\ call'[c].outcome = "none"
            /\ call'[c].job = c
  BY <1>1 DEF Create, Inv, TypeOK, CallRecords
<1>9. QED
  BY <1>5, <1>6, <1>7, <1>8 DEF Ledger

LEMMA CallProceeds ==
    ASSUME Inv, NEW c \in Calls,
           \/ Enter(c) \/ Join(c) \/ Put(c) \/ PutTimesOut(c) \/ Answer(c)
           \/ Finish(c) \/ Leave(c) \/ Drop(c),
           NEW d \in Calls, Streams(d)
    PROVE  Proceeds(d)
<1>1. call \in [Calls -> CallRecords] /\ call[c] \in CallRecords
  BY DEF Inv, TypeOK
<1>2. ASSUME NEW k, call' = [call EXCEPT ![c] = k]
      PROVE  call'[c] = k /\ (d # c => call'[d] = call[d])
  BY <1>1, <1>2
<1>3. CASE Enter(c)
  BY <1>1, <1>3 DEF Enter, Proceeds, CallRecords
<1>4. CASE Join(c)
  BY <1>1, <1>4 DEF Join, Proceeds, CallRecords
<1>5. CASE Put(c)
  BY <1>1, <1>5 DEF Put, Proceeds, CallRecords
<1>6. CASE PutTimesOut(c)
  BY <1>1, <1>6 DEF PutTimesOut, Proceeds, CallRecords
<1>7. CASE Answer(c)
  BY <1>1, <1>7 DEF Answer, Ends, Proceeds
<1>8. CASE Finish(c)
  BY <1>1, <1>8 DEF Finish, Ends, Proceeds, CallRecords
<1>9. CASE Leave(c) \/ Drop(c)
  BY <1>1, <1>9 DEF Leave, Drop, Ends, Proceeds, CallRecords
<1>10. QED
  BY <1>3, <1>4, <1>5, <1>6, <1>7, <1>8, <1>9

LEMMA DeliveringNext ==
    ASSUME Inv, Delivering, [Next]_vars
    PROVE  Delivering'
<1>1. mode' = mode
  <2>1. \A c \in Calls : CallStep(c) => mode' = mode
    BY DEF CallStep, Join, Create, Put, PutTimesOut, Answer, Read, Finish
  <2>2. \A c \in Calls : TaskStep(c) => mode' = mode
    BY DEF TaskStep, TaskStarts, TaskDropped, TaskInvokes, TaskPublishes, TaskPuts,
           TaskCompletes, TaskFails, TaskUnwinds, TaskEnds
  <2>3. StopStep => mode' = mode
    BY DEF StopStep, StopJoined, StopTimesOut, StopEnds
  <2>4. QED
    BY <2>1, <2>2, <2>3 DEF Next, Enter, Leave, Drop, CancelRequest, Expires, TakeSlot,
       Dispatch, Stop, vars
<1>2. \A d \in Calls : Streams(d)' <=> Streams(d)
  BY <1>1 DEF Streams
<1>3. ASSUME \A d \in Calls : Interrupted(job'[d]),
             \A d \in Calls : Streams(d) => Ledger(d)'
      PROVE  Delivering'
  BY <1>2, <1>3 DEF Delivering, Interrupted, Ended, Attached
<1>4. ASSUME \A d \in Calls : Carries(job[d], job'[d]),
             \A d \in Calls : Streams(d) => Proceeds(d)
      PROVE  Delivering'
  <2>1. \A d \in Calls : Interrupted(job'[d])
    BY <1>4 DEF Delivering, Carries
  <2>2. \A d \in Calls : Streams(d) => Ledger(d)'
    BY <1>4, LedgerKept DEF Delivering
  <2>3. QED
    BY <1>3, <2>1, <2>2
<1>5. CASE \E c \in Calls : \/ Enter(c) \/ Join(c) \/ Put(c) \/ PutTimesOut(c) \/ Answer(c)
                            \/ Finish(c) \/ Leave(c) \/ Drop(c)
  <2>1. \A d \in Calls : Carries(job[d], job'[d])
    BY <1>5, OthersCarry
  <2>2. \A d \in Calls : Streams(d) => Proceeds(d)
    BY <1>5, CallProceeds
  <2>3. QED
    BY <1>4, <2>1, <2>2
<1>6. CASE \/ \E r \in Requests : CancelRequest(r) \/ Expires(r)
           \/ TakeSlot \/ Dispatch \/ Stop \/ StopStep
           \/ UNCHANGED vars
  <2>1. call' = call
    BY <1>6 DEF CancelRequest, Expires, TakeSlot, Dispatch, Stop, StopStep, StopJoined,
                StopTimesOut, StopEnds, vars
  <2>2. \A d \in Calls : Carries(job[d], job'[d])
    BY <1>6, OthersCarry
  <2>3. \A d \in Calls : Proceeds(d)
    BY <2>1 DEF Proceeds
  <2>4. QED
    BY <1>4, <2>2, <2>3
<1>7. CASE \E c \in Calls : TaskStep(c)
  <2>1. \A d \in Calls : Carries(job[d], job'[d]) \/ Emits(d)
    BY <1>7, TaskCarries
  <2>2. call' = call
    BY <1>7 DEF TaskStep, TaskStarts, TaskDropped, TaskInvokes, TaskPublishes, TaskPuts,
                TaskCompletes, TaskFails, TaskUnwinds, TaskEnds
  <2>3. \A d \in Calls : Interrupted(job'[d])
    BY <2>1 DEF Delivering, Carries, Emits, Interrupted
  <2>4. \A d \in Calls : Proceeds(d)
    BY <2>2 DEF Proceeds
  <2>5. \A d \in Calls : Streams(d) => Ledger(d)'
    BY <2>1, <2>2, <2>4, LedgerKept, LedgerCredited DEF Delivering
  <2>6. QED
    BY <1>3, <2>3, <2>5
<1>8. ASSUME NEW c \in Calls, Read(c) PROVE Delivering'
  <2>1. Streams(c) /\ Ledger(c)
    BY <1>8 DEF Read, Delivering
  <2>2. Ledger(c)' /\ Interrupted(job'[c])
    BY <1>8, <2>1, LedgerRead DEF Delivering
  <2>3. \A d \in Calls \ {c} : job'[d] = job[d] /\ call'[d] = call[d]
    BY <1>8 DEF Read, Inv, TypeOK
  <2>4. \A d \in Calls \ {c} : Carries(job[d], job'[d]) /\ Proceeds(d)
    BY <2>3, SameCarries DEF Proceeds
  <2>5. QED
    BY <1>3, <2>2, <2>3, <2>4, LedgerKept DEF Delivering
<1>9. ASSUME NEW c \in Calls, Create(c) PROVE Delivering'
  <2>1. Streams(c) => Ledger(c)'
    BY <1>9, LedgerOpened DEF Delivering
  <2>2. Interrupted(job'[c])
    <3>1. job'[c].task = "none"
      BY <1>9, NewTyped, SettledTyped DEF Create, Inv, TypeOK, Terminal
    <3>2. QED
      BY <3>1 DEF Interrupted, Attached
  <2>3. \A d \in Calls \ {c} : job'[d] = job[d] /\ call'[d] = call[d]
    BY <1>9 DEF Create, Inv, TypeOK
  <2>4. \A d \in Calls \ {c} : Carries(job[d], job'[d]) /\ Proceeds(d)
    BY <2>3, SameCarries DEF Proceeds
  <2>5. QED
    BY <1>3, <2>1, <2>2, <2>3, <2>4, LedgerKept DEF Delivering
<1>10. QED
  BY <1>5, <1>6, <1>7, <1>8, <1>9 DEF Next, CallStep

\* A stream that ended well has delivered every chunk its job put, for any
\* number of calls, slots and chunks and any size of the output queue.
THEOREM StreamsAreComplete == Spec => []StreamComplete
<1>1. Init => Delivering
  BY DEF Init, Delivering, Ledger, NewCall, NoJob, Interrupted, Ended, Terminal
<1>2. Inv /\ Delivering /\ [Next]_vars => Delivering'
  BY DeliveringNext
<1>3. Delivering => StreamComplete
  BY DEF Delivering, Ledger, StreamComplete
<1>4. QED
  BY <1>1, <1>2, <1>3, Invariant, PTL DEF Spec
=============================================================================
