----------------------- MODULE EngineClaimTick_proofs -----------------------
(***************************************************************************)
(* Type correctness and the safety of EngineClaimTick, for every finite    *)
(* set of nodes and requests and every limit, page size and fault bound.   *)
(***************************************************************************)
EXTENDS EngineClaimTick, FiniteSetTheorems, TLAPS

-----------------------------------------------------------------------------
(* The store's operators are well typed. *)

LEMMA UpdatesTyped ==
    ASSUME NEW r \in Rows, NEW n \in Nodes
    PROVE  Complete(r, n) \in Updates /\ Fail(r, n, TRUE) \in Updates
           /\ AdminFail(r) \in Updates
<1>1. NoUpdate \in Updates
  BY DEF NoUpdate, Updates
<1>2. \A s \in {"completed", "dead_letter", "failed"} : Settle(s) \in Updates
  BY DEF NoUpdate, Updates, Settle, Status, Idle, Terminal
<1>3. Complete(r, n) \in Updates /\ Fail(r, n, TRUE) \in Updates
  BY <1>1, <1>2 DEF Complete, Fail
<1>4. \A c \in BOOLEAN : [NoUpdate EXCEPT !.to = "dead_letter", !.clear = c] \in Updates
  BY DEF NoUpdate, Updates, Status, Terminal
<1>5. (r.owner # NoNode) \in BOOLEAN
  OBVIOUS
<1>6. AdminFail(r) \in Updates
  BY <1>1, <1>4, <1>5 DEF AdminFail
<1>7. QED
  BY <1>3, <1>6

LEMMA ApplyTyped ==
    ASSUME NEW r \in Rows, NEW u \in Updates
    PROVE  Apply(r, u) \in Rows
<1>1. (IF u.to = "same" THEN r.status ELSE u.to) \in Status
  BY DEF Rows, Updates
<1>2. (IF u.clear THEN NoNode ELSE r.owner) \in Nodes \cup {NoNode}
  BY DEF Rows, Updates
<1>3. /\ (r.expired /\ ~u.clear) \in BOOLEAN
      /\ (r.ready /\ u.to # "failed") \in BOOLEAN
      /\ (r.cancel \/ u.cancel) \in BOOLEAN
      /\ (r.first \/ u.first) \in BOOLEAN
  OBVIOUS
<1>4. r.attempts \in Nat
  BY DEF Rows
<1>5. QED
  BY <1>1, <1>2, <1>3, <1>4, Zenon DEF Apply, Rows

LEMMA RowsTyped ==
    ASSUME NEW r \in Rows, NEW n \in Nodes
    PROVE  /\ NoRow \in Rows /\ Enqueued \in Rows /\ Claimed(r, n) \in Rows
           /\ r.attempts + 1 \in Nat \ {0}
           /\ \A b \in BOOLEAN : /\ [r EXCEPT !.ready = b] \in Rows
                                 /\ [r EXCEPT !.expired = b] \in Rows
<1>1. {"absent", "pending", "processing"} \subseteq Status
  BY DEF Status, Idle, Terminal
<1>2. NoRow \in Rows
  BY <1>1 DEF NoRow, Rows
<1>3. Enqueued \in Rows
  BY <1>1, <1>2 DEF Enqueued, Rows
<1>4. r.attempts + 1 \in Nat \ {0}
  BY DEF Rows
<1>5. Claimed(r, n) \in Rows
  BY <1>1, <1>4 DEF Claimed, Rows
<1>6. \A b \in BOOLEAN : /\ [r EXCEPT !.ready = b] \in Rows
                         /\ [r EXCEPT !.expired = b] \in Rows
  BY DEF Rows
<1>7. QED
  BY <1>2, <1>3, <1>4, <1>5, <1>6

-----------------------------------------------------------------------------
(* Type correctness *)

LEMMA TicksTyped ==
    ASSUME NEW t \in Ticks
    PROVE  /\ NoTick \in Ticks
           /\ Decided(t) \in Ticks
           /\ \A s \in SUBSET Requests : /\ [t EXCEPT !.page = s] \in Ticks
                                         /\ [t EXCEPT !.claim = s] \in Ticks
                                         /\ [t EXCEPT !.fail = s] \in Ticks
<1>1. NoTick \in Ticks
  BY DEF NoTick, Ticks
<1>2. \A s \in SUBSET Requests : /\ [t EXCEPT !.page = s] \in Ticks
                                 /\ [t EXCEPT !.claim = s] \in Ticks
                                 /\ [t EXCEPT !.fail = s] \in Ticks
  BY DEF Ticks
<1>3. [t EXCEPT !.at = "fail", !.claim = {}] \in Ticks
  BY DEF Ticks
<1>4. [t EXCEPT !.at = "claim"] \in Ticks
  BY DEF Ticks
<1>5. [t EXCEPT !.at = "peek", !.offset = t.offset + PageSize] \in Ticks
  <2>1. t.offset + PageSize \in Nat
    BY TickAssumption DEF Ticks
  <2>2. \A o \in Nat : [t EXCEPT !.at = "peek", !.offset = o] \in Ticks
    BY DEF Ticks
  <2>3. QED
    BY <2>1, <2>2
<1>6. Decided(t) \in Ticks
  BY <1>1, <1>3, <1>4, <1>5 DEF Decided
<1>7. QED
  BY <1>1, <1>2, <1>6

LEMMA InitTyped == Init => TypeOK
<1> SUFFICES ASSUME Init PROVE TypeOK
  OBVIOUS
<1>1. NoRow \in Rows /\ NoTick \in Ticks
  BY DEF NoRow, Rows, Status, Idle, Terminal, NoTick, Ticks
<1>2. 0 \in 0 .. MaxFaults
  BY TickAssumption
<1>3. QED
  BY <1>1, <1>2, TickAssumption DEF Init, TypeOK

LEMMA TickTyped ==
    ASSUME TypeOK, NEW n \in Nodes, TickStep(n)
    PROVE  TypeOK'
<1>0. tick[n] \in Ticks /\ NoTick \in Ticks
  BY TicksTyped DEF TypeOK
<1>1. CASE StartTick(n)
  <2>1. /\ Found(n) \in SUBSET Engines
        /\ {e \in Installed[n] : ~BestPlaced(n, e, view)} \in SUBSET Engines
    BY TickAssumption DEF Found
  <2>2. \A f, b \in SUBSET Engines :
           [NoTick EXCEPT !.at = "peek", !.found = f, !.better = b] \in Ticks
    BY <1>0 DEF Ticks
  <2>3. QED
    BY <1>1, <2>1, <2>2 DEF StartTick, TypeOK
<1>2. CASE Peek(n)
  <2> DEFINE page == Peeked(tick[n].offset)
             full == Cardinality(page) = PageSize
  <2>1. page \in SUBSET Requests /\ full \in BOOLEAN
    BY DEF Peeked
  <2>2. \A s \in SUBSET Requests, b \in BOOLEAN :
           [tick[n] EXCEPT !.at = "decide", !.page = s, !.full = b] \in Ticks
    BY <1>0 DEF Ticks
  <2>3. tick' \in [Nodes -> Ticks]
    <3> HIDE DEF page, full
    <3>1. tick' = [tick EXCEPT ![n] =
                      IF page = {} THEN NoTick
                      ELSE [tick[n] EXCEPT !.at = "decide", !.page = page, !.full = full]]
      BY <1>2 DEF Peek, page, full
    <3>2. QED
      BY <1>0, <2>1, <2>2, <3>1 DEF TypeOK
  <2>4. QED
    BY <1>2, <2>3 DEF Peek, TypeOK
<1>3. CASE Decide(n)
  <2>1. PICK r \in tick[n].page :
           LET rest == [tick[n] EXCEPT !.page = @ \ {r}] IN
           \/ tick' = [tick EXCEPT ![n] = Decided(rest)]
           \/ tick' = [tick EXCEPT ![n] = Decided([rest EXCEPT !.fail = @ \cup {r}])]
           \/ tick' = [tick EXCEPT ![n] = Decided([rest EXCEPT !.claim = @ \cup {r}])]
    BY <1>3 DEF Decide
  <2> DEFINE rest == [tick[n] EXCEPT !.page = @ \ {r}]
  <2>2. /\ tick[n].page \in SUBSET Requests
        /\ r \in Requests
    BY <1>0 DEF Ticks
  <2>3. rest \in Ticks
    BY <1>0, <2>2, TicksTyped
  <2>4. rest.fail \cup {r} \in SUBSET Requests /\ rest.claim \cup {r} \in SUBSET Requests
    BY <2>2, <2>3 DEF Ticks
  <2> HIDE DEF rest
  <2>5. /\ Decided(rest) \in Ticks
        /\ Decided([rest EXCEPT !.fail = @ \cup {r}]) \in Ticks
        /\ Decided([rest EXCEPT !.claim = @ \cup {r}]) \in Ticks
    BY <2>3, <2>4, TicksTyped
  <2>6. tick' \in [Nodes -> Ticks]
    BY <2>1, <2>5 DEF TypeOK, rest
  <2>7. QED
    BY <1>3, <2>6 DEF Decide, TypeOK
<1>4. CASE FailRow(n)
  <2>1. PICK r \in tick[n].fail :
           /\ row' = [row EXCEPT ![r] = Apply(@, AdminFail(@))]
           /\ tick' = [tick EXCEPT ![n] = IF tick[n].fail = {r} THEN NoTick
                                       ELSE [tick[n] EXCEPT !.fail = @ \ {r}]]
    BY <1>4 DEF FailRow
  <2>2. r \in Requests /\ tick[n].fail \ {r} \in SUBSET Requests
    BY <1>0 DEF Ticks
  <2>3. [tick[n] EXCEPT !.fail = tick[n].fail \ {r}] \in Ticks
    BY <1>0, <2>2, TicksTyped
  <2>4. tick' \in [Nodes -> Ticks]
    <3>1. tick' = [tick EXCEPT ![n] =
                      IF tick[n].fail = {r} THEN NoTick
                      ELSE [tick[n] EXCEPT !.fail = tick[n].fail \ {r}]]
      BY <2>1
    <3>2. CASE tick[n].fail = {r}
      BY <1>0, <3>1, <3>2 DEF TypeOK
    <3>3. CASE tick[n].fail # {r}
      BY <1>0, <2>3, <3>1, <3>3 DEF TypeOK
    <3>4. QED
      BY <3>2, <3>3
  <2>5. row' \in [Requests -> Rows]
    <3>1. \A q \in Rows : Apply(q, AdminFail(q)) \in Rows
      <4> TAKE q \in Rows
      <4>1. AdminFail(q) \in Updates
        BY UpdatesTyped
      <4>2. QED
        BY <4>1, ApplyTyped
    <3>2. QED
      BY <2>1, <2>2, <3>1 DEF TypeOK
  <2>6. QED
    BY <1>4, <2>4, <2>5 DEF FailRow, TypeOK
<1>5. CASE ClaimRows(n)
  <2>1. Taken(n) \subseteq Requests
    BY <1>0 DEF Taken, Ticks
  <2>2. \A r \in Requests : Claimed(row[r], n) \in Rows /\ row[r].attempts + 1 \in Nat \ {0}
    BY RowsTyped DEF TypeOK
  <2>3. row' \in [Requests -> Rows]
    BY <1>5, <2>2 DEF ClaimRows, TypeOK
  <2>4. tasks' \in [Nodes -> SUBSET Tasks]
    <3>1. {<<r, row[r].attempts + 1>> : r \in Taken(n)} \subseteq Tasks
      BY <2>1, <2>2 DEF Tasks
    <3>2. QED
      BY <1>5, <3>1 DEF ClaimRows, TypeOK
  <2>5. QED
    BY <1>0, <1>5, <2>3, <2>4 DEF ClaimRows, TypeOK
<1>6. QED
  BY <1>1, <1>2, <1>3, <1>4, <1>5 DEF TickStep

LEMMA NodesTyped ==
    ASSUME TypeOK, NEW n \in Nodes,
           Crash(n) \/ HeartbeatExpires(n) \/ Restart(n) \/ Publish(n)
    PROVE  TypeOK'
<1>0. NoTick \in Ticks /\ (faults < MaxFaults => faults + 1 \in 0 .. MaxFaults)
  BY TickAssumption DEF NoTick, Ticks, TypeOK
<1>1. CASE Crash(n)
  BY <1>0, <1>1 DEF Crash, TypeOK
<1>2. CASE HeartbeatExpires(n)
  BY <1>2 DEF HeartbeatExpires, TypeOK
<1>3. CASE Restart(n)
  BY <1>3 DEF Restart, TypeOK
<1>4. CASE Publish(n)
  BY <1>0, <1>4 DEF Publish, TypeOK
<1>5. QED
  BY <1>1, <1>2, <1>3, <1>4

LEMMA RequestsTyped ==
    ASSUME TypeOK, NEW r \in Requests,
           Enqueue(r) \/ BackoffElapses(r) \/ Age(r) \/ LeaseExpires(r) \/ Stall(r)
    PROVE  TypeOK'
<1>0. /\ row[r] \in Rows /\ Enqueued \in Rows
      /\ [row[r] EXCEPT !.ready = TRUE] \in Rows
      /\ [row[r] EXCEPT !.expired = TRUE] \in Rows
      /\ faults < MaxFaults => faults + 1 \in 0 .. MaxFaults
  <2>1. row[r] \in Rows
    BY DEF TypeOK
  <2>2. Enqueued \in Rows
    BY DEF Enqueued, NoRow, Rows, Status, Idle, Terminal
  <2>3. /\ [row[r] EXCEPT !.ready = TRUE] \in Rows
        /\ [row[r] EXCEPT !.expired = TRUE] \in Rows
    BY <2>1 DEF Rows
  <2>4. faults < MaxFaults => faults + 1 \in 0 .. MaxFaults
    BY TickAssumption DEF TypeOK
  <2>5. QED
    BY <2>1, <2>2, <2>3, <2>4
<1>1. CASE Enqueue(r)
  BY <1>0, <1>1 DEF Enqueue, TypeOK
<1>2. CASE BackoffElapses(r)
  <2>1. row' = [row EXCEPT ![r] = [row[r] EXCEPT !.ready = TRUE]]
    BY <1>2 DEF BackoffElapses
  <2>2. QED
    BY <1>0, <1>2, <2>1 DEF BackoffElapses, TypeOK
<1>3. CASE Age(r)
  BY <1>3 DEF Age, TypeOK
<1>4. CASE LeaseExpires(r)
  <2>1. row' = [row EXCEPT ![r] = [row[r] EXCEPT !.expired = TRUE]]
    BY <1>4 DEF LeaseExpires
  <2>2. QED
    BY <1>0, <1>4, <2>1 DEF LeaseExpires, TypeOK
<1>5. CASE Stall(r)
  <2>1. row' = [row EXCEPT ![r] = [row[r] EXCEPT !.expired = TRUE]]
    BY <1>5 DEF Stall
  <2>2. QED
    BY <1>0, <1>5, <2>1 DEF Stall, TypeOK
<1>6. QED
  BY <1>1, <1>2, <1>3, <1>4, <1>5

LEMMA EndsTyped ==
    ASSUME TypeOK, NEW n \in Nodes, NEW r \in Requests, TaskEnds(n, r)
    PROVE  TypeOK'
<1>1. tasks' \in [Nodes -> SUBSET Tasks]
  BY DEF TaskEnds, TypeOK
<1>2. \A q \in Rows : /\ Apply(q, Complete(q, n)) \in Rows
                      /\ Apply(q, Fail(q, n, TRUE)) \in Rows
  <2> TAKE q \in Rows
  <2>1. Complete(q, n) \in Updates /\ Fail(q, n, TRUE) \in Updates
    BY UpdatesTyped
  <2>2. QED
    BY <2>1, ApplyTyped
<1>3. CASE /\ row' = [row EXCEPT ![r] = Apply(@, Complete(@, n))]
           /\ UNCHANGED <<aged, faults>>
  BY <1>1, <1>2, <1>3 DEF TaskEnds, TypeOK
<1>4. CASE /\ faults < MaxFaults
           /\ row' = [row EXCEPT ![r] = Apply(@, Fail(@, n, TRUE))]
           /\ aged' = IF Owned(row[r], n) THEN aged \ {r} ELSE aged
           /\ faults' = faults + 1
  <2>1. row' \in [Requests -> Rows]
    BY <1>2, <1>4 DEF TypeOK
  <2>2. aged' \in SUBSET Requests
    BY <1>4 DEF TypeOK
  <2>3. faults' \in 0 .. MaxFaults
    BY <1>4, TickAssumption DEF TypeOK
  <2>4. QED
    BY <1>1, <2>1, <2>2, <2>3 DEF TaskEnds, TypeOK
<1>5. QED
  BY <1>3, <1>4 DEF TaskEnds

LEMMA StepTyped == TypeOK /\ [Next]_vars => TypeOK'
<1> SUFFICES ASSUME TypeOK, [Next]_vars PROVE TypeOK'
  OBVIOUS
<1>1. CASE UNCHANGED vars
  BY <1>1 DEF vars, TypeOK
<1>2. QED
  BY <1>1, TickTyped, NodesTyped, RequestsTyped, EndsTyped DEF Next

\* The rows, tasks and ticks of every node keep their types.
THEOREM TypeCorrect == Spec => []TypeOK
BY InitTyped, StepTyped, PTL DEF Spec

-----------------------------------------------------------------------------
(* One run per row. *)

Holds(n, t) == /\ row[t[1]].status = "processing" /\ row[t[1]].owner = n
               /\ row[t[1]].attempts = t[2] /\ ~ row[t[1]].expired

\* A task whose lease never ran out holds a lease that still stands, so nobody can
\* claim its row.
Leased == \A n \in Nodes : \A t \in tasks[n] : t[1] \notin late => Holds(n, t)

LEMMA TaskTyped ==
    ASSUME TypeOK, NEW n \in Nodes, NEW t \in tasks[n]
    PROVE  t[1] \in Requests /\ t[2] \in Nat /\ t = <<t[1], t[2]>>
<1>1. t \in Requests \X (Nat \ {0})
  BY DEF TypeOK, Tasks
<1>2. QED
  BY <1>1

\* A step that changes no row somebody runs, and starts no task.
LEMMA LeasedFrame ==
    ASSUME TypeOK, Leased, late \subseteq late',
           \A n \in Nodes : tasks'[n] \subseteq tasks[n],
           \A n \in Nodes : \A t \in tasks'[n] :
               t[1] \notin late' => row'[t[1]] = row[t[1]]
    PROVE  Leased'
<1> SUFFICES ASSUME NEW n \in Nodes, NEW t \in tasks'[n], t[1] \notin late'
             PROVE  Holds(n, t)'
  BY DEF Leased
<1>1. Holds(n, t)
  BY DEF Leased
<1>2. QED
  BY <1>1 DEF Holds

LEMMA UpdateRefused ==
    ASSUME NEW q \in Rows
    PROVE  /\ Apply(q, NoUpdate) = q
           /\ q.status = "processing" => Apply(q, AdminFail(q)) = q
           /\ \A n : ~ Owned(q, n) => /\ Apply(q, Complete(q, n)) = q
                                      /\ Apply(q, Fail(q, n, TRUE)) = q
<1>1. Apply(q, NoUpdate) = q
  BY DEF Apply, NoUpdate, Rows
<1>2. q.status = "processing" => Apply(q, AdminFail(q)) = q
  BY <1>1 DEF AdminFail
<1>3. \A n : ~ Owned(q, n) => Apply(q, Complete(q, n)) = q /\ Apply(q, Fail(q, n, TRUE)) = q
  BY <1>1 DEF Complete, Fail
<1>4. QED
  BY <1>1, <1>2, <1>3

LEMMA LeasedTick ==
    ASSUME TypeOK, Leased, NEW n \in Nodes, TickStep(n)
    PROVE  Leased'
<1>0. tick[n] \in Ticks
  BY DEF TypeOK
<1>1. CASE StartTick(n) \/ Peek(n) \/ Decide(n)
  <2>1. UNCHANGED <<row, tasks, late>>
    BY <1>1 DEF StartTick, Peek, Decide
  <2>2. QED
    BY <2>1 DEF Leased, Holds
<1>2. CASE FailRow(n)
  <2>1. PICK r \in tick[n].fail : row' = [row EXCEPT ![r] = Apply(@, AdminFail(@))]
    BY <1>2 DEF FailRow
  <2>2. UNCHANGED <<tasks, late>>
    BY <1>2 DEF FailRow
  <2>3. ASSUME NEW m \in Nodes, NEW t \in tasks[m], t[1] \notin late
        PROVE  row'[t[1]] = row[t[1]]
    <3>1. row[t[1]].status = "processing" /\ row[t[1]] \in Rows /\ t[1] \in Requests
      BY <2>3, TaskTyped DEF Leased, Holds, TypeOK
    <3>2. Apply(row[t[1]], AdminFail(row[t[1]])) = row[t[1]]
      BY <3>1, UpdateRefused
    <3>3. QED
      BY <2>1, <3>1, <3>2 DEF TypeOK
  <2>4. QED
    BY <2>2, <2>3, LeasedFrame
<1>3. CASE ClaimRows(n)
  <2>1. Taken(n) \subseteq Requests /\ \A r \in Taken(n) : Claimable(row[r])
    BY <1>0 DEF Taken, Ticks
  <2>2. /\ row' = [r \in Requests |-> IF r \in Taken(n) THEN Claimed(row[r], n) ELSE row[r]]
        /\ tasks' = [tasks EXCEPT ![n] =
              @ \cup {<<r, row[r].attempts + 1>> : r \in Taken(n)}]
        /\ late' = late
    BY <1>3 DEF ClaimRows
  <2> SUFFICES ASSUME NEW m \in Nodes, NEW t \in tasks'[m], t[1] \notin late
               PROVE  Holds(m, t)'
    BY <2>2 DEF Leased
  <2>3. CASE t \in tasks[m]
    <3>1. Holds(m, t) /\ t[1] \in Requests
      BY <2>3, TaskTyped DEF Leased
    <3>2. ~ Claimable(row[t[1]])
      BY <3>1 DEF Holds, Claimable, Idle
    <3>3. row'[t[1]] = row[t[1]]
      BY <2>1, <2>2, <3>1, <3>2
    <3>4. QED
      BY <3>1, <3>3 DEF Holds
  <2>4. CASE t \notin tasks[m]
    <3>1. PICK r \in Taken(n) : m = n /\ t = <<r, row[r].attempts + 1>>
      BY <2>2, <2>4 DEF TypeOK
    <3>2. r \in Requests /\ row[r] \in Rows
      BY <2>1 DEF TypeOK
    <3>3. row'[r] = Claimed(row[r], n)
      BY <2>2, <3>2
    <3>4. QED
      BY <3>1, <3>2, <3>3 DEF Holds, Claimed, Rows
  <2>5. QED
    BY <2>3, <2>4
<1>4. QED
  BY <1>1, <1>2, <1>3 DEF TickStep

LEMMA LeasedNodes ==
    ASSUME TypeOK, Leased, NEW n \in Nodes,
           Crash(n) \/ HeartbeatExpires(n) \/ Restart(n) \/ Publish(n)
    PROVE  Leased'
<1>1. /\ UNCHANGED <<row, late>>
      /\ \A m \in Nodes : tasks'[m] \subseteq tasks[m]
  BY DEF Crash, HeartbeatExpires, Restart, Publish, TypeOK
<1>2. QED
  BY <1>1, LeasedFrame

LEMMA LeasedRequests ==
    ASSUME TypeOK, Leased, NEW r \in Requests,
           Enqueue(r) \/ BackoffElapses(r) \/ Age(r) \/ LeaseExpires(r) \/ Stall(r)
    PROVE  Leased'
<1>1. tasks' = tasks /\ late \subseteq late' /\ \A q \in Requests \ {r} : row'[q] = row[q]
  BY DEF Enqueue, BackoffElapses, Age, LeaseExpires, Stall, TypeOK
<1>2. ASSUME NEW n \in Nodes, NEW t \in tasks[n], t[1] \notin late'
      PROVE  row'[t[1]] = row[t[1]]
  <2>1. Holds(n, t) /\ t[1] \in Requests /\ t = <<t[1], t[2]>>
    BY <1>1, <1>2, TaskTyped DEF Leased
  <2>2. CASE t[1] # r
    BY <1>1, <2>1, <2>2
  <2>3. CASE t[1] = r
    <3>1. ~ Enqueue(r) /\ ~ BackoffElapses(r)
      BY <2>1, <2>3 DEF Holds, Enqueue, BackoffElapses
    <3>2. ~ LeaseExpires(r)
      <4>1. Attended(r)
        BY <2>1, <2>3 DEF Holds, Attended
      <4>2. QED
        BY <4>1 DEF LeaseExpires
    <3>3. ~ Stall(r)
      BY <1>2, <2>3 DEF Stall
    <3>4. QED
      BY <3>1, <3>2, <3>3 DEF Age
  <2>4. QED
    BY <2>2, <2>3
<1>3. QED
  BY <1>1, <1>2, LeasedFrame

LEMMA LeasedEnds ==
    ASSUME TypeOK, Leased, NEW n \in Nodes, NEW r \in Requests, TaskEnds(n, r)
    PROVE  Leased'
<1>1. PICK gone \in tasks[n] : gone[1] = r /\ tasks' = [tasks EXCEPT ![n] = @ \ {gone}]
  BY DEF TaskEnds
<1>2. late' = late
  BY DEF TaskEnds
<1>3. \/ row' = [row EXCEPT ![r] = Apply(@, Complete(@, n))]
      \/ row' = [row EXCEPT ![r] = Apply(@, Fail(@, n, TRUE))]
  BY DEF TaskEnds
<1>4. ASSUME NEW m \in Nodes, NEW t \in tasks'[m], t[1] \notin late
      PROVE  row'[t[1]] = row[t[1]]
  <2>1. t \in tasks[m] /\ (m = n => t # gone)
    BY <1>1 DEF TypeOK
  <2>2. Holds(m, t) /\ t[1] \in Requests /\ t = <<t[1], t[2]>> /\ row[t[1]] \in Rows
    BY <1>4, <2>1, TaskTyped DEF Leased, TypeOK
  <2>3. CASE t[1] # r
    BY <1>3, <2>2, <2>3 DEF TypeOK
  <2>4. CASE t[1] = r
    <3>1. m # n
      <4>1. Holds(n, gone) /\ gone = <<gone[1], gone[2]>>
        BY <1>1, <1>4, <2>4, TaskTyped DEF Leased
      <4>2. SUFFICES ASSUME m = n PROVE FALSE
        OBVIOUS
      <4>3. t[2] = gone[2]
        BY <1>1, <2>2, <2>4, <4>1 DEF Holds
      <4>4. QED
        BY <1>1, <2>1, <2>2, <2>4, <4>1, <4>2, <4>3
    <3>2. ~ Owned(row[r], n)
      BY <2>2, <2>4, <3>1 DEF Holds, Owned
    <3>3. Apply(row[r], Complete(row[r], n)) = row[r] /\ Apply(row[r], Fail(row[r], n, TRUE)) = row[r]
      BY <2>2, <2>4, <3>2, UpdateRefused
    <3>4. QED
      BY <1>3, <2>2, <2>4, <3>3 DEF TypeOK
  <2>5. QED
    BY <2>3, <2>4
<1>5. \A m \in Nodes : tasks'[m] \subseteq tasks[m]
  BY <1>1 DEF TypeOK
<1>6. QED
  BY <1>2, <1>4, <1>5, LeasedFrame

LEMMA LeasedKept == TypeOK /\ Leased /\ [Next]_vars => Leased'
<1> SUFFICES ASSUME TypeOK, Leased, [Next]_vars PROVE Leased'
  OBVIOUS
<1>1. CASE UNCHANGED vars
  BY <1>1 DEF vars, Leased, Holds
<1>2. QED
  BY <1>1, LeasedTick, LeasedNodes, LeasedRequests, LeasedEnds DEF Next

LEMMA LeasedInit == Init => Leased
BY DEF Init, Leased

LEMMA LeasedHolds == Leased => TasksHoldLeases
BY DEF Leased, Holds, TasksHoldLeases

\* Nodes that decide on the same row never both run it: a task whose lease did not
\* run out under it is the attempt its row is leased to (store.py, claim; the
\* snapshot a tick decided on may be old by then).
THEOREM OneRunPerRow == Spec => []TasksHoldLeases
<1>1. TypeOK /\ Leased /\ [Next]_vars => Leased'
  BY LeasedKept
<1>2. QED
  BY <1>1, LeasedInit, LeasedHolds, TypeCorrect, PTL DEF Spec

-----------------------------------------------------------------------------
(* Capacity. *)

\* What runs and what this tick has decided to claim fit the limit together: so
\* they still do when the claims have become tasks.
Within(n, e) == Cardinality(Running(n, e)) + Cardinality(Reserved(n, e)) <= Limit[e]

Capacity == \A n \in Nodes : /\ IsFiniteSet(tasks[n])
                             /\ \A e \in Engines : Within(n, e)

LEMMA Counts ==
    ASSUME TypeOK, Capacity, NEW n \in Nodes, NEW e \in Engines
    PROVE  /\ IsFiniteSet(Running(n, e)) /\ Cardinality(Running(n, e)) \in Nat
           /\ IsFiniteSet(Reserved(n, e)) /\ Cardinality(Reserved(n, e)) \in Nat
           /\ Limit[e] \in Nat
<1>1. IsFiniteSet(Running(n, e))
  BY FS_Subset DEF Capacity, Running
<1>2. Reserved(n, e) \subseteq Requests
  BY DEF Reserved, TypeOK, Ticks
<1>3. IsFiniteSet(Reserved(n, e))
  BY <1>2, FS_Subset, TickAssumption
<1>4. Limit[e] \in Nat
  BY TickAssumption
<1>5. QED
  BY <1>1, <1>3, <1>4, FS_CardinalityType

\* A step after which no node has more tasks, nor a tick more claims, than before.
LEMMA CapacityFrame ==
    ASSUME TypeOK, Capacity,
           \A n \in Nodes : /\ tasks'[n] \subseteq tasks[n]
                            /\ tick'[n].claim \subseteq tick[n].claim
    PROVE  Capacity'
<1> SUFFICES ASSUME NEW n \in Nodes
             PROVE  /\ IsFiniteSet(tasks'[n])
                    /\ \A e \in Engines : Within(n, e)'
  BY DEF Capacity
<1>1. IsFiniteSet(tasks'[n])
  BY FS_Subset DEF Capacity
<1>2. ASSUME NEW e \in Engines
      PROVE  Within(n, e)'
  <2>1. Running(n, e)' \subseteq Running(n, e) /\ Reserved(n, e)' \subseteq Reserved(n, e)
    BY DEF Running, Reserved
  <2>2. /\ IsFiniteSet(Running(n, e)) /\ Cardinality(Running(n, e)) \in Nat
        /\ IsFiniteSet(Reserved(n, e)) /\ Cardinality(Reserved(n, e)) \in Nat
        /\ Limit[e] \in Nat
    BY Counts
  <2>3. /\ Cardinality(Running(n, e)') <= Cardinality(Running(n, e))
        /\ Cardinality(Running(n, e)') \in Nat
    BY <2>1, <2>2, FS_Subset, FS_CardinalityType
  <2>4. /\ Cardinality(Reserved(n, e)') <= Cardinality(Reserved(n, e))
        /\ Cardinality(Reserved(n, e)') \in Nat
    BY <2>1, <2>2, FS_Subset, FS_CardinalityType
  <2>5. Within(n, e)
    BY DEF Capacity
  <2>6. QED
    BY <2>2, <2>3, <2>4, <2>5 DEF Within
<1>3. QED
  BY <1>1, <1>2

LEMMA DecidedClaims ==
    ASSUME NEW t \in Ticks
    PROVE  Decided(t).claim \in {t.claim, {}}
BY DEF Decided, NoTick, Ticks

\* Tasks of the rows claimed for engine e are no more than these rows.
LEMMA ClaimedTasks ==
    ASSUME NEW S, IsFiniteSet(S)
    PROVE  LET T == {<<r, row[r].attempts + 1>> : r \in S}
           IN  IsFiniteSet(T) /\ Cardinality(T) <= Cardinality(S)
<1> DEFINE T == {<<r, row[r].attempts + 1>> : r \in S}
           f == [r \in S |-> <<r, row[r].attempts + 1>>]
<1>1. f \in Surjection(S, T)
  BY DEF Surjection
<1>2. QED
  BY <1>1, FS_Surjection

LEMMA CapacityDecide ==
    ASSUME TypeOK, Capacity, NEW n \in Nodes, Decide(n)
    PROVE  Capacity'
<1>0. tick[n] \in Ticks /\ tasks' = tasks
  BY DEF TypeOK, Decide
<1>1. PICK r \in tick[n].page :
         LET rest == [tick[n] EXCEPT !.page = @ \ {r}] IN
         \/ tick' = [tick EXCEPT ![n] = Decided(rest)]
         \/ tick' = [tick EXCEPT ![n] = Decided([rest EXCEPT !.fail = @ \cup {r}])]
         \/ /\ Claims(n, r)
            /\ tick' = [tick EXCEPT ![n] = Decided([rest EXCEPT !.claim = @ \cup {r}])]
  BY DEF Decide
<1> DEFINE rest == [tick[n] EXCEPT !.page = @ \ {r}]
<1>2. r \in Requests /\ rest \in Ticks /\ rest.claim = tick[n].claim
  BY <1>0, TicksTyped DEF Ticks
<1>3. rest.fail \cup {r} \in SUBSET Requests /\ rest.claim \cup {r} \in SUBSET Requests
  BY <1>2 DEF Ticks
<1> HIDE DEF rest
<1>4. /\ [rest EXCEPT !.fail = @ \cup {r}] \in Ticks
      /\ [rest EXCEPT !.fail = @ \cup {r}].claim = tick[n].claim
      /\ [rest EXCEPT !.claim = @ \cup {r}] \in Ticks
      /\ [rest EXCEPT !.claim = @ \cup {r}].claim = tick[n].claim \cup {r}
  BY <1>2, <1>3, TicksTyped DEF Ticks
<1>5. CASE \A m \in Nodes : tick'[m].claim \subseteq tick[m].claim
  BY <1>0, <1>5, CapacityFrame
<1>6. CASE /\ Claims(n, r)
           /\ tick' = [tick EXCEPT ![n] = Decided([rest EXCEPT !.claim = @ \cup {r}])]
  <2>1. /\ tick'[n].claim \subseteq tick[n].claim \cup {r}
        /\ \A m \in Nodes \ {n} : tick'[m] = tick[m]
    BY <1>4, <1>6, DecidedClaims DEF TypeOK
  <2>2. ASSUME NEW m \in Nodes, NEW e \in Engines
        PROVE  Within(m, e)'
    <3>1. Running(m, e)' = Running(m, e) /\ Within(m, e)
      BY <1>0 DEF Running, Capacity
    <3>2. /\ IsFiniteSet(Reserved(m, e)) /\ Cardinality(Reserved(m, e)) \in Nat
          /\ Cardinality(Running(m, e)) \in Nat /\ Limit[e] \in Nat
      BY Counts
    <3>3. CASE m = n /\ e = EngineOf[r]
      <4>1. Cardinality(Running(n, e)) + Cardinality(Reserved(n, e)) < Limit[e]
        BY <1>6, <3>3 DEF Claims, HasCapacity
      <4>2. Reserved(n, e)' \subseteq Reserved(n, e) \cup {r}
        BY <2>1 DEF Reserved
      <4>3. /\ IsFiniteSet(Reserved(n, e) \cup {r})
            /\ Cardinality(Reserved(n, e) \cup {r}) <= Cardinality(Reserved(n, e)) + 1
            /\ Cardinality(Reserved(n, e) \cup {r}) \in Nat
        <5>1. IsFiniteSet(Reserved(n, e))
          BY <3>2, <3>3
        <5>2. /\ IsFiniteSet(Reserved(n, e) \cup {r})
              /\ \/ Cardinality(Reserved(n, e) \cup {r}) = Cardinality(Reserved(n, e))
                 \/ Cardinality(Reserved(n, e) \cup {r}) = Cardinality(Reserved(n, e)) + 1
          BY <5>1, FS_AddElement
        <5>3. QED
          BY <3>2, <3>3, <5>2
      <4>4. /\ Cardinality(Reserved(n, e)') <= Cardinality(Reserved(n, e) \cup {r})
            /\ Cardinality(Reserved(n, e)') \in Nat
        BY <4>2, <4>3, FS_Subset, FS_CardinalityType
      <4>5. QED
        BY <3>1, <3>2, <3>3, <4>1, <4>3, <4>4 DEF Within
    <3>4. CASE ~ (m = n /\ e = EngineOf[r])
      <4>1. Reserved(m, e)' \subseteq Reserved(m, e)
        BY <2>1, <3>4 DEF Reserved
      <4>2. /\ Cardinality(Reserved(m, e)') <= Cardinality(Reserved(m, e))
            /\ Cardinality(Reserved(m, e)') \in Nat
        BY <3>2, <4>1, FS_Subset, FS_CardinalityType
      <4>3. QED
        BY <3>1, <3>2, <4>2 DEF Within
    <3>5. QED
      BY <3>3, <3>4
  <2>3. QED
    BY <1>0, <2>2 DEF Capacity
<1>7. CASE \/ tick' = [tick EXCEPT ![n] = Decided(rest)]
           \/ tick' = [tick EXCEPT ![n] = Decided([rest EXCEPT !.fail = @ \cup {r}])]
  <2>1. \A m \in Nodes : tick'[m].claim \subseteq tick[m].claim
    BY <1>2, <1>4, <1>7, DecidedClaims DEF TypeOK
  <2>2. QED
    BY <1>5, <2>1
<1>8. QED
  BY <1>1, <1>6, <1>7 DEF rest

LEMMA CapacityClaims ==
    ASSUME TypeOK, Capacity, NEW n \in Nodes, ClaimRows(n)
    PROVE  Capacity'
<1> DEFINE New(S) == {<<r, row[r].attempts + 1>> : r \in S}
<1>1. /\ tasks'[n] = tasks[n] \cup New(Taken(n)) /\ tick'[n].claim = {}
      /\ \A m \in Nodes \ {n} : tasks'[m] = tasks[m] /\ tick'[m] = tick[m]
  BY DEF ClaimRows, NoTick, TypeOK
<1>2. Taken(n) \subseteq Requests /\ Taken(n) \subseteq tick[n].claim
  BY DEF Taken, TypeOK, Ticks
<1>3. IsFiniteSet(tasks'[n])
  <2>1. IsFiniteSet(Taken(n))
    BY <1>2, FS_Subset, TickAssumption
  <2>2. IsFiniteSet(New(Taken(n)))
    BY <2>1, ClaimedTasks
  <2>3. IsFiniteSet(tasks[n])
    BY DEF Capacity
  <2>4. IsFiniteSet(tasks[n] \cup New(Taken(n)))
    BY <2>2, <2>3, FS_Union
  <2>5. QED
    BY <1>1, <2>4
<1>4. ASSUME NEW e \in Engines
      PROVE  Within(n, e)'
  <2> DEFINE S == {r \in Taken(n) : EngineOf[r] = e}
  <2>1. Within(n, e)
    BY DEF Capacity
  <2>2. /\ IsFiniteSet(Running(n, e)) /\ Cardinality(Running(n, e)) \in Nat
        /\ IsFiniteSet(Reserved(n, e)) /\ Cardinality(Reserved(n, e)) \in Nat
        /\ Limit[e] \in Nat
    BY Counts
  <2>3. S \subseteq Reserved(n, e)
    BY <1>2 DEF Reserved
  <2>4. /\ IsFiniteSet(S) /\ Cardinality(S) \in Nat
        /\ Cardinality(S) <= Cardinality(Reserved(n, e))
    BY <2>2, <2>3, FS_Subset, FS_CardinalityType
  <2>5. /\ IsFiniteSet(New(S)) /\ Cardinality(New(S)) \in Nat
        /\ Cardinality(New(S)) <= Cardinality(S)
    BY <2>4, ClaimedTasks, FS_CardinalityType
  <2>6. Running(n, e)' \subseteq Running(n, e) \cup New(S)
    BY <1>1 DEF Running
  <2>7. /\ IsFiniteSet(Running(n, e) \cup New(S))
        /\ Cardinality(Running(n, e) \cup New(S)) <=
              Cardinality(Running(n, e)) + Cardinality(New(S))
        /\ Cardinality(Running(n, e) \cup New(S)) \in Nat
    <3>1. /\ IsFiniteSet(Running(n, e) \cup New(S)) /\ IsFiniteSet(Running(n, e) \cap New(S))
          /\ Cardinality(Running(n, e) \cup New(S)) =
                Cardinality(Running(n, e)) + Cardinality(New(S))
                - Cardinality(Running(n, e) \cap New(S))
      BY <2>2, <2>5, FS_Union, FS_Intersection
    <3>2. /\ Cardinality(Running(n, e) \cup New(S)) \in Nat
          /\ Cardinality(Running(n, e) \cap New(S)) \in Nat
      BY <3>1, FS_CardinalityType
    <3>3. QED
      BY <2>2, <2>5, <3>1, <3>2
  <2>8. /\ Cardinality(Running(n, e)') <= Cardinality(Running(n, e) \cup New(S))
        /\ Cardinality(Running(n, e)') \in Nat
    BY <2>6, <2>7, FS_Subset, FS_CardinalityType
  <2>9. Cardinality(Reserved(n, e)') = 0
    <3>1. Reserved(n, e)' = {}
      BY <1>1 DEF Reserved
    <3>2. QED
      BY <3>1, FS_EmptySet
  <2>10. QED
    <3> HIDE DEF S, New
    <3>1. QED
      BY <2>1, <2>2, <2>4, <2>5, <2>7, <2>8, <2>9 DEF Within
<1>5. ASSUME NEW m \in Nodes \ {n}, NEW e \in Engines
      PROVE  Within(m, e)'
  <2>1. Running(m, e)' = Running(m, e) /\ Reserved(m, e)' = Reserved(m, e)
    BY <1>1 DEF Running, Reserved
  <2>2. QED
    BY <2>1 DEF Capacity, Within
<1>6. QED
  BY <1>1, <1>3, <1>4, <1>5 DEF Capacity

LEMMA CapacityKept == TypeOK /\ Capacity /\ [Next]_vars => Capacity'
<1> SUFFICES ASSUME TypeOK, Capacity, [Next]_vars PROVE Capacity'
  OBVIOUS
<1>1. CASE UNCHANGED <<tasks, tick>>
  BY <1>1, CapacityFrame
<1>2. ASSUME NEW n \in Nodes, StartTick(n) \/ Peek(n) \/ FailRow(n)
      PROVE  Capacity'
  <2>1. tick[n] \in Ticks
    BY DEF TypeOK
  <2>2. \A m \in Nodes : tick'[m].claim \subseteq tick[m].claim
    <3>1. CASE StartTick(n)
      BY <3>1 DEF StartTick, TypeOK, NoTick
    <3>2. CASE Peek(n)
      BY <2>1, <3>2 DEF Peek, TypeOK, NoTick, Ticks
    <3>3. CASE FailRow(n)
      BY <2>1, <3>3 DEF FailRow, TypeOK, NoTick, Ticks
    <3>4. QED
      BY <1>2, <3>1, <3>2, <3>3
  <2>3. tasks' = tasks
    BY <1>2 DEF StartTick, Peek, FailRow
  <2>4. QED
    BY <2>2, <2>3, CapacityFrame
<1>3. ASSUME NEW n \in Nodes, Crash(n)
      PROVE  Capacity'
  <2>1. \A m \in Nodes : /\ tasks'[m] \subseteq tasks[m]
                         /\ tick'[m].claim \subseteq tick[m].claim
    BY <1>3 DEF Crash, TypeOK, NoTick
  <2>2. QED
    BY <2>1, CapacityFrame
<1>4. ASSUME NEW n \in Nodes, NEW r \in Requests, TaskEnds(n, r)
      PROVE  Capacity'
  <2>1. (\A m \in Nodes : tasks'[m] \subseteq tasks[m]) /\ tick' = tick
    BY <1>4 DEF TaskEnds, TypeOK
  <2>2. QED
    BY <2>1, CapacityFrame
<1>5. \A n \in Nodes : HeartbeatExpires(n) \/ Restart(n) \/ Publish(n) =>
         UNCHANGED <<tasks, tick>>
  BY DEF HeartbeatExpires, Restart, Publish
<1>6. \A r \in Requests :
         Enqueue(r) \/ BackoffElapses(r) \/ Age(r) \/ LeaseExpires(r) \/ Stall(r) =>
         UNCHANGED <<tasks, tick>>
  BY DEF Enqueue, BackoffElapses, Age, LeaseExpires, Stall
<1>7. UNCHANGED vars => UNCHANGED <<tasks, tick>>
  BY DEF vars
<1>8. QED
  BY <1>1, <1>2, <1>3, <1>4, <1>5, <1>6, <1>7, CapacityDecide, CapacityClaims
     DEF Next, TickStep

LEMMA CapacityInit == Init => Capacity
<1> SUFFICES ASSUME Init, NEW n \in Nodes
             PROVE  IsFiniteSet(tasks[n]) /\ \A e \in Engines : Within(n, e)
  BY DEF Capacity
<1>1. tasks[n] = {} /\ tick[n].claim = {}
  BY DEF Init, NoTick
<1>2. \A e \in Engines : Running(n, e) = {} /\ Reserved(n, e) = {}
  BY <1>1 DEF Running, Reserved
<1>3. Cardinality({}) = 0 /\ IsFiniteSet({})
  BY FS_EmptySet
<1>4. \A e \in Engines : Limit[e] \in Nat
  BY TickAssumption
<1>5. QED
  BY <1>1, <1>2, <1>3, <1>4 DEF Within

LEMMA CapacityRespects == TypeOK /\ Capacity => CapacityRespected
<1> SUFFICES ASSUME TypeOK, Capacity, NEW n \in Nodes, NEW e \in Engines
             PROVE  Cardinality(Running(n, e)) <= Limit[e]
  BY DEF CapacityRespected
<1>1. QED
  BY Counts DEF Capacity, Within

\* No node runs more requests of an engine than the engine allows, however many
\* pages a tick reads and however its claims turn out (claim_worker.py,
\* _has_engine_capacity with reserved_engines).
THEOREM CapacityIsRespected == Spec => []CapacityRespected
<1>1. TypeOK /\ Capacity /\ [Next]_vars => Capacity'
  BY CapacityKept
<1>2. QED
  BY <1>1, CapacityInit, CapacityRespects, TypeCorrect, PTL DEF Spec

=============================================================================
