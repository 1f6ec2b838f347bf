-------------------------- MODULE EngineClaimTick --------------------------
(***************************************************************************)
(* Which node runs which request: the ticks of the claim workers over the  *)
(* claimable rows of the durable queue, page by page, with the capacity of *)
(* engines, the placement among nodes and the engines each node installed. *)
(*                                                                         *)
(* A tick reads the published node states and the installs once, and then  *)
(* decides row by row on that snapshot, with an await between any two      *)
(* rows: what it decided may be out of date when it claims or fails.       *)
(* A store method is one transaction here; EngineInvocation looks inside.  *)
(***************************************************************************)
EXTENDS InvocationStore, FiniteSets

CONSTANTS Requests,   \* rows of the queue
          Place,      \* requests by priority and age, as peek_claimable orders
          Engines,    \* engine rows
          EngineOf,   \* the engine a request's selector resolves to
          Limit,      \* _engine_capacity_limit of an engine
          PageSize,   \* _CLAIM_PAGE_SIZE
          Rank,       \* node ids in their alphabetical order
          Scores,     \* scores a node's view may get for these requests
          Unfit,      \* no score: the node cannot serve them
          Absent,     \* the node has not published its state
          Installed,  \* engines installed on each node
          Views,      \* the states published at first
          MaxFaults,  \* bound: crashes, stalls, failed runs, changed views
          Hazards     \* what else may happen

ASSUME TickAssumption ==
    /\ IsFiniteSet(Nodes) /\ IsFiniteSet(Requests)
    /\ Place \in [Requests -> Nat] /\ \A q, r \in Requests : Place[q] = Place[r] => q = r
    /\ EngineOf \in [Requests -> Engines]
    /\ Limit \in [Engines -> Nat \ {0}]
    /\ PageSize \in Nat \ {0}
    /\ Rank \in [Nodes -> Nat] /\ \A m, n \in Nodes : Rank[m] = Rank[n] => m = n
    /\ Scores \subseteq Nat /\ Unfit \notin Nat /\ Absent \notin Nat
    /\ Installed \in [Nodes -> SUBSET Engines]
    /\ Views \subseteq [Nodes -> Scores \cup {Unfit, Absent}]
    /\ MaxFaults \in Nat
    /\ Hazards \subseteq {"crash", "stall", "fail", "publish"}

VARIABLES row,    \* engine_invocation_queue, by request
          aged,   \* requests past placement_force_claim_age_seconds
          tasks,  \* _execute_row tasks of each node: request and attempt
          up,     \* whether the node's process runs
          fresh,  \* whether its heartbeat is within the threshold
          view,   \* the state it published, as the score it earns
          tick,   \* the tick in progress on it
          faults, \* how many of these so far
          late    \* requests whose lease expired under a running task

vars == <<row, aged, tasks, up, fresh, view, tick, faults, late>>

Tasks == Requests \X (Nat \ {0})

\* What _tick keeps: what it loaded, its page, to_claim and to_fail.
Ticks == [at     : {"idle", "peek", "decide", "fail", "claim"},
          found  : SUBSET Engines,      \* installed here or on an active node
          better : SUBSET Engines,      \* a peer is better placed to run it
          offset : Nat,
          page   : SUBSET Requests,     \* rows not decided yet
          full   : BOOLEAN,             \* len(rows) == _CLAIM_PAGE_SIZE
          claim  : SUBSET Requests,
          fail   : SUBSET Requests]

NoTick == [at |-> "idle", found |-> {}, better |-> {}, offset |-> 0,
           page |-> {}, full |-> FALSE, claim |-> {}, fail |-> {}]

TypeOK ==
    /\ row \in [Requests -> Rows]
    /\ aged \in SUBSET Requests
    /\ tasks \in [Nodes -> SUBSET Tasks]
    /\ up \in [Nodes -> BOOLEAN]
    /\ fresh \in [Nodes -> BOOLEAN]
    /\ view \in [Nodes -> Scores \cup {Unfit, Absent}]
    /\ tick \in [Nodes -> Ticks]
    /\ faults \in 0 .. MaxFaults
    /\ late \in SUBSET Requests

Init ==
    /\ row = [r \in Requests |-> NoRow]
    /\ aged = {}
    /\ tasks = [n \in Nodes |-> {}]
    /\ up = [n \in Nodes |-> TRUE]
    /\ fresh = [n \in Nodes |-> TRUE]
    /\ view \in Views
    /\ tick = [n \in Nodes |-> NoTick]
    /\ faults = 0
    /\ late = {}

-----------------------------------------------------------------------------
(* What a tick knows and decides. *)

\* Tasks of node n that hold engine e: _engine_in_flight.
Running(n, e) == {t \in tasks[n] : EngineOf[t[1]] = e}

\* Rows this tick has decided to claim for engine e: reserved_engines.
Reserved(n, e) == {r \in tick[n].claim : EngineOf[r] = e}

\* Deviation: what this tick reserved is not counted.
HasCapacityUnreserved(n, e) == Cardinality(Running(n, e)) < Limit[e]

\* _has_engine_capacity
HasCapacity(n, e) ==
    Cardinality(Running(n, e)) + Cardinality(Reserved(n, e)) < Limit[e]

\* _load_installed_engines: its own installs, and those of active nodes
Found(n) == Installed[n] \cup UNION {Installed[m] : m \in {k \in Nodes : fresh[k]}}

\* Active nodes with engine e whose published state v earns a score.
Fit(e, v) == {m \in Nodes : fresh[m] /\ e \in Installed[m] /\ v[m] \in Nat}

\* should_claim, but for the age of the row: the best score, and of equal
\* ones the smallest node id; a node without a view of its own just claims.
BestPlaced(n, e, v) ==
    \/ ~fresh[n] \/ v[n] = Absent
    \/ /\ n \in Fit(e, v)
       /\ \A m \in Fit(e, v) : \/ v[m] < v[n]
                               \/ v[m] = v[n] /\ Rank[n] <= Rank[m]

\* Deviation: the age of a row is not looked at.
DefersAlways(n, r) == EngineOf[r] \in tick[n].better

\* should_claim is false
Defers(n, r) == EngineOf[r] \in tick[n].better /\ r \notin aged

\* _decide returns skip, fail_missing_engine_install or claim.  The guard
\* has_running_job sees a task while its job is registered and not over.
Skips(n, r) ==
    \/ \E t \in tasks[n] : t[1] = r
    \/ /\ EngineOf[r] \in tick[n].found
       /\ \/ EngineOf[r] \notin Installed[n]
          \/ ~HasCapacity(n, EngineOf[r])
          \/ Defers(n, r)

Fails(n, r) == EngineOf[r] \notin tick[n].found

Claims(n, r) == /\ EngineOf[r] \in Installed[n]
                /\ HasCapacity(n, EngineOf[r])
                /\ ~Defers(n, r)

\* A tick that has decided on row r: when that was the last of its page, it
\* fails what must fail, or else claims, or else goes to the next page.
Decided(t) ==
    CASE t.page # {} -> t
      [] t.page = {} /\ t.fail # {} -> [t EXCEPT !.at = "fail", !.claim = {}]
      [] t.page = {} /\ t.fail = {} /\ t.claim # {} -> [t EXCEPT !.at = "claim"]
      [] OTHER -> IF t.full THEN [t EXCEPT !.at = "peek", !.offset = @ + PageSize]
                  ELSE NoTick

\* The claimable rows that come before r.
Ahead(r) == {q \in Requests : Claimable(row[q]) /\ Place[q] < Place[r]}

\* peek_claimable: a page of the claimable rows, by their places.
Peeked(offset) ==
    {r \in Requests : /\ Claimable(row[r])
                      /\ Cardinality(Ahead(r)) \in offset .. (offset + PageSize - 1)}

-----------------------------------------------------------------------------
(* The tick of node n. *)

\* views, then installed: read once for the whole tick
StartTick(n) ==
    /\ up[n] /\ tick[n].at = "idle"
    /\ tick' = [tick EXCEPT ![n] =
           [NoTick EXCEPT !.at = "peek", !.found = Found(n),
                !.better = {e \in Installed[n] : ~BestPlaced(n, e, view)}]]
    /\ UNCHANGED <<row, aged, tasks, up, fresh, view, faults, late>>

Peek(n) ==
    /\ tick[n].at = "peek"
    /\ LET page == Peeked(tick[n].offset) IN
       tick' = [tick EXCEPT ![n] =
           IF page = {} THEN NoTick
           ELSE [@ EXCEPT !.at = "decide", !.page = page,
                          !.full = (Cardinality(page) = PageSize)]]
    /\ UNCHANGED <<row, aged, tasks, up, fresh, view, faults, late>>

\* the rows of a page one by one, in their order
Decide(n) ==
    /\ tick[n].at = "decide"
    /\ \E r \in tick[n].page :
        /\ \A q \in tick[n].page : Place[r] <= Place[q]
        /\ LET rest == [tick[n] EXCEPT !.page = @ \ {r}] IN
           \/ /\ Skips(n, r)
              /\ tick' = [tick EXCEPT ![n] = Decided(rest)]
           \/ /\ Fails(n, r)
              /\ tick' = [tick EXCEPT ![n] = Decided([rest EXCEPT !.fail = @ \cup {r}])]
           \/ /\ Claims(n, r)
              /\ tick' = [tick EXCEPT ![n] = Decided([rest EXCEPT !.claim = @ \cup {r}])]
    /\ UNCHANGED <<row, aged, tasks, up, fresh, view, faults, late>>

\* _fail_unclaimable_row, for one row of to_fail: without an owner
FailRow(n) ==
    /\ tick[n].at = "fail"
    /\ \E r \in tick[n].fail :
        /\ row' = [row EXCEPT ![r] = Apply(@, AdminFail(@))]
        /\ tick' = [tick EXCEPT ![n] = IF tick[n].fail = {r} THEN NoTick
                                       ELSE [tick[n] EXCEPT !.fail = @ \ {r}]]
    /\ UNCHANGED <<aged, tasks, up, fresh, view, faults, late>>

\* Deviation: what was decided is claimed, whoever holds it by now.
TakenAnyway(n) == {r \in tick[n].claim : row[r].status \in Idle \cup {"processing"}}

\* claim: the rows that are still claimable, under a lock
Taken(n) == {r \in tick[n].claim : Claimable(row[r])}

\* _claim_rows
ClaimRows(n) ==
    /\ tick[n].at = "claim"
    /\ row' = [r \in Requests |-> IF r \in Taken(n) THEN Claimed(row[r], n) ELSE row[r]]
    /\ tasks' = [tasks EXCEPT ![n] =
           @ \cup {<<r, row[r].attempts + 1>> : r \in Taken(n)}]
    /\ tick' = [tick EXCEPT ![n] = NoTick]
    /\ UNCHANGED <<aged, up, fresh, view, faults, late>>

-----------------------------------------------------------------------------
(* What runs, and what happens to nodes and rows. *)

\* enqueue, by some transport
Enqueue(r) ==
    /\ row[r].status = "absent"
    /\ row' = [row EXCEPT ![r] = Enqueued]
    /\ UNCHANGED <<aged, tasks, up, fresh, view, tick, faults, late>>

\* _execute_row ends: it completes the row or fails it, if its node owns it
TaskEnds(n, r) ==
    /\ \E t \in tasks[n] :
        /\ t[1] = r
        /\ tasks' = [tasks EXCEPT ![n] = @ \ {t}]
    /\ \/ /\ row' = [row EXCEPT ![r] = Apply(@, Complete(@, n))]
          /\ UNCHANGED <<aged, faults>>
       \/ /\ "fail" \in Hazards /\ faults < MaxFaults
          /\ row' = [row EXCEPT ![r] = Apply(@, Fail(@, n, TRUE))]
          /\ aged' = IF Owned(row[r], n) THEN aged \ {r} ELSE aged
          /\ faults' = faults + 1
    /\ UNCHANGED <<up, fresh, view, tick, late>>

\* retry_delay_seconds have passed
BackoffElapses(r) ==
    /\ row[r].status = "failed" /\ ~row[r].ready
    /\ row' = [row EXCEPT ![r].ready = TRUE]
    /\ UNCHANGED <<aged, tasks, up, fresh, view, tick, faults, late>>

\* the row has waited for placement_force_claim_age_seconds, which only a
\* node with its engine asks about
Age(r) ==
    /\ Claimable(row[r]) /\ r \notin aged
    /\ \E n \in Nodes : EngineOf[r] \in Installed[n]
    /\ aged' = aged \cup {r}
    /\ UNCHANGED <<row, tasks, up, fresh, view, tick, faults, late>>

\* The task of the attempt that holds the lease.
Attended(r) == <<r, row[r].attempts>> \in tasks[row[r].owner]

\* a lease nobody renews runs out
LeaseExpires(r) ==
    /\ row[r].status = "processing" /\ ~row[r].expired /\ ~Attended(r)
    /\ row' = [row EXCEPT ![r].expired = TRUE]
    /\ UNCHANGED <<aged, tasks, up, fresh, view, tick, faults, late>>

\* a lease that is renewed too late
Stall(r) ==
    /\ "stall" \in Hazards /\ faults < MaxFaults
    /\ row[r].status = "processing" /\ ~row[r].expired /\ Attended(r)
    /\ row' = [row EXCEPT ![r].expired = TRUE]
    /\ faults' = faults + 1
    /\ late' = late \cup {r}
    /\ UNCHANGED <<aged, tasks, up, fresh, view, tick>>

Crash(n) ==
    /\ "crash" \in Hazards /\ faults < MaxFaults /\ up[n]
    /\ up' = [up EXCEPT ![n] = FALSE]
    /\ tasks' = [tasks EXCEPT ![n] = {}]
    /\ tick' = [tick EXCEPT ![n] = NoTick]
    /\ faults' = faults + 1
    /\ UNCHANGED <<row, aged, fresh, view, late>>

\* the last heartbeat of a dead node grows old
HeartbeatExpires(n) ==
    /\ ~up[n] /\ fresh[n]
    /\ fresh' = [fresh EXCEPT ![n] = FALSE]
    /\ UNCHANGED <<row, aged, tasks, up, view, tick, faults, late>>

Restart(n) ==
    /\ ~up[n]
    /\ up' = [up EXCEPT ![n] = TRUE]
    /\ fresh' = [fresh EXCEPT ![n] = TRUE]
    /\ UNCHANGED <<row, aged, tasks, view, tick, faults, late>>

\* the node publishes its state
Publish(n) ==
    /\ "publish" \in Hazards /\ faults < MaxFaults /\ up[n]
    /\ \E s \in Scores \cup {Unfit} : view' = [view EXCEPT ![n] = s]
    /\ faults' = faults + 1
    /\ UNCHANGED <<row, aged, tasks, up, fresh, tick, late>>

TickStep(n) == StartTick(n) \/ Peek(n) \/ Decide(n) \/ FailRow(n) \/ ClaimRows(n)

Next ==
    \/ \E n \in Nodes : \/ TickStep(n)
                        \/ Crash(n) \/ HeartbeatExpires(n) \/ Restart(n)
                        \/ Publish(n)
    \/ \E r \in Requests : \/ Enqueue(r) \/ BackoffElapses(r) \/ Age(r)
                           \/ LeaseExpires(r) \/ Stall(r)
                           \/ \E n \in Nodes : TaskEnds(n, r)

Spec == Init /\ [][Next]_vars

\* Claim loops tick, tasks end, and what depends on the clock comes to pass.
\* Nobody has to bring a dead node back.
Fairness ==
    /\ \A n \in Nodes : WF_vars(TickStep(n)) /\ WF_vars(HeartbeatExpires(n))
    /\ \A r \in Requests :
        /\ WF_vars(BackoffElapses(r)) /\ WF_vars(Age(r)) /\ WF_vars(LeaseExpires(r))
        /\ \A n \in Nodes : WF_vars(TaskEnds(n, r))

FairSpec == Spec /\ Fairness

-----------------------------------------------------------------------------
(* Properties. *)

\* However many pages, nodes and ticks it takes, no node runs more requests on
\* an engine than the engine's concurrency limit: the rows decided in one
\* tick are counted before they are claimed (reserved_engines).
CapacityRespected ==
    \A n \in Nodes, e \in Engines : Cardinality(Running(n, e)) <= Limit[e]

\* Two nodes may decide on one row, but only one of them runs it: unless a
\* lease ran out under it, every task is the attempt its row is leased to.
TasksHoldLeases ==
    \A n \in Nodes : \A t \in tasks[n] :
        t[1] \in late \/ /\ row[t[1]].status = "processing"
                         /\ row[t[1]].owner = n
                         /\ row[t[1]].attempts = t[2]

\* Some node that is up has the engine of request r.
Servable(r) == \E n \in Nodes : up[n] /\ EngineOf[r] \in Installed[n]

\* While some node with its engine is up, whoever can serve a request claims
\* it in the end (placement.py:27-29), and one that nobody can serve is failed:
\* no view, however stale, no full engine and no page keeps a row waiting.
RowsSettle ==
    \A r \in Requests : row[r].status # "absent" ~> row[r].status \in Terminal

\* The same for the requests somebody can serve, whatever became of the rest:
\* a row its claimer left behind (store.py:30-31) strands neither itself nor
\* those behind it.
ServableSettles ==
    \A r \in Requests : <>[]Servable(r) =>
        (row[r].status # "absent" ~> row[r].status \in Terminal)
=============================================================================
