------------------------- MODULE TaskManager_proofs -------------------------
(***************************************************************************)
(* Type correctness of TaskManager, that a key is held by live tasks only, *)
(* and that recorded outcomes stand, for all tasks, nodes and bounds.      *)
(***************************************************************************)
EXTENDS TaskManager, TLAPS

Statuses == {"absent", "pending", "running", "waiting_confirmation", "completed",
             "failed", "interrupted"}
Places == {"none", "joined", "queued", "work", "ask", "confirm", "answered",
           "cancelled", "upload", "held", "notify", "over", "strayed", "stranded"}

-----------------------------------------------------------------------------
(* What the helpers of the actions do to the types and to the rest. *)

LEMMA StatusIs == Status = Statuses
BY DEF Status, Statuses, Active, Told

LEMMA PersistTyped ==
    ASSUME TypeOK, NEW t \in Tasks, NEW s \in Status, Persist(t, s)
    PROVE  /\ rec' \in [Tasks -> Status]
           /\ torn' \subseteq Tasks
           /\ faults' \in 0 .. MaxFaults
           /\ \A u \in Tasks : rec'[u] = rec[u] \/ (u = t /\ rec'[u] = s)
<1>. USE DEF TypeOK
<1>1. CASE rec' = [rec EXCEPT ![t] = s] /\ UNCHANGED <<torn, faults>>
  BY <1>1
<1>2. CASE Fault("persist") /\ torn' = torn \cup {t} /\ UNCHANGED rec
  BY <1>2, TasksAssumption DEF Fault
<1>. QED
  BY <1>1, <1>2 DEF Persist

LEMMA BecomesTyped ==
    ASSUME TypeOK, NEW n \in Nodes, NEW t \in Tasks, NEW s \in Status,
           Becomes(n, t, s)
    PROVE  /\ tasks' \in [Nodes -> [Tasks -> Status]]
           /\ rec' \in [Tasks -> Status]
           /\ torn' \subseteq Tasks
           /\ faults' \in 0 .. MaxFaults
           /\ \A u \in Tasks : rec'[u] = rec[u] \/ (u = t /\ rec'[u] = s)
           /\ tasks'[n][t] = s
           /\ \A m \in Nodes, u \in Tasks :
                 tasks'[m][u] = tasks[m][u] \/ (m = n /\ u = t)
<1>1. Persist(t, s)
  BY DEF Becomes
<1>2. tasks' = [tasks EXCEPT ![n][t] = s]
  BY DEF Becomes
<1>3. tasks' \in [Nodes -> [Tasks -> Status]]
  BY <1>2 DEF TypeOK
<1>4. /\ tasks'[n][t] = s
      /\ \A m \in Nodes, u \in Tasks : tasks'[m][u] = tasks[m][u] \/ (m = n /\ u = t)
  BY <1>2 DEF TypeOK
<1>. QED
  BY <1>1, <1>3, <1>4, PersistTyped

LEMMA SendTyped ==
    ASSUME TypeOK, NEW ns \in SUBSET Nodes, NEW msgs \in SUBSET Messages, Send(ns, msgs)
    PROVE  told' \subseteq Messages /\ lost' \subseteq Messages
BY DEF TypeOK, Send

LEMMA NotifyTyped ==
    ASSUME TypeOK, NEW n \in Nodes, NEW m \in Messages, Notify(n, m)
    PROVE  /\ notes' \subseteq Messages /\ wire' \subseteq Messages
           /\ told' \subseteq Messages /\ lost' \subseteq Messages
           /\ faults' \in 0 .. MaxFaults
<1>1. CASE Send({n}, {m}) /\ UNCHANGED <<notes, wire, faults>>
  BY <1>1, SendTyped DEF TypeOK
<1>2. CASE ~(Send({n}, {m}) /\ UNCHANGED <<notes, wire, faults>>)
  BY <1>2, TasksAssumption DEF TypeOK, Notify, Fault
<1>. QED
  BY <1>1, <1>2

LEMMA FlushTyped ==
    ASSUME TypeOK, NEW open \in BOOLEAN, Flush(open)
    PROVE  /\ notes' \subseteq Messages /\ wire' \subseteq Messages
           /\ told' \subseteq Messages /\ lost' \subseteq Messages
           /\ torn' = torn
           /\ faults' \in 0 .. MaxFaults
BY TasksAssumption DEF TypeOK, Flush, Fault

LEMMA ReceiveTyped ==
    ASSUME TypeOK, NEW n \in Nodes, Receive(n)
    PROVE  /\ notes' \subseteq Messages /\ wire' \subseteq Messages
           /\ told' \subseteq Messages /\ lost' \subseteq Messages
           /\ torn' \subseteq Tasks
           /\ faults' \in 0 .. MaxFaults
           /\ late' \subseteq Nodes
           /\ listed' \in [Nodes -> SUBSET Connections]
<1>1. Flush(TRUE)
  BY DEF Receive
<1>2. listed' \in [Nodes -> SUBSET Connections]
  BY DEF Receive, TypeOK, Connections
<1>3. late' = late
  BY DEF Receive
<1>. QED
  BY <1>1, <1>2, <1>3, FlushTyped DEF TypeOK

-----------------------------------------------------------------------------
(* Type correctness *)

LEMMA InitTyped == Init => TypeOK
BY TasksAssumption DEF Init, TypeOK, Status, Active, Told, Connections

LEMMA SubmitTyped ==
    ASSUME TypeOK, NEW t \in Tasks, Submit(t) PROVE TypeOK'
<1>1. Home[t] \in Nodes
  BY TasksAssumption
<1>2. "pending" \in Status /\ "running" \in Status
  BY StatusIs DEF Statuses
<1>3. \/ Becomes(Home[t], t, "pending") \/ Becomes(Home[t], t, "running")
      \/ UNCHANGED <<tasks, rec, torn, faults>>
  BY DEF Submit
<1>4. /\ tasks' \in [Nodes -> [Tasks -> Status]]
      /\ rec' \in [Tasks -> Status]
      /\ torn' \subseteq Tasks
      /\ faults' \in 0 .. MaxFaults
  BY <1>1, <1>2, <1>3, BecomesTyped DEF TypeOK
<1>5. run' \in [Tasks -> Places]
  BY DEF Submit, TypeOK, Places
<1>. QED
  BY <1>4, <1>5 DEF Submit, TypeOK, Places, person, mail

\* The steps of a coroutine that only change a status.
LEMMA StatusTyped ==
    ASSUME TypeOK, NEW t \in Tasks, NEW s \in Status, NEW r \in Places,
           Becomes(at[t], t, s), run' = [run EXCEPT ![t] = r],
           UNCHANGED <<bridge, node, snap, at, round, person, mail>>
    PROVE  TypeOK'
<1>1. at[t] \in Nodes
  BY DEF TypeOK
<1>2. /\ tasks' \in [Nodes -> [Tasks -> Status]]
      /\ rec' \in [Tasks -> Status]
      /\ torn' \subseteq Tasks
      /\ faults' \in 0 .. MaxFaults
  BY <1>1, BecomesTyped
<1>3. run' \in [Tasks -> Places]
  BY DEF TypeOK, Places
<1>. QED
  BY <1>2, <1>3 DEF TypeOK, Places, person, mail

LEMMA MovesTyped ==
    ASSUME TypeOK, NEW t \in Tasks,
           \/ Begin(t) \/ Resume(t) \/ Unwind(t)
           \/ \E status \in Told : Finish(t, status)
    PROVE  TypeOK'
<1>1. {"running", "interrupted", "completed", "failed"} \subseteq Status
  BY StatusIs DEF Statuses
<1>2. {"work", "over", "notify"} \subseteq Places
  BY DEF Places
<1>3. CASE Begin(t)
  BY <1>1, <1>2, <1>3, StatusTyped DEF Begin
<1>4. CASE Resume(t)
  BY <1>1, <1>2, <1>4, StatusTyped DEF Resume
<1>5. CASE Unwind(t)
  BY <1>1, <1>2, <1>5, StatusTyped DEF Unwind
<1>6. CASE \E status \in Told : Finish(t, status)
  BY <1>1, <1>2, <1>6, StatusTyped DEF Finish, Told
<1>. QED
  BY <1>3, <1>4, <1>5, <1>6

LEMMA AskTyped ==
    ASSUME TypeOK, NEW t \in Tasks, Ask(t) PROVE TypeOK'
<1>1. at[t] \in Nodes /\ "waiting_confirmation" \in Status
  BY StatusIs DEF TypeOK, Statuses
<1>2. Becomes(at[t], t, "waiting_confirmation")
  BY DEF Ask
<1>3. /\ tasks' \in [Nodes -> [Tasks -> Status]]
      /\ rec' \in [Tasks -> Status]
      /\ torn' \subseteq Tasks
      /\ faults' \in 0 .. MaxFaults
  BY <1>1, <1>2, BecomesTyped
<1>4. round[t] + 1 \in 0 .. MaxRounds
  BY TasksAssumption DEF Ask, TypeOK
<1>5. round' \in [Tasks -> 0 .. MaxRounds]
  BY <1>4 DEF Ask, TypeOK
<1>6. run' \in [Tasks -> Places]
  BY DEF Ask, TypeOK, Places
<1>. QED
  BY <1>3, <1>5, <1>6 DEF Ask, TypeOK, Places, person, mail

LEMMA QuestionTyped ==
    ASSUME TypeOK, NEW t \in Tasks, Question(t) PROVE TypeOK'
<1>1. at[t] \in Nodes /\ <<t, "confirmation", round[t]>> \in Messages
  BY DEF TypeOK, Messages
<1>2. /\ notes' \subseteq Messages /\ wire' \subseteq Messages
      /\ told' \subseteq Messages /\ lost' \subseteq Messages
      /\ faults' \in 0 .. MaxFaults
  BY <1>1, NotifyTyped DEF Question
<1>3. run' \in [Tasks -> Places]
  BY DEF Question, TypeOK, Places
<1>. QED
  BY <1>2, <1>3 DEF Question, TypeOK, Places, person, store

\* An external task changes hands.
LEMMA HandsTyped ==
    ASSUME TypeOK, NEW t \in Tasks,
           \/ Enqueue(t) \/ GiveUp(t) \/ Retry(t)
           \/ \E n \in Nodes : Take(t, n)
    PROVE  TypeOK'
<1>1. run' \in [Tasks -> Places]
  <2>1. PICK r \in {"work", "stranded", "held"} : run' = [run EXCEPT ![t] = r]
    BY DEF Enqueue, GiveUp, Retry, Take
  <2>. QED
    BY <2>1 DEF TypeOK, Places
<1>2. at' \in [Tasks -> Nodes]
  BY DEF Enqueue, GiveUp, Retry, Take, TypeOK
<1>3. faults' \in 0 .. MaxFaults
  BY TasksAssumption DEF Enqueue, GiveUp, Retry, Take, Fault, TypeOK
<1>4. UNCHANGED <<bridge, node, store, round, person, mail, torn>>
  BY DEF Enqueue, GiveUp, Retry, Take
<1>. QED
  BY <1>1, <1>2, <1>3, <1>4 DEF TypeOK, Places, person, mail, store

LEMMA ProgressTyped ==
    ASSUME TypeOK, NEW t \in Tasks, NEW n \in Nodes, Progress(t, n) PROVE TypeOK'
<1>1. tasks[n][t] \in Status
  BY DEF TypeOK
<1>2. /\ rec' \in [Tasks -> Status]
      /\ torn' \subseteq Tasks
      /\ faults' \in 0 .. MaxFaults
  BY <1>1, PersistTyped DEF Progress
<1>. QED
  BY <1>2 DEF Progress, TypeOK, person, mail

LEMMA FinishExternalTyped ==
    ASSUME TypeOK, NEW t \in Tasks, NEW n \in Nodes, NEW status \in Told,
           FinishExternal(t, n, status)
    PROVE  TypeOK'
<1>1. status \in Status
  BY DEF Status
<1>2. Becomes(n, t, status) \/ UNCHANGED <<tasks, rec, torn, faults>>
  BY DEF FinishExternal
<1>3. /\ tasks' \in [Nodes -> [Tasks -> Status]]
      /\ rec' \in [Tasks -> Status]
      /\ torn' \subseteq Tasks
      /\ faults' \in 0 .. MaxFaults
  BY <1>1, <1>2, BecomesTyped DEF TypeOK
<1>4. run' \in [Tasks -> Places]
  <2>1. run' = [run EXCEPT ![t] = "strayed"] \/ run' = [run EXCEPT ![t] = "notify"]
    BY DEF FinishExternal
  <2>. QED
    BY <2>1 DEF TypeOK, Places
<1>. QED
  BY <1>3, <1>4 DEF FinishExternal, TypeOK, Places, person, mail

LEMMA TellTyped ==
    ASSUME TypeOK, EndingHasOutcome, NEW t \in Tasks, Tell(t) PROVE TypeOK'
<1>1. at[t] \in Nodes /\ tasks[at[t]][t] \in Told
  BY DEF TypeOK, EndingHasOutcome, Tell
<1>2. <<t, tasks[at[t]][t], 0>> \in Messages
  BY <1>1, TasksAssumption DEF Messages, Told
<1>3. /\ notes' \subseteq Messages /\ wire' \subseteq Messages
      /\ told' \subseteq Messages /\ lost' \subseteq Messages
      /\ faults' \in 0 .. MaxFaults
  BY <1>1, <1>2, NotifyTyped DEF Tell
<1>4. run' \in [Tasks -> Places]
  BY DEF Tell, TypeOK, Places
<1>. QED
  BY <1>3, <1>4 DEF Tell, TypeOK, Places, person, store

LEMMA UserTyped ==
    ASSUME TypeOK,
           \/ \E n \in Nodes : Message(n)
           \/ \E t \in Tasks : Answer(t) \/ Cancel(t)
    PROVE  TypeOK'
<1>1. PICK n \in Nodes : Receive(n)
  BY DEF TypeOK, Message, Answer, Cancel
<1>2. UNCHANGED <<bridge, node, store, at, round>>
  BY DEF Message, Answer, Cancel
<1>3. run' \in [Tasks -> Places]
  BY DEF Message, Answer, Cancel, TypeOK, Places
<1>. QED
  BY <1>1, <1>2, <1>3, ReceiveTyped DEF TypeOK, Places, store

LEMMA ConnectionsTyped ==
    ASSUME TypeOK, NEW n \in Nodes,
           Leave(n) \/ LateMessage(n) \/ Drop(n) \/ Notice(n)
    PROVE  TypeOK'
<1>1. listed' \in [Nodes -> SUBSET Connections]
  <2>1. PICK ls \in SUBSET Connections : listed' = [listed EXCEPT ![n] = ls]
    BY DEF Leave, LateMessage, Drop, Notice, TypeOK, Connections
  <2>. QED
    BY <2>1 DEF TypeOK
<1>2. late' \subseteq Nodes
  BY DEF Leave, LateMessage, Drop, Notice, TypeOK
<1>3. UNCHANGED <<bridge, node, store, run, at, round>>
  BY DEF Leave, LateMessage, Drop, Notice
<1>4. /\ notes' \subseteq Messages /\ wire' \subseteq Messages
      /\ told' \subseteq Messages /\ lost' \subseteq Messages
      /\ torn' \subseteq Tasks
      /\ faults' \in 0 .. MaxFaults
  <2>1. CASE LateMessage(n)
    <3>1. Flush(FALSE)
      BY <2>1 DEF LateMessage
    <3>. QED
      BY <3>1, FlushTyped DEF TypeOK
  <2>2. CASE Leave(n) \/ Drop(n) \/ Notice(n)
    BY <2>2, TasksAssumption DEF Leave, Drop, Notice, Fault, TypeOK, mail
  <2>. QED
    BY <2>1, <2>2
<1>. QED
  BY <1>1, <1>2, <1>3, <1>4 DEF TypeOK, store

LEMMA ListenTyped ==
    ASSUME TypeOK, NEW m \in wire, Listen(m) PROVE TypeOK'
<1>1. told' \subseteq Messages /\ lost' \subseteq Messages
  BY SendTyped DEF Listen, TypeOK
<1>2. wire' \subseteq Messages
  BY DEF Listen, TypeOK
<1>. QED
  BY <1>1, <1>2 DEF Listen, TypeOK, store, person

LEMMA CrashTyped ==
    ASSUME TypeOK, EndingHasOutcome, NEW n \in Nodes, Crash(n) PROVE TypeOK'
<1>1. /\ node' \in [Nodes -> {"up", "down", "recovering"}]
      /\ listed' \in [Nodes -> SUBSET Connections]
      /\ late' \subseteq Nodes
  BY DEF Crash, TypeOK
<1>2. /\ snap' \in [Nodes -> [Tasks -> Active \cup {"absent"}]]
      /\ tasks' \in [Nodes -> [Tasks -> Status]]
  BY DEF Crash, TypeOK, Status
<1>3. run' \in [Tasks -> Places]
  <2>1. \A t \in Tasks : run[t] \in Places
    BY DEF TypeOK, Places
  <2>2. \A t \in Tasks : Broken(t) \in Places
    BY <2>1 DEF Broken, Places
  <2>. QED
    BY <2>1, <2>2 DEF Crash
<1>4. wire' \subseteq Messages /\ lost' \subseteq Messages
  <2>. DEFINE untold == {t \in Tasks : at[t] = n /\ run[t] = "notify"}
  <2>1. \A t \in untold : <<t, tasks[n][t], 0>> \in Messages
    BY TasksAssumption DEF EndingHasOutcome, Messages, Told
  <2>2. PICK unsent \in SUBSET {m \in wire : at[m[1]] = n} :
              /\ wire' = wire \ unsent
              /\ lost' = lost \cup unsent \cup {<<t, tasks[n][t], 0>> : t \in untold}
    BY DEF Crash
  <2>. QED
    BY <2>1, <2>2 DEF TypeOK
<1>5. faults' \in 0 .. MaxFaults
  BY TasksAssumption DEF Crash, TypeOK, Fault
<1>. QED
  BY <1>1, <1>2, <1>3, <1>4, <1>5 DEF Crash, TypeOK, Places

LEMMA RestartTyped ==
    ASSUME TypeOK, NEW n \in Nodes, Restart(n) PROVE TypeOK'
<1>1. snap' \in [Nodes -> [Tasks -> Active \cup {"absent"}]]
  BY DEF Restart, TypeOK, Unfinished
<1>2. node' \in [Nodes -> {"up", "down", "recovering"}]
  BY DEF Restart, TypeOK
<1>. QED
  BY <1>1, <1>2 DEF Restart, TypeOK, person, mail

LEMMA RecoverTyped ==
    ASSUME TypeOK, NEW n \in Nodes, Recover(n) PROVE TypeOK'
<1>1. /\ snap' \in [Nodes -> [Tasks -> Active \cup {"absent"}]]
      /\ node' \in [Nodes -> {"up", "down", "recovering"}]
  BY DEF Recover, TypeOK
<1>2. \A t \in Tasks : Recovered(n, t) \in Status
  BY DEF Recovered, TypeOK, Status
<1>3. tasks' \in [Nodes -> [Tasks -> Status]]
  BY <1>2 DEF Recover, TypeOK, Status
<1>4. rec' \in [Tasks -> Status]
  <2>. DEFINE R == {t \in Tasks : snap[n][t] # "absent"} \ External
              After == [t \in Tasks |-> IF t \in R THEN Recovered(n, t) ELSE rec[t]]
  <2>1. rec' = After \/ rec' = rec
    BY DEF Recover
  <2>2. \A t \in Tasks : rec[t] \in Status
    BY DEF TypeOK
  <2>3. After \in [Tasks -> Status]
    BY <1>2, <2>2
  <2>. QED
    BY <2>1, <2>3 DEF TypeOK
<1>5. torn' \subseteq Tasks /\ faults' \in 0 .. MaxFaults
  BY TasksAssumption DEF Recover, TypeOK, Fault
<1>. QED
  BY <1>1, <1>3, <1>4, <1>5 DEF Recover, TypeOK, person, mail

LEMMA NextTyped ==
    ASSUME TypeOK, EndingHasOutcome, [Next]_vars PROVE TypeOK'
<1>1. CASE UNCHANGED vars
  BY <1>1 DEF TypeOK, vars
<1>2. CASE \E t \in Tasks : Submit(t) \/ Begin(t) \/ Ask(t) \/ Question(t) \/ Resume(t)
                            \/ Tell(t) \/ Unwind(t) \/ Answer(t) \/ Cancel(t)
                            \/ Enqueue(t) \/ GiveUp(t) \/ Retry(t)
  BY <1>2, SubmitTyped, MovesTyped, AskTyped, QuestionTyped, TellTyped, UserTyped,
     HandsTyped
<1>3. CASE \E t \in Tasks, status \in Told : Finish(t, status)
  BY <1>3, MovesTyped
<1>4. CASE \E t \in Tasks, n \in Nodes : Progress(t, n) \/ Take(t, n)
  BY <1>4, ProgressTyped, HandsTyped
<1>5. CASE \E t \in Tasks, n \in Nodes, status \in Told : FinishExternal(t, n, status)
  BY <1>5, FinishExternalTyped
<1>6. CASE \E n \in Nodes : Message(n) \/ Leave(n) \/ LateMessage(n) \/ Drop(n)
                            \/ Notice(n) \/ Crash(n) \/ Restart(n) \/ Recover(n)
  BY <1>6, UserTyped, ConnectionsTyped, CrashTyped, RestartTyped, RecoverTyped
<1>7. CASE \E m \in wire : Listen(m)
  BY <1>7, ListenTyped
<1>. QED
  BY <1>1, <1>2, <1>3, <1>4, <1>5, <1>6, <1>7 DEF Next

-----------------------------------------------------------------------------
(* The invariant, one kind of step at a time *)

Safe == /\ KeysAreHeldByLiveTasks
        /\ Homes /\ DownIsEmpty /\ EndingHasOutcome /\ RecordedIsOver
        /\ DrivenFromOutside /\ WaitingIsActive

Live == {"queued", "work", "ask", "confirm", "answered", "cancelled"}

LEMMA InitSafe == Init => Safe
BY TasksAssumption DEF Init, Safe, KeysAreHeldByLiveTasks, Homes, DownIsEmpty,
   EndingHasOutcome, RecordedIsOver, DrivenFromOutside, WaitingIsActive, Alive, Active,
   Told, Up

\* Nothing of the tasks changes, and no node comes or goes.
LEMMA QuietSafe ==
    ASSUME Safe, UNCHANGED <<tasks, rec, run, at>>,
           \A n \in Nodes : Up(n)' <=> Up(n)
    PROVE  Safe'
<1>1. \A t \in Tasks : Alive(t)' <=> Alive(t)
  BY DEF Alive
<1>. QED
  BY <1>1 DEF Safe, KeysAreHeldByLiveTasks, Homes, DownIsEmpty, EndingHasOutcome,
     RecordedIsOver, DrivenFromOutside, WaitingIsActive

\* The coroutine of t takes a step that changes its status.
LEMMA MoveSafe ==
    ASSUME TypeOK, Safe, NEW t \in Tasks \ External, NEW s \in Status, NEW r \in Places,
           Alive(t), Up(at[t]), Becomes(at[t], t, s), run' = [run EXCEPT ![t] = r],
           UNCHANGED <<at, node>>,
           s \in Active <=> r \in Live,
           r \notin {"upload", "held"},
           r = "notify" => s \in Told,
           s \in Told => r = "notify"
    PROVE  Safe'
<1>1. at[t] \in Nodes
  BY DEF TypeOK
<1>2. /\ \A u \in Tasks : rec'[u] = rec[u] \/ (u = t /\ rec'[u] = s)
      /\ tasks'[at[t]][t] = s
      /\ \A m \in Nodes, u \in Tasks :
            tasks'[m][u] = tasks[m][u] \/ (m = at[t] /\ u = t)
  BY <1>1, BecomesTyped
<1>3. run'[t] = r /\ \A u \in Tasks \ {t} : run'[u] = run[u]
  BY DEF TypeOK
<1>4. (Alive(t)' <=> r \in Live) /\ \A u \in Tasks \ {t} : Alive(u)' <=> Alive(u)
  BY <1>3 DEF Alive, Live
<1>5. \A n \in Nodes : Up(n)' <=> Up(n)
  BY DEF Up
<1>6. KeysAreHeldByLiveTasks'
  <2>1. \A n \in Nodes, u \in Tasks \ External :
            tasks'[n][u] \in Active <=> Alive(u)' /\ at'[u] = n
    BY <1>2, <1>4 DEF Safe, KeysAreHeldByLiveTasks
  <2>2. \A u \in Tasks : Alive(u)' => Alive(u)
    BY <1>4
  <2>. QED
    BY <2>1, <2>2 DEF Safe, KeysAreHeldByLiveTasks
<1>7. Homes' /\ DownIsEmpty'
  BY <1>2, <1>5 DEF Safe, Homes, DownIsEmpty
<1>8. EndingHasOutcome'
  BY <1>2, <1>3 DEF Safe, EndingHasOutcome, TypeOK
<1>9. RecordedIsOver'
  <2>1. rec[t] \notin Told
    BY DEF Safe, RecordedIsOver, Alive
  <2>. QED
    BY <1>2, <1>3, <2>1 DEF Safe, RecordedIsOver
<1>10. DrivenFromOutside' /\ WaitingIsActive'
  BY <1>2, <1>3, TasksAssumption DEF Safe, DrivenFromOutside, WaitingIsActive
<1>. QED
  BY <1>6, <1>7, <1>8, <1>9, <1>10 DEF Safe

LEMMA MovesSafe ==
    ASSUME TypeOK, Safe, NEW t \in Tasks,
           \/ Begin(t) \/ Ask(t) \/ Resume(t) \/ Unwind(t)
           \/ \E status \in Told : Finish(t, status)
    PROVE  Safe'
<1>1. /\ {"running", "waiting_confirmation", "interrupted"} \cup Told \subseteq Status
      /\ {"running", "waiting_confirmation"} \subseteq Active
      /\ "interrupted" \notin Active \cup Told /\ Active \cap Told = {}
  BY DEF Status, Active, Told
<1>2. /\ {"work", "ask", "over", "notify"} \subseteq Places
      /\ {"work", "ask"} \subseteq Live
      /\ "over" \notin Live /\ "notify" \notin Live
      /\ {"upload", "held"} \cap {"work", "ask", "over", "notify"} = {}
  BY DEF Places, Live
<1>3. t \in Tasks \ External /\ Alive(t) /\ Up(at[t])
  BY DEF Begin, Ask, Resume, Unwind, Finish, LoopFree, Alive, Safe, DrivenFromOutside
<1>4. CASE Begin(t)
  BY <1>1, <1>2, <1>3, <1>4, MoveSafe DEF Begin, Active, Told
<1>5. CASE Ask(t)
  BY <1>1, <1>2, <1>3, <1>5, MoveSafe DEF Ask, Active, Told
<1>6. CASE Resume(t)
  BY <1>1, <1>2, <1>3, <1>6, MoveSafe DEF Resume, Active, Told
<1>7. CASE Unwind(t)
  BY <1>1, <1>2, <1>3, <1>7, MoveSafe DEF Unwind
<1>8. ASSUME NEW status \in Told, Finish(t, status) PROVE Safe'
  <2>1. /\ Becomes(at[t], t, status) /\ run' = [run EXCEPT ![t] = "notify"]
        /\ UNCHANGED <<at, node>>
    BY <1>8 DEF Finish
  <2>. QED
    BY <1>1, <1>2, <1>3, <2>1, MoveSafe
<1>. QED
  BY <1>4, <1>5, <1>6, <1>7, <1>8

\* The user wakes the coroutine of t.
LEMMA WakeSafe ==
    ASSUME TypeOK, Safe, NEW t \in Tasks, Answer(t) \/ Cancel(t)
    PROVE  Safe'
<1>1. t \notin External /\ Alive(t) /\ run[t] # "notify"
  BY DEF Answer, Cancel, Alive, Safe, DrivenFromOutside
<1>2. PICK r \in Live : run' = [run EXCEPT ![t] = r]
  BY DEF Answer, Cancel, Live
<1>3. UNCHANGED <<tasks, rec, at, node>>
  BY DEF Answer, Cancel, store
<1>4. run'[t] = r /\ \A u \in Tasks \ {t} : run'[u] = run[u]
  BY <1>2 DEF TypeOK
<1>5. r # "notify" /\ \A u \in Tasks : Alive(u)' <=> Alive(u)
  BY <1>1, <1>4 DEF Alive, Live
<1>6. KeysAreHeldByLiveTasks' /\ Homes' /\ DownIsEmpty'
  BY <1>3, <1>5 DEF Safe, KeysAreHeldByLiveTasks, Homes, DownIsEmpty, Up
<1>7. rec[t] \notin Told
  BY <1>1 DEF Safe, RecordedIsOver, Alive
<1>8. EndingHasOutcome' /\ RecordedIsOver'
  BY <1>3, <1>4, <1>5, <1>7 DEF Safe, EndingHasOutcome, RecordedIsOver
<1>9. DrivenFromOutside' /\ WaitingIsActive'
  BY <1>1, <1>3, <1>4, TasksAssumption
     DEF Live, Safe, DrivenFromOutside, WaitingIsActive
<1>. QED
  BY <1>6, <1>8, <1>9 DEF Safe

LEMMA TellSafe ==
    ASSUME TypeOK, Safe, NEW t \in Tasks, Tell(t) PROVE Safe'
<1>1. UNCHANGED <<tasks, rec, at, node>>
  BY DEF Tell, store
<1>2. run[t] = "notify" /\ run'[t] = "over" /\ \A u \in Tasks \ {t} : run'[u] = run[u]
  BY DEF Tell, TypeOK
<1>3. \A u \in Tasks : Alive(u)' <=> Alive(u)
  BY <1>2 DEF Alive
<1>4. KeysAreHeldByLiveTasks' /\ Homes' /\ DownIsEmpty'
  BY <1>1, <1>3 DEF Safe, KeysAreHeldByLiveTasks, Homes, DownIsEmpty, Up
<1>5. EndingHasOutcome' /\ RecordedIsOver' /\ DrivenFromOutside' /\ WaitingIsActive'
  BY <1>1, <1>2, TasksAssumption
     DEF Safe, EndingHasOutcome, RecordedIsOver, DrivenFromOutside, WaitingIsActive
<1>. QED
  BY <1>4, <1>5 DEF Safe

LEMMA QuestionSafe ==
    ASSUME TypeOK, Safe, NEW t \in Tasks, Question(t) PROVE Safe'
<1>1. UNCHANGED <<tasks, rec, at, node>>
  BY DEF Question, store
<1>2. run[t] = "ask" /\ run'[t] = "confirm" /\ \A u \in Tasks \ {t} : run'[u] = run[u]
  BY DEF Question, TypeOK
<1>3. \A u \in Tasks : Alive(u)' <=> Alive(u)
  BY <1>2 DEF Alive
<1>4. KeysAreHeldByLiveTasks' /\ Homes' /\ DownIsEmpty'
  BY <1>1, <1>3 DEF Safe, KeysAreHeldByLiveTasks, Homes, DownIsEmpty, Up
<1>5. rec[t] \notin Told /\ t \notin External
  BY <1>2 DEF Safe, RecordedIsOver, DrivenFromOutside
<1>6. EndingHasOutcome' /\ RecordedIsOver' /\ DrivenFromOutside' /\ WaitingIsActive'
  BY <1>1, <1>2, <1>5, TasksAssumption
     DEF Safe, EndingHasOutcome, RecordedIsOver, DrivenFromOutside, WaitingIsActive
<1>. QED
  BY <1>4, <1>6 DEF Safe

LEMMA HandsSafe ==
    ASSUME TypeOK, Safe, NEW t \in Tasks,
           \/ Enqueue(t) \/ GiveUp(t) \/ Retry(t)
           \/ \E n \in Nodes : Take(t, n)
    PROVE  Safe'
<1>1. t \in External /\ run[t] \in {"upload", "work", "held"}
  BY DEF Enqueue, GiveUp, Retry, Take, Safe, DrivenFromOutside
<1>2. UNCHANGED <<tasks, rec, node>>
  BY DEF Enqueue, GiveUp, Retry, Take, store
<1>3. \A u \in Tasks \ {t} : at'[u] = at[u]
  BY DEF Enqueue, GiveUp, Retry, Take, TypeOK
<1>4. PICK r \in {"work", "stranded", "held"} : run' = [run EXCEPT ![t] = r]
  BY DEF Enqueue, GiveUp, Retry, Take
<1>5. run'[t] = r /\ \A u \in Tasks \ {t} : run'[u] = run[u]
  BY <1>4 DEF TypeOK
<1>6. \A u \in Tasks \ External : Alive(u)' <=> Alive(u)
  BY <1>1, <1>5 DEF Alive
<1>7. KeysAreHeldByLiveTasks' /\ Homes' /\ DownIsEmpty'
  BY <1>1, <1>2, <1>3, <1>6 DEF Safe, KeysAreHeldByLiveTasks, Homes, DownIsEmpty, Up
<1>8. rec[t] \notin Told
  BY <1>1 DEF Safe, RecordedIsOver
<1>9. EndingHasOutcome' /\ RecordedIsOver'
  BY <1>2, <1>3, <1>5, <1>8 DEF Safe, EndingHasOutcome, RecordedIsOver
<1>10. DrivenFromOutside' /\ WaitingIsActive'
  BY <1>1, <1>2, <1>5, TasksAssumption DEF Safe, DrivenFromOutside, WaitingIsActive
<1>. QED
  BY <1>7, <1>9, <1>10 DEF Safe

LEMMA SubmitSafe ==
    ASSUME TypeOK, Safe, NEW t \in Tasks, Submit(t) PROVE Safe'
<1>1. /\ Home[t] \in Nodes /\ Up(Home[t])
      /\ {"pending", "running"} \subseteq Status \cap Active
      /\ Active \cap Told = {}
  BY TasksAssumption DEF Submit, LoopFree, Status, Active, Told
<1>2. run[t] = "none" /\ UNCHANGED <<at, node>>
  BY DEF Submit
<1>3. rec[t] \notin Told
  BY <1>2 DEF Safe, RecordedIsOver
<1>4. \A n \in Nodes : Up(n)' <=> Up(n)
  BY <1>2 DEF Up
<1>5. CASE UNCHANGED <<tasks, rec>> /\ run' = [run EXCEPT ![t] = "joined"]
  <2>1. run'[t] = "joined" /\ \A u \in Tasks \ {t} : run'[u] = run[u]
    BY <1>5 DEF TypeOK
  <2>2. \A u \in Tasks : Alive(u)' <=> Alive(u)
    BY <1>2, <2>1 DEF Alive
  <2>3. KeysAreHeldByLiveTasks' /\ Homes' /\ DownIsEmpty'
    BY <1>2, <1>4, <1>5, <2>2 DEF Safe, KeysAreHeldByLiveTasks, Homes, DownIsEmpty
  <2>4. EndingHasOutcome' /\ RecordedIsOver' /\ DrivenFromOutside' /\ WaitingIsActive'
    BY <1>2, <1>3, <1>5, <2>1, TasksAssumption
       DEF Safe, EndingHasOutcome, RecordedIsOver, DrivenFromOutside, WaitingIsActive
  <2>. QED
    BY <2>3, <2>4 DEF Safe
<1>6. ASSUME NEW r \in {"queued", "upload"}, NEW s \in {"pending", "running"},
             run' = [run EXCEPT ![t] = r], Becomes(Home[t], t, s), ~Duplicate(t),
             t \in External <=> r = "upload"
      PROVE  Safe'
  <2>1. run'[t] = r /\ \A u \in Tasks \ {t} : run'[u] = run[u]
    BY <1>6 DEF TypeOK
  <2>2. s \in Status /\ s \in Active /\ s \notin Told
    BY <1>1
  <2>3. /\ \A u \in Tasks : rec'[u] = rec[u] \/ (u = t /\ rec'[u] = s)
        /\ tasks'[Home[t]][t] = s
        /\ \A m \in Nodes, u \in Tasks :
              tasks'[m][u] = tasks[m][u] \/ (m = Home[t] /\ u = t)
    BY <1>1, <1>6, <2>2, BecomesTyped
  <2>4. /\ t \notin External => Alive(t)'
        /\ \A u \in Tasks \ {t} : Alive(u)' <=> Alive(u)
    BY <1>6, <2>1 DEF Alive
  <2>5. ~Alive(t)
    BY <1>2 DEF Alive
  <2>6. KeysAreHeldByLiveTasks'
    <3>1. \A n \in Nodes, u \in Tasks \ External :
              tasks'[n][u] \in Active <=> Alive(u)' /\ at'[u] = n
      BY <1>2, <2>2, <2>3, <2>4, <2>5 DEF Safe, KeysAreHeldByLiveTasks, Homes
    <3>2. \A u \in Tasks \ External :
              Alive(u) /\ at[u] = Home[t] => KeyOf[u] # KeyOf[t]
      BY <1>1, <1>6 DEF Duplicate, Safe, KeysAreHeldByLiveTasks
    <3>3. t \notin External => at[t] = Home[t]
      BY DEF Safe, Homes
    <3>4. \A v, u \in Tasks \ External :
              Alive(v)' /\ Alive(u)' /\ KeyOf[v] = KeyOf[u] /\ at[v] = at[u] => v = u
      BY <2>4, <3>2, <3>3 DEF Safe, KeysAreHeldByLiveTasks
    <3>. QED
      BY <1>2, <3>1, <3>4 DEF KeysAreHeldByLiveTasks
  <2>7. Homes' /\ DownIsEmpty'
    BY <1>1, <1>2, <1>4, <2>3 DEF Safe, Homes, DownIsEmpty
  <2>8. EndingHasOutcome' /\ RecordedIsOver'
    <3>1. \A u \in Tasks : run'[u] = "notify" => u # t /\ run[u] = "notify"
      BY <2>1
    <3>2. \A m \in Nodes, u \in Tasks \ {t} : tasks'[m][u] = tasks[m][u]
      BY <2>3
    <3>3. \A u \in Tasks : at[u] \in Nodes
      BY DEF TypeOK
    <3>4. EndingHasOutcome'
      BY <1>2, <3>1, <3>2, <3>3 DEF Safe, EndingHasOutcome
    <3>5. \A u \in Tasks : rec'[u] \in Told => u # t /\ rec[u] \in Told
      BY <1>3, <2>2, <2>3
    <3>6. RecordedIsOver'
      BY <2>1, <3>5 DEF Safe, RecordedIsOver
    <3>. QED
      BY <3>4, <3>6
  <2>9. DrivenFromOutside' /\ WaitingIsActive'
    BY <1>2, <1>6, <2>1, <2>2, <2>3, TasksAssumption
       DEF Safe, DrivenFromOutside, WaitingIsActive
  <2>. QED
    BY <2>6, <2>7, <2>8, <2>9 DEF Safe
<1>. QED
  BY <1>5, <1>6 DEF Submit

LEMMA ProgressSafe ==
    ASSUME TypeOK, Safe, NEW t \in Tasks, NEW n \in Nodes, Progress(t, n) PROVE Safe'
<1>1. UNCHANGED <<tasks, run, at, node>>
  BY DEF Progress
<1>2. \A u \in Tasks : rec'[u] = rec[u] \/ (u = t /\ rec'[u] = tasks[n][t])
  BY PersistTyped DEF Progress, TypeOK
<1>3. tasks[n][t] \in Active
  <2>1. CASE t \in External
    BY <2>1 DEF Progress, Safe, WaitingIsActive
  <2>2. CASE t \notin External
    BY <2>2 DEF Progress, Safe, KeysAreHeldByLiveTasks, Alive
  <2>. QED
    BY <2>1, <2>2
<1>4. \A u \in Tasks : rec'[u] \in Told => rec[u] \in Told
  BY <1>2, <1>3 DEF Active, Told
<1>5. \A u \in Tasks : Alive(u)' <=> Alive(u)
  BY <1>1 DEF Alive
<1>. QED
  BY <1>1, <1>4, <1>5 DEF Safe, KeysAreHeldByLiveTasks, Homes, DownIsEmpty, Up,
     EndingHasOutcome, RecordedIsOver, DrivenFromOutside, WaitingIsActive

LEMMA FinishExternalSafe ==
    ASSUME TypeOK, Safe, NEW t \in Tasks, NEW n \in Nodes, NEW status \in Told,
           FinishExternal(t, n, status)
    PROVE  Safe'
<1>1. /\ t \in External /\ run[t] \in {"upload", "held"}
      /\ Up(n) /\ at[t] = n /\ UNCHANGED <<node, at>>
  BY DEF FinishExternal, Safe, DrivenFromOutside
<1>2. rec[t] \notin Told /\ status \in Status
  BY <1>1 DEF Safe, RecordedIsOver, Status
<1>3. PICK r \in {"notify", "strayed"} : run' = [run EXCEPT ![t] = r]
  BY DEF FinishExternal
<1>4. run'[t] = r /\ \A u \in Tasks \ {t} : run'[u] = run[u]
  BY <1>3 DEF TypeOK
<1>5. /\ \A u \in Tasks : rec'[u] = rec[u] \/ (u = t /\ r = "notify")
      /\ r = "notify" => tasks'[n][t] = status
      /\ \A m \in Nodes, u \in Tasks :
            tasks'[m][u] = tasks[m][u] \/ (m = n /\ u = t)
  <2>1. CASE UNCHANGED <<tasks, rec>> /\ run' = [run EXCEPT ![t] = "strayed"]
    BY <1>4, <2>1 DEF TypeOK
  <2>2. CASE Becomes(n, t, status) /\ run' = [run EXCEPT ![t] = "notify"]
    <3>1. /\ \A u \in Tasks : rec'[u] = rec[u] \/ (u = t /\ rec'[u] = status)
          /\ tasks'[n][t] = status
          /\ \A m \in Nodes, u \in Tasks :
                tasks'[m][u] = tasks[m][u] \/ (m = n /\ u = t)
      BY <1>2, <2>2, BecomesTyped
    <3>2. r = "notify"
      BY <1>4, <2>2 DEF TypeOK
    <3>. QED
      BY <3>1, <3>2
  <2>. QED
    BY <2>1, <2>2 DEF FinishExternal
<1>6. \A u \in Tasks \ {t} : Alive(u)' <=> Alive(u)
  BY <1>4 DEF Alive
<1>7. KeysAreHeldByLiveTasks' /\ Homes'
  BY <1>1, <1>5, <1>6 DEF Safe, KeysAreHeldByLiveTasks, Homes
<1>8. DownIsEmpty'
  BY <1>1, <1>5 DEF Safe, DownIsEmpty, Up
<1>9. EndingHasOutcome'
  <2>1. \A u \in Tasks \ {t} : at[u] \in Nodes /\ tasks'[at'[u]][u] = tasks[at[u]][u]
    BY <1>1, <1>5 DEF TypeOK
  <2>2. r = "notify" => tasks'[at'[t]][t] \in Told
    BY <1>1, <1>5
  <2>. QED
    BY <1>4, <2>1, <2>2 DEF Safe, EndingHasOutcome
<1>10. RecordedIsOver' /\ DrivenFromOutside' /\ WaitingIsActive'
  BY <1>1, <1>2, <1>4, <1>5, TasksAssumption
     DEF Safe, RecordedIsOver, DrivenFromOutside, WaitingIsActive
<1>. QED
  BY <1>7, <1>8, <1>9, <1>10 DEF Safe

LEMMA CrashSafe ==
    ASSUME TypeOK, Safe, NEW n \in Nodes, Crash(n) PROVE Safe'
<1>1. /\ UNCHANGED <<rec, at>>
      /\ \A m \in Nodes : m # n => (Up(m)' <=> Up(m))
  BY DEF Crash, TypeOK, Up
<1>2. \A m \in Nodes, u \in Tasks :
          tasks'[m][u] = IF m = n THEN "absent" ELSE tasks[m][u]
  BY DEF Crash, TypeOK
<1>3. /\ \A u \in Tasks : at[u] # n => run'[u] = run[u]
      /\ \A u \in Tasks : at[u] = n => run'[u] = Broken(u)
  BY DEF Crash
<1>4. \A u \in Tasks \ External : Alive(u)' <=> Alive(u) /\ at[u] # n
  BY <1>3 DEF Alive, Broken, Safe, DrivenFromOutside
<1>5. "absent" \notin Active
  BY DEF Active
<1>6. KeysAreHeldByLiveTasks'
  BY <1>1, <1>2, <1>4, <1>5 DEF Safe, KeysAreHeldByLiveTasks
<1>7. Homes' /\ DownIsEmpty'
  BY <1>1, <1>2 DEF Safe, Homes, DownIsEmpty
<1>8. EndingHasOutcome'
  BY <1>1, <1>2, <1>3 DEF Safe, EndingHasOutcome, TypeOK, Broken
<1>9. RecordedIsOver'
  BY <1>1, <1>3 DEF Safe, RecordedIsOver, Broken
<1>10. DrivenFromOutside' /\ WaitingIsActive'
  BY <1>2, <1>3, TasksAssumption DEF Safe, DrivenFromOutside, WaitingIsActive, Broken
<1>. QED
  BY <1>6, <1>7, <1>8, <1>9, <1>10 DEF Safe

LEMMA RecoverSafe ==
    ASSUME TypeOK, Safe, NEW n \in Nodes, Recover(n) PROVE Safe'
<1>1. /\ UNCHANGED <<run, at>> /\ ~Up(n)
      /\ \A m \in Nodes : m # n => (Up(m)' <=> Up(m))
      /\ Up(n)'
  BY DEF Recover, TypeOK, Up
<1>2. \A m \in Nodes, u \in Tasks : m # n => tasks'[m][u] = tasks[m][u]
  BY DEF Recover, TypeOK
<1>3. \A u \in Tasks : tasks[n][u] = "absent"
  BY <1>1 DEF Safe, DownIsEmpty
<1>4. \A u \in Tasks \ External : tasks'[n][u] \in {"absent", "interrupted"}
  BY DEF Recover, Recovered, TypeOK
<1>5. \A u \in External : tasks'[n][u] \in Active \cup {"absent"}
  BY TasksAssumption DEF Recover, Recovered, TypeOK
<1>6. \A u \in Tasks : rec'[u] \in {rec[u], "interrupted"}
  BY DEF Recover, Recovered, TypeOK
<1>7. \A u \in Tasks : Alive(u)' <=> Alive(u)
  BY <1>1 DEF Alive
<1>8. /\ "absent" \notin Active \cup Told
      /\ "interrupted" \notin Active \cup Told
  BY DEF Active, Told
<1>9. KeysAreHeldByLiveTasks'
  BY <1>1, <1>2, <1>3, <1>4, <1>7, <1>8 DEF Safe, KeysAreHeldByLiveTasks
<1>10. Homes' /\ DownIsEmpty'
  BY <1>1, <1>2 DEF Safe, Homes, DownIsEmpty
<1>11. EndingHasOutcome'
  BY <1>1, <1>2, <1>3, <1>8 DEF Safe, EndingHasOutcome, TypeOK
<1>12. RecordedIsOver'
  BY <1>1, <1>6, <1>8 DEF Safe, RecordedIsOver
<1>13. DrivenFromOutside' /\ WaitingIsActive'
  BY <1>1, <1>2, <1>5, TasksAssumption DEF Safe, DrivenFromOutside, WaitingIsActive
<1>. QED
  BY <1>9, <1>10, <1>11, <1>12, <1>13 DEF Safe

LEMMA NextSafe ==
    ASSUME TypeOK, Safe, [Next]_vars PROVE Safe'
<1>1. CASE UNCHANGED vars
  BY <1>1, QuietSafe DEF vars, Up
<1>2. CASE \E t \in Tasks : Submit(t) \/ Begin(t) \/ Ask(t) \/ Question(t) \/ Resume(t)
                            \/ Tell(t) \/ Unwind(t) \/ Answer(t) \/ Cancel(t)
                            \/ Enqueue(t) \/ GiveUp(t) \/ Retry(t)
  BY <1>2, SubmitSafe, MovesSafe, QuestionSafe, TellSafe, WakeSafe, HandsSafe
<1>3. CASE \E t \in Tasks, status \in Told : Finish(t, status)
  BY <1>3, MovesSafe
<1>4. CASE \E t \in Tasks, n \in Nodes : Progress(t, n) \/ Take(t, n)
  BY <1>4, ProgressSafe, HandsSafe
<1>5. CASE \E t \in Tasks, n \in Nodes, status \in Told : FinishExternal(t, n, status)
  BY <1>5, FinishExternalSafe
<1>6. ASSUME NEW n \in Nodes,
             Message(n) \/ Leave(n) \/ LateMessage(n) \/ Drop(n) \/ Notice(n)
      PROVE  Safe'
  <2>1. UNCHANGED <<tasks, rec, run, at, node>>
    BY <1>6 DEF Message, Leave, LateMessage, Drop, Notice, store
  <2>. QED
    BY <2>1, QuietSafe DEF Up
<1>7. ASSUME NEW n \in Nodes, Restart(n) PROVE Safe'
  <2>1. UNCHANGED <<tasks, rec, run, at>> /\ \A m \in Nodes : Up(m)' <=> Up(m)
    BY <1>7 DEF Restart, Up, TypeOK
  <2>. QED
    BY <2>1, QuietSafe
<1>8. CASE \E n \in Nodes : Message(n) \/ Leave(n) \/ LateMessage(n) \/ Drop(n)
                            \/ Notice(n) \/ Crash(n) \/ Restart(n) \/ Recover(n)
  BY <1>6, <1>7, <1>8, CrashSafe, RecoverSafe
<1>9. CASE \E m \in wire : Listen(m)
  <2>1. UNCHANGED <<tasks, rec, run, at, node>>
    BY <1>9 DEF Listen, store
  <2>. QED
    BY <2>1, QuietSafe DEF Up
<1>. QED
  BY <1>1, <1>2, <1>3, <1>4, <1>5, <1>8, <1>9 DEF Next

-----------------------------------------------------------------------------
(* The theorems *)

\* The inductive invariant holds: types, keys, and what is known of endings.
THEOREM Invariant == Spec => []Inv
<1>1. Init => Inv
  BY InitTyped, InitSafe DEF Inv, Safe
<1>2. Inv /\ [Next]_vars => Inv'
  BY NextTyped, NextSafe DEF Inv, Safe
<1>. QED
  BY <1>1, <1>2, PTL DEF Spec

\* The state of tasks, connections and messages keeps its types.
THEOREM TypeCorrect == Spec => []TypeOK
BY Invariant, PTL DEF Inv

\* A key is held just as long as the coroutine of its task is there, and by one
\* coroutine of a node at a time, through cancels, crashes and recoveries.
THEOREM KeysAreHeld == Spec => []KeysAreHeldByLiveTasks
BY Invariant, PTL DEF Inv

\* No coroutine, thread, confirmation or cancel writes over a recorded outcome:
\* only the recovery of a node that read the row before does.
THEOREM OutcomesStay == Spec => OutcomesStand
<1>. DEFINE Kept == \A t \in Tasks : rec[t] \in Told /\ rec'[t] # rec[t] =>
                       /\ rec'[t] = "interrupted"
                       /\ \E n \in Nodes : node[n] = "recovering" /\ snap[n][t] \in Active
<1>1. ASSUME Inv, [Next]_vars, NEW t \in Tasks, rec[t] \in Told, rec'[t] # rec[t]
      PROVE  /\ rec'[t] = "interrupted"
             /\ \E n \in Nodes : node[n] = "recovering" /\ snap[n][t] \in Active
  <2>1. run[t] \in {"notify", "over"}
    BY <1>1 DEF Inv, RecordedIsOver
  <2>2. \A u \in Tasks, n \in Nodes, s \in Status :
            Persist(u, s) => u = t
    BY <1>1, PersistTyped DEF Inv
  <2>3. TypeOK /\ \A u \in Tasks : at[u] \in Nodes /\ Home[u] \in Nodes
    BY <1>1, TasksAssumption DEF Inv, TypeOK
  <2>4. Active \cup Told \cup {"interrupted"} \subseteq Status
    BY DEF Status
  <2>5. \A u \in Tasks : ~(Submit(u) \/ Begin(u) \/ Ask(u) \/ Resume(u) \/ Unwind(u))
    BY <1>1, <2>1, <2>2, <2>3, <2>4
       DEF Submit, Begin, Ask, Resume, Unwind, Becomes, Active, Told
  <2>6. \A u \in Tasks, s \in Told : ~Finish(u, s)
    BY <2>1, <2>2, <2>3, <2>4 DEF Finish, Becomes
  <2>7. \A u \in Tasks, n \in Nodes : ~Progress(u, n)
    <3>1. \A u \in Tasks, n \in Nodes : tasks[n][u] \in Status
      BY <2>3 DEF TypeOK
    <3>. QED
      BY <2>1, <2>2, <3>1 DEF Progress
  <2>8. \A u \in Tasks, n \in Nodes, s \in Told : ~FinishExternal(u, n, s)
    BY <1>1, <2>1, <2>2, <2>4 DEF FinishExternal, Becomes
  <2>9. /\ \A u \in Tasks :
               ~(Tell(u) \/ Question(u) \/ Answer(u) \/ Cancel(u) \/ Enqueue(u)
                 \/ GiveUp(u) \/ Retry(u))
        /\ \A u \in Tasks, n \in Nodes : ~Take(u, n)
    BY <1>1 DEF Tell, Question, Answer, Cancel, Enqueue, GiveUp, Retry, Take, store
  <2>10. /\ \A n \in Nodes :
                ~(Message(n) \/ Leave(n) \/ LateMessage(n) \/ Drop(n) \/ Notice(n)
                  \/ Crash(n) \/ Restart(n))
         /\ \A m \in wire : ~Listen(m)
    BY <1>1 DEF Message, Leave, LateMessage, Drop, Notice, Crash, Restart, Listen, store
  <2>11. PICK n \in Nodes : Recover(n)
    BY <1>1, <2>5, <2>6, <2>7, <2>8, <2>9, <2>10
       DEF Next, vars
  <2>12. snap[n][t] \in Active \cup {"absent"}
    BY <2>3 DEF TypeOK
  <2>. QED
    BY <1>1, <2>11, <2>12 DEF Recover, Recovered
<1>2. Inv /\ [Next]_vars => Kept
  BY <1>1
<1>. QED
  BY <1>2, Invariant, PTL DEF Spec, OutcomesStand
=============================================================================
