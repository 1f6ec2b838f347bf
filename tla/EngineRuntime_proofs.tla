------------------------ MODULE EngineRuntime_proofs ------------------------
(***************************************************************************)
(* Type correctness and the safety of EngineRuntime, for every set of      *)
(* callers, models and configurations and every bound on the faults.       *)
(***************************************************************************)
EXTENDS EngineRuntime, TLAPS

-----------------------------------------------------------------------------
(* Type correctness *)

Ats == {"asked", "row", "look", "spawn", "init", "register", "record",
        "enter", "wait", "close", "remove", "ghost",
        "done", "failed", "cancelled"}

\* What an action makes of a call is a call.
LEMMA CallsTyped ==
    ASSUME NEW k \in Calls
    PROVE  /\ \A at \in Ats :
                /\ [k EXCEPT !.at = at] \in Calls
                /\ \A i \in Ids : /\ [k EXCEPT !.at = at, !.row = i] \in Calls
                                  /\ [k EXCEPT !.at = at, !.handle = i] \in Calls
                /\ \A s \in SUBSET Callers : [k EXCEPT !.at = at, !.left = s] \in Calls
           /\ k.at \in Ats /\ k.row \in Ids /\ k.handle \in Ids
           /\ k.left \in SUBSET Callers
<1>1. Calls = [at : Ats, row : Ids, handle : Ids, left : SUBSET Callers]
  BY DEF Calls, Ats
<1>2. ASSUME NEW at \in Ats
      PROVE  [k EXCEPT !.at = at] \in Calls
  BY <1>1, <1>2
<1>3. ASSUME NEW at \in Ats, NEW i \in Ids
      PROVE  /\ [k EXCEPT !.at = at, !.row = i] \in Calls
             /\ [k EXCEPT !.at = at, !.handle = i] \in Calls
  BY <1>1, <1>3
<1>4. ASSUME NEW at \in Ats, NEW s \in SUBSET Callers
      PROVE  [k EXCEPT !.at = at, !.left = s] \in Calls
  BY <1>1, <1>4
<1>5. QED
  BY <1>1, <1>2, <1>3, <1>4

LEMMA InitTyped == Init => TypeOK
<1> SUFFICES ASSUME Init PROVE TypeOK
  OBVIOUS
<1>1. [at |-> "asked", row |-> Nobody, handle |-> Nobody, left |-> {}] \in Calls
  BY DEF Calls, Ids
<1>2. 0 \in 0 .. MaxFaults
  BY RuntimeAssumption
<1>3. QED
  BY <1>1, <1>2 DEF Init, TypeOK, Nothing, Ids

\* A step that only moves the caller on, and its locks.
LEMMA GoesTyped ==
    ASSUME TypeOK, NEW c \in Callers
    PROVE  /\ \A at \in Ats : Goes(c, at) => call' \in [Callers -> Calls]
           /\ Leaves(c) => held' \in [Callers -> Ids]
           /\ Unlock(c) => lock' \in [Callers -> Ids]
           /\ After(c) \in {"done", "enter"}
<1>1. ASSUME NEW at \in Ats, Goes(c, at)
      PROVE  call' \in [Callers -> Calls]
  BY <1>1, CallsTyped DEF TypeOK, Goes
<1>2. ASSUME Leaves(c)
      PROVE  held' \in [Callers -> Ids]
  BY <1>2 DEF Leaves, TypeOK, Ids
<1>3. ASSUME Unlock(c)
      PROVE  lock' \in [Callers -> Ids]
  BY <1>3 DEF Unlock, TypeOK, Ids
<1>4. QED
  BY <1>1, <1>2, <1>3 DEF After

LEMMA CreationTyped ==
    ASSUME TypeOK, NEW c \in Callers,
           \/ Start(c) \/ AcquireRow(c) \/ Reuse(c) \/ Replace(c) \/ Spawn(c)
           \/ Initialised(c) \/ InitDies(c) \/ Register(c) \/ Record(c)
    PROVE  TypeOK'
<1>0. call[c] \in Calls
  BY DEF TypeOK
<1>1. CASE Start(c)
  <2>1. RowLock(c) \in Ids
    BY DEF RowLock, TypeOK, Ids
  <2>2. [call[c] EXCEPT !.at = "row", !.row = RowLock(c)] \in Calls
    BY <1>0, <2>1, CallsTyped DEF Ats
  <2>3. call' \in [Callers -> Calls]
    BY <1>1, <2>2 DEF Start, TypeOK
  <2>4. QED
    BY <1>1, <2>1, <2>3 DEF Start, TypeOK
<1>2. CASE AcquireRow(c)
  BY <1>2, GoesTyped DEF Ats, AcquireRow, TypeOK, Ids
<1>3. CASE Reuse(c)
  <2>1. [call[c] EXCEPT !.at = After(c), !.handle = handles[ask[c].model]] \in Calls
    <3>1. handles[ask[c].model] \in Ids /\ After(c) \in Ats
      BY GoesTyped DEF TypeOK, Ats
    <3>2. QED
      BY <1>0, <3>1, CallsTyped
  <2>2. call' \in [Callers -> Calls]
    BY <1>3, <2>1 DEF Reuse, TypeOK
  <2>3. held' \in [Callers -> Ids]
    BY <1>3, GoesTyped DEF Reuse
  <2>4. QED
    BY <1>3, <2>2, <2>3 DEF Reuse, TypeOK
<1>4. CASE Replace(c)
  <2>1. Replaced(c) \in SUBSET Callers
    BY DEF Replaced, TypeOK, Ids
  <2>2. [call[c] EXCEPT !.at = "spawn", !.left = Replaced(c)] \in Calls
    BY <1>0, <2>1, CallsTyped DEF Ats
  <2>3. call' \in [Callers -> Calls]
    BY <1>4, <2>2 DEF Replace, TypeOK
  <2>4. handles' \in [Models -> Ids]
    BY <1>4 DEF Replace, TypeOK, Ids
  <2>5. QED
    BY <1>4, <2>3, <2>4 DEF Replace, TypeOK
<1>5. CASE Spawn(c)
  BY <1>5, GoesTyped DEF Ats, Spawn, TypeOK
<1>6. CASE Initialised(c)
  <2>1. [call[c] EXCEPT !.at = "register", !.handle = c] \in Calls
    BY <1>0, CallsTyped DEF Ats, Ids
  <2>2. call' \in [Callers -> Calls]
    BY <1>6, <2>1 DEF Initialised, TypeOK
  <2>3. QED
    BY <1>6, <2>2 DEF Initialised, TypeOK
<1>7. CASE InitDies(c)
  BY <1>7, GoesTyped DEF Ats, InitDies, TypeOK
<1>8. CASE Register(c)
  BY <1>8, GoesTyped DEF Ats, Register, TypeOK, Ids
<1>9. CASE Record(c)
  BY <1>9, GoesTyped DEF Ats, Record, TypeOK, Ids
<1>10. QED
  BY <1>1, <1>2, <1>3, <1>4, <1>5, <1>6, <1>7, <1>8, <1>9

LEMMA TalkTyped ==
    ASSUME TypeOK, NEW c \in Callers,
           Enter(c) \/ Answered(c) \/ CallFails(c) \/ GhostTakes(c)
    PROVE  TypeOK'
<1>1. CASE Enter(c)
  <2>1. lock' \in [Callers -> Ids]
    BY <1>1 DEF Enter, TypeOK, Ids
  <2>2. QED
    BY <1>1, <2>1, GoesTyped DEF Ats, Enter, TypeOK
<1>2. CASE Answered(c)
  BY <1>2, GoesTyped DEF Ats, Answered, TypeOK
<1>3. CASE CallFails(c)
  BY <1>3, GoesTyped DEF Ats, CallFails, TypeOK
<1>4. CASE GhostTakes(c)
  <2>1. lock' \in [Callers -> Ids]
    BY <1>4 DEF GhostTakes, TypeOK, Ids
  <2>2. QED
    BY <1>4, <2>1, GoesTyped DEF Ats, GhostTakes, TypeOK
<1>5. QED
  BY <1>1, <1>2, <1>3, <1>4

LEMMA TakingTyped ==
    ASSUME TypeOK, NEW c \in Callers,
           Unload(c) \/ Stop(c) \/ Remove(c) \/ \E h \in Callers : Close(c, h)
    PROVE  TypeOK'
<1>1. (DropsRow \/ KeepsRow) => rowlock' \in Ids /\ dropped' \in BOOLEAN
  BY DEF DropsRow, KeepsRow, TypeOK, Ids
<1>2. CASE Unload(c)
  <2>1. {handles[ask[c].model]} \ {Nobody} \in SUBSET Callers
    BY DEF TypeOK, Ids
  <2>2. call' \in [Callers -> Calls]
    <3>1. call[c] \in Calls
      BY DEF TypeOK
    <3>2. \A at \in {"done", "close"} :
             [call[c] EXCEPT !.at = at, !.left = {handles[ask[c].model]} \ {Nobody}]
                \in Calls
      BY <2>1, <3>1, CallsTyped DEF Ats
    <3>3. QED
      BY <1>2, <3>2 DEF Unload, TypeOK
  <2>3. handles' \in [Models -> Ids]
    BY <1>2 DEF Unload, TypeOK, Ids
  <2>4. QED
    BY <1>1, <1>2, <2>2, <2>3 DEF Unload, TypeOK
<1>3. CASE Stop(c)
  <2>1. {handles[m] : m \in Models} \ {Nobody} \in SUBSET Callers
    BY DEF TypeOK, Ids
  <2>2. call' \in [Callers -> Calls]
    <3>1. call[c] \in Calls
      BY DEF TypeOK
    <3>2. \A at \in {"done", "close"} :
             [call[c] EXCEPT !.at = at, !.left = {handles[m] : m \in Models} \ {Nobody}]
                \in Calls
      BY <2>1, <3>1, CallsTyped DEF Ats
    <3>3. QED
      BY <1>3, <3>2 DEF Stop, TypeOK
  <2>3. handles' \in [Models -> Ids]
    BY <1>3 DEF Stop, Nothing, Ids
  <2>4. QED
    BY <1>1, <1>3, <2>2, <2>3 DEF Stop, TypeOK
<1>4. CASE Remove(c)
  <2>1. record' \in [Models -> Ids]
    BY <1>4 DEF Remove, Nothing, TypeOK, Ids
  <2>2. QED
    BY <1>4, <2>1, GoesTyped DEF Ats, Remove, TypeOK
<1>5. ASSUME NEW h \in Callers, Close(c, h)
      PROVE  TypeOK'
  <2>1. call' \in [Callers -> Calls]
    <3>1. call[c] \in Calls
      BY DEF TypeOK
    <3>2. call[c].left \ {h} \in SUBSET Callers
      BY <3>1, CallsTyped
    <3> DEFINE at == IF call[c].at = "close" /\ call[c].left = {h}
                     THEN "remove" ELSE call[c].at
    <3>3. at \in Ats
      BY <3>1, CallsTyped DEF Ats
    <3>4. [call[c] EXCEPT !.at = at, !.left = call[c].left \ {h}] \in Calls
      BY <3>1, <3>2, <3>3, CallsTyped
    <3>5. call'[c] = [call[c] EXCEPT !.at = at, !.left = call[c].left \ {h}]
      BY <1>5, <3>1 DEF Close, TypeOK, Calls
    <3>6. call' = [call EXCEPT ![c] = call'[c]]
      BY <1>5 DEF Close, TypeOK
    <3>7. QED
      BY <3>4, <3>5, <3>6 DEF TypeOK
  <2>2. QED
    BY <1>5, <2>1 DEF Close, TypeOK
<1>6. QED
  BY <1>2, <1>3, <1>4, <1>5

LEMMA FaultsTyped ==
    ASSUME TypeOK, NEW c \in Callers, Fails(c)
    PROVE  TypeOK'
<1>1. faults < MaxFaults => faults + 1 \in 0 .. MaxFaults
  BY RuntimeAssumption DEF TypeOK
<1>2. CASE InitFails(c)
  BY <1>1, <1>2, GoesTyped DEF Ats, InitFails, TypeOK
<1>3. CASE CancelWaiting(c)
  BY <1>1, <1>3, GoesTyped DEF Ats, CancelWaiting, TypeOK
<1>4. CASE CancelStream(c)
  BY <1>1, <1>4, GoesTyped DEF Ats, CancelStream, TypeOK
<1>5. CASE Crash(c)
  BY <1>1, <1>5 DEF Crash, TypeOK
<1>6. QED
  BY <1>2, <1>3, <1>4, <1>5 DEF Fails

LEMMA PublisherTyped ==
    ASSUME TypeOK, Publishes
    PROVE  TypeOK'
<1>1. Inventory \in [Models -> Ids] /\ Nothing \in [Models -> Ids]
  BY DEF Inventory, Nothing, TypeOK, Ids
<1>2. QED
  BY <1>1 DEF Publishes, Read, Write, TypeOK

LEMMA StepTyped == TypeOK /\ [Next]_vars => TypeOK'
<1> SUFFICES ASSUME TypeOK, [Next]_vars PROVE TypeOK'
  OBVIOUS
<1>1. CASE UNCHANGED vars
  BY <1>1 DEF vars, TypeOK
<1>2. CASE Publishes
  BY <1>2, PublisherTyped
<1>3. ASSUME NEW c \in Callers, Works(c)
      PROVE  TypeOK'
  BY <1>3, CreationTyped, TalkTyped, TakingTyped DEF Works
<1>4. QED
  BY <1>1, <1>2, <1>3, FaultsTyped DEF Next

\* The state of the worker pool keeps its types: what the threads, the crashes
\* and the publisher of the code assign is what the registries may hold.
THEOREM TypeCorrect == Spec => []TypeOK
BY InitTyped, StepTyped, PTL DEF Spec

-----------------------------------------------------------------------------
(* The inductive invariant *)

Locked == {"look", "spawn", "init", "register", "record"}

\* A caller between AcquireRow and Leaves holds the row lock it took; as long as
\* no lock in use was dropped, that is the lock of the engine.
RowHeld ==
    \A c \in Callers :
        /\ call[c].at \in Locked \cup {"row"} => call[c].row \in Callers
        /\ call[c].at \in Locked => held[call[c].row] = c
        /\ ~dropped /\ call[c].at \in Locked \cup {"row"} => call[c].row = rowlock

\* A worker is spawned by its caller, and is its caller's once it is initialised.
Spawned ==
    \A c \in Callers :
        /\ call[c].at \in {"asked", "row", "look", "spawn"} => process[c] = "none"
        /\ call[c].at \in {"asked", "row", "look", "spawn", "init"} =>
              call[c].handle = Nobody
        /\ call[c].at \in {"init", "register"} => process[c] # "none"
        /\ call[c].at = "register" => call[c].handle = c

\* Worker h was initialised by its own caller, which has registered it.
WasRegistered(h) ==
    /\ process[h] # "none" /\ call[h].handle = h
    /\ call[h].at \notin {"asked", "row", "look", "spawn", "init", "register"}

\* The registry holds workers that were registered, under their model.
HandlesRegistered ==
    \A m \in Models, h \in Callers :
        handles[m] = h => WasRegistered(h) /\ ask[h].model = m

\* What a caller must close was registered, and is out of the registry for good.
LeftRemoved ==
    \A c \in Callers :
        /\ call[c].left # {} => call[c].at \in {"spawn", "close"}
        /\ \A h \in call[c].left : WasRegistered(h) /\ \A m \in Models : handles[m] # h

\* Who creates a worker has taken the old one out of the registry, and nobody puts
\* another there while it holds the lock.
PlaceKept ==
    ~dropped => \A c \in Callers : call[c].at \in {"spawn", "init", "register"} =>
                    handles[ask[c].model] = Nobody

\* Who talks to a worker has one.
Handled ==
    \A c \in Callers : call[c].at \in {"register", "record", "enter", "wait", "ghost"} =>
                          call[c].handle # Nobody

Inv == /\ TypeOK /\ RowHeld /\ Spawned /\ HandlesRegistered /\ LeftRemoved
       /\ PlaceKept /\ Handled /\ ResidentIsReachable

\* How a step of caller c leaves the calls.
Moved(c, at, row, handle, left) ==
    /\ call'[c].at = at /\ call'[c].row = row
    /\ call'[c].handle = handle /\ call'[c].left = left
    /\ \A d \in Callers \ {c} : call'[d] = call[d]

LEMMA GoesMoves ==
    ASSUME TypeOK, NEW c \in Callers
    PROVE  /\ \A at : Goes(c, at) =>
                Moved(c, at, call[c].row, call[c].handle, call[c].left)
           /\ Leaves(c) => \A r \in Callers : held'[r] = IF r = call[c].row THEN Nobody
                                                        ELSE held[r]
BY DEF Goes, Moved, Leaves, TypeOK, Calls

\* Where each action takes its caller.
LEMMA WorksMove ==
    ASSUME TypeOK, NEW c \in Callers
    PROVE  /\ Start(c) => Moved(c, "row", RowLock(c), call[c].handle, call[c].left)
           /\ AcquireRow(c) => Moved(c, "look", call[c].row, call[c].handle, call[c].left)
           /\ Reuse(c) => Moved(c, After(c), call[c].row, handles[ask[c].model], call[c].left)
           /\ Replace(c) => Moved(c, "spawn", call[c].row, call[c].handle, Replaced(c))
           /\ Spawn(c) => Moved(c, "init", call[c].row, call[c].handle, call[c].left)
           /\ Initialised(c) => Moved(c, "register", call[c].row, c, call[c].left)
           /\ InitDies(c) => Moved(c, "failed", call[c].row, call[c].handle, call[c].left)
           /\ Register(c) => Moved(c, "record", call[c].row, call[c].handle, call[c].left)
           /\ Record(c) => Moved(c, After(c), call[c].row, call[c].handle, call[c].left)
           /\ Enter(c) => Moved(c, "wait", call[c].row, call[c].handle, call[c].left)
           /\ Answered(c) => Moved(c, "done", call[c].row, call[c].handle, call[c].left)
           /\ CallFails(c) => Moved(c, "failed", call[c].row, call[c].handle, call[c].left)
           /\ GhostTakes(c) => Moved(c, "cancelled", call[c].row, call[c].handle, call[c].left)
           /\ Remove(c) => Moved(c, "done", call[c].row, call[c].handle, call[c].left)
           /\ InitFails(c) => Moved(c, "failed", call[c].row, call[c].handle, call[c].left)
           /\ CancelStream(c) => Moved(c, "cancelled", call[c].row, call[c].handle, call[c].left)
<1>1. call[c] \in Calls /\ call \in [Callers -> Calls]
  BY DEF TypeOK
<1>2. Start(c) => Moved(c, "row", RowLock(c), call[c].handle, call[c].left)
  BY <1>1 DEF Start, Moved, Calls
<1>3. Reuse(c) => Moved(c, After(c), call[c].row, handles[ask[c].model], call[c].left)
  BY <1>1 DEF Reuse, Moved, Calls
<1>4. Replace(c) => Moved(c, "spawn", call[c].row, call[c].handle, Replaced(c))
  BY <1>1 DEF Replace, Moved, Calls
<1>5. Initialised(c) => Moved(c, "register", call[c].row, c, call[c].left)
  BY <1>1 DEF Initialised, Moved, Calls
<1>6. QED
  BY <1>2, <1>3, <1>4, <1>5, GoesMoves
     DEF AcquireRow, Spawn, InitDies, Register, Record, Enter, Answered, CallFails,
         GhostTakes, Remove, InitFails, CancelStream

LEMMA TakingMoves ==
    ASSUME TypeOK, NEW c \in Callers
    PROVE  /\ CancelWaiting(c) => \E at \in {"ghost", "cancelled"} :
                Moved(c, at, call[c].row, call[c].handle, call[c].left)
           /\ Unload(c) => \E at \in {"done", "close"} :
                /\ Moved(c, at, call[c].row, call[c].handle,
                         {handles[ask[c].model]} \ {Nobody})
                /\ at = "done" => handles[ask[c].model] = Nobody
           /\ Stop(c) => \E at \in {"done", "close"} :
                /\ Moved(c, at, call[c].row, call[c].handle,
                         {handles[m] : m \in Models} \ {Nobody})
                /\ at = "done" => {handles[m] : m \in Models} \ {Nobody} = {}
<1>1. call[c] \in Calls /\ call \in [Callers -> Calls]
  BY DEF TypeOK
<1>2. CancelWaiting(c) => \E at \in {"ghost", "cancelled"} :
         Moved(c, at, call[c].row, call[c].handle, call[c].left)
  BY GoesMoves DEF CancelWaiting
<1>3. ASSUME Unload(c)
      PROVE  \E at \in {"done", "close"} :
                /\ Moved(c, at, call[c].row, call[c].handle,
                         {handles[ask[c].model]} \ {Nobody})
                /\ at = "done" => handles[ask[c].model] = Nobody
  BY <1>1, <1>3 DEF Unload, Moved, Calls
<1>4. ASSUME Stop(c)
      PROVE  \E at \in {"done", "close"} :
                /\ Moved(c, at, call[c].row, call[c].handle,
                         {handles[m] : m \in Models} \ {Nobody})
                /\ at = "done" => {handles[m] : m \in Models} \ {Nobody} = {}
  BY <1>1, <1>4 DEF Stop, Moved, Calls
<1>5. QED
  BY <1>2, <1>3, <1>4

LEMMA CloseMoves ==
    ASSUME TypeOK, NEW c \in Callers, NEW h \in Callers, Close(c, h)
    PROVE  \E at \in {"spawn", "close", "remove"} :
                /\ Moved(c, at, call[c].row, call[c].handle, call[c].left \ {h})
                /\ at = "spawn" <=> call[c].at = "spawn"
                /\ at = "remove" => call[c].left = {h}
<1>1. call[c] \in Calls /\ call \in [Callers -> Calls]
  BY DEF TypeOK
<1>2. QED
  BY <1>1 DEF Close, Moved, Calls

-----------------------------------------------------------------------------
(* Every step keeps it: first the row lock. *)

\* A step that takes or keeps no lock it did not have.
LEMMA RowHeldFrame ==
    ASSUME RowHeld, NEW c \in Callers, NEW at, NEW row, NEW handle, NEW left,
           Moved(c, at, row, handle, left),
           at \in Locked \cup {"row"} =>
              row = call[c].row /\ call[c].at \in Locked \cup {"row"},
           at \in Locked => call[c].at \in Locked,
           held' = held, dropped' = dropped, rowlock' = rowlock
    PROVE  RowHeld'
<1> SUFFICES ASSUME NEW d \in Callers
             PROVE  /\ call'[d].at \in Locked \cup {"row"} => call'[d].row \in Callers
                    /\ call'[d].at \in Locked => held[call'[d].row] = d
                    /\ ~dropped /\ call'[d].at \in Locked \cup {"row"} =>
                          call'[d].row = rowlock
  BY DEF RowHeld
<1>1. CASE d = c
  BY <1>1 DEF RowHeld, Moved
<1>2. CASE d # c
  BY <1>2 DEF RowHeld, Moved
<1>3. QED
  BY <1>1, <1>2

\* A step that gives the lock back.
LEMMA RowHeldLeaves ==
    ASSUME RowHeld, TypeOK, NEW c \in Callers, NEW at, NEW row, NEW handle, NEW left,
           Moved(c, at, row, handle, left), at \notin Locked \cup {"row"},
           call[c].at \in Locked, Leaves(c), dropped' = dropped, rowlock' = rowlock
    PROVE  RowHeld'
<1> SUFFICES ASSUME NEW d \in Callers
             PROVE  /\ call'[d].at \in Locked \cup {"row"} => call'[d].row \in Callers
                    /\ call'[d].at \in Locked => held'[call'[d].row] = d
                    /\ ~dropped /\ call'[d].at \in Locked \cup {"row"} =>
                          call'[d].row = rowlock
  BY DEF RowHeld
<1>1. CASE d = c
  BY <1>1 DEF Moved
<1>2. CASE d # c
  BY <1>2, GoesMoves DEF RowHeld, Moved
<1>3. QED
  BY <1>1, <1>2

\* A step that may drop the lock from _row_locks.
LEMMA RowHeldDropped ==
    ASSUME RowHeld, TypeOK, NEW c \in Callers, NEW at, NEW row, NEW handle, NEW left,
           Moved(c, at, row, handle, left), at \notin Locked \cup {"row"},
           held' = held, DropsRow \/ KeepsRow
    PROVE  RowHeld'
<1> SUFFICES ASSUME NEW d \in Callers
             PROVE  /\ call'[d].at \in Locked \cup {"row"} => call'[d].row \in Callers
                    /\ call'[d].at \in Locked => held[call'[d].row] = d
                    /\ ~dropped' /\ call'[d].at \in Locked \cup {"row"} =>
                          call'[d].row = rowlock'
  BY DEF RowHeld
<1>1. CASE d = c
  BY <1>1 DEF Moved
<1>2. CASE d # c
  <2>1. call'[d] = call[d]
    BY <1>2 DEF Moved
  <2>2. CASE KeepsRow
    BY <2>1, <2>2 DEF KeepsRow, RowHeld
  <2>3. CASE DropsRow
    <3>1. ASSUME ~dropped', call[d].at \in Locked \cup {"row"}
          PROVE  FALSE
      <4>1. ~dropped /\ (rowlock = Nobody \/ Using(rowlock) = {})
        BY <2>3, <3>1 DEF DropsRow, TypeOK
      <4>2. call[d].row = rowlock /\ call[d].row \in Callers
        BY <3>1, <4>1 DEF RowHeld
      <4>3. d \in Using(rowlock)
        BY <3>1, <4>2 DEF Using, Locked
      <4>4. QED
        BY <4>1, <4>2, <4>3, RuntimeAssumption
    <3>2. QED
      BY <2>1, <3>1 DEF RowHeld
  <2>4. QED
    BY <2>2, <2>3
<1>3. QED
  BY <1>1, <1>2

LEMMA RowHeldKept ==
    ASSUME Inv, NEW c \in Callers, Works(c) \/ Fails(c)
    PROVE  RowHeld'
<1> DEFINE row == call[c].row
           handle == call[c].handle
           left == call[c].left
<1>0. TypeOK /\ RowHeld
  BY DEF Inv
<1>1. CASE Start(c)
  <2>1. Moved(c, "row", RowLock(c), handle, left)
    BY <1>0, <1>1, WorksMove
  <2>2. RowLock(c) \in Callers /\ (rowlock # Nobody => RowLock(c) = rowlock)
    BY <1>0 DEF RowLock, TypeOK, Ids
  <2>3. held' = held /\ dropped' = dropped /\ rowlock' = RowLock(c)
    BY <1>1 DEF Start
  <2>4. ASSUME NEW d \in Callers
        PROVE  /\ call'[d].at \in Locked \cup {"row"} => call'[d].row \in Callers
               /\ call'[d].at \in Locked => held[call'[d].row] = d
               /\ ~dropped /\ call'[d].at \in Locked \cup {"row"} =>
                     call'[d].row = RowLock(c)
    <3>1. CASE d = c
      BY <2>1, <2>2, <3>1 DEF Moved, Locked
    <3>2. CASE d # c
      BY <1>0, <2>1, <2>2, <3>2, RuntimeAssumption DEF Moved, RowHeld
    <3>3. QED
      BY <3>1, <3>2
  <2>5. QED
    BY <2>3, <2>4 DEF RowHeld
<1>2. CASE AcquireRow(c)
  <2>1. Moved(c, "look", row, handle, left)
    BY <1>0, <1>2, WorksMove
  <2>2. /\ call[c].at = "row" /\ held[row] = Nobody
        /\ held' = [held EXCEPT ![row] = c] /\ UNCHANGED <<dropped, rowlock>>
    BY <1>2 DEF AcquireRow
  <2>3. row \in Callers /\ (~dropped => row = rowlock)
    BY <1>0, <2>2 DEF RowHeld
  <2>4. \A r \in Callers : held'[r] = IF r = row THEN c ELSE held[r]
    BY <1>0, <2>2 DEF TypeOK
  <2>5. ASSUME NEW d \in Callers
        PROVE  /\ call'[d].at \in Locked \cup {"row"} => call'[d].row \in Callers
               /\ call'[d].at \in Locked => held'[call'[d].row] = d
               /\ ~dropped /\ call'[d].at \in Locked \cup {"row"} =>
                     call'[d].row = rowlock
    <3>1. CASE d = c
      BY <2>1, <2>3, <2>4, <3>1 DEF Moved, Locked
    <3>2. CASE d # c
      BY <1>0, <2>1, <2>2, <2>4, <3>2, RuntimeAssumption DEF Moved, RowHeld
    <3>3. QED
      BY <3>1, <3>2
  <2>6. QED
    BY <2>2, <2>5 DEF RowHeld
<1>3. CASE Reuse(c) \/ Record(c)
  <2>1. After(c) \notin Locked \cup {"row"}
    BY DEF After, Locked
  <2>2. /\ call[c].at \in Locked /\ Leaves(c) /\ UNCHANGED <<dropped, rowlock>>
    BY <1>3 DEF Reuse, Record, Locked
  <2>3. \/ Moved(c, After(c), row, handles[ask[c].model], left)
        \/ Moved(c, After(c), row, handle, left)
    BY <1>0, <1>3, WorksMove
  <2>4. QED
    BY <1>0, <2>1, <2>2, <2>3, RowHeldLeaves
<1>4. CASE Replace(c)
  <2>1. Moved(c, "spawn", row, handle, Replaced(c))
    BY <1>0, <1>4, WorksMove
  <2>2. call[c].at \in Locked /\ UNCHANGED <<held, dropped, rowlock>>
    BY <1>4 DEF Replace, Locked
  <2>3. QED
    BY <1>0, <2>1, <2>2, RowHeldFrame
<1>5. CASE Spawn(c) \/ Initialised(c) \/ Register(c)
  <2>1. \/ Moved(c, "init", row, handle, left)
        \/ Moved(c, "register", row, c, left)
        \/ Moved(c, "record", row, handle, left)
    BY <1>0, <1>5, WorksMove
  <2>2. call[c].at \in Locked /\ UNCHANGED <<held, dropped, rowlock>>
    BY <1>5 DEF Spawn, Initialised, Register, Locked
  <2>3. QED
    BY <1>0, <2>1, <2>2, RowHeldFrame
<1>6. CASE InitDies(c) \/ InitFails(c)
  <2>1. Moved(c, "failed", row, handle, left)
    BY <1>0, <1>6, WorksMove
  <2>2. call[c].at \in Locked /\ Leaves(c) /\ UNCHANGED <<dropped, rowlock>>
    BY <1>6 DEF InitDies, InitFails, Locked
  <2>3. "failed" \notin Locked \cup {"row"}
    BY DEF Locked
  <2>4. QED
    BY <1>0, <2>1, <2>2, <2>3, RowHeldLeaves
<1>7. CASE Enter(c) \/ Answered(c) \/ CallFails(c) \/ GhostTakes(c)
           \/ CancelStream(c) \/ Remove(c) \/ CancelWaiting(c)
  <2>1. \E at \in {"wait", "done", "failed", "ghost", "cancelled"} :
           Moved(c, at, row, handle, left)
    BY <1>0, <1>7, WorksMove, TakingMoves
  <2>2. UNCHANGED <<held, dropped, rowlock>>
    BY <1>7 DEF Enter, Answered, CallFails, GhostTakes, CancelStream, Remove,
                CancelWaiting
  <2>3. {"wait", "done", "failed", "ghost", "cancelled"} \cap (Locked \cup {"row"}) = {}
    BY DEF Locked
  <2>4. QED
    BY <1>0, <2>1, <2>2, <2>3, RowHeldFrame
<1>8. CASE Unload(c) \/ Stop(c)
  <2>1. \E at \in {"done", "close"} : \E gone : Moved(c, at, row, handle, gone)
    BY <1>0, <1>8, TakingMoves
  <2>2. (DropsRow \/ KeepsRow) /\ held' = held
    BY <1>8 DEF Unload, Stop
  <2>3. {"done", "close"} \cap (Locked \cup {"row"}) = {}
    BY DEF Locked
  <2>4. QED
    BY <1>0, <2>1, <2>2, <2>3, RowHeldDropped
<1>9. ASSUME NEW h \in Callers, Close(c, h)
      PROVE  RowHeld'
  <2>1. PICK at \in {"spawn", "close", "remove"} :
           /\ Moved(c, at, row, handle, left \ {h})
           /\ at = "spawn" <=> call[c].at = "spawn"
    BY <1>0, <1>9, CloseMoves
  <2>2. UNCHANGED <<held, dropped, rowlock>>
    BY <1>9 DEF Close
  <2>3. /\ "spawn" \in Locked
        /\ {"close", "remove"} \cap (Locked \cup {"row"}) = {}
    BY DEF Locked
  <2>4. QED
    BY <1>0, <2>1, <2>2, <2>3, RowHeldFrame
<1>10. CASE Crash(c)
  BY <1>0, <1>10 DEF Crash, RowHeld
<1>11. QED
  BY <1>1, <1>2, <1>3, <1>4, <1>5, <1>6, <1>7, <1>8, <1>9, <1>10 DEF Works, Fails

-----------------------------------------------------------------------------
(* Workers are spawned once, and stay what they are. *)

LEMMA OthersStay ==
    ASSUME TypeOK, NEW c \in Callers, Works(c) \/ Fails(c)
    PROVE  \A d \in Callers \ {c} : call'[d] = call[d]
<1>1. CASE \E h \in Callers : Close(c, h)
  BY <1>1, CloseMoves DEF Moved
<1>2. CASE Crash(c)
  BY <1>2 DEF Crash
<1>3. CASE Unload(c) \/ Stop(c) \/ CancelWaiting(c)
  BY <1>3, TakingMoves DEF Moved
<1>4. CASE \/ Start(c) \/ AcquireRow(c) \/ Reuse(c) \/ Replace(c) \/ Spawn(c)
           \/ Initialised(c) \/ InitDies(c) \/ Register(c) \/ Record(c)
           \/ Enter(c) \/ Answered(c) \/ CallFails(c) \/ GhostTakes(c)
           \/ Remove(c) \/ InitFails(c) \/ CancelStream(c)
  BY <1>4, WorksMove DEF Moved
<1>5. QED
  BY <1>1, <1>2, <1>3, <1>4 DEF Works, Fails

\* Only Spawn starts a process, the caller's own, and none is ever forgotten.
LEMMA ProcessKept ==
    ASSUME Inv, NEW c \in Callers, Works(c) \/ Fails(c), NEW h \in Callers
    PROVE  /\ process[h] # "none" => process'[h] # "none"
           /\ process[h] = "none" /\ process'[h] # "none" => h = c /\ Spawn(c)
<1>1. process \in [Callers -> {"none", "up", "exited"}]
  BY DEF Inv, TypeOK
<1>2. CASE Spawn(c)
  BY <1>1, <1>2 DEF Spawn
<1>3. CASE Crash(c)
  BY <1>1, <1>3 DEF Crash
<1>4. ASSUME NEW g \in Callers, Close(c, g)
      PROVE  \/ process'[h] = process[h]
             \/ process[h] # "none" /\ process'[h] # "none"
  <2>1. process[g] # "none"
    BY <1>4 DEF Close, Inv, LeftRemoved, WasRegistered
  <2>2. process' = [process EXCEPT ![g] = "exited"]
    BY <1>4 DEF Close
  <2>3. process'[g] = "exited" /\ (h # g => process'[h] = process[h])
    BY <1>1, <2>2
  <2>4. QED
    BY <2>1, <2>3
<1>5. CASE \/ Start(c) \/ AcquireRow(c) \/ Reuse(c) \/ Replace(c)
           \/ Initialised(c) \/ InitDies(c) \/ Register(c) \/ Record(c)
           \/ Enter(c) \/ Answered(c) \/ CallFails(c) \/ GhostTakes(c)
           \/ Unload(c) \/ Stop(c) \/ Remove(c)
           \/ InitFails(c) \/ CancelStream(c) \/ CancelWaiting(c)
  <2>1. process' = process
    BY <1>5 DEF Start, AcquireRow, Reuse, Replace, Initialised, InitDies, Register,
                Record, Enter, Answered, CallFails, GhostTakes, Unload, Stop, Remove,
                InitFails, CancelStream, CancelWaiting
  <2>2. QED
    BY <2>1
<1>6. QED
  BY <1>2, <1>3, <1>4, <1>5 DEF Works, Fails

LEMMA WasRegisteredKept ==
    ASSUME Inv, NEW c \in Callers, Works(c) \/ Fails(c),
           NEW h \in Callers, WasRegistered(h)
    PROVE  WasRegistered(h)'
<1> DEFINE Early == {"asked", "row", "look", "spawn", "init", "register"}
<1>0. TypeOK
  BY DEF Inv
<1>1. process'[h] # "none"
  BY ProcessKept DEF WasRegistered
<1>2. CASE h # c
  BY <1>0, <1>1, <1>2, OthersStay DEF WasRegistered
<1>3. CASE h = c
  <2>1. call[c].at \notin Early /\ call[c].handle = c
    BY <1>3 DEF WasRegistered
  <2>2. \/ Record(c) \/ Enter(c) \/ Answered(c) \/ CallFails(c) \/ GhostTakes(c)
        \/ Remove(c) \/ CancelWaiting(c) \/ CancelStream(c) \/ Crash(c)
        \/ \E g \in Callers : Close(c, g)
    BY <2>1 DEF Works, Fails, Start, AcquireRow, Reuse, Replace, Spawn, Initialised,
                InitDies, Register, Unload, Stop, InitFails
  <2>3. CASE Record(c) \/ Enter(c) \/ Answered(c) \/ CallFails(c) \/ GhostTakes(c)
             \/ Remove(c) \/ CancelStream(c) \/ CancelWaiting(c)
    <3>1. \E at \in {"done", "enter", "wait", "failed", "ghost", "cancelled"} :
             Moved(c, at, call[c].row, call[c].handle, call[c].left)
      BY <1>0, <2>3, WorksMove, TakingMoves DEF After
    <3>2. QED
      BY <1>1, <1>3, <2>1, <3>1 DEF WasRegistered, Moved
  <2>4. CASE Crash(c)
    BY <1>1, <1>3, <2>1, <2>4 DEF Crash, WasRegistered
  <2>5. ASSUME NEW g \in Callers, Close(c, g)
        PROVE  WasRegistered(h)'
    <3>1. \E at \in {"close", "remove"} :
             Moved(c, at, call[c].row, call[c].handle, call[c].left \ {g})
      BY <1>0, <2>1, <2>5, CloseMoves
    <3>2. QED
      BY <1>1, <1>3, <2>1, <3>1 DEF WasRegistered, Moved
  <2>6. QED
    BY <2>2, <2>3, <2>4, <2>5
<1>4. QED
  BY <1>2, <1>3

LEMMA SpawnedKept ==
    ASSUME Inv, NEW c \in Callers, Works(c) \/ Fails(c)
    PROVE  Spawned'
<1> DEFINE New == {"asked", "row", "look", "spawn"}
           Good(d) ==
             /\ call'[d].at \in New => process'[d] = "none"
             /\ call'[d].at \in New \cup {"init"} => call'[d].handle = Nobody
             /\ call'[d].at \in {"init", "register"} => process'[d] # "none"
             /\ call'[d].at = "register" => call'[d].handle = d
<1>0. TypeOK /\ Spawned
  BY DEF Inv
<1> SUFFICES ASSUME NEW d \in Callers
             PROVE  Good(d)
  BY DEF Spawned
<1>1. CASE d # c
  <2>1. call'[d] = call[d]
    BY <1>0, <1>1, OthersStay
  <2>2. process'[d] = "none" <=> process[d] = "none"
    BY <1>1, ProcessKept
  <2>3. QED
    BY <1>0, <2>1, <2>2 DEF Spawned
<1>2. CASE d = c
  <2>1. CASE Start(c) \/ AcquireRow(c) \/ Replace(c)
    <3>1. \E at \in New : \E row, left : Moved(c, at, row, call[c].handle, left)
      BY <1>0, <2>1, WorksMove
    <3>2. process' = process /\ call[c].at \in New
      BY <2>1 DEF Start, AcquireRow, Replace
    <3>3. QED
      BY <1>0, <1>2, <3>1, <3>2 DEF Spawned, Moved
  <2>2. CASE Spawn(c)
    <3>1. Moved(c, "init", call[c].row, call[c].handle, call[c].left)
      BY <1>0, <2>2, WorksMove
    <3>2. process'[c] = "up" /\ call[c].at = "spawn"
      BY <1>0, <2>2 DEF Spawn, TypeOK
    <3>3. QED
      BY <1>0, <1>2, <3>1, <3>2 DEF Spawned, Moved
  <2>3. CASE Initialised(c)
    <3>1. Moved(c, "register", call[c].row, c, call[c].left)
      BY <1>0, <2>3, WorksMove
    <3>2. process'[c] = "up"
      BY <2>3 DEF Initialised
    <3>3. QED
      BY <1>2, <3>1, <3>2 DEF Moved
  <2>4. CASE \/ Reuse(c) \/ InitDies(c) \/ Register(c) \/ Record(c)
             \/ Enter(c) \/ Answered(c) \/ CallFails(c) \/ GhostTakes(c) \/ Remove(c)
             \/ Unload(c) \/ Stop(c)
             \/ InitFails(c) \/ CancelStream(c) \/ CancelWaiting(c)
    <3>1. \E at \in Ats \ (New \cup {"init", "register"}) : \E row, handle, left :
             Moved(c, at, row, handle, left)
      BY <1>0, <2>4, WorksMove, TakingMoves DEF After, Ats
    <3>2. QED
      BY <1>2, <3>1 DEF Moved
  <2>5. ASSUME NEW g \in Callers, Close(c, g)
        PROVE  Good(c)
    <3>1. PICK at \in {"spawn", "close", "remove"} :
             /\ Moved(c, at, call[c].row, call[c].handle, call[c].left \ {g})
             /\ at = "spawn" <=> call[c].at = "spawn"
             /\ at = "remove" => call[c].left = {g}
      BY <1>0, <2>5, CloseMoves
    <3>2. CASE at = "spawn"
      <4>1. call[c].at = "spawn" /\ call[c].handle = Nobody /\ process[c] = "none"
        BY <1>0, <3>1, <3>2 DEF Spawned
      <4>2. WasRegistered(g)
        BY <2>5 DEF Close, Inv, LeftRemoved
      <4>3. g # c
        BY <4>1, <4>2 DEF WasRegistered
      <4>4. process'[c] = "none"
        BY <1>0, <2>5, <4>1, <4>3 DEF Close, TypeOK
      <4>5. QED
        BY <3>1, <3>2, <4>1, <4>4 DEF Moved
    <3>3. CASE at # "spawn"
      BY <3>1, <3>3 DEF Moved
    <3>4. QED
      BY <3>2, <3>3
  <2>6. CASE Crash(c)
    <3>1. call' = call /\ process[c] = "up" /\ process'[c] = "exited"
      BY <1>0, <2>6 DEF Crash, TypeOK
    <3>2. QED
      BY <1>0, <1>2, <3>1 DEF Spawned
  <2>7. QED
    BY <1>2, <2>1, <2>2, <2>3, <2>4, <2>5, <2>6 DEF Works, Fails
<1>3. QED
  BY <1>1, <1>2

LEMMA HandledKept ==
    ASSUME Inv, NEW c \in Callers, Works(c) \/ Fails(c)
    PROVE  Handled'
<1> DEFINE Talks == {"register", "record", "enter", "wait", "ghost"}
<1>0. TypeOK /\ Handled
  BY DEF Inv
<1> SUFFICES ASSUME NEW d \in Callers, call'[d].at \in Talks
             PROVE  call'[d].handle # Nobody
  BY DEF Handled
<1>1. CASE d # c
  BY <1>0, <1>1, OthersStay DEF Handled
<1>2. CASE d = c
  <2>1. CASE Reuse(c)
    <3>1. Moved(c, After(c), call[c].row, handles[ask[c].model], call[c].left)
      BY <1>0, <2>1, WorksMove
    <3>2. handles[ask[c].model] # Nobody
      BY <2>1 DEF Reuse, Matches
    <3>3. QED
      BY <1>2, <3>1, <3>2 DEF Moved
  <2>2. CASE Initialised(c)
    BY <1>0, <1>2, <2>2, WorksMove, RuntimeAssumption DEF Moved
  <2>3. CASE \/ Register(c) \/ Record(c) \/ Enter(c) \/ CancelWaiting(c)
    <3>1. \E at : Moved(c, at, call[c].row, call[c].handle, call[c].left)
      BY <1>0, <2>3, WorksMove, TakingMoves
    <3>2. call[c].at \in Talks
      BY <2>3 DEF Register, Record, Enter, CancelWaiting
    <3>3. QED
      BY <1>0, <1>2, <3>1, <3>2 DEF Handled, Moved
  <2>4. CASE \/ Start(c) \/ AcquireRow(c) \/ Replace(c) \/ Spawn(c) \/ InitDies(c)
             \/ Answered(c) \/ CallFails(c) \/ GhostTakes(c) \/ Remove(c)
             \/ Unload(c) \/ Stop(c) \/ InitFails(c) \/ CancelStream(c)
    <3>1. \E at \in Ats \ Talks : \E row, handle, left : Moved(c, at, row, handle, left)
      BY <1>0, <2>4, WorksMove, TakingMoves DEF Ats
    <3>2. QED
      BY <1>2, <3>1 DEF Moved
  <2>5. CASE \E g \in Callers : Close(c, g)
    BY <1>0, <1>2, <2>5, CloseMoves DEF Moved
  <2>6. CASE Crash(c)
    BY <1>0, <1>2, <2>6 DEF Crash, Handled
  <2>7. QED
    BY <2>1, <2>2, <2>3, <2>4, <2>5, <2>6 DEF Works, Fails
<1>3. QED
  BY <1>1, <1>2

-----------------------------------------------------------------------------
(* The registry. *)

\* Only Register puts a worker into the registry.
LEMMA HandlesChange ==
    ASSUME TypeOK, NEW c \in Callers, Works(c) \/ Fails(c)
    PROVE  /\ ask' = ask /\ (~dropped' => ~dropped)
           /\ \A m \in Models : \/ handles'[m] \in {handles[m], Nobody}
                                \/ Register(c) /\ m = ask[c].model /\ handles'[m] = c
<1>1. CASE \/ Start(c) \/ AcquireRow(c) \/ Reuse(c) \/ Spawn(c)
           \/ Initialised(c) \/ InitDies(c) \/ Record(c)
           \/ Enter(c) \/ Answered(c) \/ CallFails(c) \/ GhostTakes(c)
           \/ Remove(c) \/ (\E h \in Callers : Close(c, h))
           \/ InitFails(c) \/ CancelStream(c) \/ CancelWaiting(c) \/ Crash(c)
  <2>1. UNCHANGED <<ask, handles, dropped>>
    BY <1>1 DEF Start, AcquireRow, Reuse, Spawn, Initialised, InitDies, Record,
                Enter, Answered, CallFails, GhostTakes, Remove, Close,
                InitFails, CancelStream, CancelWaiting, Crash
  <2>2. QED
    BY <2>1
<1>2. CASE Replace(c)
  BY <1>2 DEF Replace, TypeOK
<1>3. CASE Register(c)
  BY <1>3 DEF Register, TypeOK
<1>4. CASE Unload(c)
  BY <1>4 DEF Unload, DropsRow, KeepsRow, TypeOK
<1>5. CASE Stop(c)
  BY <1>5 DEF Stop, DropsRow, Nothing, TypeOK
<1>6. QED
  BY <1>1, <1>2, <1>3, <1>4, <1>5 DEF Works, Fails

LEMMA RegisterFits ==
    ASSUME Inv, NEW c \in Callers, Register(c)
    PROVE  /\ WasRegistered(c)' /\ ~WasRegistered(c)
           /\ \A m \in Models : handles[m] # c
           /\ ~dropped => handles[ask[c].model] = Nobody
<1>1. TypeOK /\ Spawned /\ call[c].at = "register" /\ process' = process
  BY DEF Inv, Register
<1>2. Moved(c, "record", call[c].row, call[c].handle, call[c].left)
  BY <1>1, WorksMove
<1>3. process[c] # "none" /\ call[c].handle = c
  BY <1>1 DEF Spawned
<1>4. WasRegistered(c)'
  BY <1>1, <1>2, <1>3 DEF WasRegistered, Moved
<1>5. ~WasRegistered(c)
  BY <1>1 DEF WasRegistered
<1>6. \A m \in Models : handles[m] # c
  BY <1>5, RuntimeAssumption DEF Inv, HandlesRegistered
<1>7. ~dropped => handles[ask[c].model] = Nobody
  BY <1>1 DEF Inv, PlaceKept
<1>8. QED
  BY <1>4, <1>5, <1>6, <1>7

LEMMA HandlesRegisteredKept ==
    ASSUME Inv, NEW c \in Callers, Works(c) \/ Fails(c)
    PROVE  HandlesRegistered'
<1>0. TypeOK /\ ask' = ask
  BY HandlesChange DEF Inv
<1> SUFFICES ASSUME NEW m \in Models, NEW h \in Callers, handles'[m] = h
             PROVE  WasRegistered(h)' /\ ask[h].model = m
  BY <1>0 DEF HandlesRegistered
<1>1. CASE handles[m] = h
  <2>1. WasRegistered(h) /\ ask[h].model = m
    BY <1>1 DEF Inv, HandlesRegistered
  <2>2. QED
    BY <2>1, WasRegisteredKept
<1>2. CASE Register(c) /\ m = ask[c].model /\ handles'[m] = c
  BY <1>2, RegisterFits
<1>3. QED
  BY <1>0, <1>1, <1>2, HandlesChange, RuntimeAssumption

LEMMA PlaceKeptKept ==
    ASSUME Inv, NEW c \in Callers, Works(c) \/ Fails(c)
    PROVE  PlaceKept'
<1>0. TypeOK /\ RowHeld /\ PlaceKept
  BY DEF Inv
<1> SUFFICES ASSUME ~dropped', NEW d \in Callers,
                    call'[d].at \in {"spawn", "init", "register"}
             PROVE  handles'[ask'[d].model] = Nobody
  BY DEF PlaceKept
<1>1. ~dropped /\ ask' = ask /\ ask[d].model \in Models
  BY <1>0, HandlesChange DEF TypeOK
<1>2. CASE d # c
  <2>1. call[d].at \in {"spawn", "init", "register"}
    BY <1>0, <1>2, OthersStay
  <2>2. handles[ask[d].model] = Nobody
    BY <1>0, <1>1, <2>1 DEF PlaceKept
  <2>3. ASSUME Register(c)
        PROVE  FALSE
    <3>1. call[c].at \in Locked /\ call[d].at \in Locked
      BY <2>1, <2>3 DEF Register, Locked
    <3>2. call[c].row = call[d].row /\ held[call[c].row] = c /\ held[call[d].row] = d
      BY <1>0, <1>1, <3>1 DEF RowHeld
    <3>3. QED
      BY <1>2, <3>2
  <2>4. QED
    BY <1>0, <1>1, <2>2, <2>3, HandlesChange
<1>3. CASE d = c
  <2>1. CASE Replace(c)
    BY <1>0, <1>1, <1>3, <2>1 DEF Replace, TypeOK
  <2>2. CASE Spawn(c) \/ Initialised(c) \/ (\E h \in Callers : Close(c, h)) \/ Crash(c)
    <3>1. handles' = handles
      BY <2>2 DEF Spawn, Initialised, Close, Crash
    <3>2. call[c].at \in {"spawn", "init", "register"}
      <4>1. CASE Spawn(c) \/ Initialised(c)
        BY <4>1 DEF Spawn, Initialised
      <4>2. CASE \E h \in Callers : Close(c, h)
        BY <1>0, <1>3, <4>2, CloseMoves DEF Moved
      <4>3. CASE Crash(c)
        BY <1>3, <4>3 DEF Crash
      <4>4. QED
        BY <2>2, <4>1, <4>2, <4>3
    <3>3. QED
      BY <1>0, <1>1, <1>3, <3>1, <3>2 DEF PlaceKept
  <2>3. CASE \/ Start(c) \/ AcquireRow(c) \/ Reuse(c) \/ InitDies(c) \/ Register(c)
             \/ Record(c) \/ Enter(c) \/ Answered(c) \/ CallFails(c) \/ GhostTakes(c)
             \/ Remove(c) \/ Unload(c) \/ Stop(c)
             \/ InitFails(c) \/ CancelStream(c) \/ CancelWaiting(c)
    <3>1. \E at \in Ats \ {"spawn", "init", "register"} : \E row, handle, left :
             Moved(c, at, row, handle, left)
      BY <1>0, <2>3, WorksMove, TakingMoves DEF After, Ats
    <3>2. QED
      BY <1>3, <3>1 DEF Moved
  <2>4. QED
    BY <2>1, <2>2, <2>3 DEF Works, Fails
<1>4. QED
  BY <1>2, <1>3

-----------------------------------------------------------------------------
(* What is closed. *)

\* A worker taken out of the registry stays out of it.
LEMMA OutOfRegistry ==
    ASSUME Inv, NEW c \in Callers, Works(c) \/ Fails(c), NEW h \in Callers,
           WasRegistered(h), NEW m \in Models, handles[m] # h
    PROVE  handles'[m] # h
<1>1. CASE handles'[m] \in {handles[m], Nobody}
  BY <1>1, RuntimeAssumption
<1>2. CASE Register(c) /\ m = ask[c].model /\ handles'[m] = c
  BY <1>2, RegisterFits
<1>3. QED
  BY <1>1, <1>2, HandlesChange DEF Inv

\* The worker registered under m is registered nowhere else.
LEMMA RegisteredOnce ==
    ASSUME Inv, NEW m \in Models, handles[m] # Nobody
    PROVE  /\ handles[m] \in Callers /\ WasRegistered(handles[m])
           /\ ask[handles[m]].model = m
           /\ \A n \in Models \ {m} : handles[n] # handles[m]
<1>1. handles[m] \in Callers
  BY DEF Inv, TypeOK, Ids
<1>2. QED
  BY <1>1 DEF Inv, HandlesRegistered

\* Where each caller finds the workers it must close.
LEMMA LeftChange ==
    ASSUME Inv, NEW c \in Callers, Works(c) \/ Fails(c)
    PROVE  /\ call'[c].left # {} => call'[c].at \in {"spawn", "close"}
           /\ \A h \in call'[c].left : \/ h \in call[c].left
                                       \/ /\ \E m \in Models : handles[m] = h
                                          /\ h # Nobody
                                          /\ \A m \in Models : handles'[m] # h
<1>0. TypeOK /\ LeftRemoved
  BY DEF Inv
<1>1. CASE Replace(c)
  <2>1. Moved(c, "spawn", call[c].row, call[c].handle, Replaced(c))
    BY <1>0, <1>1, WorksMove
  <2>2. ASSUME NEW h \in Replaced(c)
        PROVE  /\ \E m \in Models : handles[m] = h
               /\ h # Nobody
               /\ \A m \in Models : handles'[m] # h
    <3>1. h = handles[ask[c].model] /\ h # Nobody /\ ask[c].model \in Models
      BY <1>0 DEF Replaced, TypeOK
    <3>2. \A n \in Models \ {ask[c].model} : handles[n] # h
      BY <3>1, RegisteredOnce
    <3>3. \A n \in Models : handles'[n] = IF n = ask[c].model THEN Nobody
                                          ELSE handles[n]
      BY <1>0, <1>1 DEF Replace, TypeOK
    <3>4. QED
      BY <3>1, <3>2, <3>3
  <2>3. QED
    BY <2>1, <2>2 DEF Moved
<1>2. CASE Unload(c)
  <2>1. PICK at \in {"done", "close"} :
           /\ Moved(c, at, call[c].row, call[c].handle,
                    {handles[ask[c].model]} \ {Nobody})
           /\ at = "done" => handles[ask[c].model] = Nobody
    BY <1>0, <1>2, TakingMoves
  <2>2. ASSUME NEW h \in {handles[ask[c].model]} \ {Nobody}
        PROVE  /\ \E m \in Models : handles[m] = h
               /\ h # Nobody
               /\ \A m \in Models : handles'[m] # h
    <3>1. h = handles[ask[c].model] /\ h # Nobody /\ ask[c].model \in Models
      BY <1>0 DEF TypeOK
    <3>2. \A n \in Models \ {ask[c].model} : handles[n] # h
      BY <3>1, RegisteredOnce
    <3>3. \A n \in Models : handles'[n] = IF n = ask[c].model THEN Nobody
                                          ELSE handles[n]
      BY <1>0, <1>2 DEF Unload, TypeOK
    <3>4. QED
      BY <3>1, <3>2, <3>3
  <2>3. QED
    BY <2>1, <2>2 DEF Moved
<1>3. CASE Stop(c)
  <2>1. PICK at \in {"done", "close"} :
           /\ Moved(c, at, call[c].row, call[c].handle,
                    {handles[m] : m \in Models} \ {Nobody})
           /\ at = "done" => {handles[m] : m \in Models} \ {Nobody} = {}
    BY <1>0, <1>3, TakingMoves
  <2>2. handles' = Nothing
    BY <1>3 DEF Stop
  <2>3. QED
    BY <2>1, <2>2 DEF Moved, Nothing
<1>4. ASSUME NEW g \in Callers, Close(c, g)
      PROVE  /\ call'[c].left # {} => call'[c].at \in {"spawn", "close"}
             /\ call'[c].left \subseteq call[c].left
  BY <1>0, <1>4, CloseMoves DEF Moved
<1>5. CASE Crash(c)
  BY <1>0, <1>5 DEF Crash, LeftRemoved
<1>6. CASE \/ Start(c) \/ AcquireRow(c) \/ Reuse(c) \/ Initialised(c) \/ InitDies(c)
           \/ Spawn(c) \/ Register(c) \/ Record(c) \/ Enter(c) \/ Answered(c)
           \/ CallFails(c) \/ GhostTakes(c) \/ Remove(c)
           \/ InitFails(c) \/ CancelStream(c) \/ CancelWaiting(c)
  <2>1. call[c].at \notin {"spawn", "close"} \/ call[c].left = {}
    BY <1>6 DEF Start, AcquireRow, Reuse, Initialised, InitDies, Spawn, Register,
                Record, Enter, Answered, CallFails, GhostTakes, Remove, InitFails,
                CancelStream, CancelWaiting
  <2>2. call[c].left = {}
    BY <1>0, <2>1 DEF LeftRemoved
  <2>3. \E at, row, handle : Moved(c, at, row, handle, call[c].left)
    BY <1>0, <1>6, WorksMove, TakingMoves
  <2>4. QED
    BY <2>2, <2>3 DEF Moved
<1>7. QED
  BY <1>1, <1>2, <1>3, <1>4, <1>5, <1>6 DEF Works, Fails

LEMMA LeftRemovedKept ==
    ASSUME Inv, NEW c \in Callers, Works(c) \/ Fails(c)
    PROVE  LeftRemoved'
<1>0. TypeOK /\ LeftRemoved /\ TypeOK'
  BY StepTyped DEF Inv, Next
<1> SUFFICES ASSUME NEW d \in Callers
             PROVE  /\ call'[d].left # {} => call'[d].at \in {"spawn", "close"}
                    /\ \A h \in call'[d].left :
                          WasRegistered(h)' /\ \A m \in Models : handles'[m] # h
  BY DEF LeftRemoved
<1>1. \A h \in call'[d].left : h \in Callers
  BY <1>0 DEF TypeOK, Calls
<1>2. ASSUME NEW h \in Callers, h \in call[d].left
      PROVE  WasRegistered(h)' /\ \A m \in Models : handles'[m] # h
  BY <1>0, <1>2, WasRegisteredKept, OutOfRegistry DEF LeftRemoved
<1>3. CASE d # c
  <2>1. call'[d] = call[d]
    BY <1>0, <1>3, OthersStay
  <2>2. QED
    BY <1>0, <1>1, <1>2, <2>1 DEF LeftRemoved
<1>4. CASE d = c
  <2>1. ASSUME NEW h \in Callers, NEW m \in Models, handles[m] = h
        PROVE  WasRegistered(h)'
    BY <2>1, WasRegisteredKept DEF Inv, HandlesRegistered
  <2>2. QED
    BY <1>1, <1>2, <1>4, <2>1, LeftChange
<1>5. QED
  BY <1>3, <1>4

-----------------------------------------------------------------------------
(* Workers stay reachable. *)

\* What leaves the registry is left to the caller that took it out.
LEMMA TakenIsLeft ==
    ASSUME Inv, NEW c \in Callers, Works(c) \/ Fails(c), NEW m \in Models,
           NEW h \in Callers, handles[m] = h, handles'[m] = Nobody
    PROVE  h \in call'[c].left
<1>0. TypeOK /\ h # Nobody
  BY RuntimeAssumption DEF Inv
<1>1. CASE Replace(c)
  <2>1. Moved(c, "spawn", call[c].row, call[c].handle, Replaced(c))
    BY <1>0, <1>1, WorksMove
  <2>2. m = ask[c].model
    BY <1>0, <1>1 DEF Replace, TypeOK
  <2>3. QED
    BY <1>0, <2>1, <2>2 DEF Moved, Replaced
<1>2. CASE Unload(c)
  <2>1. call'[c].left = {handles[ask[c].model]} \ {Nobody}
    BY <1>0, <1>2, TakingMoves DEF Moved
  <2>2. m = ask[c].model
    BY <1>0, <1>2 DEF Unload, TypeOK
  <2>3. QED
    BY <1>0, <2>1, <2>2
<1>3. CASE Stop(c)
  <2>1. call'[c].left = {handles[n] : n \in Models} \ {Nobody}
    BY <1>0, <1>3, TakingMoves DEF Moved
  <2>2. QED
    BY <1>0, <2>1
<1>4. CASE Register(c)
  BY <1>0, <1>4, RuntimeAssumption DEF Register, TypeOK
<1>5. CASE \/ Start(c) \/ AcquireRow(c) \/ Reuse(c) \/ Spawn(c)
           \/ Initialised(c) \/ InitDies(c) \/ Record(c)
           \/ Enter(c) \/ Answered(c) \/ CallFails(c) \/ GhostTakes(c)
           \/ Remove(c) \/ (\E g \in Callers : Close(c, g))
           \/ InitFails(c) \/ CancelStream(c) \/ CancelWaiting(c) \/ Crash(c)
  <2>1. handles' = handles
    BY <1>5 DEF Start, AcquireRow, Reuse, Spawn, Initialised, InitDies, Record,
                Enter, Answered, CallFails, GhostTakes, Remove, Close,
                InitFails, CancelStream, CancelWaiting, Crash
  <2>2. QED
    BY <1>0, <2>1
<1>6. QED
  BY <1>1, <1>2, <1>3, <1>4, <1>5 DEF Works, Fails

\* A process that runs after the step ran before, or was spawned by it.
LEMMA RunsOn ==
    ASSUME Inv, NEW c \in Callers, Works(c) \/ Fails(c),
           NEW h \in Callers, process'[h] = "up", ~ (h = c /\ Spawn(c))
    PROVE  process[h] = "up"
<1>1. process \in [Callers -> {"none", "up", "exited"}]
  BY DEF Inv, TypeOK
<1>2. CASE Spawn(c)
  BY <1>1, <1>2 DEF Spawn
<1>3. CASE Crash(c)
  BY <1>1, <1>3 DEF Crash
<1>4. CASE \E g \in Callers : Close(c, g)
  BY <1>1, <1>4 DEF Close
<1>5. CASE \/ Start(c) \/ AcquireRow(c) \/ Reuse(c) \/ Replace(c)
           \/ Initialised(c) \/ InitDies(c) \/ Register(c) \/ Record(c)
           \/ Enter(c) \/ Answered(c) \/ CallFails(c) \/ GhostTakes(c)
           \/ Unload(c) \/ Stop(c) \/ Remove(c)
           \/ InitFails(c) \/ CancelStream(c) \/ CancelWaiting(c)
  <2>1. process' = process
    BY <1>5 DEF Start, AcquireRow, Reuse, Replace, Initialised, InitDies, Register,
                Record, Enter, Answered, CallFails, GhostTakes, Unload, Stop, Remove,
                InitFails, CancelStream, CancelWaiting
  <2>2. QED
    BY <2>1
<1>6. QED
  BY <1>2, <1>3, <1>4, <1>5 DEF Works, Fails

\* A caller whose worker failed to start does nothing more.
LEMMA FailedStays ==
    ASSUME Inv, NEW c \in Callers, Works(c) \/ Fails(c), NEW h \in Callers, InitFailed(h)
    PROVE  InitFailed(h)'
<1>0. TypeOK
  BY DEF Inv
<1>1. CASE h # c
  BY <1>0, <1>1, OthersStay DEF InitFailed
<1>2. CASE h = c
  <2>1. Crash(c)
    BY <1>2 DEF InitFailed, Works, Fails, Start, AcquireRow, Reuse, Replace, Initialised,
                InitDies, Spawn, Register, Record, Enter, Answered, CallFails, GhostTakes,
                Unload, Stop, Remove, Close, InitFails, CancelStream, CancelWaiting
  <2>2. QED
    BY <2>1 DEF Crash, InitFailed
<1>3. QED
  BY <1>1, <1>2

\* Who was closing a worker closes it still, unless the worker has exited.
LEMMA ClosingStays ==
    ASSUME Inv, NEW c \in Callers, Works(c) \/ Fails(c), NEW h \in Callers,
           Closing(h), process'[h] = "up"
    PROVE  Closing(h)'
<1>0. TypeOK /\ LeftRemoved
  BY DEF Inv
<1>1. PICK d \in Callers : h \in call[d].left
  BY DEF Closing
<1>2. h \in call'[d].left
  <2>1. CASE d # c
    BY <1>0, <1>1, <2>1, OthersStay
  <2>2. CASE d = c
    <3>1. call[c].at \in {"spawn", "close"} /\ call[c].left # {}
      BY <1>0, <1>1, <2>2 DEF LeftRemoved
    <3>2. Crash(c) \/ \E g \in Callers : Close(c, g)
      BY <3>1 DEF Works, Fails, Start, AcquireRow, Reuse, Replace, Initialised,
                InitDies, Spawn, Register, Record, Enter, Answered, CallFails, GhostTakes,
                Unload, Stop, Remove, InitFails, CancelStream, CancelWaiting
    <3>3. CASE Crash(c)
      BY <1>1, <2>2, <3>3 DEF Crash
    <3>4. ASSUME NEW g \in Callers, Close(c, g)
          PROVE  h \in call'[c].left
      <4>1. call'[c].left = call[c].left \ {g}
        BY <1>0, <3>4, CloseMoves DEF Moved
      <4>2. g # h
        BY <1>0, <3>4 DEF Close, TypeOK
      <4>3. QED
        BY <1>1, <2>2, <4>1, <4>2
    <3>5. QED
      BY <2>2, <3>2, <3>3, <3>4
  <2>3. QED
    BY <2>1, <2>2
<1>3. QED
  BY <1>2 DEF Closing

LEMMA ResidentKept ==
    ASSUME Inv, NEW c \in Callers, Works(c) \/ Fails(c)
    PROVE  ResidentIsReachable'
<1>0. TypeOK /\ ask' = ask /\ (~dropped' => ~dropped)
  BY HandlesChange DEF Inv
<1> SUFFICES ASSUME NEW h \in Callers,
                    process'[h] = "up", ~ InitFailed(h)', ~ dropped'
             PROVE  \/ handles'[ask[h].model] = h
                    \/ call'[h].at \in {"init", "register"}
                    \/ Closing(h)'
  BY <1>0 DEF ResidentIsReachable, InitFailed, Closing
<1>1. CASE h = c /\ Spawn(c)
  BY <1>0, <1>1, WorksMove DEF Moved
<1>2. CASE ~ (h = c /\ Spawn(c))
  <2>1. process[h] = "up" /\ ~ InitFailed(h) /\ ~ dropped
    BY <1>0, <1>2, RunsOn, FailedStays
  <2>2. \/ handles[ask[h].model] = h
        \/ call[h].at \in {"init", "register"}
        \/ Closing(h)
    BY <2>1 DEF Inv, ResidentIsReachable
  <2>3. ask[h].model \in Models
    BY <1>0 DEF TypeOK
  <2>4. CASE handles[ask[h].model] = h
    <3>1. CASE handles'[ask[h].model] = handles[ask[h].model]
      BY <2>4, <3>1
    <3>2. CASE handles'[ask[h].model] = Nobody
      BY <2>3, <2>4, <3>2, TakenIsLeft DEF Closing
    <3>3. CASE Register(c) /\ ask[h].model = ask[c].model
      BY <2>1, <2>4, <3>3, RegisterFits, RuntimeAssumption
    <3>4. QED
      BY <1>0, <2>3, <3>1, <3>2, <3>3, HandlesChange
  <2>5. CASE call[h].at \in {"init", "register"}
    <3>1. CASE h # c
      BY <1>0, <2>5, <3>1, OthersStay
    <3>2. CASE h = c
      <4>1. Initialised(c) \/ InitDies(c) \/ InitFails(c) \/ Register(c) \/ Crash(c)
        BY <2>5, <3>2 DEF Works, Fails, Start, AcquireRow, Reuse, Replace, Spawn, Record,
                Enter, Answered, CallFails, GhostTakes, Unload, Stop, Remove, Close,
                CancelStream, CancelWaiting
      <4>2. CASE Initialised(c)
        BY <1>0, <3>2, <4>2, WorksMove DEF Moved
      <4>3. CASE InitDies(c)
        BY <2>1, <3>2, <4>3 DEF InitDies, Gone
      <4>4. CASE InitFails(c)
        <5>1. Moved(c, "failed", call[c].row, call[c].handle, call[c].left)
          BY <1>0, <4>4, WorksMove
        <5>2. call[c].handle = Nobody
          BY <4>4 DEF Inv, Spawned, InitFails
        <5>3. InitFailed(h)'
          BY <3>2, <5>1, <5>2 DEF InitFailed, Moved
        <5>4. QED
          BY <5>3
      <4>5. CASE Register(c)
        BY <1>0, <2>3, <3>2, <4>5 DEF Register, TypeOK
      <4>6. CASE Crash(c)
        BY <1>0, <3>2, <4>6 DEF Crash, TypeOK
      <4>7. QED
        BY <4>1, <4>2, <4>3, <4>4, <4>5, <4>6
    <3>3. QED
      BY <3>1, <3>2
  <2>6. CASE Closing(h)
    BY <2>6, ClosingStays
  <2>7. QED
    BY <2>2, <2>4, <2>5, <2>6
<1>3. QED
  BY <1>1, <1>2

-----------------------------------------------------------------------------
(* Theorems *)

LEMMA InvInit == Init => Inv
<1> SUFFICES ASSUME Init PROVE Inv
  OBVIOUS
<1>1. TypeOK
  BY InitTyped
<1>2. /\ \A c \in Callers : /\ call[c].at = "asked" /\ call[c].handle = Nobody
                            /\ call[c].left = {} /\ process[c] = "none"
      /\ \A m \in Models : handles[m] = Nobody
  BY DEF Init, Nothing
<1>3. RowHeld /\ Spawned /\ LeftRemoved /\ Handled
  BY <1>2 DEF RowHeld, Spawned, LeftRemoved, Handled, Locked
<1>4. HandlesRegistered /\ PlaceKept /\ ResidentIsReachable
  BY <1>2, RuntimeAssumption DEF HandlesRegistered, PlaceKept, ResidentIsReachable
<1>5. QED
  BY <1>1, <1>3, <1>4 DEF Inv

LEMMA InvKept == Inv /\ [Next]_vars => Inv'
<1> SUFFICES ASSUME Inv, [Next]_vars PROVE Inv'
  OBVIOUS
<1>1. TypeOK'
  BY StepTyped DEF Inv
<1>2. CASE UNCHANGED <<ask, call, handles, rowlock, held, process, dropped>>
  BY <1>1, <1>2 DEF Inv, RowHeld, Spawned, HandlesRegistered, WasRegistered, LeftRemoved,
                    PlaceKept, Handled, ResidentIsReachable, InitFailed, Closing
<1>3. ASSUME NEW c \in Callers, Works(c) \/ Fails(c)
      PROVE  Inv'
  BY <1>1, <1>3, RowHeldKept, SpawnedKept, HandlesRegisteredKept, LeftRemovedKept,
     PlaceKeptKept, HandledKept, ResidentKept DEF Inv
<1>4. (UNCHANGED vars \/ Publishes) =>
         UNCHANGED <<ask, call, handles, rowlock, held, process, dropped>>
  BY DEF vars, Publishes, Read, Write
<1>5. QED
  BY <1>2, <1>3, <1>4 DEF Next

\* Row locks are held by those that took them, workers registered by their callers,
\* and what leaves the registry is closed, in every reachable state.
THEOREM Invariant == Spec => []Inv
BY InvInit, InvKept, PTL DEF Spec

\* No worker process is forgotten: one that runs is registered, about to be
\* registered, or about to be closed, unless its init failed or a row lock in use
\* was dropped (manager.py, _ensure_handle, unload_model, stop_engine).
THEOREM ResidentsAreReachable == Spec => []ResidentIsReachable
<1>1. Inv => ResidentIsReachable
  BY DEF Inv
<1>2. QED
  BY <1>1, Invariant, PTL

LEMMA InvConverges == Inv => ConvergesUnderLock
<1> SUFFICES ASSUME Inv, ~dropped,
                    NEW g \in Callers, NEW h \in Callers,
                    process[g] = "up", ~ InitFailed(g), ~ Closing(g),
                    process[h] = "up", ~ InitFailed(h), ~ Closing(h),
                    ask[g].model = ask[h].model
             PROVE  g = h
  BY DEF ConvergesUnderLock, Converges
<1>1. /\ handles[ask[g].model] = g \/ call[g].at \in {"init", "register"}
      /\ handles[ask[h].model] = h \/ call[h].at \in {"init", "register"}
  BY DEF Inv, ResidentIsReachable
<1>2. \A c \in Callers : call[c].at \in {"init", "register"} =>
          /\ handles[ask[c].model] = Nobody
          /\ call[c].row = rowlock /\ held[call[c].row] = c
  BY DEF Inv, PlaceKept, RowHeld, Locked
<1>3. CASE call[g].at \in {"init", "register"} /\ call[h].at \in {"init", "register"}
  BY <1>2, <1>3
<1>4. CASE handles[ask[g].model] = g /\ handles[ask[h].model] = h
  BY <1>4
<1>5. QED
  BY <1>1, <1>2, <1>3, <1>4, RuntimeAssumption

\* Calls that arrive while a model is being warmed converge on one worker: the row
\* lock orders them, as long as unload_model and stop_engine take no lock away from
\* somebody who uses it (manager.py, _row_lock).
THEOREM CallsConverge == Spec => []ConvergesUnderLock
BY Invariant, InvConverges, PTL

-----------------------------------------------------------------------------
(* Nobody disturbs anybody. *)

Undisturbed ==
    /\ faults = 0
    /\ \A c, d \in Callers : ask[c].model = ask[d].model => ask[c].config = ask[d].config
    /\ \A c \in Callers : ask[c].op \notin {"unload", "stop"}

\* No worker is ever taken out, so none exits and no call fails.
Quiet ==
    Undisturbed => \A c \in Callers : /\ call[c].at \notin {"failed", "close"}
                                      /\ call[c].left = {}
                                      /\ process[c] # "exited"

LEMMA QuietKept == Inv /\ Inv' /\ Quiet /\ [Next]_vars => Quiet'
<1> SUFFICES ASSUME Inv, Inv', Quiet, [Next]_vars, Undisturbed'
             PROVE  \A d \in Callers : /\ call'[d].at \notin {"failed", "close"}
                                       /\ call'[d].left = {}
                                       /\ process'[d] # "exited"
  BY DEF Quiet
<1>1. CASE UNCHANGED <<ask, call, process, faults>>
  BY <1>1 DEF Quiet, Undisturbed
<1>2. ASSUME NEW c \in Callers, Works(c) \/ Fails(c)
      PROVE  \A d \in Callers : /\ call'[d].at \notin {"failed", "close"}
                                /\ call'[d].left = {}
                                /\ process'[d] # "exited"
  <2>0. TypeOK /\ ask' = ask
    BY <1>2, HandlesChange DEF Inv
  <2>1. ~ Fails(c)
    BY <2>0 DEF Fails, InitFails, CancelWaiting, CancelStream, Crash, Undisturbed, TypeOK
  <2>2. Works(c)
    BY <1>2, <2>1
  <2>3. faults' = faults
    BY <2>2 DEF Works, Start, AcquireRow, Reuse, Replace, Initialised, InitDies, Spawn,
                Register, Record, Enter, Answered, CallFails, GhostTakes, Unload, Stop,
                Remove, Close
  <2>4. Undisturbed
    BY <2>0, <2>3 DEF Undisturbed
  <2>5. \A d \in Callers : /\ call[d].at \notin {"failed", "close"}
                           /\ call[d].left = {}
                           /\ process[d] # "exited"
    BY <2>4 DEF Quiet
  <2>6. /\ ~ Unload(c) /\ ~ Stop(c) /\ ~ InitDies(c)
        /\ \A h \in Callers : ~ Close(c, h)
    BY <2>4, <2>5 DEF Undisturbed, Unload, Stop, InitDies, Gone, Close
  <2>7. ~ CallFails(c)
    <3>1. ASSUME CallFails(c)
          PROVE  call[c].handle \in Callers
      BY <2>0, <3>1 DEF CallFails, TypeOK, Calls, Ids, Inv, Handled
    <3>2. QED
      BY <2>5, <3>1 DEF CallFails, Gone
  <2>8. CASE Replace(c)
    <3>1. Moved(c, "spawn", call[c].row, call[c].handle, Replaced(c))
      BY <2>0, <2>8, WorksMove
    <3>2. Replaced(c) = {}
      <4>1. SUFFICES ASSUME handles[ask[c].model] # Nobody
                     PROVE  FALSE
        BY DEF Replaced
      <4>2. /\ ask[c].model \in Models /\ handles[ask[c].model] \in Callers
            /\ ask[handles[ask[c].model]].model = ask[c].model
        BY <2>0, <4>1, RegisteredOnce DEF TypeOK
      <4>3. Matches(c)
        BY <2>4, <4>1, <4>2 DEF Matches, Undisturbed
      <4>4. QED
        BY <2>8, <4>3 DEF Replace
    <3>3. process' = process
      BY <2>8 DEF Replace
    <3>4. QED
      BY <2>5, <3>1, <3>2, <3>3 DEF Moved
  <2>9. CASE \/ Start(c) \/ AcquireRow(c) \/ Reuse(c) \/ Spawn(c) \/ Initialised(c)
             \/ Register(c) \/ Record(c) \/ Enter(c) \/ Answered(c) \/ GhostTakes(c)
             \/ Remove(c)
    <3>1. \E at \in Ats \ {"failed", "close"} : \E row, handle :
             Moved(c, at, row, handle, call[c].left)
      BY <2>0, <2>9, WorksMove DEF After, Ats
    <3>2. \A d \in Callers : process'[d] # "exited"
      <4>1. CASE Spawn(c)
        BY <2>0, <2>5, <4>1 DEF Spawn, TypeOK
      <4>2. CASE ~ Spawn(c)
        BY <2>5, <2>9, <4>2 DEF Start, AcquireRow, Reuse, Initialised, Register, Record,
                                Enter, Answered, GhostTakes, Remove
      <4>3. QED
        BY <4>1, <4>2
    <3>3. QED
      BY <2>5, <3>1, <3>2 DEF Moved
  <2>10. QED
    BY <2>2, <2>6, <2>7, <2>8, <2>9 DEF Works
<1>3. (UNCHANGED vars \/ Publishes) => UNCHANGED <<ask, call, process, faults>>
  BY DEF vars, Publishes, Read, Write
<1>4. QED
  BY <1>1, <1>2, <1>3 DEF Next

LEMMA QuietInit == Init => Quiet
BY DEF Init, Quiet

LEMMA QuietSucceeds == Quiet => UndisturbedCallsSucceed
BY DEF Quiet, Undisturbed, UndisturbedCallsSucceed

\* Calls that share their configuration, while nothing crashes and nobody unloads or
\* stops anything, all get their answer: no caller closes the worker of another
\* (manager.py, _ensure_handle).
THEOREM UndisturbedSucceed == Spec => []UndisturbedCallsSucceed
<1>1. Inv /\ Inv' /\ Quiet /\ [Next]_vars => Quiet'
  BY QuietKept
<1>2. QED
  BY <1>1, QuietInit, QuietSucceeds, Invariant, PTL DEF Spec

=============================================================================
