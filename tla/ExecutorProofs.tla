--------------------------- MODULE ExecutorProofs ---------------------------
(* Proofs about module Executor, for every set of workers and subtasks. *)
EXTENDS Executor, FiniteSetTheorems, TLAPS
-----------------------------------------------------------------------------
(* The inductive invariant.  TypeOK, OneOwner, OncePerRun, RunningIsInFlight *)
(* and ActiveCountsInFlight are not inductive one by one: whether a worker's *)
(* next step keeps them depends on what it holds, on which items are still   *)
(* unsent and on how often those were sent before. *)

\* a worker holds a subtask exactly from the queue to its next item
HoldsWhileBusy ==
    \A w \in Workers : held[w] = NoSubtask <=> pc[w] \in {"off", "ready"}

\* what has not been sent is pending, and was not sent in this run
UnsentIsPending ==
    /\ \A s \in queue : status[s] = "pending" /\ attempts[s] < runs
    /\ \A w \in Workers : pc[w] \in Waiting =>
         status[held[w]] = "pending" /\ attempts[held[w]] < runs

InFlightIsRunning == \A w \in InFlight : status[held[w]] = "running"

WorkersOnlyWhileDriving ==
    /\ phase # "driving" => \A w \in Workers : pc[w] = "off"
    /\ ~Driving => queue = {}

\* once PAUSED is written, whoever is not yet at the closed gate is cancelled
PausedIsClosing ==
    Driving /\ record = "PAUSED" =>
        /\ ~gateOpen \/ stop
        /\ \A w \in Workers :
             pc[w] \in {"off", "gate"} \/ (pc[w] \in Waiting /\ cancelled[w])

\* without a stop the gate is closed exactly while a pause is requested, and
\* a pause handler that polls has been asked to, after every worker began
GateFollowsPause ==
    Driving =>
        /\ ~stop => (gateOpen <=> ~pauseRequest)
        /\ pauseHandler = "settling" =>
             pauseRequest /\ \A w \in Workers : pc[w] # "ready"

IInv ==
    /\ TypeOK /\ ActiveCountsInFlight /\ OneOwner /\ OncePerRun
    /\ HoldsWhileBusy /\ UnsentIsPending /\ InFlightIsRunning
    /\ WorkersOnlyWhileDriving /\ RunningIsInFlight
    /\ GateFollowsPause /\ PausedIsClosing

-----------------------------------------------------------------------------
(* Types of the helpers *)

LEMMA FinalStatusType ==
    ASSUME NEW st \in [Subtasks -> SubtaskStatus], NEW a, NEW b
    PROVE  FinalStatus(st, a, b) \in [Subtasks -> SubtaskStatus]
BY DEF FinalStatus, Reset, SubtaskStatus

LEMMA FinalRecordType ==
    ASSUME NEW st, NEW a \in BOOLEAN, NEW b \in BOOLEAN, record \in TaskStatus
    PROVE  FinalRecord(st, a, b) \in TaskStatus
BY DEF FinalRecord, TaskStatus, Transient

\* the two ways a worker's step can end, typed once
LEMMA LeaveType ==
    ASSUME TypeOK, NEW w \in Workers, Leave(w)
    PROVE  /\ queue' \in SUBSET Subtasks
           /\ pc' \in [Workers -> {"off", "ready", "inflight"} \cup Waiting]
           /\ held' \in [Workers -> Subtasks \cup {NoSubtask}]
           /\ cancelled' \in [Workers -> BOOLEAN]
BY DEF TypeOK, Leave

LEMMA NextItemType ==
    ASSUME TypeOK, NEW w \in Workers, NextItem(w)
    PROVE  /\ queue' \in SUBSET Subtasks
           /\ pc' \in [Workers -> {"off", "ready", "inflight"} \cup Waiting]
           /\ held' \in [Workers -> Subtasks \cup {NoSubtask}]
           /\ cancelled' \in [Workers -> BOOLEAN]
<1>1. CASE Leave(w)
  BY <1>1, LeaveType
<1>2. CASE ~Leave(w)
  <2>1. PICK s \in queue : queue' = queue \ {s} /\ held' = [held EXCEPT ![w] = s]
    BY <1>2 DEF NextItem
  <2>2. QED
    BY <1>2, <2>1 DEF NextItem, TypeOK, Waiting
<1>3. QED
  BY <1>1, <1>2

-----------------------------------------------------------------------------
(* Counting the calls in flight *)

LEMMA InFlightFinite == IsFiniteSet(InFlight) /\ Cardinality(InFlight) \in Nat
<1>1. InFlight \subseteq Workers
  BY DEF InFlight
<1>2. QED
  BY <1>1, ConstantsAssumption, FS_Subset, FS_CardinalityType

LEMMA OneMoreInFlight ==
    ASSUME ActiveCountsInFlight, NEW w \in Workers, w \notin InFlight,
           InFlight' = InFlight \cup {w}, active' = active + 1
    PROVE  ActiveCountsInFlight'
BY InFlightFinite, FS_AddElement DEF ActiveCountsInFlight

LEMMA OneLessInFlight ==
    ASSUME ActiveCountsInFlight, NEW w \in InFlight,
           InFlight' = InFlight \ {w}, active' = active - 1
    PROVE  ActiveCountsInFlight' /\ active' \in Nat
<1>1. Cardinality(InFlight \ {w}) = Cardinality(InFlight) - 1
  BY InFlightFinite, FS_RemoveElement
<1>2. Cardinality(InFlight \ {w}) \in Nat
  BY InFlightFinite, FS_RemoveElement, FS_CardinalityType
<1>3. QED
  BY <1>1, <1>2 DEF ActiveCountsInFlight

-----------------------------------------------------------------------------
(* A worker drops what it holds, having written at most that subtask, and  *)
(* takes its next item or ends. *)

Moves(w) ==
    /\ phase = "driving" /\ pc[w] # "off"
    /\ NextItem(w) \/ Leave(w)
    /\ status' \in [Subtasks -> SubtaskStatus] /\ attempts' \in [Subtasks -> Nat]
    /\ \A s \in Subtasks \ {held[w]} : status'[s] = status[s] /\ attempts'[s] = attempts[s]
    /\ UNCHANGED <<record, driver, signals, pauseObserved, handlers>>

LEMMA MoveCases ==
    ASSUME IInv, NEW w \in Workers, Moves(w)
    PROVE  /\ queue' \subseteq queue
           /\ \A v \in Workers \ {w} : /\ pc'[v] = pc[v] /\ held'[v] = held[v]
                                       /\ cancelled'[v] = cancelled[v]
           /\ \/ pc'[w] = "off" /\ held'[w] = NoSubtask /\ queue' = queue
              \/ /\ ~stop /\ held'[w] \in queue /\ queue' = queue \ {held'[w]}
                 /\ pc'[w] = IF gateOpen THEN "throttle" ELSE "gate"
           /\ pc' \in [Workers -> {"off", "ready", "inflight"} \cup Waiting]
           /\ held' \in [Workers -> Subtasks \cup {NoSubtask}]
           /\ cancelled' \in [Workers -> BOOLEAN]
           /\ InFlight' = InFlight \ {w}
<1>1. CASE Leave(w)
  BY <1>1 DEF Leave, IInv, TypeOK, InFlight
<1>2. CASE ~Leave(w)
  <2>1. PICK s \in queue : queue' = queue \ {s} /\ held' = [held EXCEPT ![w] = s]
    BY <1>2 DEF NextItem, Moves
  <2>2. /\ ~stop
        /\ pc' = [pc EXCEPT ![w] = IF gateOpen THEN "throttle" ELSE "gate"]
        /\ cancelled' = [cancelled EXCEPT ![w] = FALSE]
    BY <1>2 DEF NextItem, Moves
  <2>3. QED
    BY <2>1, <2>2 DEF IInv, TypeOK, InFlight, Waiting
<1>3. QED
  BY <1>1, <1>2

LEMMA MoveKeeps ==
    ASSUME IInv, NEW w \in Workers, Moves(w)
    PROVE  /\ OneOwner' /\ HoldsWhileBusy' /\ UnsentIsPending'
           /\ InFlightIsRunning' /\ WorkersOnlyWhileDriving'
           /\ PausedIsClosing' /\ GateFollowsPause'
<1> USE MoveCases
<1>1. OneOwner'
  <2>1. \A v \in Workers \ {w} : held'[v] # NoSubtask => held'[v] # held'[w]
    BY ConstantsAssumption DEF IInv, OneOwner, TypeOK
  <2>2. \A v \in Workers : held'[v] \notin queue'
    BY ConstantsAssumption DEF IInv, OneOwner, TypeOK
  <2>3. QED
    BY <2>1, <2>2 DEF IInv, OneOwner
<1>2. HoldsWhileBusy'
  BY ConstantsAssumption DEF IInv, HoldsWhileBusy, OneOwner, TypeOK, Waiting
<1>3. UnsentIsPending'
  <2>1. ASSUME NEW s \in queue
        PROVE  s # held[w] /\ s \in Subtasks
    BY <2>1 DEF IInv, OneOwner, TypeOK
  <2>2. ASSUME NEW v \in Workers \ {w}, pc[v] \in Waiting
        PROVE  held[v] # held[w] /\ held[v] \in Subtasks
    BY <2>2 DEF IInv, OneOwner, TypeOK, HoldsWhileBusy, Waiting
  <2>3. QED
    BY <2>1, <2>2 DEF IInv, UnsentIsPending, Moves, driver, Waiting, TypeOK
<1>4. InFlightIsRunning'
  <2>1. ASSUME NEW v \in InFlight \ {w}
        PROVE  held[v] # held[w] /\ held[v] \in Subtasks
    BY <2>1 DEF IInv, OneOwner, TypeOK, HoldsWhileBusy, InFlight
  <2>2. QED
    BY <2>1 DEF IInv, InFlightIsRunning, Moves, InFlight
<1>5. WorkersOnlyWhileDriving'
  BY DEF IInv, WorkersOnlyWhileDriving, Moves, driver, Driving
<1>6. PausedIsClosing'
  BY DEF IInv, PausedIsClosing, Moves, driver, signals, Driving, Waiting
<1>7. GateFollowsPause'
  BY DEF IInv, GateFollowsPause, Moves, driver, signals, handlers, Driving
<1>8. QED
  BY <1>1, <1>2, <1>3, <1>4, <1>5, <1>6, <1>7

LEMMA MoveKeepsRunning ==
    ASSUME IInv, NEW w \in Workers, Moves(w),
           IOFaults \/ held[w] \notin Subtasks \/ status'[held[w]] # "running"
    PROVE  RunningIsInFlight'
<1> SUFFICES ASSUME ~IOFaults, NEW s \in Subtasks, status'[s] = "running"
             PROVE  \E v \in InFlight' : held'[v] = s
  BY DEF RunningIsInFlight
<1>1. s # held[w]
  OBVIOUS
<1>2. status[s] = "running" /\ phase # "crashed"
  BY <1>1 DEF Moves
<1>3. PICK v \in InFlight : held[v] = s
  BY <1>2 DEF IInv, RunningIsInFlight
<1>4. v # w /\ v \in Workers
  BY <1>1, <1>3 DEF InFlight
<1>5. QED
  BY <1>3, <1>4, MoveCases

-----------------------------------------------------------------------------
(* Every action keeps the invariant. *)

LEMMA BeginKeeps ==
    ASSUME IInv, NEW w \in Workers, Begin(w) \/ SwallowCancel(w) \/ LeaveGate(w)
    PROVE  IInv'
<1> USE DEF Begin, SwallowCancel, LeaveGate
<1>1. Moves(w)
  <2>1. phase = "driving"
    BY DEF IInv, WorkersOnlyWhileDriving, Waiting
  <2>2. QED
    BY <2>1 DEF Moves, IInv, TypeOK, disk, Waiting
<1>2. w \notin InFlight /\ UNCHANGED <<disk, active>>
  BY DEF InFlight, Waiting
<1>3. InFlight' = InFlight
  BY <1>1, <1>2, MoveCases
<1>4. TypeOK'
  BY <1>1, <1>2, MoveCases DEF IInv, TypeOK, Moves, disk, driver, signals, handlers
<1>5. ActiveCountsInFlight' /\ OncePerRun'
  BY <1>1, <1>2, <1>3 DEF IInv, ActiveCountsInFlight, OncePerRun, Moves, disk, driver
<1>6. RunningIsInFlight'
  <2>1. held[w] \notin Subtasks \/ status'[held[w]] # "running"
    BY <1>2, ConstantsAssumption
       DEF IInv, UnsentIsPending, HoldsWhileBusy, disk, Waiting
  <2>2. QED
    BY <1>1, <2>1, MoveKeepsRunning
<1>7. QED
  BY <1>1, <1>4, <1>5, <1>6, MoveKeeps DEF IInv

\* both ways the launch of a prepared worker can go
LEMMA LaunchKeeps ==
    ASSUME IInv, NEW w \in Workers, pc[w] \in {"throttle", "prepare"}, ~cancelled[w],
           Launch(w), UNCHANGED <<record, driver, signals, pauseObserved, handlers>>
    PROVE  IInv'
<1>1. /\ held[w] \in Subtasks /\ phase = "driving" /\ w \notin InFlight
      /\ status[held[w]] = "pending" /\ attempts[held[w]] < runs
  BY DEF IInv, TypeOK, HoldsWhileBusy, UnsentIsPending, WorkersOnlyWhileDriving,
         Waiting, InFlight
<1>2. CASE Leave(w)
  <2>1. /\ status' \in [Subtasks -> SubtaskStatus] /\ attempts' \in [Subtasks -> Nat]
        /\ \A s \in Subtasks \ {held[w]} : status'[s] = status[s] /\ attempts'[s] = attempts[s]
        /\ attempts'[held[w]] <= attempts[held[w]] + 1
    BY <1>1, <1>2 DEF Launch, Leave, WriteRunning, IInv, TypeOK, SubtaskStatus
  <2>2. IOFaults /\ active' = active
    BY <1>1, <1>2 DEF Launch, Leave, IInv, TypeOK
  <2>3. Moves(w)
    BY <1>1, <1>2, <2>1 DEF Moves
  <2>4. InFlight' = InFlight
    BY <1>1, <2>3, MoveCases
  <2>5. TypeOK'
    BY <2>1, <2>2, <2>3, MoveCases DEF IInv, TypeOK, driver, signals, handlers
  <2>6. ActiveCountsInFlight'
    BY <2>2, <2>4 DEF IInv, ActiveCountsInFlight
  <2>7. OncePerRun'
    BY <1>1, <2>1 DEF IInv, OncePerRun, TypeOK, driver
  <2>8. QED
    BY <2>2, <2>3, <2>5, <2>6, <2>7, MoveKeeps, MoveKeepsRunning DEF IInv
<1>3. CASE ~Leave(w)
  <2>1. /\ status' = [status EXCEPT ![held[w]] = "running"]
        /\ attempts' = [attempts EXCEPT ![held[w]] = @ + 1]
        /\ active' = active + 1
        /\ pc' = [pc EXCEPT ![w] = "inflight"]
        /\ UNCHANGED <<queue, held, cancelled>>
    BY <1>3 DEF Launch, WriteRunning
  <2>2. InFlight' = InFlight \cup {w}
    BY <2>1 DEF InFlight, IInv, TypeOK
  <2>3. ActiveCountsInFlight'
    BY <1>1, <2>1, <2>2, OneMoreInFlight DEF IInv
  <2>4. TypeOK'
    BY <1>1, <2>1 DEF IInv, TypeOK, SubtaskStatus, driver, signals, handlers
  <2>5. OneOwner' /\ HoldsWhileBusy' /\ WorkersOnlyWhileDriving' /\ OncePerRun'
    BY <1>1, <2>1 DEF IInv, OneOwner, HoldsWhileBusy, WorkersOnlyWhileDriving,
                      OncePerRun, TypeOK, Driving, driver, Waiting
  <2>6. UnsentIsPending'
    <3>1. \A s \in queue : s # held[w] /\ s \in Subtasks
      BY DEF IInv, OneOwner, TypeOK
    <3>2. \A v \in Workers \ {w} : pc[v] \in Waiting =>
              held[v] # held[w] /\ held[v] \in Subtasks
      BY DEF IInv, OneOwner, TypeOK, HoldsWhileBusy, Waiting
    <3>3. QED
      BY <1>1, <2>1, <3>1, <3>2 DEF IInv, UnsentIsPending, TypeOK, driver, Waiting
  <2>7. InFlightIsRunning'
    BY <1>1, <2>1, <2>2 DEF IInv, InFlightIsRunning, OneOwner, HoldsWhileBusy, TypeOK, InFlight
  <2>8. RunningIsInFlight'
    BY <1>1, <2>1, <2>2 DEF IInv, RunningIsInFlight, TypeOK, driver
  <2>9. PausedIsClosing' /\ GateFollowsPause'
    BY <1>1, <2>1 DEF IInv, PausedIsClosing, GateFollowsPause, TypeOK, driver, signals,
                      handlers, Driving, Waiting
  <2>10. QED
    BY <2>3, <2>4, <2>5, <2>6, <2>7, <2>8, <2>9 DEF IInv
<1>4. QED
  BY <1>2, <1>3

\* a worker that gives its subtask back unsent
LEMMA UnsentMoveKeeps ==
    ASSUME IInv, NEW w \in Workers, pc[w] \in Waiting, NextItem(w),
           UNCHANGED <<status, attempts, active, record, driver, signals,
                       pauseObserved, handlers>>
    PROVE  IInv'
<1>1. Moves(w)
  BY DEF Moves, IInv, TypeOK, WorkersOnlyWhileDriving, Waiting
<1>2. InFlight' = InFlight
  BY <1>1, MoveCases DEF InFlight, Waiting
<1>3. TypeOK'
  BY <1>1, MoveCases DEF IInv, TypeOK, driver, signals, handlers
<1>4. ActiveCountsInFlight' /\ OncePerRun'
  BY <1>2 DEF IInv, ActiveCountsInFlight, OncePerRun, driver
<1>5. status'[held[w]] # "running"
  BY DEF IInv, UnsentIsPending
<1>6. QED
  BY <1>1, <1>3, <1>4, <1>5, MoveKeeps, MoveKeepsRunning DEF IInv

LEMMA PassThrottleKeeps ==
    ASSUME IInv, NEW w \in Workers, PassThrottle(w) \/ RoutePrepared(w)
    PROVE  IInv'
<1> USE DEF PassThrottle, RoutePrepared
<1>1. CASE NextItem(w) /\ UNCHANGED <<status, attempts, active>>
  BY <1>1, UnsentMoveKeeps DEF Waiting
<1>2. CASE Launch(w)
  BY <1>2, LaunchKeeps
<1>3. CASE /\ pc[w] = "throttle" /\ pc' = [pc EXCEPT ![w] = "prepare"]
           /\ UNCHANGED <<status, attempts, active, queue, held, cancelled>>
  <2>1. InFlight' = InFlight
    BY <1>3 DEF InFlight, IInv, TypeOK
  <2>2. UNCHANGED <<record, driver, signals, pauseObserved, handlers>>
    OBVIOUS
  <2>3. TypeOK' /\ ActiveCountsInFlight' /\ OneOwner' /\ OncePerRun'
    BY <1>3, <2>1, <2>2 DEF IInv, TypeOK, ActiveCountsInFlight, OneOwner, OncePerRun,
                  driver, signals, handlers, Waiting
  <2>4. HoldsWhileBusy' /\ UnsentIsPending' /\ InFlightIsRunning' /\ RunningIsInFlight'
    BY <1>3, <2>1, <2>2 DEF IInv, TypeOK, HoldsWhileBusy, UnsentIsPending,
                  InFlightIsRunning, RunningIsInFlight, driver, Waiting
  <2>5. WorkersOnlyWhileDriving' /\ PausedIsClosing' /\ GateFollowsPause'
    BY <1>3, <2>2 DEF IInv, TypeOK, WorkersOnlyWhileDriving, PausedIsClosing,
                  GateFollowsPause, Driving, driver, signals, handlers, Waiting
  <2>6. QED
    BY <2>3, <2>4, <2>5 DEF IInv
<1>4. QED
  BY <1>1, <1>2, <1>3

LEMMA SettleKeeps ==
    ASSUME IInv, NEW w \in Workers, Settle(w) \/ Rollback(w)
    PROVE  IInv'
<1> USE DEF Settle, Rollback
<1>1. w \in InFlight /\ held[w] \in Subtasks /\ phase = "driving"
  BY DEF InFlight, IInv, HoldsWhileBusy, TypeOK, WorkersOnlyWhileDriving, Waiting
<1>2. /\ NextItem(w) \/ Leave(w)
      /\ attempts' = attempts /\ active' = active - 1
      /\ UNCHANGED <<record, driver, signals, pauseObserved, handlers>>
  OBVIOUS
<1>3. \/ \E st \in {"completed", "failed", "pending"} :
            status' = [status EXCEPT ![held[w]] = st]
      \/ IOFaults /\ status' = status
  OBVIOUS
<1>4. /\ status' \in [Subtasks -> SubtaskStatus]
      /\ \A s \in Subtasks \ {held[w]} : status'[s] = status[s]
      /\ IOFaults \/ status'[held[w]] # "running"
  BY <1>1, <1>3 DEF IInv, TypeOK, SubtaskStatus
<1>5. Moves(w)
  BY <1>1, <1>2, <1>4 DEF Moves, IInv, TypeOK, InFlight
<1>6. ActiveCountsInFlight' /\ active' \in Nat
  BY <1>1, <1>2, <1>5, MoveCases, OneLessInFlight DEF IInv
<1>7. TypeOK'
  BY <1>2, <1>4, <1>5, <1>6, MoveCases DEF IInv, TypeOK, driver, signals, handlers
<1>8. OncePerRun'
  BY <1>2 DEF IInv, OncePerRun, driver
<1>9. QED
  BY <1>4, <1>5, <1>6, <1>7, <1>8, MoveKeeps, MoveKeepsRunning DEF IInv

\* steps that touch no worker's place, item or subtask
LEMMA HandlerKeeps ==
    ASSUME IInv, HandlerStep
    PROVE  IInv'
<1> USE DEF HandlerStep, StopWakes, StopDrained, PauseWakes, PausePolls, MarkPaused, CancelAll
<1>1. UNCHANGED <<status, attempts, driver, signals, active, queue, pc, held>>
  BY DEF disk
<1>2. /\ stopHandler' \in {"waiting", "draining", "done"}
      /\ pauseHandler' \in {"waiting", "settling", "done"}
      /\ cancelled' \in [Workers -> BOOLEAN]
      /\ pauseObserved' \in BOOLEAN /\ record' \in TaskStatus
  BY DEF IInv, TypeOK, TaskStatus, Transient, disk
<1>3. InFlight' = InFlight
  BY <1>1 DEF InFlight
<1>4. TypeOK' /\ ActiveCountsInFlight' /\ OneOwner' /\ OncePerRun'
  BY <1>1, <1>2, <1>3 DEF IInv, TypeOK, ActiveCountsInFlight, OneOwner, OncePerRun,
                          driver, signals
<1>5. /\ HoldsWhileBusy' /\ UnsentIsPending' /\ InFlightIsRunning'
      /\ RunningIsInFlight' /\ WorkersOnlyWhileDriving'
  BY <1>1, <1>3 DEF IInv, HoldsWhileBusy, UnsentIsPending, InFlightIsRunning,
                    RunningIsInFlight, WorkersOnlyWhileDriving, Driving, driver
<1>6. PausedIsClosing'
  <2>1. CASE record' # "PAUSED"
    BY <2>1 DEF PausedIsClosing
  <2>2. CASE active = 0 /\ ~stop /\ (PauseWakes \/ PausePolls)
    <3>1. active = 0 /\ ~stop /\ HandlersStarted /\ ~gateOpen
      BY <2>2 DEF IInv, GateFollowsPause, PauseHandlerRuns, HandlersStarted, Driving
    <3>2. InFlight = {}
      BY <3>1, InFlightFinite, FS_EmptySet DEF IInv, ActiveCountsInFlight
    <3>3. \A w \in Workers : pc[w] \in {"off"} \cup Waiting
      BY <3>1, <3>2 DEF HandlersStarted, InFlight, IInv, TypeOK
    <3>4. QED
      BY <1>1, <2>2, <3>1, <3>3 DEF PausedIsClosing, signals, Waiting, IInv, TypeOK
  <2>3. CASE record' = record
    <3>1. cancelled' = cancelled \/ CancelAll
      OBVIOUS
    <3>2. \A w \in Workers : pc[w] \in Waiting /\ cancelled[w] => cancelled'[w]
      BY <3>1 DEF Waiting
    <3>3. QED
      BY <1>1, <2>3, <3>2 DEF IInv, PausedIsClosing, Driving, driver, signals
  <2>4. QED
    BY <2>1, <2>2, <2>3 DEF disk
<1>7. GateFollowsPause'
  BY <1>1 DEF IInv, GateFollowsPause, HandlersStarted, Driving, PauseHandlerRuns,
              driver, signals
<1>8. QED
  BY <1>4, <1>5, <1>6, <1>7 DEF IInv

LEMMA NoneInFlight ==
    ASSUME \A w \in Workers : pc[w] # "inflight"
    PROVE  InFlight = {} /\ Cardinality(InFlight) = 0
BY FS_EmptySet DEF InFlight

LEMMA DriverKeeps ==
    ASSUME IInv, DriverStep
    PROVE  IInv'
<1> USE DEF DriverStep, Gather, GatherDone, StopJoined, Return
<1>1. /\ \A w \in Workers : pc[w] = "off"
      /\ UNCHANGED <<attempts, runs, signals, active, pauseObserved, pc, held, cancelled>>
      /\ queue' \in {queue, {}} /\ phase # "idle"
  BY DEF IInv, WorkersOnlyWhileDriving, disk, workers
<1>2. /\ status' \in [Subtasks -> SubtaskStatus] /\ record' \in TaskStatus
      /\ runReturned' \in BOOLEAN /\ IsFiniteSet(Workers)
  <2>1. CASE Return
    <3>1. FinalStatus(status, stop, pauseObserved) \in [Subtasks -> SubtaskStatus]
      BY FinalStatusType DEF IInv, TypeOK
    <3>2. FinalRecord(FinalStatus(status, stop, pauseObserved), stop, pauseObserved)
            \in TaskStatus
      BY FinalRecordType DEF IInv, TypeOK
    <3>3. QED
      BY <2>1, <3>1, <3>2, ConstantsAssumption DEF Finalize
  <2>2. CASE ~Return
    BY <2>2, ConstantsAssumption DEF IInv, TypeOK, disk
  <2>3. QED
    BY <2>1, <2>2
<1>3. \A s \in Subtasks : status'[s] = "running" => status[s] = "running"
  BY DEF Finalize, FinalStatus, Reset, disk
<1>4. \A s \in queue' : status' = status /\ phase' # "idle"
  BY DEF disk, workers
<1>5. InFlight' = InFlight
  BY <1>1 DEF InFlight
<1>6. TypeOK' /\ ActiveCountsInFlight'
  BY <1>1, <1>2, <1>5 DEF IInv, TypeOK, ActiveCountsInFlight, signals, handlers
<1>7. OneOwner' /\ OncePerRun' /\ HoldsWhileBusy'
  BY <1>1 DEF IInv, OneOwner, OncePerRun, HoldsWhileBusy, TypeOK
<1>8. UnsentIsPending' /\ InFlightIsRunning'
  BY <1>1, <1>4, <1>5 DEF IInv, UnsentIsPending, InFlightIsRunning, InFlight, Waiting, disk
<1>9. RunningIsInFlight'
  BY <1>1, <1>3, <1>5 DEF IInv, RunningIsInFlight, InFlight, WorkersOnlyWhileDriving
<1>10. WorkersOnlyWhileDriving' /\ PausedIsClosing' /\ GateFollowsPause'
  BY <1>1 DEF IInv, WorkersOnlyWhileDriving, PausedIsClosing, GateFollowsPause,
              Driving, disk, workers, signals, handlers
<1>11. QED
  BY <1>6, <1>7, <1>8, <1>9, <1>10 DEF IInv

LEMMA CrashKeeps ==
    ASSUME IInv, Crash \/ Reconcile
    PROVE  IInv'
<1> USE DEF Crash, Reconcile, WorkersOnlyWhileDriving
<1>1. /\ pc' = [w \in Workers |-> "off"] \/ (pc' = pc /\ \A w \in Workers : pc[w] = "off")
      /\ held' = [w \in Workers |-> NoSubtask] \/ held' = held
      /\ queue' = {} /\ attempts' = attempts /\ runs' = runs
      /\ phase' = "crashed" \/ (phase' = "idle" /\ status' = Reset(status, "running", "pending"))
  BY DEF IInv, disk, workers, Driving
<1>2. /\ \A w \in Workers : pc'[w] = "off"
      /\ \A w \in Workers : held'[w] = NoSubtask
  BY <1>1 DEF IInv, HoldsWhileBusy, TypeOK
<1>3. InFlight' = {} /\ Cardinality({}) = 0
  BY <1>2, FS_EmptySet DEF InFlight
<1>4. active' = 0
  BY <1>2, NoneInFlight DEF IInv, ActiveCountsInFlight, Driving
<1>5. TypeOK'
  <2>1. CASE Crash
    <3>1. UNCHANGED <<status, attempts, record, runs>>
      BY <2>1 DEF disk
    <3>2. /\ pc' \in [Workers -> {"off", "ready", "inflight"} \cup Waiting]
          /\ held' \in [Workers -> Subtasks \cup {NoSubtask}]
          /\ cancelled' \in [Workers -> BOOLEAN]
      BY <2>1
    <3>3. QED
      BY <2>1, <3>1, <3>2 DEF IInv, TypeOK
  <2>2. CASE Reconcile
    <3>1. /\ status' \in [Subtasks -> SubtaskStatus] /\ record' \in TaskStatus
          /\ UNCHANGED <<attempts, runs, runReturned, signals, active, pauseObserved,
                         workers, handlers>>
      BY <2>2 DEF IInv, TypeOK, Reset, SubtaskStatus, TaskStatus
    <3>2. QED
      BY <2>2, <3>1 DEF IInv, TypeOK, signals, workers, handlers
  <2>3. QED
    BY <2>1, <2>2
<1>6. ActiveCountsInFlight' /\ OneOwner' /\ OncePerRun' /\ HoldsWhileBusy'
  BY <1>1, <1>2, <1>3, <1>4 DEF IInv, ActiveCountsInFlight, OneOwner, OncePerRun,
        HoldsWhileBusy
<1>7. UnsentIsPending' /\ InFlightIsRunning' /\ WorkersOnlyWhileDriving'
  BY <1>1, <1>2, <1>3 DEF UnsentIsPending, InFlightIsRunning, Waiting
<1>8. RunningIsInFlight'
  BY <1>1 DEF RunningIsInFlight, Reset
<1>9. PausedIsClosing' /\ GateFollowsPause'
  BY <1>1 DEF PausedIsClosing, GateFollowsPause, Driving
<1>10. QED
  BY <1>5, <1>6, <1>7, <1>8, <1>9 DEF IInv

LEMMA UserKeeps ==
    ASSUME IInv, UserStep
    PROVE  IInv'
<1>1. CASE NewExecutor \/ RequestStop \/ RequestPause
  <2> USE <1>1 DEF NewExecutor, RequestStop, RequestPause
  <2>1. UNCHANGED <<disk, phase, runs, active, pauseObserved, workers, handlers>>
    BY DEF driver
  <2>2. /\ stop' \in BOOLEAN /\ pauseRequest' \in BOOLEAN /\ gateOpen' \in BOOLEAN
        /\ runReturned' \in BOOLEAN
    BY DEF IInv, TypeOK, driver
  <2>3. InFlight' = InFlight
    BY <2>1 DEF InFlight, workers
  <2>4. TypeOK'
    BY <2>1, <2>2 DEF IInv, TypeOK, disk, workers, handlers
  <2>5. ActiveCountsInFlight' /\ OneOwner' /\ OncePerRun' /\ HoldsWhileBusy'
    BY <2>1, <2>3 DEF IInv, ActiveCountsInFlight, OneOwner, OncePerRun, HoldsWhileBusy,
          disk, workers
  <2>6. UnsentIsPending' /\ InFlightIsRunning' /\ WorkersOnlyWhileDriving'
    BY <2>1, <2>3 DEF IInv, UnsentIsPending, InFlightIsRunning, WorkersOnlyWhileDriving,
          Driving, disk, workers
  <2>7. RunningIsInFlight'
    BY <2>1, <2>3 DEF IInv, RunningIsInFlight, disk, workers
  <2>8. PausedIsClosing' /\ GateFollowsPause'
    BY <2>1 DEF IInv, PausedIsClosing, GateFollowsPause, Driving, disk, workers, handlers,
          driver, TypeOK
  <2>9. QED
    BY <2>4, <2>5, <2>6, <2>7, <2>8 DEF IInv
<1>2. ASSUME NEW st \in [Subtasks -> SubtaskStatus], RunFrom(st),
             \A s \in Subtasks : st[s] = "running" => status[s] = "running"
      PROVE  IInv'
  <2>1. /\ phase = "idle" /\ queue = {} /\ \A w \in Workers : pc[w] = "off"
        /\ \A w \in Workers : held[w] = NoSubtask
    BY <1>2 DEF RunFrom, IInv, WorkersOnlyWhileDriving, Driving, HoldsWhileBusy
  <2>2. \A s \in Subtasks : ~IOFaults => st[s] # "running"
    BY <1>2, <2>1 DEF IInv, RunningIsInFlight, InFlight
  <2>3. CASE ReturnAtOnce(st)
    <3> USE <2>3 DEF ReturnAtOnce
    <3>1. /\ status' \in [Subtasks -> SubtaskStatus] /\ record' \in TaskStatus
          /\ runReturned' \in BOOLEAN /\ stop' \in BOOLEAN
      BY <1>2, FinalStatusType, FinalRecordType DEF Finalize, IInv, TypeOK, StopAtEntry
    <3>2. UNCHANGED <<attempts, phase, runs, pauseRequest, gateOpen, active,
                      pauseObserved, queue, pc, held, cancelled, handlers>>
      BY DEF workers
    <3>3. InFlight' = InFlight
      BY <3>2 DEF InFlight
    <3>4. TypeOK' /\ ActiveCountsInFlight' /\ OneOwner' /\ OncePerRun' /\ HoldsWhileBusy'
      BY <3>1, <3>2, <3>3 DEF IInv, TypeOK, ActiveCountsInFlight, OneOwner, OncePerRun,
            HoldsWhileBusy, handlers
    <3>5. \A s \in Subtasks : ~IOFaults => status'[s] # "running"
      BY <2>2 DEF Finalize, FinalStatus, Reset
    <3>6. QED
      BY <2>1, <3>2, <3>3, <3>4, <3>5 DEF IInv, UnsentIsPending, InFlightIsRunning,
            InFlight, WorkersOnlyWhileDriving, RunningIsInFlight, PausedIsClosing,
            GateFollowsPause, Driving, Waiting
  <2>4. CASE StartWorkers(st)
    <3>1. /\ status' = st /\ attempts' = attempts /\ held' = held /\ cancelled' = cancelled
          /\ runs' = runs + 1 /\ phase' = "driving" /\ runReturned' = FALSE
          /\ stop' = FALSE /\ pauseRequest' = FALSE /\ gateOpen' = TRUE
          /\ active' = 0 /\ pauseObserved' = FALSE /\ record' = "RUNNING"
          /\ queue' = With(st, {"pending"})
          /\ stopHandler' = "waiting" /\ pauseHandler' = "waiting"
      BY <2>4 DEF StartWorkers
    <3>2. PICK started \in SUBSET Workers :
            pc' = [w \in Workers |-> IF w \in started THEN "ready" ELSE "off"]
      BY <2>4 DEF StartWorkers
    <3>3. InFlight' = {} /\ Cardinality({}) = 0
      BY <3>2, FS_EmptySet DEF InFlight
    <3>4. TypeOK'
      <4>1. pc' \in [Workers -> {"off", "ready", "inflight"} \cup Waiting]
        BY <3>2
      <4>2. With(st, {"pending"}) \subseteq Subtasks
        BY DEF With
      <4>3. runs' \in Nat /\ record' \in TaskStatus
        BY <3>1 DEF IInv, TypeOK, TaskStatus, Transient
      <4>4. QED
        BY <1>2, <3>1, <4>1, <4>2, <4>3 DEF IInv, TypeOK
    <3>5. ActiveCountsInFlight' /\ OneOwner' /\ HoldsWhileBusy'
      BY <2>1, <3>1, <3>2, <3>3, ConstantsAssumption
         DEF ActiveCountsInFlight, OneOwner, HoldsWhileBusy, With
    <3>6. OncePerRun' /\ UnsentIsPending'
      BY <3>1, <3>2 DEF IInv, TypeOK, OncePerRun, UnsentIsPending, With, Waiting
    <3>7. InFlightIsRunning' /\ RunningIsInFlight'
      BY <2>2, <3>1, <3>3 DEF InFlightIsRunning, RunningIsInFlight
    <3>8. WorkersOnlyWhileDriving' /\ PausedIsClosing' /\ GateFollowsPause'
      BY <3>1 DEF WorkersOnlyWhileDriving, PausedIsClosing, GateFollowsPause, Driving
    <3>9. QED
      BY <3>4, <3>5, <3>6, <3>7, <3>8 DEF IInv
  <2>5. QED
    BY <1>2, <2>3, <2>4 DEF RunFrom
<1>3. CASE Run
  BY <1>2, <1>3 DEF Run, IInv, TypeOK
<1>4. CASE RerunFailed
  <2>1. Reset(status, "failed", "pending") \in [Subtasks -> SubtaskStatus]
    BY DEF Reset, IInv, TypeOK, SubtaskStatus
  <2>2. \A s \in Subtasks : Reset(status, "failed", "pending")[s] = "running"
                              => status[s] = "running"
    BY DEF Reset
  <2>3. QED
    BY <1>2, <1>4, <2>1, <2>2 DEF RerunFailed
<1>5. QED
  BY <1>1, <1>3, <1>4 DEF UserStep

LEMMA InitIInv == Init => IInv
<1> SUFFICES ASSUME Init PROVE IInv
  OBVIOUS
<1> USE DEF Init
<1>1. InFlight = {} /\ Cardinality(InFlight) = 0
  BY NoneInFlight
<1>2. TypeOK
  BY DEF TypeOK, SubtaskStatus, TaskStatus, Transient, Waiting
<1>3. ActiveCountsInFlight /\ OneOwner /\ OncePerRun /\ HoldsWhileBusy
  BY <1>1 DEF ActiveCountsInFlight, OneOwner, OncePerRun, HoldsWhileBusy
<1>4. QED
  BY <1>1, <1>2, <1>3 DEF IInv, UnsentIsPending, InFlightIsRunning, InFlight, Waiting,
        WorkersOnlyWhileDriving, RunningIsInFlight, PausedIsClosing, GateFollowsPause, Driving

LEMMA StutterKeeps == IInv /\ UNCHANGED vars => IInv'
<1> SUFFICES ASSUME IInv, UNCHANGED vars PROVE IInv'
  OBVIOUS
<1> USE DEF vars, disk, driver, signals, workers, handlers
<1>1. InFlight' = InFlight
  BY DEF InFlight
<1>2. QED
  BY <1>1 DEF IInv, TypeOK, ActiveCountsInFlight, OneOwner, OncePerRun, HoldsWhileBusy,
        UnsentIsPending, InFlightIsRunning, WorkersOnlyWhileDriving, RunningIsInFlight,
        PausedIsClosing, GateFollowsPause, Driving

LEMMA NextIInv == IInv /\ [Next]_vars => IInv'
<1> SUFFICES ASSUME IInv, [Next]_vars PROVE IInv'
  OBVIOUS
<1>1. ASSUME NEW w \in Workers, WorkerStep(w)
      PROVE  IInv'
  BY <1>1, BeginKeeps, PassThrottleKeeps, SettleKeeps DEF WorkerStep
<1>2. QED
  BY <1>1, UserKeeps, DriverKeeps, HandlerKeeps, CrashKeeps, StutterKeeps DEF Next

-----------------------------------------------------------------------------
(* The theorems *)

LEMMA SpecIInv == Spec => []IInv
BY InitIInv, NextIInv, PTL DEF Spec

(* Every variable of the executor has the values of its field, in every    *)
(* reachable state, for any number of subtasks and workers (run, _drive,   *)
(* _execute_one, the two handlers, a crash and the healing after it). *)
THEOREM TypeCorrect == Spec => []TypeOK
BY SpecIInv, PTL DEF IInv

(* _active_runners is the number of workers inside runner.run(), whatever  *)
(* exception or cancellation ended the others.                             *)
THEOREM CallsAreCounted == Spec => []ActiveCountsInFlight
BY SpecIInv, PTL DEF IInv

(* A subtask is held by one worker or waits in the queue, never two of     *)
(* these at once: work_queue hands each id out once.                       *)
THEOREM OneWorkerPerSubtask == Spec => []OneOwner
BY SpecIInv, PTL DEF IInv

(* A subtask is sent to the provider at most once for each run that        *)
(* started, across cancellations, reruns and crashes.                      *)
THEOREM SentOncePerRun == Spec => []OncePerRun
BY SpecIInv, PTL DEF IInv

(* Without failing writes a RUNNING subtask file has a worker in its call. *)
THEOREM NoPhantomCalls == Spec => []RunningIsInFlight
BY SpecIInv, PTL DEF IInv

(* Every call is accounted for: the types, the counter, the owner of each  *)
(* subtask, one send for each run and no RUNNING file without a call, all  *)
(* of it in every reachable state (executor.run and _execute_one).         *)
THEOREM CallsAreAccountedFor == Spec => []CallsAreAccounted
<1>1. IInv => CallsAreAccounted
  BY DEF IInv, CallsAreAccounted
<1>2. QED
  BY <1>1, SpecIInv, PTL

(* _handle_pause writes PAUSED only once the calls in flight have settled, *)
(* and no call starts between that and the end of run().                   *)
THEOREM PausedMeansQuiet == Spec => []PausedIsQuiet
<1>1. IInv => PausedIsQuiet
  BY DEF IInv, PausedIsClosing, PausedIsQuiet, InFlight, Waiting
<1>2. QED
  BY <1>1, SpecIInv, PTL

(* After the stop event no subtask is sent: every await of _execute_one    *)
(* before the launch is followed by a look at the event.                   *)
THEOREM StopLaunchesNothing == Spec => NoLaunchAfterStop
<1>1. ASSUME IInv, [Next]_vars, stop, phase' # "crashed"
      PROVE  \A s \in Subtasks : attempts'[s] = attempts[s]
  <2>1. CASE \E w \in Workers : WorkerStep(w)
    BY <1>1, <2>1 DEF WorkerStep, Begin, SwallowCancel, LeaveGate, PassThrottle,
          RoutePrepared, Settle, Rollback, disk
  <2>2. CASE UserStep \/ DriverStep \/ HandlerStep
    BY <1>1, <2>2 DEF UserStep, Run, RerunFailed, RunFrom, ReturnAtOnce, StartWorkers,
          NewExecutor, RequestStop, RequestPause, DriverStep, Gather, GatherDone,
          StopJoined, Return, HandlerStep, StopWakes, StopDrained, PauseWakes,
          PausePolls, disk
  <2>3. CASE Crash \/ Reconcile \/ UNCHANGED vars
    BY <2>3 DEF Crash, Reconcile, vars, disk
  <2>4. QED
    BY <1>1, <2>1, <2>2, <2>3 DEF Next
<1>2. QED
  BY <1>1, SpecIInv, PTL DEF Spec, NoLaunchAfterStop

(* A completed subtask stays completed: neither a stop, a pause, a rerun   *)
(* of the failed subtasks nor a crash throws a paid result away.           *)
THEOREM ResultsAreKept == Spec => CompletedIsKept
<1>1. ASSUME IInv, [Next]_vars, NEW s \in Subtasks, status[s] = "completed"
      PROVE  status'[s] = "completed"
  <2>1. ASSUME NEW w \in Workers, WorkerStep(w)
        PROVE  status'[s] = "completed"
    <3>1. CASE Begin(w) \/ SwallowCancel(w) \/ LeaveGate(w)
      BY <1>1, <3>1 DEF Begin, SwallowCancel, LeaveGate, disk
    <3>2. CASE PassThrottle(w) \/ RoutePrepared(w)
      <4>1. pc[w] \in Waiting /\ held[w] # s
        BY <1>1, <3>2 DEF PassThrottle, RoutePrepared, IInv, UnsentIsPending, Waiting
      <4>2. QED
        BY <1>1, <3>2, <4>1 DEF PassThrottle, RoutePrepared, Launch, WriteRunning,
              IInv, TypeOK
    <3>3. CASE Settle(w) \/ Rollback(w)
      <4>1. held[w] # s
        BY <1>1, <3>3 DEF Settle, Rollback, IInv, InFlightIsRunning, InFlight
      <4>2. QED
        BY <1>1, <3>3, <4>1 DEF Settle, Rollback, IInv, TypeOK
    <3>4. QED
      BY <2>1, <3>1, <3>2, <3>3 DEF WorkerStep
  <2>2. CASE UserStep
    BY <1>1, <2>2 DEF UserStep, Run, RerunFailed, RunFrom, ReturnAtOnce, StartWorkers,
          Finalize, FinalStatus, Reset, NewExecutor, RequestStop, RequestPause, disk
  <2>3. CASE DriverStep \/ HandlerStep
    BY <1>1, <2>3 DEF DriverStep, Gather, GatherDone, StopJoined, Return, Finalize,
          FinalStatus, Reset, HandlerStep, StopWakes, StopDrained, PauseWakes,
          PausePolls, disk
  <2>4. CASE Crash \/ Reconcile \/ UNCHANGED vars
    BY <1>1, <2>4 DEF Crash, Reconcile, Reset, vars, disk
  <2>5. QED
    BY <1>1, <2>1, <2>2, <2>3, <2>4 DEF Next
<1>2. ASSUME IInv, [Next]_vars
      PROVE  [\A s \in Subtasks : status[s] = "completed" => status'[s] = "completed"]_vars
  BY <1>1, <1>2
<1>3. QED
  BY <1>2, SpecIInv, PTL DEF Spec, CompletedIsKept

-----------------------------------------------------------------------------
(* What a run leaves behind *)

\* nothing disturbs the run: neither a signal nor a failing write
Undisturbed == Driving /\ ~stop /\ ~pauseRequest /\ ~IOFaults

\* only a worker that runs can have been cancelled
CancelledRuns == \A w \in Workers : cancelled[w] => pc[w] # "off"

\* in such a run what is pending is queued or held by a worker that will send it, and
\* while something is queued there is a worker to take it
PendingIsOwned ==
    Undisturbed =>
        /\ \A w \in Workers : ~cancelled[w]
        /\ \A s \in Pending : s \in queue \/ \E w \in Workers : held[w] = s /\ pc[w] \in Waiting
        /\ queue # {} => \E w \in Workers : pc[w] # "off"
        /\ stopHandler # "draining" /\ pauseHandler # "settling"

\* the record of a run that has not returned, and of a task at rest
RunRecord ==
    phase # "idle" =>
        record \in {"RUNNING", "STOPPING", "PAUSING", "PAUSED"} /\ ~runReturned
RestRecord ==
    phase = "idle" =>
        /\ record = "COMPLETED" => With(status, {"completed"}) = Subtasks
        /\ record = "FAILED" => /\ With(status, {"pending", "running"}) = {}
                                /\ With(status, {"failed"}) # {}
        /\ runReturned /\ record \in Transient => IOFaults /\ With(status, {"running"}) # {}

SInv == CancelledRuns /\ PendingIsOwned /\ RunRecord /\ RestRecord

\* a step of a worker in a run that nothing disturbs
LEMMA UndisturbedWorker ==
    ASSUME IInv, SInv, Undisturbed, NEW w \in Workers, WorkerStep(w)
    PROVE  \/ /\ pc[w] \in {"ready", "inflight"} /\ NextItem(w)
              /\ \A s \in Subtasks : status'[s] = "pending" => status[s] = "pending"
           \/ /\ pc[w] \in Waiting /\ pc' = [pc EXCEPT ![w] = "prepare"]
              /\ UNCHANGED <<status, queue, held, cancelled>>
           \/ /\ pc[w] \in Waiting /\ pc' = [pc EXCEPT ![w] = "inflight"]
              /\ status' = [status EXCEPT ![held[w]] = "running"]
              /\ UNCHANGED <<queue, held, cancelled>>
<1>1. ~cancelled[w] /\ ~stop /\ ~pauseRequest /\ ~IOFaults
  BY DEF SInv, PendingIsOwned, Undisturbed
<1>2. CASE Begin(w) \/ SwallowCancel(w) \/ LeaveGate(w)
  BY <1>1, <1>2 DEF Begin, SwallowCancel, LeaveGate, disk
<1>3. CASE PassThrottle(w) \/ RoutePrepared(w)
  BY <1>1, <1>3 DEF PassThrottle, RoutePrepared, Launch, WriteRunning, Waiting
<1>4. CASE Settle(w)
  <2>1. pc[w] = "inflight" /\ NextItem(w)
    BY <1>1, <1>4 DEF Settle
  <2>2. \A s \in Subtasks : status'[s] = "pending" => status[s] = "pending"
    BY <1>1, <1>4 DEF Settle, IInv, TypeOK
  <2>3. QED
    BY <2>1, <2>2
<1>5. CASE Rollback(w)
  BY <1>1, <1>5 DEF Rollback
<1>6. QED
  BY <1>2, <1>3, <1>4, <1>5 DEF WorkerStep

LEMMA WorkerSettles ==
    ASSUME IInv, SInv, NEW w \in Workers, WorkerStep(w)
    PROVE  SInv'
<1>1. /\ phase = "driving" /\ UNCHANGED <<record, driver, signals, handlers>>
  BY DEF WorkerStep, Begin, SwallowCancel, LeaveGate, PassThrottle, RoutePrepared, Settle,
         Rollback, Waiting, IInv, WorkersOnlyWhileDriving, disk
<1>2. RunRecord' /\ RestRecord'
  BY <1>1 DEF SInv, RunRecord, RestRecord, driver
<1>3. CancelledRuns'
  <2>1. \A v \in Workers \ {w} : pc'[v] = pc[v] /\ cancelled'[v] = cancelled[v]
    BY DEF WorkerStep, Begin, SwallowCancel, LeaveGate, PassThrottle, RoutePrepared, Settle,
           Rollback, Launch, NextItem, Leave, IInv, TypeOK
  <2>2. cancelled'[w] => pc'[w] # "off"
    BY DEF WorkerStep, Begin, SwallowCancel, LeaveGate, PassThrottle, RoutePrepared, Settle,
           Rollback, Launch, NextItem, Leave, IInv, TypeOK
  <2>3. QED
    BY <2>1, <2>2 DEF SInv, CancelledRuns
<1>4. PendingIsOwned'
  <2> SUFFICES ASSUME Undisturbed'
               PROVE  /\ \A v \in Workers : ~cancelled'[v]
                      /\ \A s \in Pending' :
                           s \in queue' \/ \E v \in Workers : held'[v] = s /\ pc'[v] \in Waiting
                      /\ queue' # {} => \E v \in Workers : pc'[v] # "off"
                      /\ stopHandler' # "draining" /\ pauseHandler' # "settling"
    BY DEF PendingIsOwned
  <2>1. Undisturbed
    BY <1>1 DEF Undisturbed, Driving, driver, signals
  <2>2. /\ \A v \in Workers : ~cancelled[v]
        /\ \A s \in Pending : s \in queue \/ \E v \in Workers : held[v] = s /\ pc[v] \in Waiting
        /\ queue # {} => \E v \in Workers : pc[v] # "off"
        /\ stopHandler # "draining" /\ pauseHandler # "settling"
    BY <2>1 DEF SInv, PendingIsOwned
  <2>3. stopHandler' # "draining" /\ pauseHandler' # "settling"
    BY <1>1, <2>2 DEF handlers
  <2>4. CASE /\ pc[w] \in {"ready", "inflight"} /\ NextItem(w)
             /\ \A s \in Subtasks : status'[s] = "pending" => status[s] = "pending"
    <3>1. /\ \A v \in Workers \ {w} : pc'[v] = pc[v] /\ held'[v] = held[v]
          /\ \A v \in Workers : ~cancelled'[v]
      BY <2>2, <2>4 DEF NextItem, Leave, IInv, TypeOK
    <3>2. Pending' \subseteq Pending
      BY <2>4 DEF Pending, With
    <3>3. \A s \in Pending : s \in queue \/ \E v \in Workers \ {w} : held[v] = s /\ pc[v] \in Waiting
      BY <2>2, <2>4 DEF Waiting
    <3>4. CASE queue = {} /\ UNCHANGED queue
      BY <2>3, <3>1, <3>2, <3>3, <3>4
    <3>5. CASE queue # {}
      <4>1. PICK s \in queue : queue' = queue \ {s} /\ held' = [held EXCEPT ![w] = s]
        BY <2>1, <2>4, <3>5 DEF NextItem, Undisturbed
      <4>2. pc' = [pc EXCEPT ![w] = IF gateOpen THEN "throttle" ELSE "gate"]
        BY <2>1, <2>4, <3>5 DEF NextItem, Undisturbed
      <4>3. held'[w] = s /\ pc'[w] \in Waiting /\ pc'[w] # "off"
        BY <4>1, <4>2 DEF IInv, TypeOK, Waiting
      <4>4. QED
        BY <2>3, <3>1, <3>2, <3>3, <4>1, <4>3
    <3>6. QED
      BY <2>4, <3>4, <3>5 DEF NextItem, Leave
  <2>5. CASE /\ pc[w] \in Waiting /\ pc' = [pc EXCEPT ![w] = "prepare"]
             /\ UNCHANGED <<status, queue, held, cancelled>>
    <3>1. /\ \A v \in Workers : pc[v] \in Waiting => pc'[v] \in Waiting
          /\ pc'[w] # "off"
      BY <2>5 DEF IInv, TypeOK, Waiting
    <3>2. Pending' = Pending
      BY <2>5 DEF Pending, With
    <3>3. QED
      BY <2>2, <2>3, <2>5, <3>1, <3>2
  <2>6. CASE /\ pc[w] \in Waiting /\ pc' = [pc EXCEPT ![w] = "inflight"]
             /\ status' = [status EXCEPT ![held[w]] = "running"]
             /\ UNCHANGED <<queue, held, cancelled>>
    <3>1. /\ \A v \in Workers \ {w} : pc'[v] = pc[v]
          /\ pc'[w] # "off"
      BY <2>6 DEF IInv, TypeOK
    <3>2. held[w] \in Subtasks
      BY <2>6 DEF IInv, TypeOK, HoldsWhileBusy, Waiting
    <3>3. Pending' \subseteq Pending \ {held[w]}
      BY <2>6, <3>2 DEF Pending, With, IInv, TypeOK
    <3>4. \A s \in Pending' : s \in queue \/ \E v \in Workers \ {w} : held[v] = s /\ pc[v] \in Waiting
      BY <2>2, <3>3
    <3>5. QED
      BY <2>2, <2>3, <2>6, <3>1, <3>4
  <2>7. QED
    BY <2>1, <2>4, <2>5, <2>6, UndisturbedWorker
<1>5. QED
  BY <1>2, <1>3, <1>4 DEF SInv

LEMMA HandlerSettles ==
    ASSUME IInv, SInv, HandlerStep
    PROVE  SInv'
<1>1. /\ Driving /\ UNCHANGED <<status, driver, signals, queue, pc, held>>
      /\ record' \in {record, "STOPPING", "PAUSING", "PAUSED"}
  BY DEF HandlerStep, StopWakes, StopDrained, PauseWakes, PausePolls, MarkPaused, Driving,
         StopHandlerRuns, PauseHandlerRuns, disk
<1>2. RunRecord' /\ RestRecord'
  BY <1>1 DEF SInv, RunRecord, RestRecord, driver, Driving
<1>3. CancelledRuns'
  <2>1. UNCHANGED cancelled \/ CancelAll
    BY DEF HandlerStep, StopWakes, StopDrained, PauseWakes, PausePolls, MarkPaused
  <2>2. QED
    BY <1>1, <2>1 DEF CancelAll, SInv, CancelledRuns
<1>4. ~Undisturbed
  BY DEF HandlerStep, StopWakes, StopDrained, PauseWakes, PausePolls, Undisturbed, SInv,
         PendingIsOwned
<1>5. PendingIsOwned'
  BY <1>1, <1>4 DEF PendingIsOwned, Undisturbed, Driving, driver, signals
<1>6. QED
  BY <1>2, <1>3, <1>5 DEF SInv

\* the verdict fits the subtasks; it is left as it was only where a subtask is RUNNING
LEMMA VerdictFits ==
    ASSUME NEW st \in [Subtasks -> SubtaskStatus], NEW stopped \in BOOLEAN, NEW paused \in BOOLEAN,
           Finalize(st, stopped, paused),
           With(FinalStatus(st, stopped, paused), {"pending", "running"}) # {} =>
               \/ stopped \/ paused
               \/ /\ IOFaults /\ record \notin {"COMPLETED", "FAILED"}
                  /\ With(FinalStatus(st, stopped, paused), {"pending"}) = {}
    PROVE  /\ record' = "COMPLETED" => With(status', {"completed"}) = Subtasks
           /\ record' = "FAILED" => /\ With(status', {"pending", "running"}) = {}
                                    /\ With(status', {"failed"}) # {}
           /\ record' \in Transient => IOFaults /\ With(status', {"running"}) # {}
<1> DEFINE final == FinalStatus(st, stopped, paused)
<1>1. final \in [Subtasks -> SubtaskStatus] /\ status' = final
      /\ record' = FinalRecord(final, stopped, paused)
  BY FinalStatusType DEF Finalize
<1> HIDE DEF final
<1>2. CASE stopped \/ paused
  BY <1>1, <1>2 DEF FinalRecord, Transient
<1>3. CASE ~stopped /\ ~paused /\ With(final, {"pending", "running"}) # {}
  <2>1. record' = record /\ IOFaults /\ record \notin {"COMPLETED", "FAILED"}
        /\ With(final, {"pending"}) = {}
    BY <1>1, <1>3 DEF FinalRecord, final
  <2>2. With(final, {"running"}) # {}
    BY <1>3, <2>1 DEF With
  <2>3. QED
    BY <1>1, <2>1, <2>2
<1>4. CASE ~stopped /\ ~paused /\ With(final, {"pending", "running"}) = {}
  <2>1. record' = IF With(final, {"failed"}) # {} THEN "FAILED" ELSE "COMPLETED"
    BY <1>1, <1>4 DEF FinalRecord
  <2>2. With(final, {"failed"}) = {} => With(final, {"completed"}) = Subtasks
    BY <1>1, <1>4 DEF With, SubtaskStatus
  <2>3. QED
    BY <1>1, <1>4, <2>1, <2>2 DEF Transient
<1>5. QED
  BY <1>2, <1>3, <1>4

\* without a call in flight only a failed write leaves a subtask RUNNING
LEMMA RunningIsFault ==
    ASSUME IInv, phase \in {"idle", "joinPause"}, NEW s \in Subtasks, status[s] = "running"
    PROVE  IOFaults
<1>1. InFlight = {}
  BY DEF IInv, WorkersOnlyWhileDriving, InFlight
<1>2. QED
  BY <1>1 DEF IInv, RunningIsInFlight

LEMMA DriverSettles ==
    ASSUME IInv, SInv, DriverStep
    PROVE  SInv'
<1>1. CASE Gather \/ GatherDone \/ StopJoined
  <2>1. /\ Driving /\ Driving' /\ phase' # "idle"
        /\ UNCHANGED <<status, record, runReturned, stop, pauseRequest, queue, pc, held, cancelled>>
        /\ stopHandler' \in {stopHandler, "done"} /\ pauseHandler' \in {pauseHandler, "done"}
    BY <1>1 DEF Gather, GatherDone, StopJoined, Driving, disk, signals, workers, handlers
  <2>2. RunRecord' /\ RestRecord' /\ CancelledRuns'
    BY <2>1 DEF SInv, RunRecord, RestRecord, CancelledRuns, Driving
  <2>3. PendingIsOwned'
    BY <2>1 DEF SInv, PendingIsOwned, Undisturbed, Pending, With
  <2>4. QED
    BY <2>2, <2>3 DEF SInv
<1>2. CASE Return
  <2> DEFINE final == FinalStatus(status, stop, pauseObserved)
  <2>1. /\ phase = "joinPause" /\ phase' = "idle" /\ Finalize(status, stop, pauseObserved)
        /\ UNCHANGED <<pc, cancelled>>
    BY <1>2 DEF Return
  <2>2. /\ status \in [Subtasks -> SubtaskStatus] /\ stop \in BOOLEAN /\ pauseObserved \in BOOLEAN
        /\ record \notin {"COMPLETED", "FAILED"}
    BY <2>1 DEF IInv, TypeOK, SInv, RunRecord
  <2>5. RestRecord'
    <3>1. /\ record' = "COMPLETED" => With(status', {"completed"}) = Subtasks
          /\ record' = "FAILED" => /\ With(status', {"pending", "running"}) = {}
                                   /\ With(status', {"failed"}) # {}
          /\ record' \in Transient => IOFaults /\ With(status', {"running"}) # {}
      <4>1. With(final, {"pending", "running"}) # {} =>
               \/ stop \/ pauseObserved
               \/ /\ IOFaults /\ record \notin {"COMPLETED", "FAILED"}
                  /\ With(final, {"pending"}) = {}
        <5>1. CASE ~stop /\ ~pauseObserved
          <6>1. final = Reset(status, "pending", "failed")
            BY <5>1 DEF FinalStatus
          <6>2. \A s \in Subtasks : final[s] # "pending" /\ (final[s] = "running" => status[s] = "running")
            BY <6>1 DEF Reset
          <6>3. QED
            BY <2>1, <2>2, <6>2, RunningIsFault DEF With
        <5>2. QED
          BY <5>1
      <4>2. QED
        BY <2>1, <2>2, <4>1, VerdictFits
    <3>2. QED
      BY <3>1 DEF RestRecord
  <2>6. RunRecord' /\ CancelledRuns' /\ PendingIsOwned'
    BY <2>1 DEF SInv, RunRecord, CancelledRuns, PendingIsOwned, Undisturbed, Driving
  <2>7. QED
    BY <2>5, <2>6 DEF SInv
<1>3. QED
  BY <1>1, <1>2 DEF DriverStep

LEMMA CrashSettles ==
    ASSUME IInv, SInv, Crash \/ Reconcile
    PROVE  SInv'
<1>1. CASE Crash
  BY <1>1 DEF Crash, disk, SInv, CancelledRuns, PendingIsOwned, Undisturbed, Driving, RunRecord, RestRecord
<1>2. CASE Reconcile
  <2>1. /\ phase' = "idle" /\ ~runReturned' /\ record' \notin {"COMPLETED", "FAILED"}
        /\ UNCHANGED <<pc, cancelled>>
    BY <1>2 DEF Reconcile, SInv, RunRecord, workers
  <2>2. QED
    BY <2>1 DEF SInv, CancelledRuns, PendingIsOwned, Undisturbed, Driving, RunRecord, RestRecord
<1>3. QED
  BY <1>1, <1>2

LEMMA ReturnsSettled ==
    ASSUME IInv, SInv, phase = "idle", NEW st \in [Subtasks -> SubtaskStatus], ReturnAtOnce(st),
           \A s \in Subtasks : st[s] = "running" => status[s] = "running",
           With(st, {"pending"}) = {} \/ StopAtEntry
    PROVE  SInv'
<1> DEFINE stopped == StopAtEntry /\ With(st, {"pending"}) # {}
<1>1. /\ Finalize(st, stopped, FALSE) /\ UNCHANGED <<phase, pc, cancelled>>
      /\ stopped \in BOOLEAN
  BY DEF ReturnAtOnce, workers, StopAtEntry
<1>2. With(st, {"pending"}) = {} \/ stopped
  OBVIOUS
<1> HIDE DEF stopped
<1>3. With(FinalStatus(st, stopped, FALSE), {"pending", "running"}) # {} =>
          \/ stopped
          \/ /\ IOFaults /\ record \notin {"COMPLETED", "FAILED"}
             /\ With(FinalStatus(st, stopped, FALSE), {"pending"}) = {}
  <2> SUFFICES ASSUME ~stopped, With(FinalStatus(st, stopped, FALSE), {"pending", "running"}) # {}
               PROVE  /\ IOFaults /\ record \notin {"COMPLETED", "FAILED"}
                      /\ With(FinalStatus(st, stopped, FALSE), {"pending"}) = {}
    OBVIOUS
  <2>1. \A s \in Subtasks : /\ FinalStatus(st, stopped, FALSE)[s] # "pending"
                            /\ FinalStatus(st, stopped, FALSE)[s] = "running" => st[s] = "running"
    BY <1>2 DEF FinalStatus, Reset, With
  <2>2. PICK s \in Subtasks : status[s] = "running"
    BY <2>1 DEF With
  <2>3. IOFaults
    BY <2>2, RunningIsFault
  <2>4. record \notin {"COMPLETED", "FAILED"}
    BY <2>2 DEF SInv, RestRecord, With
  <2>5. QED
    BY <2>1, <2>3, <2>4 DEF With
<1>4. RestRecord'
  BY <1>1, <1>3, VerdictFits DEF RestRecord
<1>5. RunRecord' /\ CancelledRuns' /\ PendingIsOwned'
  BY <1>1 DEF SInv, RunRecord, CancelledRuns, PendingIsOwned, Undisturbed, Driving
<1>6. QED
  BY <1>4, <1>5 DEF SInv

LEMMA StartsSettled ==
    ASSUME IInv, SInv, phase = "idle", NEW st \in [Subtasks -> SubtaskStatus], StartWorkers(st),
           With(st, {"pending"}) # {}
    PROVE  SInv'
<1> DEFINE todo == With(st, {"pending"})
<1>1. /\ phase' = "driving" /\ ~runReturned' /\ record' = "RUNNING" /\ status' = st /\ queue' = todo
      /\ UNCHANGED cancelled /\ stopHandler' = "waiting" /\ pauseHandler' = "waiting"
  BY DEF StartWorkers
<1>2. \A w \in Workers : ~cancelled[w]
  BY DEF SInv, CancelledRuns, IInv, WorkersOnlyWhileDriving
<1>3. PICK started \in SUBSET Workers :
        /\ \/ started = Workers /\ Cardinality(Workers) <= Cardinality(todo)
           \/ Cardinality(started) = Cardinality(todo)
        /\ pc' = [w \in Workers |-> IF w \in started THEN "ready" ELSE "off"]
  BY DEF StartWorkers
<1>4. started # {}
  <2>1. todo \subseteq Subtasks /\ IsFiniteSet(todo)
    BY ConstantsAssumption, FS_Subset DEF With
  <2>2. Cardinality(todo) # 0
    BY <2>1, FS_EmptySet
  <2>3. QED
    BY <1>3, <2>2, ConstantsAssumption, FS_EmptySet
<1>5. \E w \in Workers : pc'[w] # "off"
  BY <1>3, <1>4
<1>6. Pending' = queue'
  BY <1>1 DEF Pending
<1>7. QED
  BY <1>1, <1>2, <1>5, <1>6 DEF SInv, CancelledRuns, PendingIsOwned, RunRecord, RestRecord

LEMMA RunSettles ==
    ASSUME IInv, SInv, NEW st \in [Subtasks -> SubtaskStatus], RunFrom(st),
           \A s \in Subtasks : st[s] = "running" => status[s] = "running"
    PROVE  SInv'
BY ReturnsSettled, StartsSettled DEF RunFrom

LEMMA UserSettles ==
    ASSUME IInv, SInv, UserStep
    PROVE  SInv'
<1>1. status \in [Subtasks -> SubtaskStatus]
  BY DEF IInv, TypeOK
<1>2. CASE Run
  BY <1>1, <1>2, RunSettles DEF Run
<1>3. CASE RerunFailed
  <2>1. /\ Reset(status, "failed", "pending") \in [Subtasks -> SubtaskStatus]
        /\ \A s \in Subtasks : Reset(status, "failed", "pending")[s] = "running" => status[s] = "running"
    BY <1>1 DEF Reset, SubtaskStatus
  <2>2. QED
    BY <1>3, <2>1, RunSettles DEF RerunFailed
<1>4. CASE NewExecutor
  BY <1>4 DEF NewExecutor, disk, workers, handlers, SInv, CancelledRuns, PendingIsOwned,
          Undisturbed, Driving, RunRecord, RestRecord
<1>5. CASE RequestStop \/ RequestPause
  BY <1>5 DEF RequestStop, RequestPause, disk, driver, workers, handlers, SInv, CancelledRuns,
          PendingIsOwned, Undisturbed, Driving, RunRecord, RestRecord
<1>6. QED
  BY <1>2, <1>3, <1>4, <1>5 DEF UserStep

LEMMA NextSettles == IInv /\ SInv /\ [Next]_vars => SInv'
<1> SUFFICES ASSUME IInv, SInv, [Next]_vars PROVE SInv'
  OBVIOUS
<1>1. CASE UNCHANGED vars
  BY <1>1 DEF vars, disk, driver, signals, workers, handlers, SInv, CancelledRuns, PendingIsOwned,
          Undisturbed, Driving, RunRecord, RestRecord, Pending, With
<1>2. QED
  BY <1>1, UserSettles, DriverSettles, HandlerSettles, WorkerSettles, CrashSettles DEF Next

(* What run() writes when it returns is the state of the subtasks, for any *)
(* number of them, of workers, stops, pauses, reruns and crashes, and when *)
(* nothing disturbed the run no subtask is left for _finalize to fail.     *)
THEOREM RunsEndSettled == Spec => []RunsAreSettled
<1>1. Init => SInv
  BY DEF Init, SInv, CancelledRuns, PendingIsOwned, Undisturbed, Driving, RunRecord, RestRecord
<1>2. IInv /\ SInv => RunsAreSettled
  <2> SUFFICES ASSUME IInv, SInv PROVE RunsAreSettled
    OBVIOUS
  <2>1. VerdictIsTrue
    BY DEF SInv, RestRecord, VerdictIsTrue
  <2>2. NothingLeftBehind
    BY DEF SInv, PendingIsOwned, Undisturbed, Driving, IInv, WorkersOnlyWhileDriving, Waiting,
           NothingLeftBehind
  <2>3. QED
    BY <2>1, <2>2 DEF RunsAreSettled
<1>3. QED
  BY <1>1, <1>2, SpecIInv, NextSettles, PTL DEF Spec

-----------------------------------------------------------------------------
(* The executor implements the cache contract of RunLedger: every step of  *)
(* a worker, a handler or the driver is one step of the ledger or none.    *)

(* What the mapping needs beyond IInv. *)

\* once a pause is observed its handler has ended and its record stands,
\* unless a stop overwrites it
ObservedIsPaused ==
    Driving /\ pauseObserved =>
        pauseHandler = "done" /\ (stop \/ record = "PAUSED")

\* only a stop cancels a call
CancelledCallsAreStopped == \A w \in InFlight : cancelled[w] => stop

DrainingIsStopped == Driving /\ stopHandler = "draining" => stop

RInv == IInv /\ ObservedIsPaused /\ CancelledCallsAreStopped /\ DrainingIsStopped

LEMMA QuietWhenInactive ==
    ASSUME IInv, active = 0
    PROVE  InFlight = {} /\ Flight = {}
<1>1. InFlight = {}
  BY InFlightFinite, FS_EmptySet DEF IInv, ActiveCountsInFlight
<1>2. QED
  BY <1>1 DEF Flight

\* the verdict of _finalize is one the ledger allows
LEMMA VerdictMaps ==
    ASSUME NEW st \in [Subtasks -> SubtaskStatus]
    PROVE  Ledger!Verdict(st, FinalRecord(st, FALSE, FALSE))
<1>1. With(st, {"pending", "running"}) = Ledger!Live(st)
  BY DEF With, Ledger!Live
<1>2. With(st, {"failed"}) = Ledger!Failed(st)
  BY DEF With, Ledger!Failed
<1>3. QED
  BY <1>1, <1>2 DEF FinalRecord, Ledger!Verdict

\* a step in which no worker moves and nobody is cancelled
LEMMA WorkersRest ==
    ASSUME UNCHANGED workers
    PROVE  InFlight' = InFlight /\ Todo' = Todo /\ Flight' = Flight
BY DEF workers, InFlight, Todo, Flight

\* CancelAll and the end of the process leave no call, or stop it
LEMMA CancelAllKeeps ==
    ASSUME IInv, UNCHANGED <<queue, pc, held>>
    PROVE  InFlight' = InFlight /\ Todo' = Todo /\ Flight' = Flight
BY DEF InFlight, Todo, Flight

LEMMA RInvStep ==
    ASSUME RInv, [Next]_vars
    PROVE  RInv'
<1>1. IInv'
  BY NextIInv DEF RInv
<1>2. CASE \E w \in Workers : WorkerStep(w)
  <2>1. PICK w \in Workers : WorkerStep(w)
    BY <1>2
  <2>2. ObservedIsPaused' /\ DrainingIsStopped'
    BY <2>1 DEF RInv, ObservedIsPaused, DrainingIsStopped, WorkerStep, Begin, SwallowCancel, LeaveGate,
          PassThrottle, RoutePrepared, Settle, Rollback, disk, driver, signals,
          handlers, Driving
  <2>3. stop' = stop
    BY <2>1 DEF WorkerStep, Begin, SwallowCancel, LeaveGate, PassThrottle,
          RoutePrepared, Settle, Rollback, signals
  <2>4. ASSUME NEW v \in InFlight', cancelled'[v]
        PROVE  v \in InFlight /\ cancelled[v]
    <3>1. CASE Begin(w) \/ SwallowCancel(w) \/ LeaveGate(w)
      BY <2>4, <3>1 DEF Begin, SwallowCancel, LeaveGate, NextItem, Leave, InFlight,
            RInv, IInv, TypeOK
    <3>2. CASE PassThrottle(w) \/ RoutePrepared(w)
      BY <2>4, <3>2 DEF PassThrottle, RoutePrepared, Launch, NextItem, Leave, InFlight,
            RInv, IInv, TypeOK
    <3>3. CASE Settle(w) \/ Rollback(w)
      BY <2>4, <3>3 DEF Settle, Rollback, NextItem, Leave, InFlight, RInv, IInv, TypeOK
    <3>4. QED
      BY <2>1, <3>1, <3>2, <3>3 DEF WorkerStep
  <2>5. QED
    BY <1>1, <2>2, <2>3, <2>4 DEF RInv, CancelledCallsAreStopped
<1>3. CASE HandlerStep
  <2>1. InFlight' = InFlight /\ stop' = stop
    BY <1>3 DEF HandlerStep, StopWakes, StopDrained, PauseWakes, PausePolls, InFlight,
          signals
  <2>2. ObservedIsPaused' /\ DrainingIsStopped'
    <3>1. CASE StopWakes
      BY <3>1 DEF RInv, ObservedIsPaused, DrainingIsStopped, StopWakes, driver, signals,
            Driving
    <3>2. CASE StopDrained
      BY <3>2 DEF RInv, ObservedIsPaused, DrainingIsStopped, StopDrained, driver,
            signals, disk, handlers, Driving
    <3>3. CASE PauseWakes \/ PausePolls
      BY <3>3 DEF RInv, ObservedIsPaused, DrainingIsStopped, PauseWakes, PausePolls,
            MarkPaused, driver, signals, Driving
    <3>4. QED
      BY <1>3, <3>1, <3>2, <3>3 DEF HandlerStep
  <2>3. CancelledCallsAreStopped'
    <3>1. CASE StopWakes
      BY <2>1, <3>1 DEF RInv, CancelledCallsAreStopped, StopWakes, signals
    <3>2. CASE cancelled' = cancelled \/ active = 0
      BY <2>1, <3>2, QuietWhenInactive DEF RInv, CancelledCallsAreStopped
    <3>3. CASE StopDrained
      BY <2>1, <3>3 DEF RInv, CancelledCallsAreStopped, DrainingIsStopped, StopDrained,
            StopHandlerRuns, Driving
    <3>4. QED
      BY <1>3, <3>1, <3>2, <3>3 DEF HandlerStep, PauseWakes, PausePolls
  <2>4. QED
    BY <1>1, <2>2, <2>3 DEF RInv
<1>4. CASE DriverStep \/ UserStep \/ Crash \/ Reconcile \/ UNCHANGED vars
  <2>1. CASE DriverStep
    <3>1. UNCHANGED <<signals, pauseObserved, workers>> \/ (Return /\ ~Driving')
      BY <2>1 DEF DriverStep, Gather, GatherDone, StopJoined, Return, Driving
    <3>2. InFlight' = {} \/ UNCHANGED workers
      BY <3>1 DEF Return, InFlight, RInv, IInv, WorkersOnlyWhileDriving
    <3>3. QED
      BY <1>1, <2>1, <3>2 DEF RInv, ObservedIsPaused, CancelledCallsAreStopped,
            DrainingIsStopped, DriverStep, Gather, GatherDone, StopJoined, Return,
            disk, signals, handlers, workers, InFlight, Driving
  <2>2. CASE Run \/ RerunFailed
    <3>1. PICK st : RunFrom(st) /\ (ReturnAtOnce(st) \/ StartWorkers(st))
      BY <2>2 DEF Run, RerunFailed, RunFrom
    <3>2. InFlight' = {}
      BY <3>1 DEF RunFrom, ReturnAtOnce, StartWorkers, workers, InFlight, RInv, IInv,
            WorkersOnlyWhileDriving, Driving
    <3>3. ObservedIsPaused' /\ DrainingIsStopped'
      BY <3>1 DEF RunFrom, ReturnAtOnce, StartWorkers, ObservedIsPaused,
            DrainingIsStopped, Driving
    <3>4. QED
      BY <1>1, <3>2, <3>3 DEF RInv, CancelledCallsAreStopped
  <2>3. CASE NewExecutor
    <3>1. InFlight' = {}
      BY <2>3 DEF NewExecutor, workers, InFlight, RInv, IInv, WorkersOnlyWhileDriving
    <3>2. QED
      BY <1>1, <2>3, <3>1 DEF RInv, NewExecutor, ObservedIsPaused, DrainingIsStopped,
            CancelledCallsAreStopped, Driving
  <2>4. CASE RequestStop \/ RequestPause
    BY <1>1, <2>4 DEF RInv, RequestStop, RequestPause, ObservedIsPaused,
          DrainingIsStopped, CancelledCallsAreStopped, Driving, disk, driver, handlers,
          workers, InFlight
  <2>5. CASE Crash \/ Reconcile
    <3>1. InFlight' = {} /\ ~Driving'
      BY <2>5 DEF Crash, Reconcile, workers, InFlight, Driving, RInv, IInv,
            WorkersOnlyWhileDriving
    <3>2. QED
      BY <1>1, <3>1 DEF RInv, ObservedIsPaused, DrainingIsStopped,
            CancelledCallsAreStopped
  <2>6. CASE UNCHANGED vars
    BY <1>1, <2>6 DEF RInv, vars, disk, driver, signals, handlers, workers, InFlight,
          ObservedIsPaused, DrainingIsStopped, CancelledCallsAreStopped, Driving
  <2>7. QED
    BY <1>4, <2>1, <2>2, <2>3, <2>4, <2>5, <2>6 DEF UserStep
<1>5. QED
  BY <1>2, <1>3, <1>4 DEF Next

-----------------------------------------------------------------------------
(* How a worker's step changes what is still to send and what is out. *)

LEMMA MoveMaps ==
    ASSUME IInv, NEW w \in Workers, Moves(w)
    PROVE  Todo' = Todo \ {held[w]} /\ Flight' = Flight \ {held[w]}
<1> USE MoveCases
<1>1. \A v \in Workers \ {w} : pc[v] \notin {"off", "ready"} =>
        held[v] # held[w] /\ held'[v] = held[v] /\ pc'[v] = pc[v]
  BY DEF IInv, OneOwner, HoldsWhileBusy
<1>2. Flight' = Flight \ {held[w]}
  BY <1>1 DEF Flight, InFlight
<1>3. /\ held[w] \notin queue
      /\ \/ pc'[w] = "off" /\ queue' = queue
         \/ pc'[w] \in Waiting /\ held'[w] \in queue /\ queue' = queue \ {held'[w]}
  BY DEF IInv, OneOwner, Waiting
<1>4. ASSUME NEW s PROVE s \in Todo' <=> s \in Todo \ {held[w]}
  <2>1. \A v \in Workers \ {w} : (pc'[v] \in Waiting /\ held'[v] = s) <=>
                                  (pc[v] \in Waiting /\ held[v] = s /\ s # held[w])
    BY <1>1 DEF Waiting
  <2>2. s \in Todo' <=> \/ s \in queue'
                       \/ \E v \in Workers : pc'[v] \in Waiting /\ held'[v] = s
    BY DEF Todo
  <2>3. s \in Todo <=> \/ s \in queue
                      \/ \E v \in Workers : pc[v] \in Waiting /\ held[v] = s
    BY DEF Todo
  <2>4. CASE pc'[w] = "off" /\ queue' = queue
    BY <1>3, <2>1, <2>2, <2>3, <2>4 DEF Waiting
  <2>5. CASE pc'[w] \in Waiting /\ held'[w] \in queue /\ queue' = queue \ {held'[w]}
    BY <1>3, <2>1, <2>2, <2>3, <2>5
  <2>6. QED
    BY <1>3, <2>4, <2>5
<1>5. QED
  BY <1>2, <1>4

LEMMA LaunchMaps ==
    ASSUME IInv, NEW w \in Workers, pc[w] \in Waiting,
           pc' = [pc EXCEPT ![w] = "inflight"], UNCHANGED <<queue, held>>
    PROVE  Todo' = Todo \ {held[w]} /\ Flight' = Flight \cup {held[w]}
<1>1. \A v \in Workers \ {w} : held[v] # held[w] \/ pc[v] \in {"off", "ready"}
  BY DEF IInv, OneOwner, HoldsWhileBusy
<1>2. held[w] \notin queue
  BY DEF IInv, OneOwner
<1>3. \A v \in Workers : pc'[v] = IF v = w THEN "inflight" ELSE pc[v]
  BY DEF IInv, TypeOK
<1>4. ASSUME NEW s PROVE s \in Todo' <=> s \in Todo \ {held[w]}
  BY <1>1, <1>2, <1>3 DEF Todo, Waiting
<1>5. ASSUME NEW s PROVE s \in Flight' <=> s \in Flight \cup {held[w]}
  BY <1>1, <1>3 DEF Flight, InFlight
<1>6. QED
  BY <1>4, <1>5

-----------------------------------------------------------------------------
(* Each step is a step of the ledger, or leaves it as it is. *)

Maps == Ledger!Next \/ UNCHANGED Ledger!lvars

LEMMA StutterMaps ==
    ASSUME UNCHANGED <<disk, stop>>, Todo' = Todo, Flight' = Flight, Driving' = Driving
    PROVE  Maps
BY DEF Maps, Ledger!lvars, disk

\* an item given back unsent
LEMMA DropMaps ==
    ASSUME RInv, NEW w \in Workers, pc[w] \in Waiting \cup {"ready"}, NextItem(w),
           UNCHANGED <<disk, driver, signals, active, pauseObserved, handlers>>
    PROVE  Maps
<1>1. phase = "driving" /\ Driving /\ Driving'
  BY DEF RInv, IInv, WorkersOnlyWhileDriving, Driving, Waiting, driver
<1>2. Moves(w)
  BY <1>1 DEF Moves, RInv, IInv, TypeOK, disk, Waiting
<1>3. Todo' = Todo \ {held[w]} /\ Flight' = Flight \ {held[w]}
  BY <1>2, MoveMaps DEF RInv
<1>4. held[w] \notin Flight
  BY DEF Flight, InFlight, RInv, IInv, OneOwner, HoldsWhileBusy, Waiting
<1>5. CASE pc[w] \in Waiting
  <2>1. held[w] \in Todo /\ held[w] \in Subtasks
    BY <1>5 DEF Todo, RInv, IInv, HoldsWhileBusy, TypeOK, Waiting
  <2>2. Ledger!Drop(held[w])
    BY <1>1, <1>3, <1>4, <2>1 DEF Ledger!Drop, disk, signals
  <2>3. QED
    BY <2>1, <2>2 DEF Maps, Ledger!Next
<1>6. CASE pc[w] = "ready"
  <2>1. held[w] = NoSubtask /\ NoSubtask \notin Todo
    BY <1>6, ConstantsAssumption
       DEF Todo, RInv, IInv, HoldsWhileBusy, OneOwner, TypeOK, Waiting
  <2>2. QED
    BY <1>1, <1>3, <1>4, <2>1, StutterMaps DEF signals
<1>7. QED
  BY <1>5, <1>6

LEMMA SendMaps ==
    ASSUME RInv, NEW w \in Workers, pc[w] \in Waiting, ~stop, Launch(w),
           UNCHANGED <<record, driver, signals, pauseObserved, handlers>>
    PROVE  Maps
<1>1. phase = "driving" /\ Driving /\ Driving' /\ stop' = stop
  BY DEF RInv, IInv, WorkersOnlyWhileDriving, Driving, Waiting, driver, signals
<1>2. held[w] \in Subtasks /\ held[w] \in Todo /\ held[w] \notin Flight
  BY DEF Todo, Flight, InFlight, RInv, IInv, OneOwner, HoldsWhileBusy, TypeOK, Waiting
<1>3. CASE pc' = [pc EXCEPT ![w] = "inflight"] /\ UNCHANGED <<queue, held>> /\ WriteRunning(w)
  <2>1. Ledger!Send(held[w])
    BY <1>1, <1>2, <1>3, LaunchMaps DEF RInv, Ledger!Send, Ledger!Write, WriteRunning
  <2>2. QED
    BY <1>2, <2>1 DEF Maps, Ledger!Next
<1>4. CASE IOFaults /\ Leave(w)
  <2>1. Moves(w)
    BY <1>1, <1>2, <1>4 DEF Moves, Launch, WriteRunning, Leave, RInv, IInv, TypeOK,
          SubtaskStatus, Waiting
  <2>2. Todo' = Todo \ {held[w]} /\ Flight' = Flight
    BY <1>2, <2>1, MoveMaps DEF RInv
  <2>3. CASE UNCHANGED <<status, attempts>>
    <3>1. Ledger!Drop(held[w])
      BY <1>1, <1>2, <2>2, <2>3 DEF Ledger!Drop
    <3>2. QED
      BY <1>2, <3>1 DEF Maps, Ledger!Next
  <2>4. CASE WriteRunning(w)
    <3>1. Ledger!Send(held[w])
      BY <1>1, <1>2, <1>4, <2>2, <2>4 DEF Ledger!Send, Ledger!Write, WriteRunning
    <3>2. QED
      BY <1>2, <3>1 DEF Maps, Ledger!Next
  <2>5. QED
    BY <2>3, <2>4, <1>4, <1>2 DEF Launch, Leave, RInv, IInv, TypeOK, Waiting
<1>5. QED
  BY <1>3, <1>4 DEF Launch

LEMMA SettleMaps ==
    ASSUME RInv, NEW w \in Workers, Settle(w) \/ Rollback(w)
    PROVE  Maps
<1>1. /\ phase = "driving" /\ Driving /\ Driving' /\ stop' = stop
      /\ UNCHANGED <<attempts, record>> /\ held[w] \in Subtasks /\ held[w] \in Flight
  BY DEF RInv, IInv, WorkersOnlyWhileDriving, Driving, Settle, Rollback, driver, signals,
         HoldsWhileBusy, TypeOK, Flight, InFlight
<1>2. held[w] \notin Todo
  BY DEF RInv, IInv, OneOwner, HoldsWhileBusy, Todo, Settle, Rollback, Waiting
<1>3. \/ \E st \in {"completed", "failed"} : status' = [status EXCEPT ![held[w]] = st]
      \/ stop /\ status' = [status EXCEPT ![held[w]] = "pending"]
      \/ IOFaults /\ UNCHANGED status
  BY DEF Settle, Rollback, RInv, CancelledCallsAreStopped, InFlight
<1>4. Moves(w)
  BY <1>1, <1>3 DEF Settle, Rollback, Moves, RInv, IInv, TypeOK, SubtaskStatus
<1>5. Todo' = Todo /\ Flight' = Flight \ {held[w]}
  BY <1>2, <1>4, MoveMaps DEF RInv
<1>6. Ledger!Settle(held[w])
  BY <1>1, <1>3, <1>5 DEF Ledger!Settle, Ledger!Write
<1>7. QED
  BY <1>1, <1>6 DEF Maps, Ledger!Next

LEMMA WorkerMaps ==
    ASSUME RInv, NEW w \in Workers, WorkerStep(w)
    PROVE  Maps
<1>1. CASE Begin(w) \/ SwallowCancel(w) \/ LeaveGate(w)
  BY <1>1, DropMaps DEF Begin, SwallowCancel, LeaveGate, Waiting
<1>2. CASE PassThrottle(w) \/ RoutePrepared(w)
  <2>1. pc[w] \in Waiting /\ UNCHANGED <<record, driver, signals, pauseObserved, handlers>>
    BY <1>2 DEF PassThrottle, RoutePrepared, Waiting
  <2>2. CASE NextItem(w) /\ UNCHANGED <<status, attempts, active>>
    BY <2>1, <2>2, DropMaps DEF disk
  <2>3. CASE ~stop /\ Launch(w)
    BY <2>1, <2>3, SendMaps
  <2>4. CASE /\ pc[w] = "throttle" /\ pc' = [pc EXCEPT ![w] = "prepare"]
             /\ UNCHANGED <<status, attempts, queue, held>>
    <3>1. \A v \in Workers : /\ pc'[v] \in Waiting <=> pc[v] \in Waiting
                             /\ pc'[v] = "inflight" <=> pc[v] = "inflight"
      BY <2>4 DEF RInv, IInv, TypeOK, Waiting
    <3>2. Todo' = Todo /\ Flight' = Flight
      BY <2>4, <3>1 DEF Todo, Flight, InFlight
    <3>3. QED
      BY <2>1, <2>4, <3>2, StutterMaps DEF disk, driver, signals, Driving
  <2>5. QED
    BY <1>2, <2>2, <2>3, <2>4 DEF PassThrottle, RoutePrepared
<1>3. QED
  BY <1>1, <1>2, SettleMaps DEF WorkerStep

LEMMA HandlerMaps ==
    ASSUME RInv, HandlerStep
    PROVE  Maps
<1>1. /\ UNCHANGED <<status, attempts, driver, signals, queue, pc, held>>
      /\ Driving /\ Driving' /\ stop' = stop
  BY DEF HandlerStep, StopWakes, StopDrained, PauseWakes, PausePolls, StopHandlerRuns,
         PauseHandlerRuns, Driving, disk, driver, signals
<1>2. Todo' = Todo /\ Flight' = Flight
  BY <1>1, CancelAllKeeps DEF RInv
<1>3. \/ UNCHANGED record
      \/ stop /\ record' = "STOPPING"
      \/ ~stop /\ record' = "PAUSING"
      \/ ~stop /\ active = 0 /\ record' = "PAUSED"
  BY DEF HandlerStep, StopWakes, StopDrained, PauseWakes, PausePolls, MarkPaused, disk
<1>4. CASE UNCHANGED record
  BY <1>1, <1>2, <1>4, StutterMaps DEF disk
<1>5. CASE record' # record
  <2>1. Ledger!Announce
    BY <1>1, <1>2, <1>3, <1>5, QuietWhenInactive DEF Ledger!Announce, RInv
  <2>2. QED
    BY <2>1 DEF Maps, Ledger!Next
<1>6. QED
  BY <1>4, <1>5

\* run() has come to its end: no worker is left, the pause handler is done
LEMMA ReturnMaps ==
    ASSUME RInv, Return
    PROVE  Maps
<1>1. /\ Driving /\ Driving' = FALSE /\ UNCHANGED <<attempts, stop>>
      /\ \A w \in Workers : pc[w] = "off" /\ pc'[w] = "off"
      /\ queue' = {}
  BY DEF Return, RInv, IInv, WorkersOnlyWhileDriving, Driving, signals
<1>2. Todo' = {} /\ Flight' = {} /\ Flight = {}
  BY <1>1 DEF Todo, Flight, InFlight, Waiting
<1>3. CASE stop
  BY <1>1, <1>2, <1>3
     DEF Return, Finalize, FinalStatus, FinalRecord, Maps, Ledger!Next, Ledger!Close
<1>4. CASE ~stop /\ pauseObserved
  <2>1. record = "PAUSED"
    BY <1>1, <1>4 DEF RInv, ObservedIsPaused
  <2>2. QED
    BY <1>1, <1>2, <1>4, <2>1
       DEF Return, Finalize, FinalStatus, FinalRecord, Maps, Ledger!Next, Ledger!Close
<1>5. CASE ~stop /\ ~pauseObserved
  <2>1. /\ status' = Ledger!Reset(status, "pending", "failed")
        /\ record' = FinalRecord(status', FALSE, FALSE)
    BY <1>5 DEF Return, Finalize, FinalStatus, Reset, Ledger!Reset, RInv, IInv, TypeOK
  <2>2. Ledger!Verdict(status', record')
    <3>1. status' \in [Subtasks -> SubtaskStatus]
      BY FinalStatusType DEF Return, Finalize, RInv, IInv, TypeOK
    <3>2. QED
      BY <2>1, <3>1, VerdictMaps
  <2>3. QED
    BY <1>1, <1>2, <1>5, <2>1, <2>2 DEF Maps, Ledger!Next, Ledger!Close
<1>6. QED
  BY <1>3, <1>4, <1>5 DEF RInv, IInv, TypeOK

LEMMA DriverMaps ==
    ASSUME RInv, DriverStep
    PROVE  Maps
<1>1. CASE Gather \/ GatherDone \/ StopJoined
  <2>1. Driving' = Driving /\ UNCHANGED <<disk, stop, workers>>
    BY <1>1 DEF Gather, GatherDone, StopJoined, Driving, signals
  <2>2. QED
    BY <2>1, WorkersRest, StutterMaps
<1>2. QED
  BY <1>1, ReturnMaps DEF DriverStep

LEMMA RunMaps ==
    ASSUME RInv, NEW st, st \in {status, Ledger!Reset(status, "failed", "pending")},
           RunFrom(st)
    PROVE  Maps
<1>1. /\ phase = "idle" /\ ~Driving /\ Flight = {} /\ Todo = {}
      /\ \A w \in Workers : pc[w] = "off"
  BY DEF RunFrom, RInv, IInv, WorkersOnlyWhileDriving, Driving, Flight, InFlight, Todo,
         Waiting
<1>2. st \in [Subtasks -> SubtaskStatus]
  BY DEF Ledger!Reset, RInv, IInv, TypeOK, SubtaskStatus
<1>3. CASE ReturnAtOnce(st) /\ (With(st, {"pending"}) = {} \/ StopAtEntry)
  <2>1. Driving' = Driving /\ UNCHANGED <<attempts, workers>> /\ (stop' => stop)
    BY <1>1, <1>3 DEF ReturnAtOnce, Driving, StopAtEntry
  <2>2. Todo' = Todo /\ Flight' = Flight
    BY <2>1, WorkersRest
  <2>3. status' = st
    BY <1>2, <1>3 DEF ReturnAtOnce, Finalize, FinalStatus, Reset, With
  <2>4. (stop /\ record' = "STOPPED") \/ Ledger!Verdict(st, record')
    <3>1. CASE StopAtEntry /\ With(st, {"pending"}) # {}
      BY <1>3, <3>1 DEF ReturnAtOnce, Finalize, FinalRecord, StopAtEntry
    <3>2. CASE ~(StopAtEntry /\ With(st, {"pending"}) # {})
      <4>1. record' = FinalRecord(st, FALSE, FALSE)
        BY <1>3, <2>3, <3>2 DEF ReturnAtOnce, Finalize
      <4>2. QED
        BY <1>2, <4>1, VerdictMaps
    <3>3. QED
      BY <3>1, <3>2
  <2>5. Ledger!Skip(st)
    BY <1>1, <2>1, <2>2, <2>3, <2>4 DEF Ledger!Skip
  <2>6. QED
    BY <2>5 DEF Maps, Ledger!Next, Ledger!Start
<1>4. CASE StartWorkers(st) /\ With(st, {"pending"}) # {}
  <2>1. PICK started \in SUBSET Workers :
          pc' = [w \in Workers |-> IF w \in started THEN "ready" ELSE "off"]
    BY <1>4 DEF StartWorkers
  <2>2. Flight' = {} /\ Todo' = With(st, {"pending"})
    BY <1>4, <2>1 DEF StartWorkers, Flight, InFlight, Todo, Waiting
  <2>3. /\ Driving' /\ attempts' = attempts /\ stop' = FALSE
        /\ status' = st /\ record' = "RUNNING"
    BY <1>4 DEF StartWorkers, Driving
  <2>4. Ledger!Open(st)
    BY <1>1, <1>4, <2>2, <2>3 DEF Ledger!Open, With
  <2>5. QED
    BY <2>4 DEF Maps, Ledger!Next, Ledger!Start
<1>5. QED
  BY <1>3, <1>4 DEF RunFrom

LEMMA UserMaps ==
    ASSUME RInv, UserStep
    PROVE  Maps
<1>1. CASE Run
  BY <1>1, RunMaps DEF Run
<1>2. CASE RerunFailed
  BY <1>2, RunMaps DEF RerunFailed, Reset, Ledger!Reset
<1>3. CASE NewExecutor \/ RequestStop \/ RequestPause
  <2>1. /\ UNCHANGED <<status, attempts, record, workers>> /\ Driving' = Driving
        /\ stop' \in BOOLEAN /\ (Driving => stop' = TRUE \/ stop' = stop)
    BY <1>3 DEF NewExecutor, RequestStop, RequestPause, disk, driver, Driving, RInv, IInv,
          TypeOK
  <2>2. Todo' = Todo /\ Flight' = Flight
    BY <2>1, WorkersRest
  <2>3. CASE stop' = stop
    BY <2>1, <2>2, <2>3, StutterMaps DEF disk
  <2>4. CASE stop' # stop
    BY <2>1, <2>2, <2>4 DEF Maps, Ledger!Next, Ledger!Signal
  <2>5. QED
    BY <2>3, <2>4
<1>4. QED
  BY <1>1, <1>2, <1>3 DEF UserStep

LEMMA CrashMaps ==
    ASSUME RInv, Crash \/ Reconcile
    PROVE  Maps
<1>1. CASE Crash
  <2>1. Todo' = {} /\ Flight' = {} /\ Driving /\ ~Driving'
    BY <1>1 DEF Crash, Todo, Flight, InFlight, Waiting, Driving
  <2>2. Ledger!Die
    BY <1>1, <2>1 DEF Ledger!Die, Crash, disk
  <2>3. QED
    BY <2>2 DEF Maps, Ledger!Next
<1>2. CASE Reconcile
  <2>1. Todo' = Todo /\ Flight' = Flight /\ ~Driving /\ Driving' = Driving
    BY <1>2, WorkersRest DEF Reconcile, Driving
  <2>2. Ledger!Heal
    BY <1>2, <2>1 DEF Ledger!Heal, Ledger!Reset, Reconcile, Reset, signals
  <2>3. QED
    BY <2>2 DEF Maps, Ledger!Next
<1>3. QED
  BY <1>1, <1>2

LEMMA NextMaps == RInv /\ [Next]_vars => [Ledger!Next]_(Ledger!lvars)
<1> SUFFICES ASSUME RInv, [Next]_vars PROVE Maps
  BY DEF Maps
<1>1. CASE UNCHANGED vars
  <2>1. UNCHANGED <<disk, stop, workers>> /\ Driving' = Driving
    BY <1>1 DEF vars, signals, driver, Driving
  <2>2. QED
    BY <2>1, WorkersRest, StutterMaps
<1>2. QED
  BY <1>1, WorkerMaps, HandlerMaps, DriverMaps, UserMaps, CrashMaps DEF Next

LEMMA InitMaps == Init => RInv /\ Ledger!Init
<1> SUFFICES ASSUME Init PROVE RInv /\ Ledger!Init
  OBVIOUS
<1>1. ~Driving /\ InFlight = {} /\ Flight = {} /\ Todo = {}
  BY DEF Init, Driving, InFlight, Flight, Todo, Waiting
<1>2. RInv
  BY <1>1, InitIInv
     DEF RInv, ObservedIsPaused, CancelledCallsAreStopped, DrainingIsStopped
<1>3. QED
  BY <1>1, <1>2 DEF Init, Ledger!Init

(* run() keeps the cache contract of RunLedger for any number of workers:  *)
(* each subtask of a run is sent at most once, settled or rolled back      *)
(* before the run closes, never sent after a stop, and PAUSED is written   *)
(* only when nothing is out.                                               *)
THEOREM ExecutorImplementsLedger == Spec => ImplementsLedger
<1>1. Init => RInv /\ Ledger!Init
  BY InitMaps
<1>2. RInv /\ [Next]_vars => RInv'
  BY RInvStep
<1>3. RInv /\ [Next]_vars => [Ledger!Next]_(Ledger!lvars)
  BY NextMaps
<1>4. QED
  BY <1>1, <1>2, <1>3, PTL DEF Spec, ImplementsLedger, Ledger!LedgerSpec
=============================================================================
