------------------------------ MODULE Executor ------------------------------
(***************************************************************************)
(* transoria/runtime/executor.py: one TaskExecutor running the subtasks of *)
(* one task on one asyncio loop.                                           *)
(*                                                                         *)
(* The code between two awaits is one step.  The actors are the worker     *)
(* coroutines (_worker_loop), the two control coroutines (_handle_stop,    *)
(* _handle_pause), the driver (run/_drive) and the callbacks that          *)
(* request_stop and request_pause post on the loop from another thread.    *)
(* `status', `attempts' and `record' are the JSON files of the task cache  *)
(* and survive a crash; everything else dies with the process.             *)
(***************************************************************************)
EXTENDS Naturals, FiniteSets

CONSTANTS
    Subtasks,     \* ids of the task's subtasks
    Workers,      \* worker coroutines: concurrency_limit many
    NoSubtask,    \* what an idle worker holds
    Routed,       \* the runner has a prepare() (RoutedTranslationRunner)
    DrainOnStop,  \* stop_drain_seconds > 0 (production) or = 0 (tests)
    IOFaults,     \* cache reads and writes of a worker may raise
    MaxRuns       \* bound: calls of run() that start workers

ASSUME ConstantsAssumption ==
    /\ Workers # {} /\ IsFiniteSet(Workers)
    /\ Subtasks # {} /\ IsFiniteSet(Subtasks) /\ NoSubtask \notin Subtasks
    /\ Routed \in BOOLEAN /\ DrainOnStop \in BOOLEAN /\ IOFaults \in BOOLEAN
    /\ MaxRuns \in Nat

VARIABLES
    status,         \* subtask files: SubtaskStatus
    attempts,       \* subtask files: attempt_count
    record,         \* task.json: TaskStatus
    phase,          \* where run() is
    runs,           \* how many times run() started workers (bounded by MaxRuns)
    runReturned,    \* _run_returned
    stop,           \* _stop_event
    pauseRequest,   \* _pause_request
    gateOpen,       \* _pause_gate
    active,         \* _active_runners
    pauseObserved,  \* _pause_observed
    queue,          \* work_queue of _drive
    pc,             \* the await each worker is suspended at
    held,           \* the subtask a worker took from the queue
    cancelled,      \* worker.cancel() was called, CancelledError not yet thrown
    stopHandler,    \* the _handle_stop coroutine
    pauseHandler    \* the _handle_pause coroutine

disk     == <<status, attempts, record>>
signals  == <<stop, pauseRequest, gateOpen>>
workers  == <<queue, pc, held, cancelled>>
handlers == <<stopHandler, pauseHandler>>
driver   == <<phase, runs, runReturned>>
vars     == <<disk, driver, signals, active, pauseObserved, workers, handlers>>

SubtaskStatus == {"pending", "running", "completed", "failed"}
Transient     == {"PENDING", "RUNNING", "STOPPING", "PAUSING"}
TaskStatus    == Transient \cup {"STOPPED", "PAUSED", "COMPLETED", "FAILED"}

\* run() is between its first await and its return
Driving == phase \in {"driving", "gathered", "joinStop", "joinPause"}
\* awaits of _execute_one before the subtask is written RUNNING
Waiting == {"gate", "throttle", "prepare"}

With(st, which)     == {s \in Subtasks : st[s] \in which}
Reset(st, from, to) == [s \in Subtasks |-> IF st[s] = from THEN to ELSE st[s]]
Pending             == With(status, {"pending"})

Init ==
    /\ status = [s \in Subtasks |-> "pending"]
    /\ attempts = [s \in Subtasks |-> 0]
    /\ record = "PENDING"
    /\ phase = "idle" /\ runs = 0 /\ runReturned = FALSE
    /\ stop = FALSE /\ pauseRequest = FALSE /\ gateOpen = FALSE
    /\ active = 0 /\ pauseObserved = FALSE
    /\ queue = {}
    /\ pc = [w \in Workers |-> "off"]
    /\ held = [w \in Workers |-> NoSubtask]
    /\ cancelled = [w \in Workers |-> FALSE]
    /\ stopHandler = "done" /\ pauseHandler = "done"

-----------------------------------------------------------------------------
(* _finalize *)

FinalStatus(st, stopped, paused) ==
    IF stopped \/ paused THEN st ELSE Reset(st, "pending", "failed")

\* mutant: the failed subtasks are not counted
FinalRecordIgnoringFailures(st, stopped, paused) ==
    IF stopped THEN "STOPPED"
    ELSE IF paused THEN "PAUSED"
    ELSE IF With(st, {"pending"}) = {} THEN "COMPLETED" ELSE record

FinalRecord(st, stopped, paused) ==
    IF stopped THEN "STOPPED"
    ELSE IF paused THEN "PAUSED"
    ELSE IF With(st, {"pending", "running"}) # {} THEN record
    ELSE IF With(st, {"failed"}) # {} THEN "FAILED" ELSE "COMPLETED"

Finalize(st, stopped, paused) ==
    LET final == FinalStatus(st, stopped, paused)
    IN  /\ status' = final
        /\ record' = FinalRecord(final, stopped, paused)
        /\ runReturned' = TRUE

-----------------------------------------------------------------------------
(* run: up to its first await.  A stop event left over from a run that     *)
(* returned is replaced; one set before the first run is honoured.         *)

StopAtEntry == stop /\ ~runReturned

ReturnAtOnce(st) ==
    /\ Finalize(st, StopAtEntry /\ With(st, {"pending"}) # {}, FALSE)
    /\ stop' = StopAtEntry
    /\ UNCHANGED <<attempts, phase, runs, pauseRequest, gateOpen, active,
                   pauseObserved, workers, handlers>>

StartWorkers(st) ==
    LET todo == With(st, {"pending"})
    IN  /\ runs < MaxRuns
        /\ runs' = runs + 1
        /\ phase' = "driving" /\ runReturned' = FALSE
        /\ stop' = FALSE /\ pauseRequest' = FALSE /\ gateOpen' = TRUE
        /\ active' = 0 /\ pauseObserved' = FALSE
        /\ status' = st /\ record' = "RUNNING"
        /\ queue' = todo
        /\ \E started \in SUBSET Workers :
             /\ \/ started = Workers /\ Cardinality(Workers) <= Cardinality(todo)
                \/ Cardinality(started) = Cardinality(todo)
             /\ pc' = [w \in Workers |-> IF w \in started THEN "ready" ELSE "off"]
        /\ stopHandler' = "waiting" /\ pauseHandler' = "waiting"
        /\ UNCHANGED <<attempts, held, cancelled>>

RunFrom(st) ==
    /\ phase = "idle"
    /\ \/ (With(st, {"pending"}) = {} \/ StopAtEntry) /\ ReturnAtOnce(st)
       \/ With(st, {"pending"}) # {} /\ ~StopAtEntry /\ StartWorkers(st)

Run         == RunFrom(status)
\* mutant: every subtask is reset, not only the failed ones
RerunAll == RunFrom([s \in Subtasks |-> "pending"])

RerunFailed == With(status, {"failed"}) # {} /\ RunFrom(Reset(status, "failed", "pending"))

\* a workflow builds one executor for each start or continue
NewExecutor ==
    /\ phase = "idle" /\ (runReturned \/ stop \/ pauseRequest)
    /\ runReturned' = FALSE
    /\ stop' = FALSE /\ pauseRequest' = FALSE /\ gateOpen' = FALSE
    /\ UNCHANGED <<disk, phase, runs, active, pauseObserved, workers, handlers>>

(* request_stop and request_pause: the callback, when the loop runs it *)

RequestStop ==
    /\ phase # "crashed" /\ (~stop \/ ~gateOpen)
    /\ stop' = TRUE /\ gateOpen' = TRUE
    /\ UNCHANGED <<disk, driver, pauseRequest, active, pauseObserved, workers, handlers>>

RequestPause ==
    /\ phase # "crashed" /\ (~pauseRequest \/ gateOpen)
    /\ pauseRequest' = TRUE /\ gateOpen' = FALSE
    /\ UNCHANGED <<disk, driver, stop, active, pauseObserved, workers, handlers>>

-----------------------------------------------------------------------------
(* Workers *)

Leave(w) ==
    /\ pc' = [pc EXCEPT ![w] = "off"]
    /\ held' = [held EXCEPT ![w] = NoSubtask]
    /\ cancelled' = [cancelled EXCEPT ![w] = FALSE]
    /\ UNCHANGED queue

\* mutant: the item is looked at but not taken off the queue
PeekItem(w) ==
    \/ (stop \/ queue = {}) /\ Leave(w)
    \/ /\ ~stop
       /\ \E s \in queue : held' = [held EXCEPT ![w] = s]
       /\ pc' = [pc EXCEPT ![w] = IF gateOpen THEN "throttle" ELSE "gate"]
       /\ cancelled' = [cancelled EXCEPT ![w] = FALSE]
       /\ UNCHANGED queue

\* _execute_one returned (or never began): the rest of _worker_loop's
\* iteration and the next one up to an await, all one step of the loop
NextItem(w) ==
    \/ (stop \/ queue = {}) /\ Leave(w)
    \/ /\ ~stop
       /\ \E s \in queue :
            /\ queue' = queue \ {s}
            /\ held' = [held EXCEPT ![w] = s]
       /\ pc' = [pc EXCEPT ![w] = IF gateOpen THEN "throttle" ELSE "gate"]
       /\ cancelled' = [cancelled EXCEPT ![w] = FALSE]

\* the first step of a worker; asyncio takes it before the first step of
\* either handler, whose tasks are created later
Begin(w) ==
    /\ pc[w] = "ready"
    /\ NextItem(w)
    /\ UNCHANGED <<disk, driver, signals, active, pauseObserved, handlers>>

\* CancelledError at one of the awaits before the launch: `return'
SwallowCancel(w) ==
    /\ pc[w] \in Waiting /\ cancelled[w]
    /\ NextItem(w)
    /\ UNCHANGED <<disk, driver, signals, active, pauseObserved, handlers>>

LeaveGate(w) ==
    /\ pc[w] = "gate" /\ ~cancelled[w] /\ stop
    /\ NextItem(w)
    /\ UNCHANGED <<disk, driver, signals, active, pauseObserved, handlers>>

WriteRunning(w) ==
    /\ status' = [status EXCEPT ![held[w]] = "running"]
    /\ attempts' = [attempts EXCEPT ![held[w]] = @ + 1]

\* mutant: the counter goes up before the save that may raise
LaunchCountedEarly(w) ==
    /\ active' = active + 1
    /\ \/ /\ WriteRunning(w)
          /\ pc' = [pc EXCEPT ![w] = "inflight"]
          /\ UNCHANGED <<queue, held, cancelled>>
       \/ IOFaults /\ Leave(w) /\ UNCHANGED <<status, attempts>>

Launch(w) ==
    \/ /\ WriteRunning(w)
       /\ active' = active + 1
       /\ pc' = [pc EXCEPT ![w] = "inflight"]
       /\ UNCHANGED <<queue, held, cancelled>>
    \/ \* save_subtask raises
       IOFaults /\ Leave(w) /\ UNCHANGED <<status, attempts, active>>
    \/ \* _fire_progress raises after the save
       IOFaults /\ WriteRunning(w) /\ Leave(w) /\ UNCHANGED active

\* mutant: no look at the stop event after the throttle
PassThrottleUnchecked(w) ==
    /\ pc[w] = "throttle" /\ ~cancelled[w]
    /\ \/ /\ Routed /\ pc' = [pc EXCEPT ![w] = "prepare"]
          /\ UNCHANGED <<status, attempts, active, queue, held, cancelled>>
       \/ ~Routed /\ Launch(w)
    /\ UNCHANGED <<record, driver, signals, pauseObserved, handlers>>

\* limiter.acquire() and _pace_launch() let the worker through
PassThrottle(w) ==
    /\ pc[w] = "throttle" /\ ~cancelled[w]
    /\ \/ stop /\ NextItem(w) /\ UNCHANGED <<status, attempts, active>>
       \/ /\ ~stop /\ Routed
          /\ pc' = [pc EXCEPT ![w] = "prepare"]
          /\ UNCHANGED <<status, attempts, active, queue, held, cancelled>>
       \/ ~stop /\ ~Routed /\ Launch(w)
    /\ UNCHANGED <<record, driver, signals, pauseObserved, handlers>>

\* mutant: only the pause is looked at after prepare()
RoutePreparedUnchecked(w) ==
    /\ pc[w] = "prepare" /\ ~cancelled[w]
    /\ \/ pauseRequest /\ NextItem(w) /\ UNCHANGED <<status, attempts, active>>
       \/ ~pauseRequest /\ Launch(w)
    /\ UNCHANGED <<record, driver, signals, pauseObserved, handlers>>

\* runner.prepare() returned a route
RoutePrepared(w) ==
    /\ pc[w] = "prepare" /\ ~cancelled[w]
    /\ \/ (stop \/ pauseRequest) /\ NextItem(w) /\ UNCHANGED <<status, attempts, active>>
       \/ ~stop /\ ~pauseRequest /\ Launch(w)
    /\ UNCHANGED <<record, driver, signals, pauseObserved, handlers>>

\* mutant: a failing runner takes its worker down
SettleOrDie(w) ==
    /\ pc[w] = "inflight" /\ ~cancelled[w]
    /\ active' = active - 1
    /\ \/ status' = [status EXCEPT ![held[w]] = "completed"] /\ NextItem(w)
       \/ status' = [status EXCEPT ![held[w]] = "failed"] /\ Leave(w)
    /\ UNCHANGED <<attempts, record, driver, signals, pauseObserved, handlers>>

\* runner.run() returned or raised an Exception
Settle(w) ==
    /\ pc[w] = "inflight" /\ ~cancelled[w]
    /\ active' = active - 1
    /\ \/ /\ \E result \in {"completed", "failed"} :
               status' = [status EXCEPT ![held[w]] = result]
          /\ NextItem(w) \/ (IOFaults /\ Leave(w))
       \/ IOFaults /\ Leave(w) /\ UNCHANGED status
    /\ UNCHANGED <<attempts, record, driver, signals, pauseObserved, handlers>>

\* mutant: no save on the cancelled path
RollbackUnsaved(w) ==
    /\ pc[w] = "inflight" /\ (cancelled[w] \/ stop)
    /\ active' = active - 1
    /\ Leave(w)
    /\ UNCHANGED <<status, attempts, record, driver, signals, pauseObserved, handlers>>

\* mutant: the decrement is not in the finally clause
RollbackUncounted(w) ==
    /\ pc[w] = "inflight" /\ (cancelled[w] \/ stop)
    /\ Leave(w)
    /\ status' = [status EXCEPT ![held[w]] = "pending"]
    /\ UNCHANGED <<attempts, record, driver, signals, active, pauseObserved, handlers>>

\* mutant: decremented in the except clause and again in the finally clause
RollbackCountedTwice(w) ==
    /\ pc[w] = "inflight" /\ (cancelled[w] \/ stop)
    /\ active' = active - 2
    /\ Leave(w)
    /\ status' = [status EXCEPT ![held[w]] = "pending"]
    /\ UNCHANGED <<attempts, record, driver, signals, pauseObserved, handlers>>

\* CancelledError in runner.run(): from worker.cancel(), or raised by
\* check_request_stop() inside the runner once stop is set
Rollback(w) ==
    /\ pc[w] = "inflight" /\ (cancelled[w] \/ stop)
    /\ active' = active - 1
    /\ Leave(w)
    /\ \/ status' = [status EXCEPT ![held[w]] = "pending"]
       \/ IOFaults /\ UNCHANGED status
    /\ UNCHANGED <<attempts, record, driver, signals, pauseObserved, handlers>>

WorkerStep(w) ==
    \/ Begin(w) \/ SwallowCancel(w) \/ LeaveGate(w)
    \/ PassThrottle(w) \/ RoutePrepared(w)
    \/ Settle(w) \/ Rollback(w)

-----------------------------------------------------------------------------
(* _handle_stop and _handle_pause *)

StopHandlerRuns  == phase \in {"driving", "gathered"}
PauseHandlerRuns == phase \in {"driving", "gathered", "joinStop"}
HandlersStarted  == \A w \in Workers : pc[w] # "ready"

CancelAll == cancelled' = [w \in Workers |-> pc[w] # "off"]

StopWakes ==
    /\ StopHandlerRuns /\ HandlersStarted
    /\ stopHandler = "waiting" /\ stop
    /\ record' = "STOPPING"
    /\ IF active > 0 /\ DrainOnStop
       THEN stopHandler' = "draining" /\ UNCHANGED cancelled
       ELSE stopHandler' = "done" /\ CancelAll
    /\ UNCHANGED <<status, attempts, driver, signals, active, pauseObserved,
                   queue, pc, held, pauseHandler>>

\* mutant: no deadline
StopDrainedWithoutDeadline ==
    /\ StopHandlerRuns /\ stopHandler = "draining" /\ active = 0
    /\ stopHandler' = "done" /\ CancelAll
    /\ UNCHANGED <<disk, driver, signals, active, pauseObserved,
                   queue, pc, held, pauseHandler>>

\* the 50 ms poll sees no runner active, or the deadline has passed
StopDrained ==
    /\ StopHandlerRuns /\ stopHandler = "draining"
    /\ stopHandler' = "done" /\ CancelAll
    /\ UNCHANGED <<disk, driver, signals, active, pauseObserved,
                   queue, pc, held, pauseHandler>>

MarkPaused ==
    /\ record' = "PAUSED" /\ pauseObserved' = TRUE
    /\ pauseHandler' = "done" /\ CancelAll

\* mutant: the calls in flight are not waited for
PauseWakesAtOnce ==
    /\ PauseHandlerRuns /\ HandlersStarted
    /\ pauseHandler = "waiting" /\ pauseRequest /\ ~stop /\ MarkPaused
    /\ UNCHANGED <<status, attempts, driver, signals, active, queue, pc, held, stopHandler>>

PauseWakes ==
    /\ PauseHandlerRuns /\ HandlersStarted
    /\ pauseHandler = "waiting" /\ pauseRequest
    /\ \/ /\ stop
          /\ pauseHandler' = "done" /\ UNCHANGED <<record, pauseObserved, cancelled>>
       \/ /\ ~stop /\ active > 0
          /\ record' = "PAUSING" /\ pauseHandler' = "settling"
          /\ UNCHANGED <<pauseObserved, cancelled>>
       \/ ~stop /\ active = 0 /\ MarkPaused
    /\ UNCHANGED <<status, attempts, driver, signals, active, queue, pc, held, stopHandler>>

PausePolls ==
    /\ PauseHandlerRuns /\ pauseHandler = "settling"
    /\ \/ /\ stop
          /\ pauseHandler' = "done" /\ UNCHANGED <<record, pauseObserved, cancelled>>
       \/ ~stop /\ active = 0 /\ MarkPaused
    /\ UNCHANGED <<status, attempts, driver, signals, active, queue, pc, held, stopHandler>>

-----------------------------------------------------------------------------
(* The rest of _drive and run *)

\* the last worker ended; gather needs one more pass of the loop, in which
\* a handler whose event was already set takes its first step
Gather ==
    /\ phase = "driving" /\ \A w \in Workers : pc[w] = "off"
    /\ ~(stop /\ stopHandler = "waiting")
    /\ ~(pauseRequest /\ pauseHandler = "waiting")
    /\ phase' = "gathered"
    /\ UNCHANGED <<disk, runs, runReturned, signals, active, pauseObserved,
                   workers, handlers>>

\* mutant: the stop handler is awaited but not cancelled
GatherDoneAwaiting ==
    /\ phase = "gathered" /\ stopHandler = "done"
    /\ phase' = "joinStop"
    /\ UNCHANGED <<disk, runs, runReturned, signals, active, pauseObserved,
                   workers, handlers>>

\* gather returned; the stop handler is cancelled and awaited
GatherDone ==
    /\ phase = "gathered"
    /\ phase' = "joinStop" /\ stopHandler' = "done"
    /\ UNCHANGED <<disk, runs, runReturned, signals, active, pauseObserved,
                   workers, pauseHandler>>

\* then the pause handler
StopJoined ==
    /\ phase = "joinStop"
    /\ phase' = "joinPause" /\ pauseHandler' = "done"
    /\ UNCHANGED <<disk, runs, runReturned, signals, active, pauseObserved,
                   workers, stopHandler>>

Return ==
    /\ phase = "joinPause"
    /\ phase' = "idle" /\ queue' = {}
    /\ Finalize(status, stop, pauseObserved)
    /\ UNCHANGED <<attempts, runs, signals, active, pauseObserved,
                   pc, held, cancelled, handlers>>

(* The process dies; at the next start the first reader of the task heals  *)
(* it (bridge/task_service.py, _reconcile_zombie).                         *)

Crash ==
    /\ Driving
    /\ phase' = "crashed" /\ runReturned' = FALSE
    /\ stop' = FALSE /\ pauseRequest' = FALSE /\ gateOpen' = FALSE
    /\ active' = 0 /\ pauseObserved' = FALSE /\ queue' = {}
    /\ pc' = [w \in Workers |-> "off"]
    /\ held' = [w \in Workers |-> NoSubtask]
    /\ cancelled' = [w \in Workers |-> FALSE]
    /\ stopHandler' = "done" /\ pauseHandler' = "done"
    /\ UNCHANGED <<disk, runs>>

\* mutant: only the task record is healed
ReconcileRecord ==
    /\ phase = "crashed"
    /\ phase' = "idle"
    /\ record' = IF record \in Transient THEN "STOPPED" ELSE record
    /\ UNCHANGED <<status, attempts, runs, runReturned, signals, active,
                   pauseObserved, workers, handlers>>

Reconcile ==
    /\ phase = "crashed"
    /\ phase' = "idle"
    /\ record' = IF record \in Transient THEN "STOPPED" ELSE record
    /\ status' = Reset(status, "running", "pending")
    /\ UNCHANGED <<attempts, runs, runReturned, signals, active, pauseObserved,
                   workers, handlers>>

DriverStep  == Gather \/ GatherDone \/ StopJoined \/ Return
HandlerStep == StopWakes \/ StopDrained \/ PauseWakes \/ PausePolls
UserStep    == Run \/ RerunFailed \/ NewExecutor \/ RequestStop \/ RequestPause

Next ==
    \/ UserStep \/ DriverStep \/ HandlerStep
    \/ \E w \in Workers : WorkerStep(w)
    \/ Crash \/ Reconcile

(* The loop runs every ready coroutine.  A provider call ends because the  *)
(* client bounds requests and retries: CallFairness, assumed only where    *)
(* said.  Nobody has to press a button. *)
LoopFairness ==
    /\ \A w \in Workers :
        /\ WF_vars(Begin(w) \/ SwallowCancel(w) \/ LeaveGate(w)
                      \/ PassThrottle(w) \/ RoutePrepared(w))
        /\ WF_vars(cancelled[w] /\ Rollback(w))
    /\ WF_vars(StopWakes \/ StopDrained) /\ WF_vars(PauseWakes \/ PausePolls)
    /\ WF_vars(DriverStep)

CallFairness == \A w \in Workers : WF_vars(Settle(w) \/ Rollback(w))

Spec     == Init /\ [][Next]_vars
LoopSpec == Spec /\ LoopFairness
FairSpec == LoopSpec /\ CallFairness

-----------------------------------------------------------------------------
(* Type invariant: every variable of the executor has the values its field *)
(* can take. *)
TypeOK ==
    /\ status \in [Subtasks -> SubtaskStatus]
    /\ attempts \in [Subtasks -> Nat]
    /\ record \in TaskStatus
    /\ phase \in {"idle", "driving", "gathered", "joinStop", "joinPause", "crashed"}
    /\ runs \in Nat /\ runReturned \in BOOLEAN
    /\ stop \in BOOLEAN /\ pauseRequest \in BOOLEAN /\ gateOpen \in BOOLEAN
    /\ active \in Nat /\ pauseObserved \in BOOLEAN
    /\ queue \in SUBSET Subtasks
    /\ pc \in [Workers -> {"off", "ready", "inflight"} \cup Waiting]
    /\ held \in [Workers -> Subtasks \cup {NoSubtask}]
    /\ cancelled \in [Workers -> BOOLEAN]
    /\ stopHandler \in {"waiting", "draining", "done"}
    /\ pauseHandler \in {"waiting", "settling", "done"}

InFlight == {w \in Workers : pc[w] = "inflight"}

(* _active_runners counts the workers inside runner.run(), through every   *)
(* exception and cancellation: both handlers poll it to decide that no     *)
(* paid call is in flight any more. *)
ActiveCountsInFlight == active = Cardinality(InFlight)

(* A subtask is in one place: no two workers hold it, and none holds what  *)
(* the queue still has.  Otherwise the same chunk is paid for twice. *)
OneOwner ==
    /\ \A v, w \in Workers : v # w /\ held[v] # NoSubtask => held[v] # held[w]
    /\ \A w \in Workers : held[w] \notin queue

(* Each run sends a subtask to the provider at most once, over crashes and *)
(* reruns as well. *)
OncePerRun == \A s \in Subtasks : attempts[s] <= runs

(* RUNNING in the cache means a worker is in its call, unless a crash or a *)
(* failed write came in between: a reader never sees a phantom call. *)
RunningIsInFlight ==
    ~IOFaults /\ phase # "crashed" =>
        \A s \in Subtasks : status[s] = "running" => \E w \in InFlight : held[w] = s

(* The bookkeeping of the calls holds together: counter, owners, attempts  *)
(* and RUNNING files all tell of the same calls in flight.                 *)
CallsAreAccounted ==
    TypeOK /\ ActiveCountsInFlight /\ OneOwner /\ OncePerRun /\ RunningIsInFlight

(* PAUSED is written only once the calls have settled, and nothing is sent *)
(* afterwards although workers are still being cancelled. *)
PausedIsQuiet == Driving /\ record = "PAUSED" => InFlight = {}

(* What a returned run wrote agrees with the subtasks: COMPLETED when all  *)
(* are, FAILED only when nothing is left to run, never a transient status, *)
(* unless a failed write left a subtask RUNNING. *)
VerdictIsTrue ==
    phase = "idle" /\ runReturned =>
        /\ record = "COMPLETED" => With(status, {"completed"}) = Subtasks
        /\ record = "FAILED" => /\ With(status, {"pending", "running"}) = {}
                                /\ With(status, {"failed"}) # {}
        /\ record \in Transient => IOFaults /\ With(status, {"running"}) # {}

(* Only a control signal or a dead worker leaves work behind: when every   *)
(* worker has ended with neither, no subtask is pending any more, so       *)
(* _finalize has nothing to declare dangling. *)
NothingLeftBehind ==
    /\ phase \in {"gathered", "joinStop", "joinPause"}
    /\ ~stop /\ ~pauseRequest /\ ~IOFaults
    => Pending = {}

(* What run() writes at its end is the state of the subtasks, and nothing  *)
(* is left over that nobody asked to leave.                                *)
RunsAreSettled == VerdictIsTrue /\ NothingLeftBehind

(* "No new LLM call fires after this point": after the stop event every    *)
(* await before the launch is followed by a check. *)
NoLaunchAfterStop ==
    [][stop /\ phase' # "crashed" =>
         \A s \in Subtasks : attempts'[s] = attempts[s]]_vars

(* A completed subtask keeps its result whatever is stopped, paused, rerun *)
(* or crashes later: paid output is not thrown away. *)
CompletedIsKept ==
    [][\A s \in Subtasks : status[s] = "completed" => status'[s] = "completed"]_vars

(* Liveness.  Stop ends the run from any state: with a provider call that  *)
(* never returns, and with workers a pause has left at the gate. *)
StopReturns == (Driving /\ stop) ~> ~Driving

(* Without a pause every run ends by itself, if its provider calls end. *)
RunReturns == CallFairness => (Driving ~> (~Driving \/ pauseRequest))

(* _handle_pause: "Cancel workers still queued at the pause gate so the    *)
(* gather can complete and run() returns." *)
PauseReturns == (Driving /\ pauseRequest) ~> ~Driving

(* The cache contract of module RunLedger, with what a run has still to    *)
(* send and what is out at the provider. *)
Todo   == queue \cup {held[w] : w \in {v \in Workers : pc[v] \in Waiting}}
Flight == {held[w] : w \in InFlight}

Ledger == INSTANCE RunLedger WITH
    Faulty <- IOFaults, open <- Driving, todo <- Todo, flight <- Flight

ImplementsLedger == Ledger!LedgerSpec
=============================================================================
