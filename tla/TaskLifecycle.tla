--------------------------- MODULE TaskLifecycle ---------------------------
(***************************************************************************)
(* bridge/task_service.py and bridge/task_registry.py: one task, the       *)
(* threads that run it one after the other, and the HTTP calls that start, *)
(* poll, stop, pause and continue it.                                      *)
(*                                                                         *)
(* Three kinds of thread share the task's record on disk and the registry  *)
(* without a common lock: the HTTP bridge (one call at a time, http_server *)
(* serialises them), a thread per start or continue, and the thread that   *)
(* resumes a task after the user selected another model or prompt.  A step *)
(* is what one thread does between two places where another can see or     *)
(* change what it uses: a read or a write of the record, or a look at the  *)
(* registry.  The executor is the one of module Executor, reduced to what  *)
(* it writes in the record and whether a paid call is out.                 *)
(***************************************************************************)
EXTENDS Naturals, FiniteSets

CONSTANTS
    Threads,       \* task threads: one is used up by each start and continue
    NoThread,
    Translation,   \* a translation: more rounds after a failed one; else a glossary
    TaskErrors,    \* a task thread may raise
    Stalls,        \* a live thread may go without a heartbeat past the limit
    Switches,      \* the user may select another model or prompt
    MaxRounds      \* bound: executor rounds of a thread after the first

ASSUME ConstantsAssumption ==
    /\ Threads # {} /\ IsFiniteSet(Threads) /\ NoThread \notin Threads
    /\ Translation \in BOOLEAN /\ TaskErrors \in BOOLEAN
    /\ Stalls \in BOOLEAN /\ Switches \in BOOLEAN
    /\ MaxRounds \in Nat

VARIABLES
    status,      \* task.json: TaskStatus, or "none" before the first start
    work,        \* subtask files: some to do, none to do but some failed, all done
    seeded,      \* the subtask files exist
    entry,       \* TaskRegistry: the RunningTask of this task id
    done,        \* RunningTask._done
    stopFlag,    \* RunningTask._stop_flag
    pc,          \* where each task thread is
    executor,    \* its TaskExecutor: none, made, or running on a loop
    stopSig,     \* the stop signal: no, posted on the loop, set
    pauseSig,    \* the pause signal, likewise
    sending,     \* calls are out at the provider
    verdict,     \* the status in the snapshot run() returned
    round,       \* rounds after the first (bounded by MaxRounds)
    op, at, snap,               \* the HTTP call: which, where, what it loaded
    switch, switched, pending   \* the resuming thread: where it is, the thread
                                \* it joins, _selection_switch_pending

disk     == <<status, work, seeded>>
registry == <<entry, done, stopFlag>>
threads  == <<pc, executor, stopSig, pauseSig, sending, verdict, round>>
http     == <<op, at, snap>>
resume   == <<switch, switched, pending>>
vars     == <<disk, registry, threads, http, resume>>

Zombie   == {"PENDING", "RUNNING", "STOPPING", "PAUSING"}
Terminal == {"COMPLETED", "FAILED", "STOPPED"}
TaskStatus == Zombie \cup Terminal \cup {"PAUSED"}

\* places at which the thread's coroutine awaits: posted signals arrive here
Awaiting  == {"drive", "draining", "pausing", "paused"}
Executing == {"begin", "make", "enter"} \cup Awaiting
Alive(t)  == pc[t] \notin {"unborn", "ended"}

Init ==
    /\ status = "none" /\ work = "todo" /\ seeded = FALSE
    /\ entry = NoThread
    /\ done = [t \in Threads |-> FALSE] /\ stopFlag = [t \in Threads |-> FALSE]
    /\ pc = [t \in Threads |-> "unborn"]
    /\ executor = [t \in Threads |-> "none"]
    /\ stopSig = [t \in Threads |-> "no"] /\ pauseSig = [t \in Threads |-> "no"]
    /\ sending = [t \in Threads |-> FALSE]
    /\ verdict = [t \in Threads |-> "none"] /\ round = [t \in Threads |-> 0]
    /\ op = "none" /\ at = "free" /\ snap = "none"
    /\ switch = "idle" /\ switched = NoThread /\ pending = FALSE

Goes(t, where) == pc' = [pc EXCEPT ![t] = where]

\* nothing reads the variables of a thread that has ended
Forget(which) ==
    /\ executor' = [t \in Threads |-> IF t \in which THEN "none" ELSE executor[t]]
    /\ stopSig' = [t \in Threads |-> IF t \in which THEN "no" ELSE stopSig[t]]
    /\ pauseSig' = [t \in Threads |-> IF t \in which THEN "no" ELSE pauseSig[t]]
    /\ sending' = [t \in Threads |-> t \notin which /\ sending[t]]
    /\ verdict' = [t \in Threads |-> IF t \in which THEN "none" ELSE verdict[t]]
    /\ round' = [t \in Threads |-> IF t \in which THEN 0 ELSE round[t]]

-----------------------------------------------------------------------------
(* The task thread: _translation_thread / _glossary_thread and the         *)
(* orchestrator's run.                                                     *)

\* parse the book, then seed its subtasks or reset those to be tried again
Prepare(t) ==
    /\ pc[t] = "begin" /\ Goes(t, "make")
    /\ \/ ~seeded /\ seeded' = TRUE /\ status' = "PENDING" /\ UNCHANGED work
       \/ /\ seeded /\ UNCHANGED <<seeded, status>>
          /\ \/ work # "failed" /\ UNCHANGED work
             \/ work = "failed" /\ work' = "todo"
             \/ \* segments left in the source language are sent again
                Translation /\ work = "done" /\ work' = "todo"
    /\ UNCHANGED <<registry, executor, stopSig, pauseSig, sending, verdict, round, http, resume>>

\* mutant: a stop that came before the executor is forgotten
MakeExecutorForgettingStop(t) ==
    /\ pc[t] = "make" /\ Goes(t, "enter")
    /\ executor' = [executor EXCEPT ![t] = "made"]
    /\ UNCHANGED <<disk, registry, stopSig, pauseSig, sending, verdict, round, http, resume>>

\* set_executor
MakeExecutor(t) ==
    /\ pc[t] = "make" /\ Goes(t, "enter")
    /\ executor' = [executor EXCEPT ![t] = "made"]
    /\ stopSig' = IF stopFlag[t] THEN [stopSig EXCEPT ![t] = "set"] ELSE stopSig
    /\ UNCHANGED <<disk, registry, pauseSig, sending, verdict, round, http, resume>>

\* _finalize, and run() returns
Returns(t, st) ==
    /\ status' = st /\ verdict' = [verdict EXCEPT ![t] = st]
    /\ Goes(t, "between")

\* mutant: failed subtasks are not counted
OutcomeOfFailed == "COMPLETED"

\* mutant: the status of a subtask, not of a task
OutcomeOfSubtasks == IF work = "failed" THEN "FAILED" ELSE "SKIPPED"

Outcome == IF work = "failed" THEN "FAILED" ELSE "COMPLETED"

\* executor.run up to its first await; a pause set before is dropped
Enter(t) ==
    /\ pc[t] = "enter"
    /\ executor' = [executor EXCEPT ![t] = "looped"]
    /\ \/ work # "todo" /\ Returns(t, Outcome) /\ UNCHANGED pauseSig
       \/ work = "todo" /\ stopSig[t] = "set" /\ Returns(t, "STOPPED") /\ UNCHANGED pauseSig
       \/ /\ work = "todo" /\ stopSig[t] # "set"
          /\ status' = "RUNNING" /\ Goes(t, "drive")
          /\ pauseSig' = [pauseSig EXCEPT ![t] = IF @ = "set" THEN "no" ELSE @]
          /\ UNCHANGED verdict
    /\ UNCHANGED <<work, seeded, registry, stopSig, sending, round, http, resume>>

\* the loop runs a callback that request_stop or request_pause has posted
Deliver(t) ==
    /\ pc[t] \in Awaiting
    /\ \/ /\ stopSig[t] = "posted" /\ stopSig' = [stopSig EXCEPT ![t] = "set"]
          /\ UNCHANGED pauseSig
       \/ /\ pauseSig[t] = "posted" /\ pauseSig' = [pauseSig EXCEPT ![t] = "set"]
          /\ UNCHANGED stopSig
    /\ UNCHANGED <<disk, registry, pc, executor, sending, verdict, round, http, resume>>

Send(t) ==
    /\ pc[t] = "drive" /\ work = "todo" /\ ~sending[t]
    /\ stopSig[t] # "set" /\ pauseSig[t] # "set"
    /\ sending' = [sending EXCEPT ![t] = TRUE]
    /\ UNCHANGED <<disk, registry, pc, executor, stopSig, pauseSig, verdict, round, http, resume>>

Answer(t) ==
    /\ sending[t]
    /\ sending' = [sending EXCEPT ![t] = FALSE]
    /\ work' \in {work, "failed", "done"}
    /\ UNCHANGED <<status, seeded, registry, pc, executor, stopSig, pauseSig, verdict, round,
                   http, resume>>

\* every subtask has settled, or a pause that came late has dropped them
\* (with routes, _handle_pause of the executor can find its queue drained)
RunsOut(t) ==
    /\ pc[t] = "drive" /\ ~sending[t]
    /\ \/ /\ work # "todo" /\ UNCHANGED work
          /\ Returns(t, IF stopSig[t] = "set" THEN "STOPPED" ELSE Outcome)
       \/ /\ Translation /\ work = "todo" /\ pauseSig[t] = "set" /\ stopSig[t] # "set"
          /\ work' = "failed" /\ Returns(t, "FAILED")
    /\ UNCHANGED <<seeded, registry, executor, stopSig, pauseSig, sending, round, http, resume>>

\* mutant: STOPPED is written before the calls have ended
StoppedBeforeDrain(t) ==
    /\ pc[t] \in {"drive", "pausing", "paused"} /\ stopSig[t] = "set"
    /\ status' = "STOPPED" /\ Goes(t, "draining")
    /\ UNCHANGED <<work, seeded, registry, executor, stopSig, pauseSig, sending, verdict, round,
                   http, resume>>

\* _handle_stop
StopSeen(t) ==
    /\ pc[t] \in {"drive", "pausing", "paused"} /\ stopSig[t] = "set"
    /\ status' = "STOPPING" /\ Goes(t, "draining")
    /\ UNCHANGED <<work, seeded, registry, executor, stopSig, pauseSig, sending, verdict, round,
                   http, resume>>

\* mutant: the drain has no deadline
DrainedWithoutDeadline(t) ==
    /\ pc[t] = "draining" /\ ~sending[t] /\ Returns(t, "STOPPED")
    /\ UNCHANGED <<work, seeded, registry, executor, stopSig, pauseSig, sending, round, http, resume>>

\* the calls have ended, or the deadline has passed and they are cancelled
Drained(t) ==
    /\ pc[t] = "draining"
    /\ sending' = [sending EXCEPT ![t] = FALSE]
    /\ Returns(t, "STOPPED")
    /\ UNCHANGED <<work, seeded, registry, executor, stopSig, pauseSig, round, http, resume>>

\* _handle_pause; a task at "paused" may hang there until a stop (module
\* Executor, PauseReturns), so no fairness makes it leave
PauseSeen(t) ==
    /\ \/ pc[t] = "drive" /\ pauseSig[t] = "set"
       \/ pc[t] = "pausing" /\ ~sending[t]
    /\ stopSig[t] # "set"
    /\ IF sending[t] THEN status' = "PAUSING" /\ Goes(t, "pausing")
                     ELSE status' = "PAUSED" /\ Goes(t, "paused")
    /\ UNCHANGED <<work, seeded, registry, executor, stopSig, pauseSig, sending, verdict, round,
                   http, resume>>

PauseReturns(t) ==
    /\ pc[t] = "paused"
    /\ Returns(t, IF stopSig[t] = "set" THEN "STOPPED" ELSE "PAUSED")
    /\ UNCHANGED <<work, seeded, registry, executor, stopSig, pauseSig, sending, round, http, resume>>

\* TranslationOrchestrator.run after a round that left failed subtasks:
\* split them (the record is set RUNNING first), or retry them on the
\* fallback route (the record stays FAILED until the executor is entered)
NextRound(t) ==
    /\ Translation /\ pc[t] = "between" /\ round[t] < MaxRounds
    /\ work = "failed" /\ stopSig[t] # "set"
    /\ round' = [round EXCEPT ![t] = @ + 1]
    /\ work' = "todo" /\ Goes(t, "enter")
    /\ \/ status' = "RUNNING"
       \/ pauseSig[t] # "set" /\ UNCHANGED status
    /\ UNCHANGED <<seeded, registry, executor, stopSig, pauseSig, sending, verdict, http, resume>>

\* no further round: systemic residue fails a translation, a stopped task
\* with nothing left to do is completed; then the outputs are written
Close(t) ==
    /\ pc[t] = "between" /\ Goes(t, "outputs")
    /\ \/ (Translation \/ verdict[t] # "STOPPED" \/ work # "done") /\ UNCHANGED status
       \/ Translation /\ verdict[t] = "COMPLETED" /\ status' = "FAILED"
       \/ verdict[t] = "STOPPED" /\ work = "done" /\ status' = "COMPLETED"
    /\ UNCHANGED <<work, seeded, registry, executor, stopSig, pauseSig, sending, verdict, round,
                   http, resume>>

\* the outputs are written: mark_done
End(t) ==
    /\ pc[t] = "outputs" /\ Goes(t, "ended")
    /\ done' = [done EXCEPT ![t] = TRUE] /\ Forget({t})
    /\ UNCHANGED <<disk, entry, stopFlag, http, resume>>

\* _spawn_thread: mark_done first, then _on_task_failure
Raise(t) ==
    /\ TaskErrors /\ pc[t] \in {"begin", "make", "enter", "drive", "between", "outputs"}
    /\ Goes(t, "raised")
    /\ done' = [done EXCEPT ![t] = TRUE]
    /\ sending' = [sending EXCEPT ![t] = FALSE]
    /\ UNCHANGED <<disk, entry, stopFlag, executor, stopSig, pauseSig, verdict, round, http, resume>>

RecordFailure(t) ==
    /\ pc[t] = "raised" /\ Goes(t, "ended")
    /\ status' = "FAILED" /\ Forget({t})
    /\ UNCHANGED <<work, seeded, registry, http, resume>>

-----------------------------------------------------------------------------
(* The HTTP calls *)

\* the task is in the registry and not marked done
EntryIsLive == entry \in {t \in Threads : ~done[t]}
MarkEntryDone ==
    done' = IF entry = NoThread THEN done ELSE [done EXCEPT ![entry] = TRUE]

Signalled(sig, t) ==
    [sig EXCEPT ![t] = IF executor[t] = "looped" /\ @ = "no" THEN "posted"
                       ELSE IF executor[t] = "made" THEN "set" ELSE @]

Reply == at' = "free" /\ op' = "none" /\ snap' = "none"
Goto(place) == at' = place /\ UNCHANGED <<op, snap>>

\* bound: a thread is left for this call and for a resume under way
Room ==
    Cardinality({t \in Threads : pc[t] = "unborn"})
        > (IF pending \/ switch # "idle" THEN 1 ELSE 0)

\* registry.add by the call, or by the resuming thread
Register(by) ==
    \E t \in Threads : pc[t] = "unborn" /\ Goes(t, by) /\ entry' = t

\* then the record is RUNNING and _spawn_thread starts the thread
Launch(by) ==
    /\ \E t \in Threads : pc[t] = by /\ Goes(t, "begin")
    /\ status' = "RUNNING"

\* start: the placeholder record, then the thread
Start ==
    /\ at = "free" /\ status = "none" /\ Room
    /\ status' = "PENDING" /\ op' = "start" /\ at' = "admit"
    /\ UNCHANGED <<work, seeded, registry, threads, snap, resume>>

Poll ==
    /\ at = "free" /\ status # "none"
    /\ op' = "poll" /\ at' = "load"
    /\ UNCHANGED <<disk, registry, threads, snap, resume>>

Continue ==
    /\ at = "free" /\ status # "none" /\ Room
    /\ op' = "continue" /\ at' = "load"
    /\ UNCHANGED <<disk, registry, threads, snap, resume>>

\* RunningTask.request_stop
RequestStop(t) ==
    /\ stopFlag' = [stopFlag EXCEPT ![t] = TRUE]
    /\ stopSig' = Signalled(stopSig, t)

\* stop_task of a task without a live entry: a poll that reports an error
StopTooLate ==
    /\ at = "free" /\ status # "none" /\ ~EntryIsLive /\ switch \notin {"admit", "launch"}
    /\ pending' = FALSE /\ op' = "poll" /\ at' = "load"
    /\ UNCHANGED <<disk, registry, threads, snap, switch, switched>>

\* stop_task
Stop ==
    /\ at = "free" /\ EntryIsLive /\ switch \notin {"admit", "launch"}
    /\ RequestStop(entry) /\ pending' = FALSE
    /\ op' = "stop" /\ at' = "mark"
    /\ UNCHANGED <<disk, entry, done, pc, executor, pauseSig, sending, verdict, round,
                   snap, switch, switched>>

\* pause_task; without an executor the request is dropped
Pause ==
    /\ at = "free" /\ entry # NoThread
    /\ pauseSig' = Signalled(pauseSig, entry)
    /\ op' = "poll" /\ at' = "load"
    /\ UNCHANGED <<disk, registry, pc, executor, stopSig, sending, verdict, round, snap, resume>>

\* selection_changed (bound: one resuming thread at a time)
Select ==
    /\ Switches /\ at = "free" /\ EntryIsLive /\ ~pending /\ switch = "idle" /\ Room
    /\ status \in {"PENDING", "RUNNING"}
    /\ RequestStop(entry) /\ pending' = TRUE /\ switched' = entry
    /\ op' = "select" /\ at' = "mark"
    /\ UNCHANGED <<disk, entry, done, pc, executor, pauseSig, sending, verdict, round, snap, switch>>

\* _mark_status(STOPPING), whatever the record says by now
MarkStopping ==
    /\ at = "mark" /\ status' = "STOPPING"
    /\ IF op = "select" THEN Reply /\ switch' = "joining"
                        ELSE Goto("load") /\ UNCHANGED switch
    /\ UNCHANGED <<work, seeded, registry, threads, switched, pending>>

Load ==
    /\ at = "load" /\ snap' = status /\ at' = "judge"
    /\ UNCHANGED <<disk, registry, threads, op, resume>>

Accepts(allowed) == IF op = "continue" /\ allowed THEN Goto("admit") ELSE Reply

\* mutant: the registry is not asked
JudgeByRecordOnly ==
    /\ at = "judge"
    /\ \/ snap \in Zombie /\ MarkEntryDone /\ Goto("heal")
       \/ snap \in Terminal /\ MarkEntryDone /\ Accepts(snap # "COMPLETED")
       \/ snap = "PAUSED" /\ UNCHANGED done /\ Accepts(~EntryIsLive)
    /\ UNCHANGED <<disk, entry, stopFlag, threads, resume>>

\* mutant: a record that says running is believed
JudgeWithoutHealing ==
    /\ at = "judge"
    /\ \/ snap \in Zombie /\ UNCHANGED done /\ Reply
       \/ snap \in Terminal /\ MarkEntryDone /\ Accepts(snap # "COMPLETED")
       \/ snap = "PAUSED" /\ UNCHANGED done /\ Accepts(~EntryIsLive)
    /\ UNCHANGED <<disk, entry, stopFlag, threads, resume>>

\* _reconcile_zombie up to its write, _resolve_live_running, and what
\* continue_task refuses: a live entry, a completed task
Judge ==
    /\ at = "judge"
    /\ \/ snap \in Zombie /\ (~EntryIsLive \/ Stalls) /\ MarkEntryDone /\ Goto("heal")
       \/ snap \in Zombie /\ EntryIsLive /\ UNCHANGED done /\ Reply
       \/ snap \in Terminal /\ MarkEntryDone /\ Accepts(snap # "COMPLETED")
       \/ snap = "PAUSED" /\ UNCHANGED done /\ Accepts(~EntryIsLive)
    /\ UNCHANGED <<disk, entry, stopFlag, threads, resume>>

\* the write of _reconcile_zombie; the call goes on with what it wrote
Heal ==
    /\ at = "heal" /\ status' = "STOPPED"
    /\ snap' = "STOPPED" /\ at' = "judge"
    /\ UNCHANGED <<work, seeded, registry, threads, op, resume>>

\* the end of start and of continue_task
Admit ==
    \/ /\ at = "admit" /\ Goto("launch") /\ Register("admitted")
       /\ UNCHANGED <<disk, done, stopFlag, executor, stopSig, pauseSig, sending, verdict,
                      round, resume>>
    \/ /\ at = "launch" /\ Reply /\ Launch("admitted")
       /\ UNCHANGED <<work, seeded, registry, executor, stopSig, pauseSig, sending, verdict,
                      round, resume>>

-----------------------------------------------------------------------------
(* _resume_after_selection_switch: join the stopped thread, look, continue *)

Drops == \/ ~pending \/ status \notin {"STOPPED", "FAILED"} \/ work = "done"

Joined ==
    /\ switch = "joining" /\ pc[switched] = "ended"
    /\ pending' = FALSE
    /\ switch' = IF Drops THEN "idle" ELSE "admit"
    /\ switched' = NoThread
    /\ UNCHANGED <<disk, registry, threads, http>>

Resume ==
    /\ UNCHANGED <<work, seeded, done, stopFlag, executor, stopSig, pauseSig, sending, verdict,
                   round, http, switched, pending>>
    /\ \/ switch = "admit" /\ switch' = "launch" /\ Register("resumed") /\ UNCHANGED status
       \/ switch = "launch" /\ switch' = "idle" /\ Launch("resumed") /\ UNCHANGED entry

\* the process dies: the record and the subtask files stay (bound: only
\* where it has a task, or a call that is about to start one)
Death ==
    /\ entry # NoThread \/ at = "admit"
    /\ entry' = NoThread
    /\ pc' = [t \in Threads |-> IF pc[t] = "unborn" THEN "unborn" ELSE "ended"]
    /\ Forget(Threads)
    /\ at' = "free" /\ op' = "none" /\ snap' = "none"
    /\ switch' = "idle" /\ switched' = NoThread /\ pending' = FALSE
    /\ UNCHANGED <<disk, done, stopFlag>>

Program(t) ==
    \/ Prepare(t) \/ MakeExecutor(t) \/ Enter(t) \/ RunsOut(t)
    \/ NextRound(t) \/ Close(t) \/ End(t) \/ RecordFailure(t)

ThreadStep(t) ==
    \/ Program(t) \/ Deliver(t) \/ Send(t) \/ Answer(t)
    \/ StopSeen(t) \/ Drained(t) \/ PauseSeen(t) \/ PauseReturns(t) \/ Raise(t)

HttpStep   == MarkStopping \/ Load \/ Judge \/ Heal \/ Admit
UserStep   == Start \/ Continue \/ Stop \/ StopTooLate \/ Pause \/ Select
ResumeStep == Joined \/ Resume

Next ==
    \/ \E t \in Threads : ThreadStep(t)
    \/ HttpStep \/ UserStep \/ Poll \/ ResumeStep \/ Death

(* A thread that can go on does: the operating system schedules it, and the *)
(* loop of its executor runs posted callbacks, sees a set stop and reaches *)
(* the deadline of a drain.  A call is answered, and the front end polls   *)
(* again and again while it shows the task.  Nothing is assumed of the     *)
(* provider (a call may never be answered), of the user, of a pause, of a  *)
(* crash.                                                                  *)
Fairness ==
    /\ \A t \in Threads :
        /\ WF_vars(Program(t)) /\ WF_vars(Deliver(t)) /\ WF_vars(StopSeen(t))
        /\ WF_vars(Drained(t))
    /\ WF_vars(HttpStep) /\ SF_vars(Poll) /\ WF_vars(ResumeStep)

Spec     == Init /\ [][Next]_vars
FairSpec == Spec /\ Fairness

-----------------------------------------------------------------------------
(* The type invariant. *)
TypeOK ==
    /\ status \in TaskStatus \cup {"none"}
    /\ work \in {"todo", "failed", "done"} /\ seeded \in BOOLEAN
    /\ entry \in Threads \cup {NoThread}
    /\ done \in [Threads -> BOOLEAN] /\ stopFlag \in [Threads -> BOOLEAN]
    /\ pc \in [Threads -> Executing \cup {"unborn", "admitted", "resumed", "between", "outputs", "raised", "ended"}]
    /\ executor \in [Threads -> {"none", "made", "looped"}]
    /\ stopSig \in [Threads -> {"no", "posted", "set"}]
    /\ pauseSig \in [Threads -> {"no", "posted", "set"}]
    /\ sending \in [Threads -> BOOLEAN]
    /\ verdict \in [Threads -> TaskStatus \cup {"none"}]
    /\ round \in [Threads -> Nat]
    /\ op \in {"none", "start", "poll", "continue", "stop", "select"}
    /\ at \in {"free", "load", "judge", "heal", "mark", "admit", "launch"}
    /\ snap \in TaskStatus \cup {"none"}
    /\ switch \in {"idle", "joining", "admit", "launch"}
    /\ switched \in Threads \cup {NoThread} /\ pending \in BOOLEAN

Senders == {t \in Threads : sending[t]}

(* While a paid call is out its thread is the live entry of the registry:   *)
(* stop and pause reach it, and continue finds it and starts no second      *)
(* executor (what _resolve_live_running and read_snapshot may mark done is  *)
(* only an entry whose thread is through).                                  *)
CallsHaveAButton == \A t \in Senders : entry = t /\ ~done[t]

(* A record that says COMPLETED, FAILED, STOPPED or PAUSED means that no    *)
(* call is out: _TERMINAL_TASK_STATES "imply the executor finished", and a  *)
(* pause is recorded after the calls it waits for.                          *)
SettledMeansQuiet == status \in Terminal \cup {"PAUSED"} => Senders = {}

(* A task is COMPLETED only when no subtask is left to do or failed,        *)
(* whichever of the threads and calls that write the record wrote it last.  *)
CompletedMeansDone == status = "COMPLETED" => work = "done"

(* The record tells the truth at every moment: a settled one about the     *)
(* calls, a completed one about the work.                                  *)
RecordIsTrue == TypeOK /\ SettledMeansQuiet /\ CompletedMeansDone

(* A thread whose task was stopped ends, whatever it was doing when the     *)
(* stop came: parsing with no executor yet, driving, paused, or between two *)
(* rounds.                                                                  *)
StopEnds == \A t \in Threads : (stopFlag[t] /\ Alive(t)) ~> ~Alive(t)

(* The thread that resumes a task after a selection was changed does not    *)
(* wait for ever: Thread.join there has no timeout.                         *)
SwitchEnds == switch = "joining" ~> switch # "joining"

(* A record that says a task runs when none does is healed by the polls:    *)
(* the process died, or a status was written over by a thread or a call     *)
(* that came late.                                                          *)
Recovered == status \notin Zombie \/ \E t \in Threads : Alive(t)
NoZombieForever == ~Recovered ~> Recovered
=============================================================================
