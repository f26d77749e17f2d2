------------------------------- MODULE TaskProofs -------------------------------
(***************************************************************************)
(* The life of a task and its request log.                                 *)
(*                                                                         *)
(* Safety of module TaskLifecycle for any number of threads, for a         *)
(* glossary whose threads do not raise and whose selection is not changed. *)
(*                                                                         *)
(* Neither property is inductive.  A thread that executes is found by the  *)
(* calls because it is the live entry (ExecutingIsEntry); it stays so      *)
(* because nobody marks the entry done who has not loaded a settled record *)
(* or found no live entry (CallsComeLate); and the record is not settled   *)
(* while a thread executes (RecordFollows).  All three may fail once       *)
(* nothing is left to do: a thread that was stopped then writes COMPLETED  *)
(* over the record of the one that came after it.                          *)
(*                                                                         *)
(* Then any task at all, translations that raise, stall and switch         *)
(* included: that second thread is the only thing that makes a COMPLETED   *)
(* record untrue.                                                          *)
(*                                                                         *)
(* Last, module RequestLog for any subtasks, requests, sizes and limits.   *)
(* The operators on the file and on the rows are recursive functions; what *)
(* the proof needs of them is shown place by place.  The invariant rests   *)
(* on two facts about names: the calls in flight have written nothing but  *)
(* progress (OpenTells), and a local failure has a name of its own         *)
(* (Telling), so that neither is hidden by a later event.                  *)
(***************************************************************************)
EXTENDS TaskLifecycle, RequestLog, SequenceTheorems, FiniteSetTheorems, ListLemmas

\* a thread with its start before it or its executor at work
Working(t) == pc[t] \in Executing

\* nobody works, or nothing is left to be done
Idle == work = "done" \/ \A t \in Threads : ~Working(t)

\* there is no resuming thread
NoSwitch == switch = "idle" /\ ~pending /\ op # "select"

\* before the first start there is nothing; a thread not yet born is not done
NothingBefore ==
    /\ status = "none" => at = "free" /\ entry = NoThread
    /\ \A t \in Threads : pc[t] = "unborn" => ~done[t] /\ entry # t
    /\ \A t \in Threads : status = "none" => pc[t] = "unborn"

\* a thread registered but not launched is the entry, its call about to launch it
AdmittedIsEntry ==
    \A t \in Threads : pc[t] # "resumed" /\ pc[t] # "raised"
                       /\ (pc[t] = "admitted" => at = "launch" /\ entry = t /\ ~done[t])

ExecutingIsEntry ==
    \A t \in Threads : Working(t) /\ work # "done" => entry = t /\ ~done[t]

\* a call is out only of a loop that has something to do
SendingIsDriving ==
    \A t \in Threads : sending[t] => pc[t] \in {"drive", "draining", "pausing"} /\ work = "todo"

\* while a thread works the record does not say that it has ended, and says
\* paused only of one that is
RecordFollows ==
    \A t \in Threads : Working(t) /\ work # "done" =>
        status \in Zombie \/ (status = "PAUSED" /\ pc[t] = "paused")

\* a call that has loaded a settled record or is past its look at the registry
\* finds nobody at work
CallsComeLate ==
    at \in {"heal", "admit", "launch"} \/ (at = "judge" /\ snap \in Terminal) => Idle

IInv ==
    /\ TypeOK /\ NoSwitch /\ NothingBefore /\ AdmittedIsEntry /\ ExecutingIsEntry
    /\ SendingIsDriving /\ RecordFollows /\ CallsComeLate /\ CompletedMeansDone
-----------------------------------------------------------------------------
(* Every variable keeps its type, whatever the instance. *)

LEMMA ThreadTypes ==
    ASSUME TypeOK, NEW t \in Threads, ThreadStep(t)
    PROVE  TypeOK'
<1> USE DEF TypeOK, Goes, Returns, Outcome, Forget, Executing, Awaiting, TaskStatus, Zombie,
            Terminal, disk, registry, threads, http, resume
<1>1. CASE Prepare(t)
  <2>1. /\ status' \in {status, "PENDING"} /\ work' \in {work, "todo"}
        /\ pc' = [pc EXCEPT ![t] = "make"]
    BY <1>1 DEF Prepare
  <2>2. seeded' \in BOOLEAN
    BY <1>1 DEF Prepare
  <2>3. UNCHANGED <<registry, executor, stopSig, pauseSig, sending, verdict, round, http, resume>>
    BY <1>1 DEF Prepare
  <2> QED BY <2>1, <2>2, <2>3
<1>2. CASE MakeExecutor(t) BY <1>2 DEF MakeExecutor
<1>3. CASE Enter(t) BY <1>3 DEF Enter
<1>4. CASE RunsOut(t) BY <1>4 DEF RunsOut
<1>5. CASE NextRound(t) BY <1>5 DEF NextRound
<1>6. CASE Close(t) BY <1>6 DEF Close
<1>7. CASE End(t) BY <1>7 DEF End
<1>8. CASE RecordFailure(t) BY <1>8 DEF RecordFailure
<1>9. CASE Deliver(t) BY <1>9 DEF Deliver
<1>10. CASE Send(t) BY <1>10 DEF Send
<1>11. CASE Answer(t) BY <1>11 DEF Answer
<1>12. CASE StopSeen(t) BY <1>12 DEF StopSeen
<1>13. CASE Drained(t) BY <1>13 DEF Drained
<1>14. CASE PauseSeen(t) BY <1>14 DEF PauseSeen
<1>15. CASE PauseReturns(t) BY <1>15 DEF PauseReturns
<1>16. CASE Raise(t) BY <1>16 DEF Raise
<1> QED BY <1>1, <1>2, <1>3, <1>4, <1>5, <1>6, <1>7, <1>8, <1>9, <1>10, <1>11, <1>12,
           <1>13, <1>14, <1>15, <1>16 DEF ThreadStep, Program

LEMMA CallTypes ==
    ASSUME TypeOK, HttpStep \/ UserStep \/ Poll \/ ResumeStep \/ Death
    PROVE  TypeOK'
<1> USE DEF TypeOK, Goes, Executing, Awaiting, TaskStatus, Zombie, Terminal, Reply, Goto,
            Register, Launch, disk, registry, threads, http, resume
<1>1. CASE MarkStopping BY <1>1 DEF MarkStopping
<1>2. CASE Load BY <1>2 DEF Load
<1>3. CASE Judge
  <2>1. done' \in [Threads -> BOOLEAN]
    BY <1>3 DEF Judge, MarkEntryDone
  <2>2. at' \in {"heal", "free", "admit"} /\ op' \in {op, "none"} /\ snap' \in {snap, "none"}
    BY <1>3 DEF Judge, Accepts
  <2>3. UNCHANGED <<disk, entry, stopFlag, threads, resume>>
    BY <1>3 DEF Judge
  <2> QED BY <2>1, <2>2, <2>3
<1>4. CASE Heal BY <1>4 DEF Heal
<1>5. CASE Admit BY <1>5 DEF Admit
<1>6. CASE Start BY <1>6 DEF Start
<1>7. CASE Continue BY <1>7 DEF Continue
<1>8. CASE Stop
  <2>1. stopFlag' \in [Threads -> BOOLEAN] /\ stopSig' \in [Threads -> {"no", "posted", "set"}]
    BY <1>8 DEF Stop, RequestStop, Signalled
  <2>2. pending' = FALSE /\ op' = "stop" /\ at' = "mark"
    BY <1>8 DEF Stop
  <2>3. UNCHANGED <<status, work, seeded, entry, done, pc>>
    BY <1>8 DEF Stop
  <2>4. UNCHANGED <<executor, pauseSig, sending, verdict, round, snap, switch, switched>>
    BY <1>8 DEF Stop
  <2>5. op' \in {"none", "start", "poll", "continue", "stop", "select"} /\ pending' \in BOOLEAN
        /\ at' \in {"free", "load", "judge", "heal", "mark", "admit", "launch"}
    BY <2>2
  <2> QED BY <2>1, <2>3, <2>4, <2>5
<1>9. CASE StopTooLate
  <2>1. pending' \in BOOLEAN /\ op' = "poll" /\ at' = "load"
    BY <1>9 DEF StopTooLate
  <2>2. UNCHANGED <<disk, registry, threads, snap, switch, switched>>
    BY <1>9 DEF StopTooLate
  <2> QED BY <2>1, <2>2
<1>10. CASE Pause BY <1>10 DEF Pause, Signalled
<1>11. CASE Select BY <1>11 DEF Select, RequestStop, Signalled, EntryIsLive
<1>12. CASE Poll BY <1>12 DEF Poll
<1>13. CASE Joined
  <2>1. pending' \in BOOLEAN /\ switch' \in {"idle", "admit"} /\ switched' = NoThread
    BY <1>13 DEF Joined
  <2>2. UNCHANGED <<disk, registry, threads, http>>
    BY <1>13 DEF Joined
  <2> QED BY <2>1, <2>2
<1>14. CASE Resume BY <1>14 DEF Resume
<1>15. CASE Death BY <1>15 DEF Death, Forget
<1> QED BY <1>1, <1>2, <1>3, <1>4, <1>5, <1>6, <1>7, <1>8, <1>9, <1>10, <1>11, <1>12,
           <1>13, <1>14, <1>15 DEF HttpStep, UserStep, ResumeStep

-----------------------------------------------------------------------------
(* A glossary without errors, stalls and switches. *)

PlainGlossary == ~Translation /\ ~TaskErrors /\ ~Stalls /\ ~Switches

LEMMA ThreadSteps ==
    ASSUME PlainGlossary, IInv, TypeOK', NEW t \in Threads, ThreadStep(t)
    PROVE  IInv'
<1> USE DEF PlainGlossary, IInv, NoSwitch, NothingBefore, AdmittedIsEntry, ExecutingIsEntry,
            SendingIsDriving, RecordFollows, CallsComeLate, CompletedMeansDone, Idle, Working,
            TypeOK, Goes, Returns, Outcome, Executing, Awaiting, Zombie,
            Terminal, disk, registry, threads, http, resume
<1>1. CASE Prepare(t) BY <1>1 DEF Prepare
<1>2. CASE MakeExecutor(t) BY <1>2 DEF MakeExecutor
<1>3. CASE Enter(t) BY <1>3 DEF Enter
<1>4. CASE RunsOut(t) BY <1>4 DEF RunsOut
<1>5. CASE NextRound(t) BY <1>5 DEF NextRound
<1>6. CASE Close(t) BY <1>6 DEF Close
<1>7. CASE End(t) BY <1>7 DEF End, Forget
<1>8. CASE RecordFailure(t) BY <1>8 DEF RecordFailure, Forget
<1>9. CASE Deliver(t) BY <1>9 DEF Deliver
<1>10. CASE Send(t) BY <1>10 DEF Send
<1>11. CASE Answer(t) BY <1>11 DEF Answer
<1>12. CASE StopSeen(t) BY <1>12 DEF StopSeen
<1>13. CASE Drained(t) BY <1>13 DEF Drained
<1>14. CASE PauseSeen(t) BY <1>14 DEF PauseSeen
<1>15. CASE PauseReturns(t) BY <1>15 DEF PauseReturns
<1>16. CASE Raise(t) BY <1>16 DEF Raise
<1> QED BY <1>1, <1>2, <1>3, <1>4, <1>5, <1>6, <1>7, <1>8, <1>9, <1>10, <1>11, <1>12,
           <1>13, <1>14, <1>15, <1>16 DEF ThreadStep, Program

LEMMA CallSteps ==
    ASSUME PlainGlossary, IInv, TypeOK', HttpStep \/ UserStep \/ Poll \/ ResumeStep \/ Death
    PROVE  IInv'
<1> USE DEF PlainGlossary, IInv, NoSwitch, NothingBefore, AdmittedIsEntry, ExecutingIsEntry,
            SendingIsDriving, RecordFollows, CallsComeLate, CompletedMeansDone, Idle, Working,
            TypeOK, Goes, Executing, Awaiting, Zombie, TaskStatus,
            Terminal, Reply, Goto, EntryIsLive, disk, registry, threads, http, resume
<1>1. CASE MarkStopping BY <1>1 DEF MarkStopping
<1>2. CASE Load BY <1>2 DEF Load
<1>3. CASE Judge BY <1>3 DEF Judge, MarkEntryDone, Accepts
<1>4. CASE Heal BY <1>4 DEF Heal
<1>5. CASE Admit BY <1>5 DEF Admit, Register, Launch
<1>6. CASE Start BY <1>6 DEF Start
<1>7. CASE Continue BY <1>7 DEF Continue
<1>8. CASE Stop BY <1>8 DEF Stop, RequestStop, Signalled, EntryIsLive
<1>9. CASE StopTooLate BY <1>9 DEF StopTooLate
<1>10. CASE Pause BY <1>10 DEF Pause, Signalled
<1>11. CASE Select BY <1>11 DEF Select, RequestStop, Signalled, EntryIsLive
<1>12. CASE Poll BY <1>12 DEF Poll
<1>13. CASE Joined BY <1>13 DEF Joined
<1>14. CASE Resume BY <1>14 DEF Resume
<1>15. CASE Death
  <2>1. /\ status # "none" /\ entry' = NoThread /\ at' = "free" /\ op' = "none"
        /\ switch' = "idle" /\ pending' = FALSE /\ UNCHANGED <<disk, done, stopFlag>>
    BY <1>15 DEF Death
  <2>2. \A t \in Threads : pc'[t] = IF pc[t] = "unborn" THEN "unborn" ELSE "ended"
    BY <1>15 DEF Death
  <2>3. \A t \in Threads : ~sending'[t]
    BY <1>15 DEF Death, Forget
  <2>4. NoSwitch'
    BY <2>1
  <2>5. NothingBefore'
    BY <2>1, <2>2, ConstantsAssumption
  <2>6. AdmittedIsEntry' /\ ExecutingIsEntry' /\ RecordFollows'
    BY <2>2
  <2>7. SendingIsDriving'
    BY <2>3
  <2>8. CallsComeLate' /\ CompletedMeansDone'
    BY <2>1
  <2> QED BY <2>4, <2>5, <2>6, <2>7, <2>8
<1> QED BY <1>1, <1>2, <1>3, <1>4, <1>5, <1>6, <1>7, <1>8, <1>9, <1>10, <1>11, <1>12, <1>13,
           <1>14, <1>15 DEF HttpStep, UserStep, ResumeStep

LEMMA IInvIsInductive ==
    ASSUME PlainGlossary
    PROVE  /\ Init => IInv
           /\ IInv /\ [Next]_vars => IInv'
<1>1. Init => IInv
  <2> SUFFICES ASSUME Init PROVE IInv
    OBVIOUS
  <2>1. TypeOK
    BY DEF Init, TypeOK
  <2>2. NoSwitch /\ NothingBefore /\ AdmittedIsEntry /\ CompletedMeansDone
    BY ConstantsAssumption DEF Init, NoSwitch, NothingBefore, AdmittedIsEntry, CompletedMeansDone
  <2>3. ExecutingIsEntry /\ SendingIsDriving /\ RecordFollows /\ CallsComeLate
    BY DEF Init, ExecutingIsEntry, SendingIsDriving, RecordFollows, CallsComeLate, Working,
           Executing, Awaiting
  <2> QED BY <2>1, <2>2, <2>3 DEF IInv
<1>2. ASSUME IInv, Next PROVE IInv'
  <2>1. TypeOK
    BY <1>2 DEF IInv
  <2>2. CASE \E t \in Threads : ThreadStep(t)
    BY <1>2, <2>1, <2>2, ThreadTypes, ThreadSteps
  <2>3. CASE HttpStep \/ UserStep \/ Poll \/ ResumeStep \/ Death
    BY <1>2, <2>1, <2>3, CallTypes, CallSteps
  <2> QED BY <1>2, <2>2, <2>3 DEF Next
<1>3. ASSUME IInv, UNCHANGED vars PROVE IInv'
  BY <1>3 DEF vars, disk, registry, threads, http, resume, IInv, TypeOK, NoSwitch, NothingBefore,
              AdmittedIsEntry, ExecutingIsEntry, SendingIsDriving, RecordFollows, CallsComeLate,
              CompletedMeansDone, Idle, Working
<1> QED BY <1>1, <1>2, <1>3

LEMMA IInvImplies ==
    ASSUME IInv
    PROVE  CallsHaveAButton /\ RecordIsTrue
<1> USE DEF IInv, ExecutingIsEntry, SendingIsDriving, RecordFollows, Working, Executing, Awaiting,
            Senders
<1>1. \A t \in Senders : Working(t) /\ work # "done" /\ pc[t] # "paused"
  OBVIOUS
<1>2. CallsHaveAButton
  BY <1>1 DEF CallsHaveAButton
<1>3. SettledMeansQuiet
  BY <1>1 DEF SettledMeansQuiet, Zombie, Terminal
<1> QED BY <1>2, <1>3 DEF RecordIsTrue

\* However many threads a glossary uses up, and whatever is pressed, polled, killed and continued
\* meanwhile: a paid call is out only of the thread that stop, pause and continue find in the
\* registry (_resolve_live_running, continue_task).
THEOREM CallsAreReached ==
    ASSUME PlainGlossary
    PROVE  Spec => []CallsHaveAButton
<1>1. Init => IInv
  BY IInvIsInductive
<1>2. IInv /\ [Next]_vars => IInv'
  BY IInvIsInductive
<1>3. IInv => CallsHaveAButton
  BY IInvImplies
<1> QED BY <1>1, <1>2, <1>3, PTL DEF Spec

\* In the same cases the record on disk is true: a settled one means that no call is out, a
\* completed one that nothing is left to do, whichever of the threads and calls wrote it last.
THEOREM RecordsAreTrue ==
    ASSUME PlainGlossary
    PROVE  Spec => []RecordIsTrue
<1>1. Init => IInv
  BY IInvIsInductive
<1>2. IInv /\ [Next]_vars => IInv'
  BY IInvIsInductive
<1>3. IInv => RecordIsTrue
  BY IInvImplies
<1> QED BY <1>1, <1>2, <1>3, PTL DEF Spec
-----------------------------------------------------------------------------
(* Any task whose threads take turns, with errors, stalls, further rounds  *)
(* and switches.                                                           *)

\* a thread whose executor is at work or has just returned its verdict
Busy(t) == pc[t] \in Executing \cup {"between"}
\* at most one thread is busy: the next one was started when it was through
ThreadsTakeTurns == \A t, u \in Threads : Busy(t) /\ Busy(u) => t = u

\* a call is out only of a thread that executes, and a completed task has no
\* thread that would change its subtask files
CallsAreOfExecutors == \A t \in Threads : sending[t] => pc[t] \in {"drive", "draining", "pausing"}
CompletedIsOver ==
    status = "COMPLETED" => work = "done" /\ \A t \in Threads : pc[t] \notin Executing

CompletedInv == TypeOK /\ CallsAreOfExecutors /\ CompletedIsOver

LEMMA ThreadsComplete ==
    ASSUME CompletedInv, ThreadsTakeTurns, TypeOK', NEW t \in Threads, ThreadStep(t)
    PROVE  CompletedInv'
<1> USE DEF CompletedInv, CallsAreOfExecutors, CompletedIsOver, ThreadsTakeTurns, Busy, TypeOK, Goes, Returns,
            Outcome, Executing, Awaiting, disk, registry, threads, http, resume
<1>1. CASE Prepare(t) BY <1>1 DEF Prepare
<1>2. CASE MakeExecutor(t) BY <1>2 DEF MakeExecutor
<1>3. CASE Enter(t)
  <2>1. CallsAreOfExecutors'
    BY <1>3 DEF Enter
  <2>2. CompletedIsOver'
    <3> SUFFICES ASSUME status' = "COMPLETED" PROVE work' = "done" /\ \A u \in Threads : pc'[u] \notin Executing
      OBVIOUS
    <3>1. /\ pc[t] = "enter" /\ work # "todo" /\ status' = Outcome
          /\ pc' = [pc EXCEPT ![t] = "between"] /\ work' = work
      BY <1>3 DEF Enter
    <3>2. work = "done"
      BY <3>1
    <3>3. \A u \in Threads \ {t} : pc[u] \notin Executing
      BY <3>1
    <3> QED BY <3>1, <3>2, <3>3
  <2> QED BY <2>1, <2>2
<1>4. CASE RunsOut(t) BY <1>4 DEF RunsOut
<1>5. CASE NextRound(t) BY <1>5 DEF NextRound
<1>6. CASE Close(t) BY <1>6 DEF Close
<1>7. CASE End(t) BY <1>7 DEF End, Forget
<1>8. CASE RecordFailure(t) BY <1>8 DEF RecordFailure, Forget
<1>9. CASE Deliver(t) BY <1>9 DEF Deliver
<1>10. CASE Send(t) BY <1>10 DEF Send
<1>11. CASE Answer(t) BY <1>11 DEF Answer
<1>12. CASE StopSeen(t) BY <1>12 DEF StopSeen
<1>13. CASE Drained(t) BY <1>13 DEF Drained
<1>14. CASE PauseSeen(t) BY <1>14 DEF PauseSeen
<1>15. CASE PauseReturns(t) BY <1>15 DEF PauseReturns
<1>16. CASE Raise(t) BY <1>16 DEF Raise
<1> QED BY <1>1, <1>2, <1>3, <1>4, <1>5, <1>6, <1>7, <1>8, <1>9, <1>10, <1>11, <1>12,
           <1>13, <1>14, <1>15, <1>16 DEF ThreadStep, Program

LEMMA CallsComplete ==
    ASSUME CompletedInv, TypeOK', HttpStep \/ UserStep \/ Poll \/ ResumeStep \/ Death
    PROVE  CompletedInv'
<1> USE DEF CompletedInv, CallsAreOfExecutors, CompletedIsOver, TypeOK, Goes, Executing, Awaiting, Reply, Goto,
            disk, registry, threads, http, resume
<1>1. CASE MarkStopping BY <1>1 DEF MarkStopping
<1>2. CASE Load BY <1>2 DEF Load
<1>3. CASE Judge BY <1>3 DEF Judge
<1>4. CASE Heal BY <1>4 DEF Heal
<1>5. CASE Admit BY <1>5 DEF Admit, Register, Launch
<1>6. CASE Start BY <1>6 DEF Start
<1>7. CASE Continue BY <1>7 DEF Continue
<1>8. CASE Stop BY <1>8 DEF Stop
<1>9. CASE StopTooLate BY <1>9 DEF StopTooLate
<1>10. CASE Pause BY <1>10 DEF Pause
<1>11. CASE Select BY <1>11 DEF Select
<1>12. CASE Poll BY <1>12 DEF Poll
<1>13. CASE Joined BY <1>13 DEF Joined
<1>14. CASE Resume BY <1>14 DEF Resume, Register, Launch
<1>15. CASE Death
  <2>1. /\ \A t \in Threads : pc'[t] = IF pc[t] = "unborn" THEN "unborn" ELSE "ended"
        /\ \A t \in Threads : ~sending'[t]
        /\ UNCHANGED disk
    BY <1>15 DEF Death, Forget
  <2> QED BY <2>1
<1> QED BY <1>1, <1>2, <1>3, <1>4, <1>5, <1>6, <1>7, <1>8, <1>9, <1>10, <1>11, <1>12, <1>13,
           <1>14, <1>15 DEF HttpStep, UserStep, ResumeStep

\* A task whose threads take turns says COMPLETED only when no subtask is left to do or failed,
\* a translation with further rounds, threads that raise, stalls and switches included: what
\* makes the record untrue there is only ever a second thread (_resolve_live_running, continue_task).
THEOREM CompletedIsTrue == Spec /\ []ThreadsTakeTurns => []CompletedMeansDone
<1>1. Init => CompletedInv
  <2> SUFFICES ASSUME Init PROVE CompletedInv
    OBVIOUS
  <2>1. TypeOK
    BY DEF Init, TypeOK
  <2>2. CallsAreOfExecutors /\ CompletedIsOver
    BY DEF Init, CallsAreOfExecutors, CompletedIsOver
  <2> QED BY <2>1, <2>2 DEF CompletedInv
<1>2. CompletedInv /\ ThreadsTakeTurns /\ [Next]_vars => CompletedInv'
  <2> SUFFICES ASSUME CompletedInv, ThreadsTakeTurns, [Next]_vars PROVE CompletedInv'
    OBVIOUS
  <2>1. TypeOK
    BY DEF CompletedInv
  <2>2. CASE \E t \in Threads : ThreadStep(t)
    BY <2>1, <2>2, ThreadTypes, ThreadsComplete
  <2>3. CASE HttpStep \/ UserStep \/ Poll \/ ResumeStep \/ Death
    BY <2>1, <2>3, CallTypes, CallsComplete
  <2>4. CASE UNCHANGED vars
    BY <2>4 DEF vars, disk, registry, threads, http, resume, CompletedInv, TypeOK, CallsAreOfExecutors,
                CompletedIsOver
  <2> QED BY <2>2, <2>3, <2>4 DEF Next
<1>3. CompletedInv => CompletedMeansDone
  BY DEF CompletedInv, CompletedIsOver, CompletedMeansDone
<1> QED BY <1>1, <1>2, <1>3, PTL DEF Spec

\* In particular a task that was started once and never continued, whatever happens to its thread.
COROLLARY OneStartIsTrue ==
    ASSUME NEW t, Threads = {t}
    PROVE  Spec => []CompletedMeansDone
<1>1. ThreadsTakeTurns
  BY DEF ThreadsTakeTurns
<1> QED BY <1>1, CompletedIsTrue, PTL

-----------------------------------------------------------------------------
(* The request log: the inductive invariant *)

LogStatus == {"running", "completed", "failed", "cancelled"}
LogEvents == [no : Nat, call : Callers \X Nat, status : LogStatus, by : Callers, try : Nat, local : BOOLEAN]

\* a call that failed the quality checks has one event, and a name of its own
Telling(log) ==
    /\ log \in Seq(LogEvents)
    /\ \A i \in DOMAIN log : log[i].by = log[i].call[1] /\ log[i].call[2] # 0
    /\ \A i \in DOMAIN log : log[i].local =>
         log[i].status = "failed" /\ \A j \in DOMAIN log : log[j].call = log[i].call => j = i
\* nothing but progress is known of a call
Progressing(log, c) == \A i \in DOMAIN log : log[i].call = c => log[i].status = "running" /\ ~log[i].local

LogPages == [step : {"read"}, events : Seq(LogEvents), open : SUBSET (Callers \X Nat)]
LogTypes ==
    /\ eventNo \in Nat /\ tries \in [LogSubtasks -> Nat]
    /\ marked \in [LogSubtasks -> {"PENDING", "RUNNING", "COMPLETED", "FAILED"}]
    /\ openCall \in [Callers -> (Callers \X Nat) \cup {NotSent}]
    /\ liveJobs \subseteq LogJobs /\ taskLive \in BOOLEAN /\ taskStatus \in {"RUNNING", "STOPPED"}
    /\ logPage \in {NoPage} \cup LogPages
FileTells == Telling(logFile) /\ \A i \in DOMAIN logFile : logFile[i].call[2] <= eventNo
OpenTells ==
    \A o \in Callers : openCall[o] # NotSent =>
        /\ openCall[o] \in {o} \X (1..(eventNo + 1)) /\ Progressing(logFile, openCall[o])
        /\ o \in LogSubtasks => taskLive /\ marked[o] = "RUNNING"
        /\ o \notin LogSubtasks => o \in liveJobs
StatusTells ==
    /\ taskLive => taskStatus = "RUNNING"
    /\ \A s \in LogSubtasks : marked[s] = "RUNNING" => taskStatus = "RUNNING"
PageTells ==
    logPage # NoPage => /\ Telling(logPage.events)
                        /\ \A c \in logPage.open : c[2] # 0 /\ Progressing(logPage.events, c)
LogInv == LogTypes /\ LogIsNewest /\ FileTells /\ OpenTells /\ StatusTells /\ PageTells

-----------------------------------------------------------------------------
(* Bytes *)

LEMMA LogSizes ==
    ASSUME NEW log \in Seq(LogEvents)
    PROVE  /\ BytesUpTo(log)[0] = 0
           /\ \A k \in 1..Len(log) : BytesUpTo(log)[k] = BytesUpTo(log)[k - 1] + LineSize[log[k].status]
           /\ \A k \in 0..Len(log) : BytesUpTo(log)[k] \in Nat
<1> DEFINE n == Len(log)
           size(k) == LineSize[log[k].status]
           V == [k \in 0..n |-> Nat]
           G == [k \in 1..n |-> [v \in Nat |-> v + size(k)]]
<1>0. n \in Nat /\ \A k \in 1..n : size(k) \in Nat
  <2>1. \A k \in 1..n : log[k] \in LogEvents
    OBVIOUS
  <2>2. \A e \in LogEvents : LineSize[e.status] \in Nat
    BY LogAssumption DEF LogEvents, LogStatus
  <2>3. n \in Nat
    OBVIOUS
  <2> QED BY <2>1, <2>2, <2>3
<1> HIDE DEF n, size
<1>1. StepsWithin(n, V, 0, G)
  BY <1>0 DEF StepsWithin
<1>2. HasRun(n, V, 0, G)
  <2> HIDE DEF V, G
  <2> QED BY <1>0, <1>1, Recursion
<1>3. PICK f : f[0] = 0 /\ \A k \in 1..n : f[k] \in V[k] /\ f[k] = G[k][f[k - 1]]
  BY <1>2 DEF HasRun
<1>4. \A k \in 0..n : f[k] \in Nat
  <2>1. \A k \in 0..n : V[k] = Nat
    OBVIOUS
  <2>2. \A k \in 0..n : k = 0 \/ k \in 1..n
    BY <1>0
  <2> HIDE DEF V, G
  <2> QED BY <1>0, <1>3, <2>1, <2>2
<1>5. \A k \in 1..n : f[k] = f[k - 1] + size(k)
  <2> TAKE k \in 1..n
  <2>1. k - 1 \in 0..n
    BY <1>0
  <2> QED BY <1>3, <1>4, <2>1
<1> HIDE DEF V, G
<1> DEFINE Sum(g) == g = [k \in 0..n |-> IF k = 0 THEN 0 ELSE g[k - 1] + size(k)]
           g == [k \in 0..n |-> f[k]]
<1>6. \A k \in 0..n : g[k] = IF k = 0 THEN 0 ELSE g[k - 1] + size(k)
  <2> TAKE k \in 0..n
  <2>1. CASE k = 0
    BY <1>3, <2>1
  <2>2. CASE k # 0
    <3>1. k \in 1..n /\ k - 1 \in 0..n
      BY <1>0, <2>2
    <3> QED BY <1>5, <2>2, <3>1
  <2> QED BY <2>1, <2>2
<1>7. Sum(g)
  <2>1. g = [k \in 0..n |-> g[k]]
    OBVIOUS
  <2> HIDE DEF g
  <2> QED BY <1>6, <2>1
<1>8. Sum(BytesUpTo(log))
  <2>1. BytesUpTo(log) = CHOOSE h : Sum(h)
    BY DEF BytesUpTo, n, size
  <2> HIDE DEF Sum, g
  <2> QED BY <1>7, <2>1
<1> DEFINE B == BytesUpTo(log)
<1> HIDE DEF B
<1>9. B = [k \in 0..n |-> IF k = 0 THEN 0 ELSE B[k - 1] + size(k)]
  BY <1>8 DEF B
<1>10. B[0] = 0 /\ \A k \in 1..n : B[k] = B[k - 1] + size(k)
  BY <1>0, <1>9
<1>11. \A k \in 0..n : B[k] \in Nat
  <2> DEFINE T == {k \in 0..n : B[k] \in Nat}
  <2>1. 0 \in T
    BY <1>0, <1>10
  <2>2. \A k \in 1..n : k - 1 \in T => k \in T
    BY <1>0, <1>10
  <2>3. \A k \in 0..n : k \in T
    <3> HIDE DEF T
    <3> QED BY <1>0, <2>1, <2>2, UpTo
  <2> QED BY <2>3
<1> QED BY <1>10, <1>11 DEF B, n, size

\* what is cut off in front is no longer counted
CountsOn(log, m, rest) ==
    \A k \in 0..Len(rest) : BytesUpTo(rest)[k] = BytesUpTo(log)[m - 1 + k] - BytesUpTo(log)[m - 1]
LEMMA RestOfLog ==
    ASSUME NEW log \in Seq(LogEvents), NEW m \in 1..(Len(log) + 1), NEW rest,
           rest = SubSeq(log, m, Len(log))
    PROVE  /\ rest \in Seq(LogEvents) /\ Len(rest) = Len(log) + 1 - m
           /\ \A k \in 1..Len(rest) : rest[k] = log[m - 1 + k]
           /\ CountsOn(log, m, rest)
<1>1. /\ rest \in Seq(LogEvents) /\ Len(rest) = Len(log) + 1 - m
      /\ \A k \in 1..Len(rest) : rest[k] = log[m - 1 + k]
  OBVIOUS
<1> DEFINE B == BytesUpTo(log)
           C == BytesUpTo(rest)
           n == Len(rest)
           size(k) == LineSize[log[k].status]
<1>2. n \in Nat /\ \A k \in 0..n : m - 1 + k \in 0..Len(log)
  BY <1>1
<1>3. /\ \A k \in 0..Len(log) : B[k] \in Nat
      /\ \A k \in 1..Len(log) : B[k] = B[k - 1] + size(k)
  BY LogSizes
<1>4. C[0] = 0 /\ \A k \in 1..n : C[k] = C[k - 1] + LineSize[rest[k].status]
  BY <1>1, LogSizes
<1> HIDE DEF B, C
<1> DEFINE T == {k \in 0..n : C[k] = B[m - 1 + k] - B[m - 1]}
<1>5. 0 \in T
  <2>1. 0 \in 0..n /\ m - 1 + 0 = m - 1 /\ m - 1 \in 0..Len(log)
    BY <1>2
  <2>2. B[m - 1 + 0] - B[m - 1] = 0
    BY <1>3, <2>1
  <2> QED BY <1>4, <2>1, <2>2
<1>6. ASSUME NEW k \in 1..n, k - 1 \in T PROVE k \in T
  <2>1. m - 1 + k \in 1..Len(log) /\ m - 1 \in 0..Len(log) /\ (m - 1 + k) - 1 = m - 1 + (k - 1)
        /\ m - 1 + (k - 1) \in 0..Len(log)
    BY <1>1
  <2>2. C[k] = C[k - 1] + size(m - 1 + k)
    BY <1>1, <1>4
  <2>3. B[m - 1 + k] = B[m - 1 + (k - 1)] + size(m - 1 + k)
    BY <1>3, <2>1
  <2>4. C[k - 1] = B[m - 1 + (k - 1)] - B[m - 1]
    BY <1>6
  <2>5. size(m - 1 + k) \in Nat
    <3>1. log[m - 1 + k] \in LogEvents
      BY <2>1
    <3> QED BY <3>1, LogAssumption DEF LogEvents, LogStatus
  <2> HIDE DEF size
  <2>6. C[k] = B[m - 1 + k] - B[m - 1]
    <3>1. B[m - 1 + (k - 1)] \in Nat /\ B[m - 1] \in Nat
      BY <1>3, <2>1
    <3>2. PICK b, d, z : b = B[m - 1 + (k - 1)] /\ d = B[m - 1] /\ z = size(m - 1 + k)
      OBVIOUS
    <3>3. C[k] = (b - d) + z /\ B[m - 1 + k] = b + z
      BY ONLY <2>2, <2>3, <2>4, <3>2
    <3>4. b \in Nat /\ d \in Nat /\ z \in Nat
      BY ONLY <2>5, <3>1, <3>2
    <3>5. (b - d) + z = (b + z) - d
      BY ONLY <3>4
    <3> QED BY ONLY <3>2, <3>3, <3>5
  <2> QED BY <2>6
<1>7. \A k \in 0..n : k \in T
  <2> HIDE DEF T, n
  <2> QED BY <1>2, <1>5, <1>6, UpTo
<1> QED BY <1>1, <1>7 DEF B, C, CountsOn

\* rest is the log from its m-th line on
From(log, m, rest) == m \in 1..(Len(log) + 1) /\ rest = SubSeq(log, m, Len(log))

LEMMA WholeLog ==
    ASSUME NEW log \in Seq(LogEvents) PROVE From(log, 1, log) /\ From(log, Len(log) + 1, <<>>)
BY DEF From

LEMMA CutLog ==
    ASSUME NEW log \in Seq(LogEvents), NEW limit \in Nat
    PROVE  \E m \in 1..(Len(log) + 1) :
             /\ From(log, m, FromEnd(log, limit)) /\ LogBytes(FromEnd(log, limit)) <= limit
             /\ log # <<>> /\ (\A how \in LogStatus : LineSize[how] < limit) => m <= Len(log)
<1> DEFINE B == BytesUpTo(log)
           n == Len(log)
           from == B[n] - limit
           uncut == {i \in DOMAIN log : B[i - 1] > from}
<1>0. n \in Nat /\ DOMAIN log = 1..n
  OBVIOUS
<1>1. /\ \A k \in 0..n : B[k] \in Nat
      /\ \A k \in 1..n : B[k] = B[k - 1] + LineSize[log[k].status]
  BY LogSizes
<1>2. LogBytes(log) = B[n]
  BY DEF LogBytes
<1>3. FromEnd(log, limit) = IF B[n] <= limit THEN log
                            ELSE IF uncut = {} THEN <<>> ELSE SubSeq(log, Min(uncut), n)
  BY <1>2 DEF FromEnd
<1>4. CASE B[n] <= limit
  <2>1. FromEnd(log, limit) = log /\ From(log, 1, log) /\ 1 \in 1..(n + 1)
    BY <1>0, <1>3, <1>4, WholeLog
  <2>2. log # <<>> => 1 <= n
    BY <1>0
  <2> QED BY <1>2, <1>4, <2>1, <2>2
<1>5. CASE ~(B[n] <= limit) /\ uncut = {}
  <2>1. FromEnd(log, limit) = <<>>
    BY <1>3, <1>5
  <2>2. From(log, n + 1, <<>>) /\ n + 1 \in 1..(n + 1)
    BY <1>0, WholeLog
  <2>3. LogBytes(<<>>) = 0
    <3>1. <<>> \in Seq(LogEvents) /\ Len(<<>>) = 0
      OBVIOUS
    <3> QED BY <3>1, LogSizes DEF LogBytes
  <2>4. ASSUME log # <<>>, \A how \in LogStatus : LineSize[how] < limit PROVE FALSE
    <3>1. n \in 1..n /\ n - 1 \in 0..n
      BY <1>0, <2>4
    <3>2. log[n] \in LogEvents
      BY <1>0, <3>1
    <3>3. LineSize[log[n].status] < limit /\ LineSize[log[n].status] \in Nat
      BY <2>4, <3>2, LogAssumption DEF LogEvents, LogStatus
    <3>4. B[n] = B[n - 1] + LineSize[log[n].status] /\ B[n] \in Nat /\ B[n - 1] \in Nat
      BY <1>0, <1>1, <3>1
    <3>5. B[n - 1] > from
      <4> HIDE DEF B, uncut
      <4> QED BY <3>3, <3>4
    <3> QED BY <1>0, <1>5, <3>1, <3>5
  <2> QED BY <2>1, <2>2, <2>3, <2>4
<1>6. CASE ~(B[n] <= limit) /\ uncut # {}
  <2>1. uncut \in SUBSET Nat
    BY <1>0
  <2>2. \E x \in uncut : \A y \in uncut : x <= y
    <3> HIDE DEF uncut
    <3> QED BY <1>6, <2>1, LeastNat
  <2> DEFINE m == Min(uncut)
  <2>3. m \in uncut
    <3> HIDE DEF uncut
    <3> QED BY <2>2 DEF Min
  <2>4. m \in 1..n /\ B[m - 1] > from /\ m \in 1..(n + 1)
    BY <1>0, <2>3
  <2>5. FromEnd(log, limit) = SubSeq(log, m, n)
    BY <1>3, <1>6
  <2> HIDE DEF m, uncut
  <2>6. From(log, m, FromEnd(log, limit))
    BY <2>4, <2>5 DEF From
  <2>7. LogBytes(FromEnd(log, limit)) <= limit
    <3> DEFINE rest == FromEnd(log, limit)
    <3>0. rest = SubSeq(log, m, Len(log)) /\ m \in 1..(Len(log) + 1)
      BY <2>4, <2>5
    <3> HIDE DEF rest
    <3>1. /\ Len(rest) = n + 1 - m
          /\ \A k \in 0..Len(rest) : BytesUpTo(rest)[k] = B[m - 1 + k] - B[m - 1]
      <4>1. /\ Len(rest) = Len(log) + 1 - m
            /\ \A k \in 0..Len(rest) :
                 BytesUpTo(rest)[k] = BytesUpTo(log)[m - 1 + k] - BytesUpTo(log)[m - 1]
        <5> HIDE DEF B, n
        <5>1. Len(rest) = Len(log) + 1 - m /\ CountsOn(log, m, rest)
          BY <3>0, RestOfLog
        <5> QED BY <5>1 DEF CountsOn
      <4> QED BY <4>1
    <3>2. Len(rest) \in 0..Len(rest) /\ m - 1 + Len(rest) = n /\ n \in 0..n /\ m - 1 \in 0..n
      BY <1>0, <2>4, <3>1
    <3>3. LogBytes(rest) = B[n] - B[m - 1]
      BY <3>1, <3>2 DEF LogBytes
    <3>4. B[n] - B[m - 1] <= limit
      <4>1. B[n] \in Nat /\ B[m - 1] \in Nat
        BY <1>1, <3>2
      <4> HIDE DEF B
      <4> QED BY <2>4, <4>1
    <3> QED BY <3>3, <3>4 DEF rest
  <2> QED BY <2>4, <2>6, <2>7
<1> QED BY <1>4, <1>5, <1>6

\* of a log with a line a trim leaves one, and no more than the limit
LEMMA TrimmedLog ==
    ASSUME NEW log \in Seq(LogEvents), log # <<>>
    PROVE  \E m \in 1..Len(log) : From(log, m, Trimmed(log)) /\ LogBytes(Trimmed(log)) <= MaxBytes
<1>0. Len(log) \in Nat /\ 1 \in 1..Len(log) /\ LogBytes(log) \in Nat
  <2>1. Len(log) \in Nat /\ 1 \in 1..Len(log) /\ Len(log) \in 0..Len(log)
    OBVIOUS
  <2> QED BY <2>1, LogSizes DEF LogBytes
<1>1. CASE LogBytes(log) <= MaxBytes
  BY <1>0, <1>1, WholeLog DEF Trimmed
<1>2. CASE ~(LogBytes(log) <= MaxBytes)
  <2>1. Trimmed(log) = FromEnd(log, TrimBytes)
    BY <1>2 DEF Trimmed
  <2>2. TrimBytes \in Nat /\ MaxBytes \in Nat /\ TrimBytes <= MaxBytes /\ \A how \in LogStatus : LineSize[how] < TrimBytes
    BY LogAssumption DEF LogStatus
  <2>3. PICK m \in 1..(Len(log) + 1) :
          /\ From(log, m, Trimmed(log)) /\ LogBytes(Trimmed(log)) <= TrimBytes /\ m <= Len(log)
    BY <2>1, <2>2, CutLog
  <2>4. m \in 1..Len(log)
    BY <2>3
  <2>5. LogBytes(Trimmed(log)) \in Nat
    <3>1. Trimmed(log) \in Seq(LogEvents) /\ Len(Trimmed(log)) \in Nat
      BY <2>3, RestOfLog DEF From
    <3>2. Len(Trimmed(log)) \in 0..Len(Trimmed(log))
      BY <3>1
    <3> QED BY <3>1, <3>2, LogSizes DEF LogBytes
  <2> QED BY <2>2, <2>3, <2>4, <2>5
<1> QED BY <1>1, <1>2

LEMMA TailOfLog ==
    ASSUME NEW log \in Seq(LogEvents)
    PROVE  \E m \in 1..(Len(log) + 1) : From(log, m, LastLines(log))
<1> DEFINE u == FromEnd(log, TailBytes)
           k == Min({Len(u), TailLines})
<1>0. TailBytes \in Nat /\ TailLines \in Nat
  BY LogAssumption
<1>1. PICK m \in 1..(Len(log) + 1) : From(log, m, u)
  BY <1>0, CutLog
<1>2. u \in Seq(LogEvents) /\ Len(u) = Len(log) + 1 - m /\ u = SubSeq(log, m, Len(log))
  BY <1>1, RestOfLog DEF From
<1> HIDE DEF u
<1>3. k \in 0..Len(u)
  <2>1. {Len(u), TailLines} \in SUBSET Nat /\ {Len(u), TailLines} # {} /\ Len(u) \in Nat
    BY <1>0, <1>2
  <2>2. PICK x \in {Len(u), TailLines} : \A y \in {Len(u), TailLines} : x <= y
    BY <2>1, LeastNat
  <2>3. k \in {Len(u), TailLines} /\ \A y \in {Len(u), TailLines} : k <= y
    BY <2>2 DEF Min
  <2> HIDE DEF k
  <2> QED BY <2>1, <2>3
<1> DEFINE p == m + Len(u) - k
<1>4. LastLines(log) = SubSeq(u, Len(u) - k + 1, Len(u))
  BY DEF LastLines, LastOf, u
<1> HIDE DEF k
<1>5. p \in 1..(Len(log) + 1) /\ Len(log) \in Nat
  BY <1>2, <1>3
<1> DEFINE d == Len(u) - k + 1
<1>6. SubSeq(u, d, Len(u)) = SubSeq(log, p, Len(log))
  <2>1. d \in 1..(Len(u) + 1) /\ Len(u) + 1 - d = k /\ Len(log) + 1 - p = k /\ k \in Nat
    BY <1>2, <1>3
  <2>2. /\ SubSeq(u, d, Len(u)) \in Seq(LogEvents) /\ Len(SubSeq(u, d, Len(u))) = k
        /\ \A i \in 1..k : SubSeq(u, d, Len(u))[i] = u[d - 1 + i]
    BY <1>2, <2>1, RestOfLog
  <2>3. /\ SubSeq(log, p, Len(log)) \in Seq(LogEvents) /\ Len(SubSeq(log, p, Len(log))) = k
        /\ \A i \in 1..k : SubSeq(log, p, Len(log))[i] = log[p - 1 + i]
    BY <1>5, <2>1, RestOfLog
  <2>4. \A i \in 1..Len(u) : u[i] = log[m - 1 + i]
    BY <1>2, RestOfLog
  <2>5. ASSUME NEW i \in 1..k PROVE u[d - 1 + i] = log[p - 1 + i]
    <3>1. d - 1 + i \in 1..Len(u) /\ m - 1 + (d - 1 + i) = p - 1 + i
      BY <1>2, <1>3
    <3> QED BY <2>4, <3>1
  <2> HIDE DEF d, p
  <2> QED BY <2>2, <2>3, <2>5, SeqEqual
<1> QED BY <1>4, <1>5, <1>6 DEF From

LEMMA PartTells ==
    ASSUME NEW log, Telling(log), NEW m, NEW rest, From(log, m, rest)
    PROVE  Telling(rest) /\ \A c : Progressing(log, c) => Progressing(rest, c)
<1>1. /\ rest \in Seq(LogEvents) /\ Len(rest) = Len(log) + 1 - m
      /\ \A k \in 1..Len(rest) : rest[k] = log[m - 1 + k]
  BY RestOfLog DEF From, Telling
<1>2. Len(log) \in Nat /\ DOMAIN log = 1..Len(log) /\ m \in 1..(Len(log) + 1)
  BY DEF From, Telling
<1>3. \A k \in DOMAIN rest : m - 1 + k \in DOMAIN log /\ rest[k] = log[m - 1 + k]
  <2>1. DOMAIN rest = 1..Len(rest) /\ Len(rest) \in Nat
    BY <1>1
  <2>2. \A k \in 1..Len(rest) : m - 1 + k \in 1..Len(log)
    BY <1>1, <1>2, <2>1
  <2> QED BY <1>1, <1>2, <2>1, <2>2
<1>4. \A i, j \in DOMAIN rest : m - 1 + i = m - 1 + j => i = j
  BY <1>1, <1>2
<1>5. Telling(rest)
  BY <1>1, <1>3, <1>4 DEF Telling
<1> QED BY <1>3, <1>5 DEF Progressing

-----------------------------------------------------------------------------
(* The rows of a list of events *)

LEMMA NewestForm ==
    ASSUME NEW events \in Seq(LogEvents)
    PROVE  LET found == LastOfNewest(events)
               spot(k) == Len(events) + 1 - k
           IN  /\ found[0] = <<>>
               /\ \A k \in 1..Len(events) :
                    found[k] = IF IsLast(events, spot(k)) THEN Append(found[k - 1], events[spot(k)]) ELSE found[k - 1]
               /\ \A k \in 0..Len(events) : found[k] \in Seq(LogEvents)
<1> DEFINE n == Len(events)
           spot(k) == n + 1 - k
           next(k, v) == IF IsLast(events, spot(k)) THEN Append(v, events[spot(k)]) ELSE v
           V == [k \in 0..n |-> Seq(LogEvents)]
           G == [k \in 1..n |-> [v \in Seq(LogEvents) |-> next(k, v)]]
<1>0. n \in Nat /\ <<>> \in Seq(LogEvents)
  OBVIOUS
<1>a. \A k \in 1..n : \A v \in Seq(LogEvents) : next(k, v) \in Seq(LogEvents)
  <2>1. \A k \in 1..n : spot(k) \in 1..n /\ events[spot(k)] \in LogEvents
    OBVIOUS
  <2> HIDE DEF n, spot
  <2> QED BY <2>1
<1> HIDE DEF next, n
<1>1. StepsWithin(n, V, <<>>, G)
  BY <1>0, <1>a DEF StepsWithin
<1>2. HasRun(n, V, <<>>, G)
  <2> HIDE DEF V, G
  <2> QED BY <1>0, <1>1, Recursion
<1>3. PICK f : f[0] = <<>> /\ \A k \in 1..n : f[k] \in V[k] /\ f[k] = G[k][f[k - 1]]
  BY <1>2 DEF HasRun
<1>4. \A k \in 0..n : f[k] \in Seq(LogEvents)
  <2>1. \A k \in 0..n : V[k] = Seq(LogEvents)
    OBVIOUS
  <2>2. \A k \in 0..n : k = 0 \/ k \in 1..n
    BY <1>0
  <2> HIDE DEF V, G
  <2> QED BY <1>0, <1>3, <2>1, <2>2
<1>5. \A k \in 1..n : f[k] = next(k, f[k - 1])
  <2> TAKE k \in 1..n
  <2>1. k - 1 \in 0..n
    BY <1>0
  <2> QED BY <1>3, <1>4, <2>1
<1> HIDE DEF V, G
<1> DEFINE Found(g) == g = [k \in 0..n |-> IF k = 0 THEN <<>> ELSE next(k, g[k - 1])]
           g == [k \in 0..n |-> f[k]]
<1>6. \A k \in 0..n : g[k] = IF k = 0 THEN <<>> ELSE next(k, g[k - 1])
  <2> TAKE k \in 0..n
  <2>1. CASE k = 0
    BY <1>3, <2>1
  <2>2. CASE k # 0
    <3>1. k \in 1..n /\ k - 1 \in 0..n
      BY <1>0, <2>2
    <3> QED BY <1>5, <2>2, <3>1
  <2> QED BY <2>1, <2>2
<1>7. Found(g)
  <2>1. g = [k \in 0..n |-> g[k]]
    OBVIOUS
  <2> HIDE DEF g
  <2> QED BY <1>6, <2>1
<1>8. Found(LastOfNewest(events))
  <2>1. LastOfNewest(events) = CHOOSE h : Found(h)
    BY DEF LastOfNewest, n, next
  <2> HIDE DEF Found, g
  <2> QED BY <1>7, <2>1
<1> DEFINE R == LastOfNewest(events)
<1> HIDE DEF R
<1>9. R = [k \in 0..n |-> IF k = 0 THEN <<>> ELSE next(k, R[k - 1])]
  BY <1>8 DEF R
<1>10. R[0] = <<>> /\ \A k \in 1..n : R[k] = next(k, R[k - 1])
  BY <1>0, <1>9
<1>11. \A k \in 0..n : R[k] \in Seq(LogEvents)
  <2> DEFINE T == {k \in 0..n : R[k] \in Seq(LogEvents)}
  <2>1. 0 \in T
    <3>1. 0 \in 0..n
      BY <1>0
    <3>2. R[0] = <<>> /\ <<>> \in Seq(LogEvents)
      BY <1>0, <1>10
    <3> QED BY <3>1, <3>2
  <2>2. \A k \in 1..n : k - 1 \in T => k \in T
    BY <1>a, <1>10
  <2>3. \A k \in 0..n : k \in T
    <3> HIDE DEF T
    <3> QED BY <1>0, <2>1, <2>2, UpTo
  <2> QED BY <2>3
<1> QED BY <1>10, <1>11 DEF R, n, next

\* they are the events that are the last of their call
LEMMA RowsFound ==
    ASSUME NEW events \in Seq(LogEvents)
    PROVE  /\ LastOfEach(events) \in Seq(LogEvents)
           /\ ToSet(LastOfEach(events)) = {events[i] : i \in {j \in DOMAIN events : IsLast(events, j)}}
<1> DEFINE n == Len(events)
           spot(k) == n + 1 - k
           R == LastOfNewest(events)
           Some(k) == {events[i] : i \in {j \in spot(k)..n : IsLast(events, j)}}
           T == {k \in 0..n : ToSet(R[k]) = Some(k)}
<1>0. n \in Nat /\ DOMAIN events = 1..n
  OBVIOUS
<1>1. /\ R[0] = <<>>
      /\ \A k \in 1..n : R[k] = IF IsLast(events, spot(k)) THEN Append(R[k - 1], events[spot(k)]) ELSE R[k - 1]
      /\ \A k \in 0..n : R[k] \in Seq(LogEvents)
  BY NewestForm
<1> HIDE DEF R, n
<1>2. 0 \in T
  <2>1. spot(0)..n = {}
    BY <1>0
  <2>2. ToSet(<<>>) = {}
    BY DEF ToSet
  <2>3. Some(0) = {}
    BY <2>1
  <2>4. 0 \in 0..n
    BY <1>0
  <2> QED BY <1>1, <2>2, <2>3, <2>4
<1>3. ASSUME NEW k \in 1..n, k - 1 \in T PROVE k \in T
  <2>1. k \in 0..n /\ k - 1 \in 0..n /\ spot(k) \in 1..n /\ spot(k)..n = {spot(k)} \cup spot(k - 1)..n
    BY <1>0
  <2>2. ToSet(R[k - 1]) = Some(k - 1)
    BY <1>3
  <2>3. CASE IsLast(events, spot(k))
    <3>1. R[k] = Append(R[k - 1], events[spot(k)])
      BY <1>1, <2>3
    <3>2. events[spot(k)] \in LogEvents
      BY <2>1 DEF n
    <3>3. R[k - 1] \in Seq(LogEvents)
      BY <1>1, <2>1
    <3>4. ToSet(R[k]) = ToSet(R[k - 1]) \cup {events[spot(k)]}
      <4> DEFINE e == events[spot(k)]
      <4> HIDE DEF e
      <4>1. e \in LogEvents /\ R[k] = Append(R[k - 1], e)
        BY <3>1, <3>2 DEF e
      <4>2. ToSet(Append(R[k - 1], e)) = ToSet(R[k - 1]) \cup {e}
        BY <3>3, <4>1, AppendToSet
      <4> QED BY <4>1, <4>2 DEF e
    <3>5. Some(k) = Some(k - 1) \cup {events[spot(k)]}
      BY <2>1, <2>3
    <3> QED BY <2>1, <2>2, <3>4, <3>5
  <2>4. CASE ~IsLast(events, spot(k))
    <3>1. R[k] = R[k - 1]
      BY <1>1, <2>4
    <3>2. Some(k) = Some(k - 1)
      BY <2>1, <2>4
    <3> QED BY <2>1, <2>2, <3>1, <3>2
  <2> QED BY <2>3, <2>4
<1>4. n \in T
  <2>1. \A k \in 0..n : k \in T
    <3> HIDE DEF T
    <3> QED BY <1>0, <1>2, <1>3, UpTo
  <2> HIDE DEF T
  <2> QED BY <1>0, <2>1
<1>5. n \in 0..n /\ spot(n) = 1
  BY <1>0
<1>6. LastOfEach(events) = R[n]
  BY DEF LastOfEach, R, n
<1> QED BY <1>0, <1>1, <1>4, <1>5, <1>6

\* one list is the beginning of the other
Begins(a, b) == Len(a) <= Len(b) /\ \A j \in 1..Len(a) : b[j] = a[j]

\* older events come after the rows of the newer
LEMMA NewestFirst ==
    ASSUME NEW events \in Seq(LogEvents), NEW k \in 0..Len(events)
    PROVE  Begins(LastOfNewest(events)[k], LastOfEach(events))
<1> DEFINE n == Len(events)
           spot(m) == n + 1 - m
           R == LastOfNewest(events)
           T == {j \in 0..(n - k) : Begins(R[k], R[k + j])}
<1>0. n \in Nat /\ n - k \in Nat
  OBVIOUS
<1>1. /\ \A m \in 1..n : R[m] = IF IsLast(events, spot(m)) THEN Append(R[m - 1], events[spot(m)]) ELSE R[m - 1]
      /\ \A m \in 0..n : R[m] \in Seq(LogEvents)
  BY NewestForm
<1>a. \A m \in 1..n : events[spot(m)] \in LogEvents
  OBVIOUS
<1> HIDE DEF R, n
<1>2. 0 \in T
  BY <1>0, <1>1 DEF Begins, n
<1>3. ASSUME NEW j \in 1..(n - k), j - 1 \in T PROVE j \in T
  <2>1. /\ k + j \in 1..n /\ (k + j) - 1 = k + (j - 1) /\ k + (j - 1) \in 0..n /\ k + j \in 0..n /\ k \in 0..n
        /\ j \in 0..(n - k)
    BY <1>0 DEF n
  <2> DEFINE a == R[k]
             b == R[k + (j - 1)]
             c == R[k + j]
             e == events[spot(k + j)]
  <2>2. Begins(a, b) /\ a \in Seq(LogEvents) /\ b \in Seq(LogEvents)
    BY <1>1, <1>3, <2>1
  <2>3. (c = Append(b, e) /\ e \in LogEvents) \/ c = b
    BY <1>1, <1>a, <2>1
  <2> HIDE DEF a, b, c, e
  <2>4. Begins(a, c)
    <3>1. CASE c = Append(b, e) /\ e \in LogEvents
      <4>1. Len(c) = Len(b) + 1 /\ \A i \in 1..Len(b) : c[i] = b[i]
        BY <2>2, <3>1
      <4>2. Len(a) \in Nat /\ Len(b) \in Nat
        BY <2>2
      <4>3. Len(a) <= Len(c) /\ \A i \in 1..Len(a) : i \in 1..Len(b)
        BY <2>2, <4>1, <4>2 DEF Begins
      <4> QED BY <2>2, <4>1, <4>3 DEF Begins
    <3>2. CASE c = b
      BY <2>2, <3>2
    <3> QED BY <2>3, <3>1, <3>2
  <2> QED BY <2>1, <2>4 DEF a, c
<1>4. n - k \in T
  <2>1. \A j \in 0..(n - k) : j \in T
    <3> HIDE DEF T
    <3> QED BY <1>0, <1>2, <1>3, UpTo
  <2> HIDE DEF T
  <2> QED BY <1>0, <2>1
<1>5. k + (n - k) = n
  BY DEF n
<1> QED BY <1>4, <1>5 DEF LastOfEach, R, n

\* where two lists have the same newest events, they have the same rows of them
LEMMA SameNewest ==
    ASSUME NEW a \in Seq(LogEvents), NEW b \in Seq(LogEvents), NEW n \in Nat,
           n <= Len(a), n <= Len(b), \A k \in 1..n : a[Len(a) + 1 - k] = b[Len(b) + 1 - k]
    PROVE  \A k \in 0..n : LastOfNewest(a)[k] = LastOfNewest(b)[k]
<1> DEFINE A == LastOfNewest(a)
           B == LastOfNewest(b)
           T == {k \in 0..n : A[k] = B[k]}
<1>0. Len(a) \in Nat /\ Len(b) \in Nat
  OBVIOUS
<1>1. /\ A[0] = <<>>
      /\ \A k \in 1..Len(a) :
           A[k] = IF IsLast(a, Len(a) + 1 - k) THEN Append(A[k - 1], a[Len(a) + 1 - k]) ELSE A[k - 1]
  BY NewestForm
<1>2. /\ B[0] = <<>>
      /\ \A k \in 1..Len(b) :
           B[k] = IF IsLast(b, Len(b) + 1 - k) THEN Append(B[k - 1], b[Len(b) + 1 - k]) ELSE B[k - 1]
  BY NewestForm
<1> HIDE DEF A, B
<1>3. 0 \in T
  <2>1. 0 \in 0..n
    OBVIOUS
  <2> QED BY <1>1, <1>2, <2>1
<1>4. ASSUME NEW k \in 1..n, k - 1 \in T PROVE k \in T
  <2>1. k \in 1..Len(a) /\ k \in 1..Len(b) /\ k \in 0..n
    BY <1>0
  <2> DEFINE i == Len(a) + 1 - k
             j == Len(b) + 1 - k
  <2>2. a[i] = b[j]
    OBVIOUS
  <2>3. \A l \in i + 1..Len(a) : l - i \in 1..(k - 1) /\ Len(b) + 1 - (k - (l - i)) = j + (l - i)
    BY <1>0
  <2>4. \A l \in j + 1..Len(b) : l - j \in 1..(k - 1) /\ Len(a) + 1 - (k - (l - j)) = i + (l - j)
    BY <1>0
  <2>5. \A d \in 1..(k - 1) : a[i + d] = b[j + d] /\ i + d \in i + 1..Len(a) /\ j + d \in j + 1..Len(b)
    <3> TAKE d \in 1..(k - 1)
    <3>1. k - d \in 1..n /\ Len(a) + 1 - (k - d) = i + d /\ Len(b) + 1 - (k - d) = j + d
      BY <1>0
    <3>2. a[Len(a) + 1 - (k - d)] = b[Len(b) + 1 - (k - d)]
      BY <3>1
    <3>3. i + d \in i + 1..Len(a) /\ j + d \in j + 1..Len(b)
      BY <1>0
    <3> QED BY <3>1, <3>2, <3>3
  <2>6. \A l \in i + 1..Len(a) : l = i + (l - i)
    BY <1>0
  <2>7. \A l \in j + 1..Len(b) : l = j + (l - j)
    BY <1>0
  <2> HIDE DEF i, j
  <2>8. IsLast(a, i) => IsLast(b, j)
    <3> SUFFICES ASSUME IsLast(a, i), NEW l \in j + 1..Len(b) PROVE b[l].call # b[j].call
      BY DEF IsLast
    <3>1. l - j \in 1..(k - 1) /\ b[l] = b[j + (l - j)]
      BY <2>4, <2>7
    <3>2. a[i + (l - j)] = b[l] /\ i + (l - j) \in i + 1..Len(a)
      BY <2>5, <3>1
    <3> QED BY <2>2, <3>2 DEF IsLast
  <2>9. IsLast(b, j) => IsLast(a, i)
    <3> SUFFICES ASSUME IsLast(b, j), NEW l \in i + 1..Len(a) PROVE a[l].call # a[i].call
      BY DEF IsLast
    <3>1. l - i \in 1..(k - 1) /\ a[l] = a[i + (l - i)]
      BY <2>3, <2>6
    <3>2. b[j + (l - i)] = a[l] /\ j + (l - i) \in j + 1..Len(b)
      BY <2>5, <3>1
    <3> QED BY <2>2, <3>2 DEF IsLast
  <2>10. A[k - 1] = B[k - 1]
    BY <1>4
  <2>11. /\ A[k] = IF IsLast(a, i) THEN Append(A[k - 1], a[i]) ELSE A[k - 1]
         /\ B[k] = IF IsLast(b, j) THEN Append(B[k - 1], b[j]) ELSE B[k - 1]
    BY <1>1, <1>2, <2>1 DEF i, j
  <2>12. A[k] = B[k]
    BY <2>2, <2>8, <2>9, <2>10, <2>11
  <2> QED BY <2>1, <2>12
<1>5. \A k \in 0..n : k \in T
  <2> HIDE DEF T
  <2> QED BY <1>3, <1>4, UpTo
<1> QED BY <1>5 DEF A, B

-----------------------------------------------------------------------------
(* What the page finds *)

Judged(told) ==
    /\ told.marked \in [LogSubtasks -> {"PENDING", "RUNNING", "COMPLETED", "FAILED"}]
    /\ told.tries \in [LogSubtasks -> Nat]

LEMMA TriesAreNumbers ==
    ASSUME NEW events \in Seq(LogEvents), NEW told, Judged(told), NEW s \in LogSubtasks
    PROVE  TryOf(s, events, told) \in Nat
<1> DEFINE own == {i \in DOMAIN events : events[i].by = s}
<1>1. own \in SUBSET Nat /\ \A i \in own : events[i].try \in Nat
  <2>1. DOMAIN events = 1..Len(events) /\ \A i \in 1..Len(events) : events[i] \in LogEvents
    OBVIOUS
  <2> QED BY <2>1 DEF LogEvents
<1>2. own # {} => Max(own) \in own
  <2>1. own \in SUBSET (1..Len(events)) /\ Len(events) \in Nat
    OBVIOUS
  <2> SUFFICES ASSUME own # {} PROVE \E x \in own : \A y \in own : x >= y
    BY DEF Max
  <2> DEFINE D == {Len(events) - i : i \in own}
  <2> HIDE DEF own
  <2>2. D \in SUBSET Nat /\ D # {}
    <3>1. \A i \in own : Len(events) - i \in Nat
      BY <2>1
    <3>2. PICK i \in own : TRUE
      OBVIOUS
    <3>3. Len(events) - i \in D
      BY <3>2
    <3> QED BY <3>1, <3>3
  <2>3. PICK d \in D : \A e \in D : d <= e
    <3> HIDE DEF D
    <3> QED BY <2>2, LeastNat
  <2>4. PICK x \in own : d = Len(events) - x
    BY <2>3
  <2>5. \A y \in own : Len(events) - x <= Len(events) - y
    BY <2>3, <2>4
  <2>6. \A y \in own : x >= y
    BY <2>1, <2>5
  <2> QED BY <2>6
<1>3. told.tries[s] \in Nat
  BY DEF Judged
<1>4. TryOf(s, events, told) = IF told.tries[s] # 0 THEN told.tries[s] ELSE IF own = {} THEN 1 ELSE events[Max(own)].try
  BY DEF TryOf
<1> DEFINE newest == events[Max(own)].try
<1>5. own # {} => newest \in Nat
  <2> HIDE DEF own
  <2> QED BY <1>1, <1>2
<1> HIDE DEF own, newest
<1>6. TryOf(s, events, told) = IF told.tries[s] # 0 THEN told.tries[s] ELSE IF own = {} THEN 1 ELSE newest
  BY <1>4 DEF newest
<1> QED BY <1>3, <1>5, <1>6

\* a finite set, written as a list
LEMMA ListOfSet ==
    ASSUME NEW S, IsFiniteSet(S)
    PROVE  /\ Cardinality(S) \in Nat
           /\ \A k \in 1..Cardinality(S) : SetToSeq(S)[k] \in S
           /\ \A x \in S : \E k \in 1..Cardinality(S) : SetToSeq(S)[k] = x
           /\ \A k, l \in 1..Cardinality(S) : SetToSeq(S)[k] = SetToSeq(S)[l] => k = l
<1> DEFINE n == Cardinality(S)
<1>1. n \in Nat /\ ExistsBijection(1..n, S)
  BY FS_CardinalityType
<1>2. PICK f \in [1..n -> S] : f \in Bijection(1..n, S)
  BY <1>1 DEF ExistsBijection, Bijection, Injection
<1>3. IsInjective(f)
  BY <1>2 DEF Bijection, Injection, IsInjective
<1> DEFINE g == SetToSeq(S)
<1>4. g \in [1..n -> S] /\ IsInjective(g)
  <2> HIDE DEF n
  <2> QED BY <1>2, <1>3 DEF SetToSeq, n
<1> HIDE DEF g
<1>5. g \in Injection(1..n, S)
  BY <1>4 DEF IsInjective, Injection
<1>6. g \in Surjection(1..n, S)
  <2>1. IsFiniteSet(1..n) /\ Cardinality(1..n) = n
    BY <1>1, FS_Interval
  <2> QED BY <1>5, <2>1, FS_Injection
<1> QED BY <1>1, <1>4, <1>6 DEF IsInjective, Surjection, g

\* what is made up for failed subtasks: one row each, with a name no call has
MadeUp(U, events, told) ==
    /\ U \in Seq(LogEvents)
    /\ \A k \in DOMAIN U :
         /\ U[k].by \in Dark(events, told) /\ U[k].call = <<U[k].by, 0>> /\ U[k].status = "failed"
         /\ U[k].try = TryOf(U[k].by, events, told) /\ U[k].local
    /\ \A s \in Dark(events, told) : \E k \in DOMAIN U : U[k].by = s
    /\ \A k, l \in DOMAIN U : U[k].by = U[l].by => k = l

LEMMA UnloggedForm ==
    ASSUME NEW events \in Seq(LogEvents), NEW told, Judged(told)
    PROVE  MadeUp(Unlogged(events, told), events, told)
<1> DEFINE D == Dark(events, told)
           n == Cardinality(D)
           spot(k) == SetToSeq(D)[k]
           try(s) == TryOf(s, events, told)
           U == Unlogged(events, told)
<1>1. D \subseteq LogSubtasks /\ IsFiniteSet(D)
  <2>1. D \subseteq LogSubtasks
    BY DEF Dark
  <2> QED BY <2>1, LogAssumption, FS_Subset
<1>2. /\ n \in Nat /\ \A k \in 1..n : spot(k) \in D
      /\ \A s \in D : \E k \in 1..n : spot(k) = s
      /\ \A k, l \in 1..n : spot(k) = spot(l) => k = l
  <2> HIDE DEF D
  <2> QED BY <1>1, ListOfSet
<1>3. \A s \in D : try(s) \in Nat
  BY <1>1, TriesAreNumbers
<1>4. U = [k \in 1..n |-> EventOf(0, <<spot(k), 0>>, "failed", try(spot(k)), TRUE)]
  BY DEF Unlogged
<1> HIDE DEF D, n, spot, try, U
<1>5. \A s \in D : EventOf(0, <<s, 0>>, "failed", try(s), TRUE) \in LogEvents
  BY <1>1, <1>3 DEF EventOf, LogEvents, LogStatus, Callers
<1>6. \A s \in D : LET e == EventOf(0, <<s, 0>>, "failed", try(s), TRUE)
                   IN  e.by = s /\ e.call = <<s, 0>> /\ e.status = "failed" /\ e.try = try(s) /\ e.local
  BY DEF EventOf
<1> DEFINE ev(s) == EventOf(0, <<s, 0>>, "failed", try(s), TRUE)
<1>7. \A s \in D : ev(s) \in LogEvents
  BY <1>5
<1>8. \A s \in D : ev(s).by = s /\ ev(s).call = <<s, 0>> /\ ev(s).status = "failed" /\ ev(s).try = try(s) /\ ev(s).local
  BY <1>6
<1>9. U = [k \in 1..n |-> ev(spot(k))]
  BY <1>4
<1> HIDE DEF ev
<1>10. U \in Seq(LogEvents) /\ DOMAIN U = 1..n /\ \A k \in 1..n : U[k] = ev(spot(k))
  BY <1>2, <1>7, <1>9
<1>11. \A k \in 1..n : U[k].by = spot(k)
  BY <1>2, <1>8, <1>10
<1>12. \A k \in 1..n : /\ U[k].by \in D /\ U[k].call = <<U[k].by, 0>> /\ U[k].status = "failed"
                       /\ U[k].try = try(U[k].by) /\ U[k].local
  BY <1>2, <1>8, <1>10, <1>11
<1>13. \A s \in D : \E k \in 1..n : U[k].by = s
  BY <1>2, <1>11
<1>14. \A k, l \in 1..n : U[k].by = U[l].by => k = l
  BY <1>2, <1>11
<1> QED BY <1>10, <1>12, <1>13, <1>14 DEF MadeUp, U, D, try

\* the events and what is made up, one list
LEMMA OneList ==
    ASSUME NEW events, Telling(events), NEW told, Judged(told)
    PROVE  LET U == Unlogged(events, told)
               list == events \o U
           IN  /\ list \in Seq(LogEvents) /\ DOMAIN list = 1..(Len(events) + Len(U))
               /\ \A i \in DOMAIN events : i \in DOMAIN list /\ list[i] = events[i]
               /\ \A k \in DOMAIN U : Len(events) + k \in DOMAIN list /\ list[Len(events) + k] = U[k]
               /\ \A i \in DOMAIN list : i \in DOMAIN events
                                         \/ \E k \in DOMAIN U : i = Len(events) + k
               /\ Len(events) \in Nat /\ DOMAIN events = 1..Len(events) /\ DOMAIN U = 1..Len(U)
<1> DEFINE U == Unlogged(events, told)
           list == events \o U
<1>1. events \in Seq(LogEvents) /\ U \in Seq(LogEvents)
  BY UnloggedForm DEF Telling, MadeUp
<1> HIDE DEF U
<1>2. /\ list \in Seq(LogEvents) /\ Len(list) = Len(events) + Len(U)
      /\ \A i \in 1..Len(list) : list[i] = IF i <= Len(events) THEN events[i] ELSE U[i - Len(events)]
  BY <1>1
<1> HIDE DEF list
<1>3. /\ Len(events) \in Nat /\ Len(U) \in Nat /\ DOMAIN events = 1..Len(events) /\ DOMAIN U = 1..Len(U)
      /\ DOMAIN list = 1..(Len(events) + Len(U))
  BY <1>1, <1>2
<1>4. \A i \in 1..Len(events) : i \in 1..Len(list) /\ list[i] = events[i]
  BY <1>2, <1>3
<1>5. \A k \in 1..Len(U) : Len(events) + k \in 1..Len(list) /\ list[Len(events) + k] = U[k]
  <2> TAKE k \in 1..Len(U)
  <2>1. Len(events) + k \in 1..Len(list) /\ ~(Len(events) + k <= Len(events)) /\ (Len(events) + k) - Len(events) = k
    BY <1>2, <1>3
  <2> QED BY <1>2, <2>1
<1>6. \A i \in 1..Len(list) : i \in 1..Len(events) \/ (i - Len(events) \in 1..Len(U) /\ i = Len(events) + (i - Len(events)))
  BY <1>2, <1>3
<1> QED BY <1>2, <1>3, <1>4, <1>5, <1>6 DEF U, list

\* the rows are the last events of the calls, as they stand
LEMMA RowsAre ==
    ASSUME NEW events, Telling(events), NEW told, Judged(told)
    PROVE  LET list == events \o Unlogged(events, told)
           IN  ToSet(RowsOf(events, told)) =
                 {AsItStands(list[i], told) : i \in {j \in DOMAIN list : IsLast(list, j)}}
<1> DEFINE list == events \o Unlogged(events, told)
           found == LastOfEach(list)
<1>1. list \in Seq(LogEvents)
  BY OneList
<1> HIDE DEF list
<1>2. found \in Seq(LogEvents) /\ ToSet(found) = {list[i] : i \in {j \in DOMAIN list : IsLast(list, j)}}
  BY <1>1, RowsFound
<1>3. RowsOf(events, told) = [k \in DOMAIN found |-> AsItStands(found[k], told)]
  BY DEF RowsOf, list
<1> HIDE DEF found
<1>4. ToSet(RowsOf(events, told)) = {AsItStands(e, told) : e \in ToSet(found)}
  BY <1>3 DEF ToSet
<1> QED BY <1>2, <1>4 DEF list

LEMMA FailureHasRow ==
    ASSUME NEW events, Telling(events), NEW told, Judged(told),
           NEW s \in LogSubtasks, told.marked[s] = "FAILED"
    PROVE  \E row \in ToSet(RowsOf(events, told)) :
             row.by = s /\ row.local /\ row.try = TryOf(s, events, told) /\ row.status = "failed"
<1> DEFINE U == Unlogged(events, told)
           list == events \o U
           n == Len(events)
           fits(e) == e.by = s /\ e.local /\ e.try = TryOf(s, events, told)
<1>1. /\ list \in Seq(LogEvents) /\ DOMAIN list = 1..(n + Len(U)) /\ n \in Nat
      /\ \A i \in DOMAIN events : i \in DOMAIN list /\ list[i] = events[i]
      /\ \A k \in DOMAIN U : n + k \in DOMAIN list /\ list[n + k] = U[k]
      /\ \A i \in DOMAIN list : i \in DOMAIN events \/ \E k \in DOMAIN U : i = n + k
      /\ DOMAIN events = 1..n /\ DOMAIN U = 1..Len(U)
  BY OneList
<1>2. MadeUp(U, events, told)
  BY UnloggedForm DEF Telling
<1>3. Len(list) = n + Len(U)
  BY <1>1
<1> SUFFICES \E i \in DOMAIN list : IsLast(list, i) /\ fits(list[i]) /\ list[i].status = "failed"
  <2>1. PICK i \in DOMAIN list : IsLast(list, i) /\ fits(list[i]) /\ list[i].status = "failed"
    OBVIOUS
  <2>2. AsItStands(list[i], told) = list[i]
    BY <2>1 DEF AsItStands
  <2>3. AsItStands(list[i], told) \in ToSet(RowsOf(events, told))
    BY <2>1, RowsAre
  <2> QED BY <2>1, <2>2, <2>3
<1> HIDE DEF U, list
<1>4. CASE \E i \in DOMAIN events : fits(events[i])
  <2>1. PICK i \in DOMAIN events : fits(events[i])
    BY <1>4
  <2>2. events[i].status = "failed" /\ \A j \in DOMAIN events : events[j].call = events[i].call => j = i
    BY <2>1 DEF Telling
  <2>3. \A k \in DOMAIN U : U[k].call # events[i].call
    <3>1. events[i].call[2] # 0
      BY <2>1 DEF Telling
    <3>2. \A k \in DOMAIN U : U[k].call[2] = 0
      BY <1>2 DEF MadeUp
    <3> QED BY <3>1, <3>2
  <2>4. ASSUME NEW j \in i + 1..Len(list), list[j].call = events[i].call PROVE FALSE
    <3>1. j \in DOMAIN list /\ j # i
      BY <1>1, <1>3, <2>1
    <3>2. CASE j \in DOMAIN events
      BY <1>1, <2>2, <2>4, <3>1, <3>2
    <3>3. CASE \E k \in DOMAIN U : j = n + k
      BY <1>1, <2>3, <2>4, <3>3
    <3> QED BY <1>1, <3>1, <3>2, <3>3
  <2>5. list[i] = events[i] /\ i \in DOMAIN list
    BY <1>1, <2>1
  <2>6. IsLast(list, i)
    BY <2>4, <2>5 DEF IsLast
  <2> QED BY <2>1, <2>2, <2>5, <2>6
<1>5. CASE ~\E i \in DOMAIN events : fits(events[i])
  <2>1. s \in Dark(events, told)
    <3>1. \A e \in ToSet(events) : \E i \in DOMAIN events : e = events[i]
      BY DEF ToSet
    <3>2. ~\E e \in ToSet(events) : fits(e)
      BY <1>5, <3>1
    <3> QED BY <3>2 DEF Dark
  <2>2. PICK k \in DOMAIN U : U[k].by = s
    BY <1>2, <2>1 DEF MadeUp
  <2>3. fits(U[k]) /\ U[k].status = "failed" /\ U[k].call = <<s, 0>>
    BY <1>2, <2>2 DEF MadeUp
  <2>4. \A l \in DOMAIN U : U[l].call = <<s, 0>> => l = k
    <3>1. \A l \in DOMAIN U : U[l].call = <<U[l].by, 0>>
      BY <1>2 DEF MadeUp
    <3>2. \A l \in DOMAIN U : U[l].by = s => l = k
      BY <1>2, <2>2 DEF MadeUp
    <3> QED BY <3>1, <3>2
  <2>5. ASSUME NEW j \in (n + k) + 1..Len(list), list[j].call = <<s, 0>> PROVE FALSE
    <3>1. j \in DOMAIN list /\ j # n + k /\ j \notin DOMAIN events
      BY <1>1, <1>3, <2>2
    <3>2. PICK l \in DOMAIN U : j = n + l
      BY <1>1, <3>1
    <3>3. U[l].call = <<s, 0>>
      BY <1>1, <2>5, <3>2
    <3> QED BY <2>4, <3>1, <3>2, <3>3
  <2>6. list[n + k] = U[k] /\ n + k \in DOMAIN list
    BY <1>1, <2>2
  <2>7. IsLast(list, n + k)
    BY <2>3, <2>5, <2>6 DEF IsLast
  <2> QED BY <2>3, <2>6, <2>7
<1> QED BY <1>4, <1>5

LEMMA HealedJudged == ASSUME LogTypes PROVE Judged(Healed)
<1> DEFINE stopped == [s \in LogSubtasks |-> IF marked[s] = "RUNNING" THEN "PENDING" ELSE marked[s]]
<1>1. stopped \in [LogSubtasks -> {"PENDING", "RUNNING", "COMPLETED", "FAILED"}]
  BY DEF LogTypes
<1>2. (Healed.marked = marked \/ Healed.marked = stopped) /\ Healed.tries = tries
  BY DEF Healed
<1> HIDE DEF stopped
<1> QED BY <1>1, <1>2 DEF Judged, LogTypes

LEMMA PageIsRead ==
    ASSUME LogInv, logPage # NoPage
    PROVE  /\ Telling(logPage.events) /\ Judged(Healed)
           /\ logPage.events \in Seq(LogEvents) /\ logPage.open \subseteq Callers \X Nat
<1>1. logPage \in LogPages
  BY DEF LogInv, LogTypes
<1> QED BY <1>1, HealedJudged DEF LogInv, PageTells, LogPages

\* a row is an event of the log as it stands, or made up
LEMMA RowComes ==
    ASSUME NEW events, Telling(events), NEW told, Judged(told), NEW row \in ToSet(RowsOf(events, told))
    PROVE  \E e \in LogEvents :
             /\ row = AsItStands(e, told)
             /\ (\E i \in DOMAIN events : e = events[i]) \/ (e.status = "failed" /\ e.call[2] = 0)
<1> DEFINE U == Unlogged(events, told)
           list == events \o U
<1>1. /\ list \in Seq(LogEvents)
      /\ \A i \in DOMAIN events : list[i] = events[i]
      /\ \A k \in DOMAIN U : list[Len(events) + k] = U[k]
      /\ \A i \in DOMAIN list : i \in DOMAIN events \/ \E k \in DOMAIN U : i = Len(events) + k
  BY OneList
<1>2. MadeUp(U, events, told)
  BY UnloggedForm DEF Telling
<1>3. PICK i \in DOMAIN list : row = AsItStands(list[i], told)
  BY RowsAre
<1> HIDE DEF list, U
<1>4. list[i] \in LogEvents
  BY <1>1
<1>5. CASE i \in DOMAIN events
  BY <1>1, <1>3, <1>4, <1>5
<1>6. CASE \E k \in DOMAIN U : i = Len(events) + k
  <2>1. PICK k \in DOMAIN U : list[i] = U[k]
    BY <1>1, <1>6
  <2>2. U[k].status = "failed" /\ U[k].call[2] = 0
    BY <1>2 DEF MadeUp
  <2> QED BY <1>3, <1>4, <2>1, <2>2
<1> QED BY <1>1, <1>5, <1>6

LEMMA ToldFailures == ASSUME LogInv PROVE FailuresAreTold
<1> SUFFICES ASSUME logPage # NoPage, NEW s \in LogSubtasks, Healed.marked[s] = "FAILED"
             PROVE  \E row \in ToSet(RowsShown) :
                      row.by = s /\ row.local /\ tries[s] \in {0, row.try} /\ row.status = "failed"
  BY DEF FailuresAreTold
<1>1. PICK row \in ToSet(RowsShown) :
        row.by = s /\ row.local /\ row.try = TryOf(s, logPage.events, Healed) /\ row.status = "failed"
  BY PageIsRead, FailureHasRow DEF RowsShown
<1>2. Healed.tries = tries
  BY DEF Healed
<1>3. tries[s] \in {0, row.try}
  BY <1>1, <1>2 DEF TryOf
<1> QED BY <1>1, <1>3

LEMMA ShownRunning == ASSUME LogInv PROVE RunningIsShown
<1> SUFFICES ASSUME logPage # NoPage, NEW row \in ToSet(RowsShown)
             PROVE  /\ row.call \in logPage.open \cap InFlight => row.status = "running"
                    /\ row.status = "running" => Healed.taskStatus = "RUNNING" \/ liveJobs # {}
  BY DEF RunningIsShown
<1>1. Telling(logPage.events) /\ Judged(Healed)
  BY PageIsRead
<1>2. PICK e \in LogEvents :
        /\ row = AsItStands(e, Healed)
        /\ \/ \E i \in DOMAIN logPage.events : e = logPage.events[i]
           \/ e.status = "failed" /\ e.call[2] = 0
  BY <1>1, RowComes DEF RowsShown
<1>6. \/ e.by = e.call[1] /\ \A c \in logPage.open : e.call = c => e.status = "running"
      \/ e.status = "failed" /\ e.call[2] = 0
  BY <1>1, <1>2 DEF Telling, LogInv, PageTells, Progressing
<1>7. row = AsItStands(e, Healed)
  BY <1>2
<1>8. row.call = e.call /\ row.by = e.by
  <2>1. [e EXCEPT !.status = "cancelled"].call = e.call /\ [e EXCEPT !.status = "cancelled"].by = e.by
    BY DEF LogEvents
  <2> QED BY <1>7, <2>1 DEF AsItStands
<1>9. ASSUME row.call \in logPage.open, row.call \in InFlight PROVE row.status = "running"
  <2>1. e.call \in logPage.open /\ e.call \in InFlight
    BY <1>8, <1>9
  <2>2. PICK o \in Callers : e.call = openCall[o] /\ openCall[o] # NotSent
    BY <2>1 DEF InFlight
  <2>3. /\ openCall[o] \in {o} \X (1..(eventNo + 1)) /\ (o \in LogSubtasks => taskLive /\ marked[o] = "RUNNING")
        /\ (o \notin LogSubtasks => o \in liveJobs)
    BY <2>2 DEF LogInv, OpenTells
  <2>4. e.call[1] = o /\ e.call[2] \in 1..(eventNo + 1)
    BY <2>2, <2>3
  <2>5. e.call[2] # 0
    <3>1. eventNo \in Nat
      BY DEF LogInv, LogTypes
    <3> QED BY <2>4, <3>1
  <2>6. e.status = "running" /\ e.by = o
    BY <1>6, <2>1, <2>4, <2>5
  <2>7. StillRuns(o, Healed)
    <3>1. CASE o \in LogSubtasks
      BY <2>3, <3>1 DEF StillRuns, Healed
    <3>2. CASE o \notin LogSubtasks
      BY <2>3, <3>2 DEF StillRuns, Healed
    <3> QED BY <3>1, <3>2
  <2> QED BY <1>7, <2>6, <2>7 DEF AsItStands
<1>10. ASSUME row.status = "running" PROVE Healed.taskStatus = "RUNNING" \/ liveJobs # {}
  <2>1. e.status = "running" /\ StillRuns(e.by, Healed)
    <3>1. [e EXCEPT !.status = "cancelled"].status = "cancelled"
      BY DEF LogEvents
    <3> QED BY <1>7, <1>10, <3>1 DEF AsItStands
  <2>2. CASE e.by \in LogSubtasks
    <3>1. Healed.marked[e.by] = "RUNNING"
      BY <2>1, <2>2 DEF StillRuns
    <3>2. ~(taskStatus = "RUNNING" /\ ~taskLive)
      <4> SUFFICES ASSUME taskStatus = "RUNNING" /\ ~taskLive PROVE FALSE
        OBVIOUS
      <4>1. Healed.marked[e.by] = IF marked[e.by] = "RUNNING" THEN "PENDING" ELSE marked[e.by]
        BY <2>2 DEF Healed
      <4> QED BY <3>1, <4>1
    <3>3. Healed.marked = marked /\ Healed.taskStatus = taskStatus
      BY <3>2 DEF Healed
    <3> QED BY <2>2, <3>1, <3>3 DEF LogInv, StatusTells
  <2>3. CASE e.by \notin LogSubtasks
    <3>1. Healed.liveJobs = liveJobs
      BY DEF Healed
    <3> QED BY <2>1, <2>3, <3>1 DEF StillRuns
  <2> QED BY <2>2, <2>3
<1> QED BY <1>9, <1>10

LEMMA FollowingPages == ASSUME LogInv PROVE PagesFollow
<1> DEFINE tail == LastLines(logFile)
           U == Unlogged(logFile, Healed)
           a == tail \o U
           b == logFile \o U
           newest == RowsOf(tail, Healed)
           all == RowsOf(logFile, Healed)
           first == PageFrom(newest, 0)
<1> SUFFICES ASSUME Unlogged(tail, Healed) = U PROVE first = SubSeq(all, 1, Len(first))
  BY DEF PagesFollow
<1>1. Judged(Healed) /\ Telling(logFile) /\ logFile \in Seq(LogEvents)
  BY HealedJudged DEF LogInv, FileTells, Telling
<1>2. PICK m \in 1..(Len(logFile) + 1) : From(logFile, m, tail)
  BY <1>1, TailOfLog
<1>3. /\ tail \in Seq(LogEvents) /\ Len(tail) = Len(logFile) + 1 - m
      /\ \A k \in 1..Len(tail) : tail[k] = logFile[m - 1 + k]
  BY <1>1, <1>2, RestOfLog DEF From
<1>4. U \in Seq(LogEvents)
  BY <1>1, UnloggedForm DEF MadeUp
<1>5. newest = [k \in DOMAIN LastOfEach(a) |-> AsItStands(LastOfEach(a)[k], Healed)]
  BY DEF RowsOf
<1>6. all = [k \in DOMAIN LastOfEach(b) |-> AsItStands(LastOfEach(b)[k], Healed)]
  BY DEF RowsOf
<1> HIDE DEF tail, U
<1>7. /\ a \in Seq(LogEvents) /\ Len(a) = Len(tail) + Len(U)
      /\ \A i \in 1..Len(a) : a[i] = IF i <= Len(tail) THEN tail[i] ELSE U[i - Len(tail)]
  <2>1. tail \in Seq(LogEvents)
    BY <1>3
  <2> QED BY <1>4, <2>1
<1>8. /\ b \in Seq(LogEvents) /\ Len(b) = Len(logFile) + Len(U)
      /\ \A i \in 1..Len(b) : b[i] = IF i <= Len(logFile) THEN logFile[i] ELSE U[i - Len(logFile)]
  <2>1. logFile \in Seq(LogEvents)
    BY <1>1
  <2> QED BY <1>4, <2>1
<1>9. Len(tail) \in Nat /\ Len(U) \in Nat /\ Len(logFile) \in Nat
  BY <1>1, <1>3, <1>4
<1> HIDE DEF a, b
<1>10. Len(a) \in Nat /\ Len(a) <= Len(b)
  BY <1>3, <1>7, <1>8, <1>9
<1>11. ASSUME NEW k \in 1..Len(a) PROVE a[Len(a) + 1 - k] = b[Len(b) + 1 - k]
  <2> DEFINE i == Len(a) + 1 - k
             j == Len(b) + 1 - k
  <2>1. i \in 1..Len(a) /\ j \in 1..Len(b) /\ j = m - 1 + i
    BY <1>3, <1>7, <1>8, <1>9
  <2> HIDE DEF i, j
  <2>2. /\ a[i] = IF i <= Len(tail) THEN tail[i] ELSE U[i - Len(tail)]
        /\ b[j] = IF j <= Len(logFile) THEN logFile[j] ELSE U[j - Len(logFile)]
    BY <1>7, <1>8, <2>1
  <2>3. CASE i <= Len(tail)
    <3>1. i \in 1..Len(tail) /\ j <= Len(logFile)
      BY <1>3, <1>9, <2>1, <2>3
    <3>2. a[i] = tail[i] /\ b[j] = logFile[j]
      BY <2>2, <2>3, <3>1
    <3>3. tail[i] = logFile[m - 1 + i]
      BY <1>3, <3>1
    <3> QED BY <2>1, <3>2, <3>3 DEF i, j
  <2>4. CASE ~(i <= Len(tail))
    <3>1. ~(j <= Len(logFile)) /\ i - Len(tail) = j - Len(logFile)
      BY <1>3, <1>9, <2>1, <2>4
    <3>2. a[i] = U[i - Len(tail)] /\ b[j] = U[j - Len(logFile)]
      BY <2>2, <2>4, <3>1
    <3> QED BY <3>1, <3>2 DEF i, j
  <2> QED BY <2>3, <2>4
<1> DEFINE A == LastOfEach(a)
           B == LastOfEach(b)
<1>12. Begins(A, B)
  <2>1. Len(a) \in 0..Len(a) /\ Len(a) \in 0..Len(b) /\ Len(a) <= Len(a)
    BY <1>8, <1>10
  <2>2. \A k \in 0..Len(a) : LastOfNewest(a)[k] = LastOfNewest(b)[k]
    <3>1. a \in Seq(LogEvents) /\ b \in Seq(LogEvents) /\ Len(a) <= Len(a)
      BY <1>7, <1>8, <1>10
    <3>2. \A k \in 1..Len(a) : a[Len(a) + 1 - k] = b[Len(b) + 1 - k]
      BY <1>11
    <3> QED BY <1>10, <3>1, <3>2, SameNewest
  <2>3. A = LastOfNewest(b)[Len(a)]
    BY <2>1, <2>2 DEF LastOfEach
  <2> QED BY <1>8, <2>1, <2>3, NewestFirst
<1>13. A \in Seq(LogEvents) /\ B \in Seq(LogEvents)
  BY <1>7, <1>8, RowsFound
<1> HIDE DEF A, B
<1> DEFINE S == {AsItStands(e, Healed) : e \in LogEvents}
<1>14. /\ newest \in Seq(S) /\ Len(newest) = Len(A) /\ all \in Seq(S) /\ Len(all) = Len(B)
       /\ \A k \in 1..Len(A) : newest[k] = AsItStands(A[k], Healed)
       /\ \A k \in 1..Len(B) : all[k] = AsItStands(B[k], Healed)
  <2>1. newest = [k \in 1..Len(A) |-> AsItStands(A[k], Healed)] /\ Len(A) \in Nat
    BY <1>5, <1>13 DEF A
  <2>2. all = [k \in 1..Len(B) |-> AsItStands(B[k], Healed)] /\ Len(B) \in Nat
    BY <1>6, <1>13 DEF B
  <2>3. (\A k \in 1..Len(A) : AsItStands(A[k], Healed) \in S) /\ (\A k \in 1..Len(B) : AsItStands(B[k], Healed) \in S)
    BY <1>13
  <2> HIDE DEF newest, all, S
  <2> QED BY <2>1, <2>2, <2>3
<1>15. Begins(newest, all)
  BY <1>12, <1>13, <1>14 DEF Begins
<1> DEFINE n == Min({Len(newest), 0 + PageLimit})
<1>16. n \in 0..Len(newest)
  <2>1. {Len(newest), 0 + PageLimit} \in SUBSET Nat /\ Len(newest) \in Nat
    BY <1>14, LogAssumption
  <2>2. PICK x \in {Len(newest), 0 + PageLimit} : \A y \in {Len(newest), 0 + PageLimit} : x <= y
    BY <2>1, LeastNat
  <2>3. n \in {Len(newest), 0 + PageLimit} /\ \A y \in {Len(newest), 0 + PageLimit} : n <= y
    BY <2>2 DEF Min
  <2> HIDE DEF n
  <2> QED BY <2>1, <2>3
<1>17. first = SubSeq(newest, 1, n)
  <2>1. 0 + 1 = 1
    OBVIOUS
  <2> QED BY <2>1 DEF PageFrom
<1> HIDE DEF n, newest, all, S, first
<1>18. /\ SubSeq(newest, 1, n) \in Seq(S) /\ Len(SubSeq(newest, 1, n)) = n
       /\ \A k \in 1..n : SubSeq(newest, 1, n)[k] = newest[k]
  BY <1>14, <1>16
<1>19. n \in 0..Len(all)
  BY <1>14, <1>15, <1>16 DEF Begins
<1>20. /\ SubSeq(all, 1, n) \in Seq(S) /\ Len(SubSeq(all, 1, n)) = n
       /\ \A k \in 1..n : SubSeq(all, 1, n)[k] = all[k]
  BY <1>14, <1>19
<1>21. \A k \in 1..n : newest[k] = all[k]
  BY <1>15, <1>16 DEF Begins
<1>22. SubSeq(newest, 1, n) = SubSeq(all, 1, n)
  BY <1>18, <1>20, <1>21, SeqEqual
<1> QED BY <1>17, <1>18, <1>22

-----------------------------------------------------------------------------
(* What is appended *)

Newest(log, n) ==
    /\ \A i \in DOMAIN log : log[i].no = n - Len(log) + i
    /\ n > 0 => log # <<>>
    /\ LogBytes(log) <= MaxBytes
Numbered(log, n) == \A i \in DOMAIN log : log[i].call[2] <= n

LEMMA EventWritten ==
    ASSUME NEW log, NEW n \in Nat, Telling(log), Newest(log, n), Numbered(log, n),
           NEW e \in LogEvents, e.no = n + 1, e.by = e.call[1], e.call[2] \in 1..(n + 1),
           \A i \in DOMAIN log : log[i].call = e.call => ~e.local /\ ~log[i].local,
           e.local => e.status = "failed",
           NEW new, new = Trimmed(Append(log, e))
    PROVE  /\ Telling(new) /\ Newest(new, n + 1) /\ Numbered(new, n + 1)
           /\ \A c : Progressing(log, c) /\ (e.call = c => e.status = "running" /\ ~e.local)
                       => Progressing(new, c)
<1> DEFINE long == Append(log, e)
           l == Len(log)
<1>1. log \in Seq(LogEvents) /\ l \in Nat /\ DOMAIN log = 1..l
  BY DEF Telling
<1>2. /\ long \in Seq(LogEvents) /\ Len(long) = l + 1 /\ DOMAIN long = 1..(l + 1) /\ long # <<>>
      /\ long[l + 1] = e /\ \A i \in 1..l : long[i] = log[i]
  <2>1. log \in Seq(LogEvents) /\ e \in LogEvents
    BY <1>1
  <2>2. /\ long \in Seq(LogEvents) /\ Len(long) = Len(log) + 1
        /\ long[Len(log) + 1] = e /\ \A i \in 1..Len(log) : long[i] = log[i]
    BY <2>1
  <2>3. DOMAIN long = 1..(l + 1) /\ Len(long) # 0
    BY <2>2
  <2> HIDE DEF long
  <2> QED BY <2>2, <2>3
<1>3. \A i \in 1..(l + 1) : i \in 1..l \/ i = l + 1
  BY <1>1
<1>4. PICK m \in 1..Len(long) : From(long, m, new) /\ LogBytes(new) <= MaxBytes
  BY <1>2, TrimmedLog
<1> HIDE DEF long, l
<1>5. Telling(long)
  <2>1. ASSUME NEW i \in 1..(l + 1) PROVE long[i].by = long[i].call[1] /\ long[i].call[2] # 0
    <3>1. CASE i \in 1..l
      BY <1>1, <1>2, <3>1 DEF Telling
    <3>2. CASE i = l + 1
      BY <1>2, <3>2
    <3> QED BY <1>3, <3>1, <3>2
  <2>2. ASSUME NEW i \in 1..(l + 1), long[i].local
        PROVE  long[i].status = "failed" /\ \A j \in 1..(l + 1) : long[j].call = long[i].call => j = i
    <3>1. CASE i \in 1..l
      <4>1. log[i].local /\ long[i] = log[i]
        BY <1>2, <2>2, <3>1
      <4>2. log[i].status = "failed" /\ \A j \in 1..l : log[j].call = log[i].call => j = i
        BY <1>1, <3>1, <4>1 DEF Telling
      <4>3. e.call # log[i].call
        BY <1>1, <3>1, <4>1
      <4>4. \A j \in 1..l : long[j].call = long[i].call => j = i
        BY <1>2, <4>1, <4>2
      <4>5. long[l + 1].call # long[i].call
        BY <1>2, <4>1, <4>3
      <4> QED BY <1>3, <4>1, <4>2, <4>4, <4>5
    <3>2. CASE i = l + 1
      <4>1. e.local /\ e.status = "failed" /\ long[i] = e
        BY <1>2, <2>2, <3>2
      <4>2. \A j \in 1..l : long[j].call # e.call
        BY <1>1, <1>2, <4>1
      <4> QED BY <1>3, <3>2, <4>1, <4>2
    <3> QED BY <1>3, <3>1, <3>2
  <2> QED BY <1>2, <2>1, <2>2 DEF Telling
<1>6. /\ new \in Seq(LogEvents) /\ Len(new) = l + 2 - m /\ m \in 1..(l + 1)
      /\ \A k \in 1..Len(new) : new[k] = long[m - 1 + k]
  <2>1. Len(long) + 1 - m = l + 2 - m
    BY <1>1, <1>2
  <2> QED BY <1>2, <1>4, <2>1, RestOfLog DEF From
<1>7. ASSUME NEW k \in 1..Len(new) PROVE m - 1 + k \in 1..(l + 1) /\ new[k] = long[m - 1 + k]
  BY <1>1, <1>6
<1>8. Telling(new) /\ \A c : Progressing(long, c) => Progressing(new, c)
  BY <1>4, <1>5, PartTells
<1>9. Newest(new, n + 1)
  <2>1. \A i \in 1..(l + 1) : long[i].no = (n + 1) - (l + 1) + i
    <3> TAKE i \in 1..(l + 1)
    <3>1. CASE i \in 1..l
      <4>1. log[i].no = n - l + i
        BY <1>1, <3>1 DEF Newest, l
      <4> QED BY <1>1, <1>2, <3>1, <4>1
    <3>2. CASE i = l + 1
      BY <1>1, <1>2, <3>2
    <3> QED BY <1>3, <3>1, <3>2
  <2>2. \A k \in 1..Len(new) : new[k].no = (n + 1) - Len(new) + k
    <3> TAKE k \in 1..Len(new)
    <3>1. new[k].no = (n + 1) - (l + 1) + (m - 1 + k)
      BY <1>7, <2>1
    <3> QED BY <1>1, <1>6, <3>1
  <2>3. new # <<>> /\ DOMAIN new = 1..Len(new)
    BY <1>1, <1>6
  <2> QED BY <1>4, <2>2, <2>3 DEF Newest
<1>10. Numbered(new, n + 1)
  <2>1. \A i \in 1..(l + 1) : long[i].call[2] <= n + 1
    <3> TAKE i \in 1..(l + 1)
    <3>1. CASE i \in 1..l
      <4>1. log[i].call[2] <= n /\ log[i].call[2] \in Nat
        <5>1. log[i] \in LogEvents
          BY <1>1, <3>1
        <5>2. log[i].call \in Callers \X Nat
          BY <5>1 DEF LogEvents
        <5> QED BY <1>1, <3>1, <5>2 DEF Numbered
      <4> QED BY <1>2, <3>1, <4>1
    <3>2. CASE i = l + 1
      BY <1>2, <3>2
    <3> QED BY <1>3, <3>1, <3>2
  <2>2. DOMAIN new = 1..Len(new)
    BY <1>6
  <2> QED BY <1>7, <2>1, <2>2 DEF Numbered
<1>11. ASSUME NEW c, Progressing(log, c), e.call = c => e.status = "running" /\ ~e.local
       PROVE  Progressing(long, c)
  <2> SUFFICES ASSUME NEW i \in 1..(l + 1), long[i].call = c
               PROVE  long[i].status = "running" /\ ~long[i].local
    BY <1>2 DEF Progressing
  <2>1. CASE i \in 1..l
    BY <1>1, <1>2, <1>11, <2>1 DEF Progressing
  <2>2. CASE i = l + 1
    BY <1>2, <1>11, <2>2
  <2> QED BY <1>3, <2>1, <2>2
<1> QED BY <1>8, <1>9, <1>10, <1>11

LEMMA FileStays == ASSUME LogInv, UNCHANGED <<logFile, eventNo>> PROVE LogIsNewest' /\ FileTells'
<1>1. logFile' = logFile /\ eventNo' = eventNo
  OBVIOUS
<1> QED BY <1>1 DEF LogInv, LogIsNewest, FileTells

\* one more event of a call of which nothing but progress is known
LEMMA EventOfCall ==
    ASSUME LogInv, NEW c \in Callers \X Nat, c[2] \in 1..(eventNo + 1), NEW how \in LogStatus,
           NEW try \in Nat, Appends(c, how, try, FALSE), Progressing(logFile, c)
    PROVE  /\ LogIsNewest' /\ FileTells' /\ eventNo' \in Nat /\ eventNo <= eventNo'
           /\ \A d : d # c /\ Progressing(logFile, d) => Progressing(logFile', d)
           /\ how = "running" => Progressing(logFile', c)
<1>1. CASE UNCHANGED <<logFile, eventNo>>
  BY <1>1, FileStays DEF LogInv, LogTypes
<1>2. CASE /\ logFile' = Trimmed(Append(logFile, EventOf(eventNo + 1, c, how, try, FALSE)))
           /\ eventNo' = eventNo + 1
  <2> DEFINE e == EventOf(eventNo + 1, c, how, try, FALSE)
             new == logFile'
  <2>1. eventNo \in Nat /\ Telling(logFile) /\ Newest(logFile, eventNo) /\ Numbered(logFile, eventNo)
    BY DEF LogInv, LogTypes, FileTells, LogIsNewest, Newest, Numbered
  <2>2. e \in LogEvents
    BY <2>1 DEF EventOf, LogEvents
  <2>3. e.no = eventNo + 1 /\ e.by = e.call[1] /\ e.call = c /\ e.status = how /\ ~e.local
    BY DEF EventOf
  <2>4. new = Trimmed(Append(logFile, e))
    BY <1>2
  <2> HIDE DEF e, new
  <2>5. \A i \in DOMAIN logFile : logFile[i].call = e.call => ~e.local /\ ~logFile[i].local
    BY <2>3 DEF Progressing
  <2>6. /\ Telling(new) /\ Newest(new, eventNo + 1) /\ Numbered(new, eventNo + 1)
        /\ \A d : Progressing(logFile, d) /\ (e.call = d => e.status = "running" /\ ~e.local) => Progressing(new, d)
    BY <2>1, <2>2, <2>3, <2>4, <2>5, EventWritten
  <2>7. LogIsNewest' /\ FileTells'
    BY <1>2, <2>6 DEF LogIsNewest, FileTells, Newest, Numbered, new
  <2>8. eventNo' \in Nat /\ eventNo <= eventNo'
    BY <1>2, <2>1
  <2>9. \A d : d # c /\ Progressing(logFile, d) => Progressing(logFile', d)
    BY <2>3, <2>6 DEF new
  <2>10. how = "running" => Progressing(logFile', c)
    BY <2>3, <2>6 DEF new
  <2> QED BY <2>7, <2>8, <2>9, <2>10
<1> QED BY <1>1, <1>2 DEF Appends

\* the event of a failure, under a name of its own
LEMMA EventOfFailure ==
    ASSUME LogInv, NEW s \in LogSubtasks, NEW try \in Nat, Appends(NewCall(s), "failed", try, TRUE)
    PROVE  /\ LogIsNewest' /\ FileTells' /\ eventNo' \in Nat /\ eventNo <= eventNo'
           /\ \A d : d # NewCall(s) /\ Progressing(logFile, d) => Progressing(logFile', d)
<1>1. CASE UNCHANGED <<logFile, eventNo>>
  BY <1>1, FileStays DEF LogInv, LogTypes
<1>2. CASE /\ logFile' = Trimmed(Append(logFile, EventOf(eventNo + 1, NewCall(s), "failed", try, TRUE)))
           /\ eventNo' = eventNo + 1
  <2> DEFINE c == NewCall(s)
             e == EventOf(eventNo + 1, c, "failed", try, TRUE)
             new == logFile'
  <2>1. eventNo \in Nat /\ Telling(logFile) /\ Newest(logFile, eventNo) /\ Numbered(logFile, eventNo)
    BY DEF LogInv, LogTypes, FileTells, LogIsNewest, Newest, Numbered
  <2>2. e \in LogEvents /\ c[2] = eventNo + 1 /\ c[1] = s
    BY <2>1 DEF EventOf, LogEvents, LogStatus, NewCall, Callers
  <2>3. e.no = eventNo + 1 /\ e.by = e.call[1] /\ e.call = c /\ e.status = "failed" /\ e.local
    BY DEF EventOf
  <2>4. new = Trimmed(Append(logFile, e))
    BY <1>2
  <2> HIDE DEF e, new, c
  <2>5. \A i \in DOMAIN logFile : logFile[i].call # e.call
    <3>1. \A i \in DOMAIN logFile : logFile[i].call[2] <= eventNo
      BY <2>1 DEF Numbered
    <3> QED BY <2>1, <2>2, <2>3, <3>1
  <2>6. /\ Telling(new) /\ Newest(new, eventNo + 1) /\ Numbered(new, eventNo + 1)
        /\ \A d : Progressing(logFile, d) /\ (e.call = d => e.status = "running" /\ ~e.local) => Progressing(new, d)
    <3>1. e.call[2] \in 1..(eventNo + 1)
      BY <2>1, <2>2, <2>3
    <3> QED BY <2>1, <2>2, <2>3, <2>4, <2>5, <3>1, EventWritten
  <2>7. LogIsNewest' /\ FileTells'
    BY <1>2, <2>6 DEF LogIsNewest, FileTells, Newest, Numbered, new
  <2>8. eventNo' \in Nat /\ eventNo <= eventNo'
    BY <1>2, <2>1
  <2>9. \A d : d # c /\ Progressing(logFile, d) => Progressing(logFile', d)
    BY <2>3, <2>6 DEF new
  <2> QED BY <2>7, <2>8, <2>9 DEF c
<1> QED BY <1>1, <1>2 DEF Appends

-----------------------------------------------------------------------------
(* The steps *)

LEMMA MoreNumbers ==
    ASSUME NEW n \in Nat, NEW m \in Nat, n <= m
    PROVE  1..(n + 1) \subseteq 1..(m + 1) /\ n + 1 \in 1..(m + 1)
OBVIOUS

\* what is known of the senders but o stays, when only the call c of o is written
LEMMA OthersStay ==
    ASSUME LogInv, NEW o \in Callers, NEW c, c[1] = o, eventNo' \in Nat, eventNo <= eventNo',
           \A d : d # c /\ Progressing(logFile, d) => Progressing(logFile', d),
           UNCHANGED <<taskLive, marked, liveJobs>>,
           NEW p \in Callers, p # o, openCall'[p] = openCall[p], openCall'[p] # NotSent
    PROVE  /\ openCall'[p] \in {p} \X (1..(eventNo' + 1)) /\ Progressing(logFile', openCall'[p])
           /\ p \in LogSubtasks => taskLive' /\ marked'[p] = "RUNNING"
           /\ p \notin LogSubtasks => p \in liveJobs'
<1>1. /\ openCall[p] \in {p} \X (1..(eventNo + 1)) /\ Progressing(logFile, openCall[p])
      /\ p \in LogSubtasks => taskLive /\ marked[p] = "RUNNING"
      /\ p \notin LogSubtasks => p \in liveJobs
  BY DEF LogInv, OpenTells
<1>2. openCall[p] # c /\ openCall[p][2] \in 1..(eventNo + 1)
  BY <1>1
<1>3. 1..(eventNo + 1) \subseteq 1..(eventNo' + 1)
  <2>1. eventNo \in Nat
    BY DEF LogInv, LogTypes
  <2> QED BY <2>1, MoreNumbers
<1> QED BY <1>1, <1>2, <1>3

LEMMA PageStays == ASSUME LogInv, UNCHANGED logPage PROVE PageTells'
BY DEF LogInv, PageTells

LEMMA StatusStays == ASSUME LogInv, UNCHANGED <<taskLive, marked, taskStatus>> PROVE StatusTells'
BY DEF LogInv, StatusTells

LEMMA TriesType == ASSUME LogInv, NEW o \in Callers PROVE AttemptOf(o) \in Nat
BY DEF LogInv, LogTypes, AttemptOf

LEMMA NewCallForm ==
    ASSUME LogInv, NEW o \in Callers
    PROVE  /\ NewCall(o) \in Callers \X Nat /\ NewCall(o)[1] = o /\ NewCall(o)[2] = eventNo + 1
           /\ NewCall(o)[2] \in 1..(eventNo + 1) /\ NewCall(o) # NotSent /\ Progressing(logFile, NewCall(o))
<1>1. eventNo \in Nat
  BY DEF LogInv, LogTypes
<1>2. NewCall(o) \in Callers \X Nat /\ NewCall(o)[1] = o /\ NewCall(o)[2] = eventNo + 1
  BY <1>1 DEF NewCall
<1>3. NotSent[2] = 0
  BY DEF NotSent
<1>4. \A i \in DOMAIN logFile : logFile[i].call[2] <= eventNo
  BY DEF LogInv, FileTells
<1>5. Progressing(logFile, NewCall(o))
  BY <1>1, <1>2, <1>4 DEF Progressing
<1> QED BY <1>1, <1>2, <1>3, <1>5

LEMMA BeginsStep == ASSUME LogInv, NEW o \in Callers, BeginsRequest(o) PROVE LogInv'
<1> DEFINE c == NewCall(o)
<1>1. /\ c \in Callers \X Nat /\ c[1] = o /\ c[2] \in 1..(eventNo + 1) /\ c # NotSent /\ c = <<o, eventNo + 1>>
      /\ Progressing(logFile, c)
  BY NewCallForm DEF NewCall
<1>2. Appends(c, "running", AttemptOf(o), FALSE) /\ "running" \in LogStatus
  BY DEF BeginsRequest, LogStatus
<1>3. UNCHANGED <<marked, tries, failing, taskLive, taskStatus, liveJobs, logPage, logCast, logRestarts>>
  BY DEF BeginsRequest, logTask, logRest
<1>4. openCall' = [openCall EXCEPT ![o] = c] /\ MaySend(o)
  BY DEF BeginsRequest
<1>5. openCall \in [Callers -> (Callers \X Nat) \cup {NotSent}]
  BY DEF LogInv, LogTypes
<1> HIDE DEF c
<1>6. /\ LogIsNewest' /\ FileTells' /\ eventNo' \in Nat /\ eventNo <= eventNo'
      /\ \A d : d # c /\ Progressing(logFile, d) => Progressing(logFile', d)
      /\ Progressing(logFile', c)
  BY <1>1, <1>2, TriesType, EventOfCall
<1>7. openCall' \in [Callers -> (Callers \X Nat) \cup {NotSent}] /\ openCall'[o] = c
      /\ \A p \in Callers : p # o => openCall'[p] = openCall[p]
  BY <1>1, <1>4, <1>5
<1>8. OpenTells'
  <2> SUFFICES ASSUME NEW p \in Callers, openCall'[p] # NotSent
               PROVE  /\ openCall'[p] \in {p} \X (1..(eventNo' + 1)) /\ Progressing(logFile', openCall'[p])
                      /\ p \in LogSubtasks => taskLive' /\ marked'[p] = "RUNNING"
                      /\ p \notin LogSubtasks => p \in liveJobs'
    BY DEF OpenTells
  <2>1. CASE p # o
    BY <1>1, <1>3, <1>6, <1>7, <2>1, OthersStay
  <2>2. CASE p = o
    <3>1. c \in {o} \X (1..(eventNo' + 1))
      <4>1. eventNo \in Nat
        BY DEF LogInv, LogTypes
      <4>2. eventNo + 1 \in 1..(eventNo' + 1)
        BY <1>6, <4>1, MoreNumbers
      <4> QED BY <1>1, <4>2
    <3>2. (o \in LogSubtasks => taskLive /\ marked[o] = "RUNNING") /\ (o \notin LogSubtasks => o \in liveJobs)
      BY <1>4 DEF MaySend
    <3> QED BY <1>3, <1>6, <1>7, <2>2, <3>1, <3>2
  <2> QED BY <2>1, <2>2
<1>9. LogTypes'
  BY <1>3, <1>6, <1>7 DEF LogInv, LogTypes
<1> QED BY <1>3, <1>6, <1>8, <1>9, PageStays, StatusStays DEF LogInv

\* an event of the call in flight of o, which goes on or ends
LEMMA CallStep ==
    ASSUME LogInv, NEW o \in Callers, openCall[o] # NotSent, NEW how \in LogStatus,
           Appends(openCall[o], how, AttemptOf(o), FALSE),
           \/ how = "running" /\ UNCHANGED openCall
           \/ openCall' = [openCall EXCEPT ![o] = NotSent],
           UNCHANGED <<logTask, liveJobs, logRest>>
    PROVE  LogInv'
<1> DEFINE c == openCall[o]
<1>1. /\ c \in {o} \X (1..(eventNo + 1)) /\ Progressing(logFile, c)
      /\ o \in LogSubtasks => taskLive /\ marked[o] = "RUNNING"
      /\ o \notin LogSubtasks => o \in liveJobs
  BY DEF LogInv, OpenTells
<1>2. eventNo \in Nat /\ openCall \in [Callers -> (Callers \X Nat) \cup {NotSent}]
  BY DEF LogInv, LogTypes
<1>3. UNCHANGED <<marked, tries, failing, taskLive, taskStatus, liveJobs, logPage, logCast, logRestarts>>
  BY DEF logTask, logRest
<1>4. c[1] = o /\ c[2] \in 1..(eventNo + 1) /\ c \in Callers \X Nat
  BY <1>1, <1>2
<1> HIDE DEF c
<1>5. Appends(c, how, AttemptOf(o), FALSE)
  BY DEF c
<1>6. /\ LogIsNewest' /\ FileTells' /\ eventNo' \in Nat /\ eventNo <= eventNo'
      /\ \A d : d # c /\ Progressing(logFile, d) => Progressing(logFile', d)
      /\ how = "running" => Progressing(logFile', c)
  BY <1>1, <1>4, <1>5, TriesType, EventOfCall
<1>7. /\ openCall' \in [Callers -> (Callers \X Nat) \cup {NotSent}]
      /\ (how = "running" /\ openCall'[o] = c) \/ openCall'[o] = NotSent
      /\ \A p \in Callers : p # o => openCall'[p] = openCall[p]
  BY <1>2 DEF c
<1>8. OpenTells'
  <2> SUFFICES ASSUME NEW p \in Callers, openCall'[p] # NotSent
               PROVE  /\ openCall'[p] \in {p} \X (1..(eventNo' + 1)) /\ Progressing(logFile', openCall'[p])
                      /\ p \in LogSubtasks => taskLive' /\ marked'[p] = "RUNNING"
                      /\ p \notin LogSubtasks => p \in liveJobs'
    BY DEF OpenTells
  <2>1. CASE p # o
    BY <1>3, <1>4, <1>6, <1>7, <2>1, OthersStay
  <2>2. CASE p = o
    <3>1. openCall'[o] = c /\ how = "running"
      BY <1>7, <2>2
    <3>2. 1..(eventNo + 1) \subseteq 1..(eventNo' + 1)
      BY <1>2, <1>6, MoreNumbers
    <3> QED BY <1>1, <1>3, <1>6, <2>2, <3>1, <3>2
  <2> QED BY <2>1, <2>2
<1>9. LogTypes'
  BY <1>3, <1>6, <1>7 DEF LogInv, LogTypes
<1> QED BY <1>3, <1>6, <1>8, <1>9, PageStays, StatusStays DEF LogInv

LEMMA FailsChecksStep == ASSUME LogInv, NEW s \in LogSubtasks, FailsChecks(s) PROVE LogInv'
<1> DEFINE c == NewCall(s)
<1>1. s \in Callers
  BY DEF Callers
<1>2. c[1] = s
  BY <1>1, NewCallForm
<1>3. /\ LogIsNewest' /\ FileTells' /\ eventNo' \in Nat /\ eventNo <= eventNo'
      /\ \A d : d # c /\ Progressing(logFile, d) => Progressing(logFile', d)
  <2>1. tries[s] \in Nat /\ Appends(c, "failed", tries[s], TRUE)
    BY DEF LogInv, LogTypes, FailsChecks
  <2> QED BY <2>1, EventOfFailure
<1>4. UNCHANGED <<openCall, marked, tries, taskLive, taskStatus, liveJobs, logPage, logCast, logRestarts>>
      /\ openCall[s] = NotSent
  BY DEF FailsChecks, logRest
<1> HIDE DEF c
<1>5. OpenTells'
  <2> SUFFICES ASSUME NEW p \in Callers, openCall'[p] # NotSent
               PROVE  /\ openCall'[p] \in {p} \X (1..(eventNo' + 1)) /\ Progressing(logFile', openCall'[p])
                      /\ p \in LogSubtasks => taskLive' /\ marked'[p] = "RUNNING"
                      /\ p \notin LogSubtasks => p \in liveJobs'
    BY DEF OpenTells
  <2>1. p # s /\ openCall'[p] = openCall[p]
    BY <1>4
  <2> QED BY <1>1, <1>2, <1>3, <1>4, <2>1, OthersStay
<1>6. LogTypes'
  BY <1>3, <1>4 DEF LogInv, LogTypes
<1> QED BY <1>3, <1>4, <1>5, <1>6, PageStays, StatusStays DEF LogInv

\* the file and the calls stay, and with them who sends
LEMMA SendsStay ==
    ASSUME LogInv, UNCHANGED <<logFile, eventNo, openCall>>,
           \A s \in LogSubtasks : openCall[s] # NotSent => taskLive' /\ marked'[s] = marked[s],
           \A j \in Callers : openCall[j] # NotSent /\ j \in liveJobs => j \in liveJobs'
    PROVE  LogIsNewest' /\ FileTells' /\ OpenTells' /\ eventNo' = eventNo /\ openCall' = openCall
<1>1. logFile' = logFile /\ eventNo' = eventNo /\ openCall' = openCall
  OBVIOUS
<1>2. OpenTells'
  <2> SUFFICES ASSUME NEW p \in Callers, openCall[p] # NotSent
               PROVE  /\ openCall[p] \in {p} \X (1..(eventNo + 1)) /\ Progressing(logFile, openCall[p])
                      /\ p \in LogSubtasks => taskLive' /\ marked'[p] = "RUNNING"
                      /\ p \notin LogSubtasks => p \in liveJobs'
    BY <1>1 DEF OpenTells
  <2> QED BY DEF LogInv, OpenTells
<1> QED BY <1>1, <1>2, FileStays

LEMMA LaunchesStep == ASSUME LogInv, NEW s \in LogSubtasks, Launches(s) PROVE LogInv'
<1>1. /\ UNCHANGED <<logFile, eventNo, openCall, failing, taskLive, taskStatus, liveJobs, logPage, logCast, logRestarts>>
      /\ taskLive /\ marked[s] = "PENDING"
      /\ marked' = [marked EXCEPT ![s] = "RUNNING"] /\ tries' = [tries EXCEPT ![s] = @ + 1]
  BY DEF Launches, logSends, logRest
<1>2. \A p \in LogSubtasks : openCall[p] # NotSent => taskLive /\ marked[p] = "RUNNING"
  BY DEF LogInv, OpenTells, Callers
<1>3. marked \in [LogSubtasks -> {"PENDING", "RUNNING", "COMPLETED", "FAILED"}] /\ tries \in [LogSubtasks -> Nat]
  BY DEF LogInv, LogTypes
<1>4. /\ marked' \in [LogSubtasks -> {"PENDING", "RUNNING", "COMPLETED", "FAILED"}] /\ tries' \in [LogSubtasks -> Nat]
      /\ marked'[s] = "RUNNING" /\ \A p \in LogSubtasks : p # s => marked'[p] = marked[p]
  BY <1>1, <1>3
<1>5. LogIsNewest' /\ FileTells' /\ OpenTells'
  BY <1>1, <1>2, <1>4, SendsStay
<1>6. LogTypes'
  BY <1>1, <1>4 DEF LogInv, LogTypes
<1>7. StatusTells'
  BY <1>1, <1>4 DEF LogInv, StatusTells
<1> QED BY <1>1, <1>5, <1>6, <1>7, PageStays DEF LogInv

LEMMA SettlesStep ==
    ASSUME LogInv, NEW s \in LogSubtasks, NEW how \in {"COMPLETED", "FAILED", "PENDING"}, SettlesSubtask(s, how)
    PROVE  LogInv'
<1>1. /\ UNCHANGED <<logFile, eventNo, openCall, tries, taskLive, taskStatus, liveJobs, logPage, logCast, logRestarts>>
      /\ taskLive /\ openCall[s] = NotSent /\ marked' = [marked EXCEPT ![s] = how]
  BY DEF SettlesSubtask, logSends, logRest
<1>2. marked \in [LogSubtasks -> {"PENDING", "RUNNING", "COMPLETED", "FAILED"}]
  BY DEF LogInv, LogTypes
<1>3. /\ marked' \in [LogSubtasks -> {"PENDING", "RUNNING", "COMPLETED", "FAILED"}]
      /\ \A p \in LogSubtasks : p # s => marked'[p] = marked[p]
  BY <1>1, <1>2
<1>4. LogIsNewest' /\ FileTells' /\ OpenTells'
  BY <1>1, <1>3, SendsStay
<1>5. LogTypes'
  BY <1>1, <1>3 DEF LogInv, LogTypes
<1>6. StatusTells'
  BY <1>1, <1>3 DEF LogInv, StatusTells
<1> QED BY <1>1, <1>4, <1>5, <1>6, PageStays DEF LogInv

LEMMA RestsStep == ASSUME LogInv, TaskRests PROVE LogInv'
<1>1. PICK D \in SUBSET {s \in LogSubtasks : marked[s] = "PENDING"} :
        marked' = [s \in LogSubtasks |-> IF s \in D THEN "FAILED" ELSE marked[s]]
  BY DEF TaskRests
<1>2. /\ UNCHANGED <<logFile, eventNo, openCall, tries, failing, liveJobs, logPage, logCast, logRestarts>>
      /\ taskLive' = FALSE /\ taskStatus' = "STOPPED" /\ \A s \in LogSubtasks : marked[s] # "RUNNING"
  BY DEF TaskRests, logSends, logRest
<1>3. marked \in [LogSubtasks -> {"PENDING", "RUNNING", "COMPLETED", "FAILED"}]
  BY DEF LogInv, LogTypes
<1>4. marked' \in [LogSubtasks -> {"PENDING", "RUNNING", "COMPLETED", "FAILED"}]
      /\ \A s \in LogSubtasks : marked'[s] # "RUNNING"
  BY <1>1, <1>2, <1>3
<1>5. \A s \in LogSubtasks : openCall[s] = NotSent
  BY <1>2 DEF LogInv, OpenTells, Callers
<1>6. LogIsNewest' /\ FileTells' /\ OpenTells'
  BY <1>2, <1>5, SendsStay
<1>7. LogTypes' /\ StatusTells'
  BY <1>2, <1>4 DEF LogInv, LogTypes, StatusTells
<1> QED BY <1>2, <1>6, <1>7, PageStays DEF LogInv

LEMMA ContinuesStep == ASSUME LogInv, ContinuesTask PROVE LogInv'
<1>1. /\ UNCHANGED <<logFile, eventNo, openCall, tries, failing, liveJobs, logPage, logCast, logRestarts>>
      /\ ~taskLive /\ taskLive' = TRUE /\ taskStatus' = "RUNNING"
      /\ marked' = [s \in LogSubtasks |-> IF marked[s] = "COMPLETED" THEN "COMPLETED" ELSE "PENDING"]
  BY DEF ContinuesTask, logSends, logRest
<1>2. marked' \in [LogSubtasks -> {"PENDING", "RUNNING", "COMPLETED", "FAILED"}]
  BY <1>1
<1>3. \A s \in LogSubtasks : openCall[s] = NotSent
  BY <1>1 DEF LogInv, OpenTells, Callers
<1>4. LogIsNewest' /\ FileTells' /\ OpenTells'
  BY <1>1, <1>3, SendsStay
<1>5. LogTypes' /\ StatusTells'
  BY <1>1, <1>2 DEF LogInv, LogTypes, StatusTells
<1> QED BY <1>1, <1>4, <1>5, PageStays DEF LogInv

LEMMA JobStep == ASSUME LogInv, NEW j \in LogJobs, JobComesOrGoes(j) PROVE LogInv'
<1>1. /\ UNCHANGED <<logFile, eventNo, openCall, marked, tries, failing, taskLive, taskStatus, logPage, logCast, logRestarts>>
      /\ openCall[j] = NotSent
      /\ liveJobs' = IF j \in liveJobs THEN liveJobs \ {j} ELSE liveJobs \cup {j}
  BY DEF JobComesOrGoes, logSends, logTask, logRest
<1>2. \A s \in LogSubtasks : openCall[s] # NotSent => taskLive' /\ marked'[s] = marked[s]
  BY <1>1 DEF LogInv, OpenTells, Callers
<1>3. \A p \in Callers : openCall[p] # NotSent /\ p \in liveJobs => p \in liveJobs'
  BY <1>1
<1>4. LogIsNewest' /\ FileTells' /\ OpenTells'
  BY <1>1, <1>2, <1>3, SendsStay
<1>5. LogTypes'
  BY <1>1 DEF LogInv, LogTypes
<1> QED BY <1>1, <1>4, <1>5, PageStays, StatusStays DEF LogInv

LEMMA LogRestartStep == ASSUME LogInv, LogRestart PROVE LogInv'
<1>1. /\ UNCHANGED <<logFile, eventNo, marked, tries, taskStatus, logCast>>
      /\ openCall' = [o \in Callers |-> NotSent] /\ liveJobs' = {} /\ taskLive' = FALSE /\ logPage' = NoPage
  BY DEF LogRestart
<1>2. OpenTells' /\ PageTells'
  BY <1>1 DEF OpenTells, PageTells
<1>3. LogTypes' /\ StatusTells'
  BY <1>1 DEF LogInv, LogTypes, StatusTells
<1> QED BY <1>1, <1>2, <1>3, FileStays DEF LogInv

LEMMA ReadsStep == ASSUME LogInv, ReadsEvents PROVE LogInv'
<1>1. /\ UNCHANGED <<logFile, eventNo, openCall, marked, tries, failing, taskLive, taskStatus, liveJobs, logCast>>
      /\ logPage' = [step |-> "read", events |-> LastLines(logFile), open |-> InFlight]
  BY DEF ReadsEvents, logSends, logTask
<1>2. Telling(logFile) /\ logFile \in Seq(LogEvents)
  BY DEF LogInv, FileTells, Telling
<1>3. PICK m \in 1..(Len(logFile) + 1) : From(logFile, m, LastLines(logFile))
  BY <1>2, TailOfLog
<1>4. Telling(LastLines(logFile)) /\ \A c : Progressing(logFile, c) => Progressing(LastLines(logFile), c)
  BY <1>2, <1>3, PartTells
<1>5. \A c \in InFlight : c \in Callers \X Nat /\ c[2] # 0 /\ Progressing(logFile, c)
  <2> TAKE c \in InFlight
  <2>1. PICK o \in Callers : c = openCall[o] /\ c # NotSent
    BY DEF InFlight
  <2>2. c \in {o} \X (1..(eventNo + 1)) /\ Progressing(logFile, c) /\ eventNo \in Nat
    BY <2>1 DEF LogInv, OpenTells, LogTypes
  <2> QED BY <2>2
<1> DEFINE tail == LastLines(logFile)
<1> HIDE DEF tail
<1>6. /\ logPage' = [step |-> "read", events |-> tail, open |-> InFlight] /\ Telling(tail) /\ tail \in Seq(LogEvents)
      /\ \A c \in InFlight : c[2] # 0 /\ Progressing(tail, c)
  BY <1>1, <1>4, <1>5 DEF tail, Telling
<1>7. logPage' \in LogPages /\ PageTells'
  BY <1>5, <1>6 DEF LogPages, PageTells
<1>8. LogTypes'
  BY <1>1, <1>7 DEF LogInv, LogTypes
<1>9. LogIsNewest' /\ FileTells' /\ OpenTells'
  <2>1. \A s \in LogSubtasks : openCall[s] # NotSent => taskLive' /\ marked'[s] = marked[s]
    BY <1>1 DEF LogInv, OpenTells, Callers
  <2> QED BY <1>1, <2>1, SendsStay
<1> QED BY <1>1, <1>7, <1>8, <1>9, StatusStays DEF LogInv

LEMMA ShowsStep == ASSUME LogInv, ShowsRows PROVE LogInv'
<1>1. /\ UNCHANGED <<logFile, eventNo, openCall, tries, failing, taskLive, liveJobs, logCast, logRestarts>>
      /\ logPage' = NoPage /\ marked' = Healed.marked /\ taskStatus' = Healed.taskStatus
  BY DEF ShowsRows, logSends
<1>2. marked' \in [LogSubtasks -> {"PENDING", "RUNNING", "COMPLETED", "FAILED"}]
  <2>1. LogTypes
    BY DEF LogInv
  <2> QED BY <1>1, <2>1, HealedJudged DEF Judged
<1>3. taskStatus \in {"RUNNING", "STOPPED"}
  BY DEF LogInv, LogTypes
<1>4. CASE taskStatus = "RUNNING" /\ ~taskLive
  <2>1. taskStatus' = "STOPPED" /\ \A s \in LogSubtasks : marked'[s] # "RUNNING"
    BY <1>1, <1>4 DEF Healed
  <2>2. \A s \in LogSubtasks : openCall[s] = NotSent
    BY <1>4 DEF LogInv, OpenTells, Callers
  <2>3. LogIsNewest' /\ FileTells' /\ OpenTells'
    BY <1>1, <2>2, SendsStay
  <2>4. LogTypes' /\ StatusTells' /\ PageTells'
    BY <1>1, <1>2, <1>4, <2>1 DEF LogInv, LogTypes, StatusTells, PageTells
  <2> QED BY <2>3, <2>4 DEF LogInv
<1>5. CASE ~(taskStatus = "RUNNING" /\ ~taskLive)
  <2>1. taskStatus' = taskStatus /\ marked' = marked
    BY <1>1, <1>5 DEF Healed
  <2>2. \A s \in LogSubtasks : openCall[s] # NotSent => taskLive' /\ marked'[s] = marked[s]
    BY <1>1, <2>1 DEF LogInv, OpenTells, Callers
  <2>3. LogIsNewest' /\ FileTells' /\ OpenTells'
    BY <1>1, <2>2, SendsStay
  <2>4. LogTypes' /\ PageTells'
    BY <1>1, <2>1 DEF LogInv, LogTypes, PageTells
  <2> QED BY <1>1, <2>1, <2>3, <2>4, StatusStays DEF LogInv
<1> QED BY <1>4, <1>5

LEMMA LogBegins == ASSUME LogInit PROVE LogInv
<1>1. /\ logFile = <<>> /\ eventNo = 0 /\ liveJobs = {} /\ taskLive = TRUE /\ taskStatus = "RUNNING" /\ logPage = NoPage
      /\ marked = [s \in LogSubtasks |-> "PENDING"] /\ tries = [s \in LogSubtasks |-> 0]
      /\ openCall = [o \in Callers |-> NotSent]
  BY DEF LogInit
<1>2. LogTypes /\ OpenTells /\ StatusTells /\ PageTells
  BY <1>1 DEF LogTypes, OpenTells, StatusTells, PageTells
<1>3. DOMAIN <<>> = {} /\ <<>> \in Seq(LogEvents) /\ Len(<<>>) = 0
  OBVIOUS
<1>4. FileTells
  BY <1>1, <1>3 DEF FileTells, Telling
<1>5. LogBytes(<<>>) = 0 /\ MaxBytes \in Nat
  BY <1>3, LogSizes, LogAssumption DEF LogBytes
<1>6. LogIsNewest
  BY <1>1, <1>3, <1>5 DEF LogIsNewest
<1> QED BY <1>2, <1>4, <1>6 DEF LogInv

LEMMA LogGoesOn == ASSUME LogInv, [LogNext]_logVars PROVE LogInv'
<1>1. ASSUME NEW o \in Callers, BeginsRequest(o) PROVE LogInv'
  BY <1>1, BeginsStep
<1>2. ASSUME NEW o \in Callers, Progress(o) PROVE LogInv'
  <2>1. "running" \in LogStatus
    BY DEF LogStatus
  <2>2. /\ openCall[o] # NotSent /\ Appends(openCall[o], "running", AttemptOf(o), FALSE)
        /\ UNCHANGED openCall /\ UNCHANGED <<logTask, liveJobs, logRest>>
    BY <1>2 DEF Progress
  <2> QED BY <2>1, <2>2, CallStep
<1>3. ASSUME NEW o \in Callers, NEW how \in {"completed", "failed", "cancelled"}, EndsRequest(o, how) PROVE LogInv'
  <2>1. how \in LogStatus
    BY DEF LogStatus
  <2>2. /\ openCall[o] # NotSent /\ Appends(openCall[o], how, AttemptOf(o), FALSE)
        /\ openCall' = [openCall EXCEPT ![o] = NotSent] /\ UNCHANGED <<logTask, liveJobs, logRest>>
    BY <1>3 DEF EndsRequest
  <2> QED BY <2>1, <2>2, CallStep
<1>4. CASE UNCHANGED logVars
  <2>1. UNCHANGED <<logFile, eventNo, openCall, marked, tries, failing, taskLive, taskStatus, liveJobs, logPage>>
    BY <1>4 DEF logVars
  <2>2. LogTypes' /\ OpenTells'
    BY <2>1 DEF LogInv, LogTypes, OpenTells
  <2> QED BY <2>1, <2>2, FileStays, PageStays, StatusStays DEF LogInv
<1> QED BY <1>1, <1>2, <1>3, <1>4, LaunchesStep, FailsChecksStep, SettlesStep, JobStep, RestsStep, ContinuesStep,
           LogRestartStep, ReadsStep, ShowsStep DEF LogNext

(* Whatever calls are sent, fail, end or are trimmed from the log, and whenever the page *)
(* reads it: the file is its newest part and within its limit, a failed subtask has its  *)
(* row, a call in flight is shown as running and the pages follow each other             *)
(* (append_request_event, read_request_events, _format_request_events).                  *)
THEOREM LogStaysTrue == LogSpec => []LogTellsTheTruth
<1>1. LogInit => LogInv
  BY LogBegins
<1>2. LogInv /\ [LogNext]_logVars => LogInv'
  BY LogGoesOn
<1>3. LogInv => LogTellsTheTruth
  <2> SUFFICES ASSUME LogInv PROVE LogTellsTheTruth
    OBVIOUS
  <2>1. LogIsNewest
    BY DEF LogInv
  <2> QED BY <2>1, ToldFailures, ShownRunning, FollowingPages DEF LogTellsTheTruth
<1> QED BY <1>1, <1>2, <1>3, PTL DEF LogSpec
=============================================================================
