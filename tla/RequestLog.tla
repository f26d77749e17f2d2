----------------------------- MODULE RequestLog -----------------------------
(***************************************************************************)
(* The request log of one task: transoria/runtime/request_log.py and       *)
(* runtime/cache.py append an event for each step of a provider call, trim *)
(* the file when it is too large, and bridge/task_service.py makes of the  *)
(* events and of the subtasks the rows of the request page.  The events    *)
(* are read first and the subtasks afterwards, while calls go on.  A call  *)
(* is <<who sent it, its number>>; a line of the file has a size.          *)
(***************************************************************************)
EXTENDS Naturals, Sequences, FiniteSets, SequencesExt, FiniteSetsExt

CONSTANTS
    LogSubtasks, LogJobs,  \* who sends: subtasks of the task, re-translation requests
    LineSize,              \* bytes of a line by its status
    LogCasts,              \* bounds of a behaviour: [jobs, events, faults], the requests of the
                           \* page, the events, and which of "append", "restart"
    MaxBytes, TrimBytes,   \* _REQUEST_EVENTS_MAX_BYTES, _REQUEST_EVENTS_TRIM_BYTES
    TailBytes, TailLines,  \* _REQUEST_EVENTS_TAIL_BYTES, _REQUEST_EVENTS_TAIL_LINES
    PageLimit,             \* rows the page asks for
    TryMax                 \* bound: attempts of a subtask

\* a line, its text cut to _MAX_TEXT_LENGTH, is far smaller than what a trim keeps
ASSUME LogAssumption ==
    /\ IsFiniteSet(LogSubtasks)
    /\ LineSize \in [{"running", "completed", "failed", "cancelled"} -> Nat]
    /\ {MaxBytes, TrimBytes, TailBytes, TailLines, PageLimit} \subseteq Nat
    /\ TrimBytes <= MaxBytes /\ \A how \in DOMAIN LineSize : LineSize[how] < TrimBytes

VARIABLES
    logFile,    \* request-events.jsonl: Seq([no, call, status, by, try, local])
    eventNo,    \* ghost: events appended so far
    marked,     \* status of the subtask files
    tries,      \* attempt_count of them
    failing,    \* subtasks whose runner has raised and which are not saved yet
    openCall,   \* the call of a sender in flight
    liveJobs,   \* _retranslate_jobs pending or running
    taskLive,   \* the task has a live entry in the registry
    taskStatus, \* RUNNING, or STOPPED for any status at rest
    logPage,    \* read_request_events: [step, events], and, ghost, the calls open then
    logCast, logRestarts \* bounds
logVars  == <<logFile, eventNo, marked, tries, failing, openCall, liveJobs, taskLive,
              taskStatus, logPage, logCast, logRestarts>>
logSends == <<logFile, eventNo, openCall>>
logTask  == <<marked, tries, failing, taskLive, taskStatus>>
logRest  == <<logPage, logCast, logRestarts>>

Callers == LogSubtasks \cup LogJobs
NotSent == <<"nobody", 0>>
NoPage  == [step |-> "idle", events |-> <<>>, open |-> {}]

----------------------------------------------------------------------------
(* The file *)

\* bytes of the first lines, for each number of lines
BytesUpTo(log) ==
    LET sum[n \in 0..Len(log)] == IF n = 0 THEN 0 ELSE sum[n - 1] + LineSize[log[n].status] IN sum
LogBytes(log) == BytesUpTo(log)[Len(log)]

\* what is left when the file is read from `limit' bytes before its end: the line it
\* falls into is dropped, also when it falls on the first byte of one
FromEnd(log, limit) ==
    IF LogBytes(log) <= limit THEN log
    ELSE LET from == LogBytes(log) - limit
             uncut == {i \in DOMAIN log : BytesUpTo(log)[i - 1] > from}
         IN  IF uncut = {} THEN <<>> ELSE SubSeq(log, Min(uncut), Len(log))

LastOf(log, n) == SubSeq(log, Len(log) - n + 1, Len(log))

Trimmed(log) == IF LogBytes(log) <= MaxBytes THEN log ELSE FromEnd(log, TrimBytes)

LastLines(log) ==
    LET uncut == FromEnd(log, TailBytes) IN LastOf(uncut, Min({Len(uncut), TailLines}))

EventOf(no, c, status, try, local) ==
    [no |-> no, call |-> c, status |-> status, by |-> c[1], try |-> try, local |-> local]

\* _safe_append: an event that cannot be written is forgotten
Appends(c, status, try, local) ==
    /\ eventNo < logCast.events
    /\ \/ /\ logFile' = Trimmed(Append(logFile, EventOf(eventNo + 1, c, status, try, local)))
          /\ eventNo' = eventNo + 1
       \/ "append" \in logCast.faults /\ UNCHANGED <<logFile, eventNo>>

----------------------------------------------------------------------------
(* Calls *)

LogInit ==
    /\ logFile = <<>> /\ eventNo = 0
    /\ marked = [s \in LogSubtasks |-> "PENDING"] /\ tries = [s \in LogSubtasks |-> 0]
    /\ failing = {} /\ openCall = [o \in Callers |-> NotSent] /\ liveJobs = {}
    /\ taskLive = TRUE /\ taskStatus = "RUNNING"
    /\ logPage = NoPage
    /\ logCast \in LogCasts /\ logRestarts = 0

InFlight == {openCall[o] : o \in Callers} \ {NotSent}
AttemptOf(o) == IF o \in LogSubtasks THEN tries[o] ELSE 1
MaySend(o) == IF o \in LogSubtasks THEN taskLive /\ marked[o] = "RUNNING" /\ o \notin failing
                                   ELSE o \in liveJobs

NewCall(o) == <<o, eventNo + 1>>
BeginsRequest(o) ==
    /\ MaySend(o) /\ openCall[o] = NotSent
    /\ openCall' = [openCall EXCEPT ![o] = NewCall(o)]
    /\ Appends(NewCall(o), "running", AttemptOf(o), FALSE)
    /\ UNCHANGED <<logTask, liveJobs, logRest>>

Progress(o) ==
    /\ openCall[o] # NotSent /\ Appends(openCall[o], "running", AttemptOf(o), FALSE)
    /\ UNCHANGED <<openCall, logTask, liveJobs, logRest>>

EndsRequest(o, how) ==
    /\ openCall[o] # NotSent /\ Appends(openCall[o], how, AttemptOf(o), FALSE)
    /\ openCall' = [openCall EXCEPT ![o] = NotSent]
    /\ UNCHANGED <<logTask, liveJobs, logRest>>

----------------------------------------------------------------------------
(* The task around them, as far as the page looks at it *)

Launches(s) ==
    /\ taskLive /\ marked[s] = "PENDING" /\ tries[s] < TryMax
    /\ marked' = [marked EXCEPT ![s] = "RUNNING"] /\ tries' = [tries EXCEPT ![s] = @ + 1]
    /\ UNCHANGED <<logSends, failing, taskLive, taskStatus, liveJobs, logRest>>

\* a failure of the quality checks is an event of its own, before the subtask is saved
FailsChecks(s) ==
    /\ MaySend(s) /\ openCall[s] = NotSent /\ failing' = failing \cup {s}
    /\ Appends(NewCall(s), "failed", tries[s], TRUE)
    /\ UNCHANGED <<openCall, marked, tries, taskLive, taskStatus, liveJobs, logRest>>

SettlesSubtask(s, how) ==
    /\ taskLive /\ marked[s] = "RUNNING" /\ openCall[s] = NotSent
    /\ s \in failing => how = "FAILED"
    /\ marked' = [marked EXCEPT ![s] = how] /\ failing' = failing \ {s}
    /\ UNCHANGED <<logSends, tries, taskLive, taskStatus, liveJobs, logRest>>

\* _finalize: what is still pending may be failed (dangling)
TaskRests ==
    /\ taskLive /\ "RUNNING" \notin {marked[s] : s \in LogSubtasks}
    /\ \E D \in SUBSET {s \in LogSubtasks : marked[s] = "PENDING"} :
         marked' = [s \in LogSubtasks |-> IF s \in D THEN "FAILED" ELSE marked[s]]
    /\ taskLive' = FALSE /\ taskStatus' = "STOPPED"
    /\ UNCHANGED <<logSends, tries, failing, liveJobs, logRest>>

ContinuesTask ==
    /\ ~taskLive /\ taskLive' = TRUE /\ taskStatus' = "RUNNING"
    /\ marked' = [s \in LogSubtasks |-> IF marked[s] = "COMPLETED" THEN "COMPLETED" ELSE "PENDING"]
    /\ UNCHANGED <<logSends, tries, failing, liveJobs, logRest>>

JobComesOrGoes(j) ==
    /\ openCall[j] = NotSent /\ j \in logCast.jobs
    /\ liveJobs' = IF j \in liveJobs THEN liveJobs \ {j} ELSE liveJobs \cup {j}
    /\ UNCHANGED <<logSends, logTask, logRest>>

LogRestart ==
    /\ "restart" \in logCast.faults /\ logRestarts = 0 /\ logRestarts' = 1
    /\ openCall' = [o \in Callers |-> NotSent] /\ liveJobs' = {} /\ failing' = {}
    /\ taskLive' = FALSE /\ logPage' = NoPage
    /\ UNCHANGED <<logFile, eventNo, marked, tries, taskStatus, logCast>>

----------------------------------------------------------------------------
(* The page *)

\* _format_request_events: the last event of a call says how it stands, newest first
IsLast(events, i) == \A j \in i + 1..Len(events) : events[j].call # events[i].call
\* what there is to say of the newest events, for each number of them
LastOfNewest(events) ==
    LET at(n) == Len(events) + 1 - n
        found[n \in 0..Len(events)] ==
            IF n = 0 THEN <<>>
            ELSE IF IsLast(events, at(n)) THEN Append(found[n - 1], events[at(n)]) ELSE found[n - 1]
    IN  found
LastOfEach(events) == LastOfNewest(events)[Len(events)]

\* mutant: a local failure of an earlier attempt is taken for that of the last
UnloggedOnce(events, snap) ==
    LET dark == {s \in LogSubtasks :
                    snap.marked[s] = "FAILED" /\ ~\E e \in ToSet(events) : e.by = s /\ e.local}
    IN  [k \in 1..Cardinality(dark) |->
            LET s == SetToSeq(dark)[k] IN EventOf(0, <<s, 0>>, "failed", snap.tries[s], TRUE)]

\* _failed_subtask_request_events: a failed subtask whose attempt has no local failure
TryOf(s, events, snap) ==
    LET own == {i \in DOMAIN events : events[i].by = s}
    IN  IF snap.tries[s] # 0 THEN snap.tries[s] ELSE IF own = {} THEN 1 ELSE events[Max(own)].try
Dark(events, snap) ==
    {s \in LogSubtasks :
        /\ snap.marked[s] = "FAILED"
        /\ ~\E e \in ToSet(events) : e.by = s /\ e.local /\ e.try = TryOf(s, events, snap)}
Unlogged(events, snap) ==
    LET dark == Dark(events, snap)
    IN  [k \in 1..Cardinality(dark) |->
            LET s == SetToSeq(dark)[k]
            IN  EventOf(0, <<s, 0>>, "failed", TryOf(s, events, snap), TRUE)]

\* _cancel_stale_running_request_event
StillRuns(by, snap) ==
    IF by \in LogSubtasks THEN snap.marked[by] = "RUNNING"
    ELSE by \in snap.liveJobs \/ snap.taskStatus = "RUNNING"
AsItStands(e, snap) ==
    IF e.status = "running" /\ ~StillRuns(e.by, snap) THEN [e EXCEPT !.status = "cancelled"] ELSE e

RowsOf(events, snap) ==
    LET found == LastOfEach(events \o Unlogged(events, snap))
    IN  [k \in DOMAIN found |-> AsItStands(found[k], snap)]
PageFrom(list, offset) == SubSeq(list, offset + 1, Min({Len(list), offset + PageLimit}))

\* _reconcile_zombie heals what the snapshot has loaded
Healed ==
    IF taskStatus = "RUNNING" /\ ~taskLive
    THEN [marked |-> [s \in LogSubtasks |-> IF marked[s] = "RUNNING" THEN "PENDING" ELSE marked[s]],
          tries |-> tries, taskStatus |-> "STOPPED", liveJobs |-> liveJobs]
    ELSE [marked |-> marked, tries |-> tries, taskStatus |-> taskStatus, liveJobs |-> liveJobs]

ReadsEvents ==
    /\ logPage = NoPage
    /\ logPage' = [step |-> "read", events |-> LastLines(logFile), open |-> InFlight]
    /\ UNCHANGED <<logSends, logTask, liveJobs, logCast, logRestarts>>

\* what the page is shown
RowsShown == RowsOf(logPage.events, Healed)
ShowsRows ==
    /\ logPage # NoPage /\ logPage' = NoPage
    /\ marked' = Healed.marked /\ taskStatus' = Healed.taskStatus
    /\ UNCHANGED <<logSends, tries, failing, taskLive, liveJobs, logCast, logRestarts>>

LogNext ==
    \/ \E o \in Callers :
         \/ BeginsRequest(o) \/ Progress(o)
         \/ \E how \in {"completed", "failed", "cancelled"} : EndsRequest(o, how)
    \/ \E s \in LogSubtasks :
         \/ Launches(s) \/ FailsChecks(s)
         \/ \E how \in {"COMPLETED", "FAILED", "PENDING"} : SettlesSubtask(s, how)
    \/ \E j \in LogJobs : JobComesOrGoes(j)
    \/ TaskRests \/ ContinuesTask \/ LogRestart \/ ReadsEvents \/ ShowsRows

----------------------------------------------------------------------------
(* Properties *)

(* The file is the newest part of what was appended, with the last event, and never    *)
(* larger than its limit (append_request_event, _trim_request_events_file_if_needed).  *)
LogIsNewest ==
    /\ \A i \in DOMAIN logFile : logFile[i].no = eventNo - Len(logFile) + i
    /\ eventNo > 0 => logFile # <<>>
    /\ LogBytes(logFile) <= MaxBytes

(* Every subtask the page finds failed has a row for the failure of its last attempt,  *)
(* whether its event was written, trimmed or came too late (_failed_subtask_request_events). *)
FailuresAreTold ==
    logPage # NoPage => \A s \in LogSubtasks : Healed.marked[s] = "FAILED" =>
        \E row \in ToSet(RowsShown) :
            row.by = s /\ row.local /\ tries[s] \in {0, row.try} /\ row.status = "failed"

(* A call in flight is shown as running, although the subtasks are read after the      *)
(* events, and when nothing sends, nothing is (_cancel_stale_running_request_event).   *)
RunningIsShown ==
    logPage # NoPage => \A row \in ToSet(RowsShown) :
        /\ row.call \in logPage.open \cap InFlight => row.status = "running"
        /\ row.status = "running" => Healed.taskStatus = "RUNNING" \/ liveJobs # {}

(* The rows of the first page, from the end of the file, and those of the next, from   *)
(* the whole of it, follow each other (read_request_events, RequestLogPanel loadOlder).*)
PagesFollow ==
    LET newest == RowsOf(LastLines(logFile), Healed)
        all    == RowsOf(logFile, Healed)
        first  == PageFrom(newest, 0)
    IN  Unlogged(LastLines(logFile), Healed) = Unlogged(logFile, Healed)
          => first = SubSeq(all, 1, Len(first))

(* What the request page reads from the log is what the calls have done, also where it *)
(* is older than the subtasks it is judged by.                                         *)
LogTellsTheTruth == LogIsNewest /\ FailuresAreTold /\ RunningIsShown /\ PagesFollow
LogSpec == LogInit /\ [][LogNext]_logVars
=============================================================================
