-------------------------- MODULE TranslationRounds --------------------------
(***************************************************************************)
(* One translation task over its whole life: the subtasks are seeded, the  *)
(* executor runs them, failed chunks are split, a routed task gets one     *)
(* advanced retry, the verdict is written, and a later Continue prepares   *)
(* the recovery of what is still missing                                   *)
(* (transoria/workflows/translation/orchestrator.py).  The executor is     *)
(* reduced to what RunLedger promises of it: it settles pending subtasks   *)
(* one at a time and closes the run.  Every file written is a step of its  *)
(* own, and the process may die before any step whose phase is a member of *)
(* CrashAt.  A segment's text in a payload is "good", a doubtful "draft",  *)
(* the source itself ("echo"), or "mass" when the whole chunk echoed it.   *)
(***************************************************************************)
EXTENDS Naturals, Sequences, Functions, FiniteSetsExt

CONSTANTS Chunks,       \* sequence of chunk ids, in file-name order
          Segs,         \* chunk -> sequence of its segments
          CrashAt,      \* phases in which the process may die
          MaxRuns, MaxCrashes

\* the chunker puts each segment of the book into one chunk, and no chunk is empty
ASSUME RoundsAssumption ==
    /\ Chunks \in Seq(Range(Chunks)) /\ IsInjective(Chunks)
    /\ DOMAIN Segs = Range(Chunks)
    /\ \A c \in Range(Chunks) :
         /\ Segs[c] \in Seq(Range(Segs[c])) /\ IsInjective(Segs[c]) /\ Segs[c] # <<>>
         /\ \A d \in Range(Chunks) : c # d => Range(Segs[c]) \cap Range(Segs[d]) = {}

VARIABLES routed,       \* the task has routes and retries its failures
          record, adv,  \* task.json: status and metadata.advanced_retry_state
          file,         \* subtask files by id
          phase, plan, todo, created,
          ran, stop, pause, paused, retryState, fallback,
          runs, crashes

roundVars == <<routed, record, adv, file, phase, plan, todo, created, ran, stop, pause,
               paused, retryState, fallback, runs, crashes>>

----------------------------------------------------------------------------
(* Subtask files *)

Whole(c) == <<c, 0>>
Half(c, i) == <<c, i>>
\* sorted(directory.iterdir()): a parent before its children
Ids == [n \in 1..3 * Len(Chunks) |-> <<Chunks[(n + 2) \div 3], (n + 2) % 3>>]
Segments == UNION {Range(Segs[c]) : c \in Range(Chunks)}
Middle(c) == IF Len(Segs[c]) \div 2 = 0 THEN 1 ELSE Len(Segs[c]) \div 2
\* mutant: a split that loses the segment after the middle
SegsOfShort(id) ==
    Range(CASE id[2] = 0 -> Segs[id[1]]
            [] id[2] = 1 -> SubSeq(Segs[id[1]], 1, Middle(id[1]))
            [] OTHER -> SubSeq(Segs[id[1]], Middle(id[1]) + 2, Len(Segs[id[1]])))

SegsOf(id) ==
    Range(CASE id[2] = 0 -> Segs[id[1]]
            [] id[2] = 1 -> SubSeq(Segs[id[1]], 1, Middle(id[1]))
            [] OTHER -> SubSeq(Segs[id[1]], Middle(id[1]) + 1, Len(Segs[id[1]])))

Unwritten == [status |-> "absent", text |-> <<>>, accepted |-> {},
              preserved |-> {}, marker |-> {},
              error |-> "none", byFallback |-> FALSE]
Fresh == [Unwritten EXCEPT !.status = "pending"]
With(st) == {id \in Range(Ids) : file[id].status = st}
TextOf(f, s) == IF s \in DOMAIN f.text THEN f.text[s] ELSE "none"
Echoes(f) == {s \in DOMAIN f.text : f.text[s] \in {"echo", "mass"}}

\* collect_segment_state_from_authoritative_subtasks
Counted(id) ==
    LET f == file[id] IN
    IF f.status = "completed" THEN DOMAIN f.text
    ELSE (f.accepted \cup f.preserved) \cap DOMAIN f.text
Translated == UNION {Counted(id) : id \in Range(Ids)}

\* _is_model_or_request_failure
ModelFailure(f) == f.error \in {"request", "mismatch"}

----------------------------------------------------------------------------
(* Seeding and preparation *)

Fill == [id \in Range(Ids) |-> Unwritten]

RoundsInit ==
    /\ routed \in BOOLEAN
    /\ record = "PENDING" /\ adv = ""
    /\ file = Fill
    /\ phase = "idle" /\ plan = [id \in {} |-> {}] /\ todo = <<>> /\ created = FALSE
    /\ ran = FALSE /\ stop = FALSE /\ pause = FALSE /\ paused = FALSE
    /\ retryState = "" /\ fallback = FALSE
    /\ runs = 0 /\ crashes = 0

local == <<created, ran, stop, pause, paused, retryState, fallback>>
disk  == <<record, adv, file>>

\* segments _segment_recovery_candidates returns
Candidates ==
    (UNION {Echoes(file[id]) : id \in {i \in With("completed") \cup With("failed") :
        file[i].status = "failed" => file[i].error # "request"}})
      \ UNION {file[id].accepted : id \in Range(Ids)}

HoldersOf(s) == {n \in DOMAIN Ids : s \in SegsOf(Ids[n])
                 /\ file[Ids[n]].status \notin {"absent", "skipped"}}
Owner(s) ==
    LET ended == {n \in HoldersOf(s) : file[Ids[n]].status \in {"completed", "failed"}}
    IN  IF ended # {} THEN Max(ended) ELSE Min(HoldersOf(s))
\* _recovery_owners
Owned(id) == {s \in Candidates : HoldersOf(s) # {} /\ Ids[Owner(s)] = id}

Recovery == [id \in {i \in Range(Ids) : Owned(i) # {}} \cup With("failed") |-> Owned(id)]

Start ==
    /\ phase = "idle" /\ runs < MaxRuns
    /\ \/ runs = 0
       \/ runs > 0 /\ record \in {"STOPPED", "PAUSED", "FAILED"}
    /\ runs' = runs + 1
    /\ IF With("absent") = Range(Ids)
       THEN /\ phase' = "seeding" /\ todo' = Chunks /\ UNCHANGED plan
       ELSE /\ phase' = "preparing" /\ UNCHANGED todo
            /\ plan' = IF routed /\ adv = "running" THEN [id \in {} |-> {}] ELSE Recovery
    /\ UNCHANGED <<routed, disk, local, crashes>>

\* TaskCache.write_seed: the subtasks first, the header last
Seed ==
    /\ phase = "seeding" /\ todo # <<>>
    /\ file' = [file EXCEPT ![Whole(Head(todo))] = Fresh]
    /\ todo' = Tail(todo)
    /\ UNCHANGED <<routed, record, adv, phase, plan, local, runs, crashes>>

SeedHeader ==
    /\ phase = "seeding" /\ todo = <<>>
    /\ record' = "PENDING" /\ adv' = "" /\ phase' = "begin"
    /\ UNCHANGED <<routed, file, plan, todo, local, runs, crashes>>

\* one save of _prepare_segment_recovery
PrepareOne ==
    /\ phase \in {"preparing", "requeueing"}
    /\ \E n \in DOMAIN Ids :
         /\ Ids[n] \in DOMAIN plan /\ \A k \in 1..n - 1 : Ids[k] \notin DOMAIN plan
         /\ file' = [file EXCEPT ![Ids[n]].status = "pending",
                                 ![Ids[n]].marker = plan[Ids[n]], ![Ids[n]].error = "none"]
         /\ plan' = [i \in DOMAIN plan \ {Ids[n]} |-> plan[i]]
    /\ UNCHANGED <<routed, record, adv, phase, todo, local, runs, crashes>>

\* mutant: the retry goes to the routes that failed
PreparedSameRoutes ==
    /\ phase \in {"preparing", "requeueing"} /\ DOMAIN plan = {}
    /\ phase' = "begin" /\ retryState' = adv
    /\ UNCHANGED <<routed, disk, plan, todo, created, ran, stop, pause, paused, runs,
                   crashes, fallback>>

\* the executor is built; a task caught in its advanced retry goes on with it
Prepared ==
    /\ phase \in {"preparing", "requeueing"} /\ DOMAIN plan = {}
    /\ phase' = "begin"
    /\ retryState' = adv
    /\ fallback' = (routed /\ retryState' = "running")
    /\ UNCHANGED <<routed, disk, plan, todo, created, ran, stop, pause, paused, runs,
                   crashes>>

----------------------------------------------------------------------------
(* A round of the executor *)

Verdict ==
    IF With("pending") # {} THEN record
    ELSE IF With("failed") # {} THEN "FAILED" ELSE "COMPLETED"

\* TaskExecutor.run: a later round starts with new events
BeginRound ==
    /\ phase = "begin"
    /\ ran' = TRUE
    /\ LET still == stop /\ ~ran IN
       /\ stop' = still
       /\ IF With("pending") = {} \/ still
          THEN /\ phase' = "ended" /\ UNCHANGED <<pause, paused>>
               /\ record' = IF With("pending") = {} THEN Verdict ELSE "STOPPED"
          ELSE /\ phase' = "round" /\ pause' = FALSE /\ paused' = FALSE
               /\ record' = "RUNNING"
    /\ UNCHANGED <<routed, adv, file, plan, todo, created, retryState, fallback, runs,
                   crashes>>

Echoing(S, f) == \A s \in S : f[s] = "echo"
\* what the model returns for the segments S of a chunk
Texts(S) == {[s \in S |-> IF Cardinality(S) > 1 /\ Echoing(S, f) THEN "mass" ELSE f[s]] :
                f \in [S -> {"good", "draft", "echo"}]}
Drafts(t) == {s \in DOMAIN t : t[s] = "draft"}
Sound(t)  == {s \in DOMAIN t : t[s] \in {"good", "draft"}}

Ended(f, st, e) ==
    [f EXCEPT !.status = st, !.error = e, !.byFallback = @ \/ fallback]

\* TranslationSubtaskRunner: a result, a result in the wrong shape, or an error
PlainResult(f, S) ==
    (UNION {{[Ended(f, "completed", "none")
                EXCEPT !.text = t, !.accepted = {}, !.preserved = Drafts(t)]}
           \cup IF Sound(t) = S THEN {}
                ELSE {[Ended(f, "failed", "mismatch")
                        EXCEPT !.text = t, !.accepted = Sound(t), !.preserved = Drafts(t)]} :
             t \in Texts(S)})
    \cup {Ended(f, "failed", e) : e \in {"request", "local"}}

Rank(x) == CASE x = "none" -> 0 [] x = "mass" -> 1 [] x = "echo" -> 2
             [] x = "draft" -> 3 [] OTHER -> 4

\* TranslationRecoveryRunner.run: only the marked segments are asked for again
Merged(f, t) ==
    [s \in DOMAIN f.text \cup DOMAIN t |->
        IF s \in DOMAIN t /\ Rank(t[s]) > Rank(TextOf(f, s)) THEN t[s] ELSE TextOf(f, s)]
\* mutant: only what was accepted before stays
AcceptNoRows(f, S) == f.accepted \ f.marker
Accept(f, S) == (f.accepted \ f.marker) \cup ((S \ f.marker) \cap DOMAIN f.text)
Recovered(f, S) ==
    (UNION {LET m == Merged(f, t)
               k == Accept(f, S) \cup {s \in f.marker : m[s] \in {"good", "draft"}}
           IN  {[Ended(f, "completed", "none") EXCEPT !.text = m, !.accepted = k]}
               \cup IF Sound(t) = f.marker THEN {}
                    ELSE {[Ended(f, "failed", "recovery") EXCEPT !.text = m, !.accepted = k]} :
             t \in Texts(f.marker)})
    \cup {[Ended(f, "failed", e) EXCEPT !.accepted = Accept(f, S)] :
             e \in {"request", "recovery"}}

Settle(id) ==
    /\ phase = "round" /\ id \in With("pending")
    /\ \E f \in IF file[id].marker = {} THEN PlainResult(file[id], SegsOf(id))
               ELSE Recovered(file[id], SegsOf(id)) :
          file' = [file EXCEPT ![id] = f]
    /\ UNCHANGED <<routed, record, adv, phase, plan, todo, local, runs, crashes>>

\* TaskExecutor._finalize
EndRound ==
    /\ phase = "round"
    /\ \/ stop /\ record' = "STOPPED" /\ UNCHANGED paused
       \/ ~stop /\ pause /\ record' = "PAUSED" /\ paused' = TRUE
       \/ ~stop /\ With("pending") = {} /\ record' = Verdict /\ UNCHANGED paused
    /\ phase' = "ended"
    /\ UNCHANGED <<routed, adv, file, plan, todo, created, ran, stop, pause, retryState,
                   fallback, runs, crashes>>

HasExecutor == phase \notin {"idle", "seeding", "preparing"}

RequestStop ==
    /\ HasExecutor /\ ~stop /\ stop' = TRUE
    /\ UNCHANGED <<routed, disk, phase, plan, todo, created, ran, pause, paused,
                   retryState, fallback, runs, crashes>>

RequestPause ==
    /\ HasExecutor /\ ~pause /\ pause' = TRUE
    /\ UNCHANGED <<routed, disk, phase, plan, todo, created, ran, stop, paused,
                   retryState, fallback, runs, crashes>>

----------------------------------------------------------------------------
(* Between the rounds *)

\* _should_split_failed_subtask and _split_failed_payload
Splittable(id) ==
    /\ file[id].status = "failed" /\ file[id].marker = {}
    /\ ~ModelFailure(file[id]) /\ Echoes(file[id]) # {}
    /\ Cardinality(SegsOf(id)) > 1 /\ id[2] = 0

\* mutant: the split does not look at the stop
LoopOnStopped ==
    /\ phase = "ended"
    /\ phase' = IF retryState # "running" THEN "splitting" ELSE "retry"
    /\ created' = FALSE
    /\ UNCHANGED <<routed, disk, plan, todo, ran, stop, pause, paused, retryState,
                   fallback, runs, crashes>>

LoopOn ==
    /\ phase = "ended"
    /\ phase' = IF retryState # "running" /\ ~stop THEN "splitting" ELSE "retry"
    /\ created' = FALSE
    /\ UNCHANGED <<routed, disk, plan, todo, ran, stop, pause, paused, retryState,
                   fallback, runs, crashes>>

\* the parent is given up before its children exist
SplitParent(id) ==
    /\ phase = "splitting" /\ todo = <<>> /\ Splittable(id)
    /\ \A n \in DOMAIN Ids : Splittable(Ids[n]) =>
          \E k \in 1..n : Ids[k] = id
    /\ record' = IF created THEN record ELSE "RUNNING"
    /\ file' = [file EXCEPT ![id].status = "skipped"]
    /\ todo' = <<Half(id[1], 1), Half(id[1], 2)>>
    /\ UNCHANGED <<routed, adv, phase, plan, local, runs, crashes>>

SplitChild ==
    /\ phase = "splitting" /\ todo # <<>>
    /\ file' = [file EXCEPT ![Head(todo)] = Fresh]
    /\ todo' = Tail(todo) /\ created' = TRUE
    /\ UNCHANGED <<routed, record, adv, phase, plan, ran, stop, pause, paused, retryState,
                   fallback, runs, crashes>>

SplitDone ==
    /\ phase = "splitting" /\ todo = <<>>
    /\ \A id \in Range(Ids) : ~Splittable(id)
    /\ phase' = IF created THEN "begin" ELSE "retry"
    /\ UNCHANGED <<routed, disk, plan, todo, local, runs, crashes>>

\* mutant: the retry does not remember that it has run
RetryWantedAgain == routed /\ ~stop /\ ~pause /\ With("failed") # {}

\* the advanced retry of a routed task
RetryWanted ==
    routed /\ retryState = "" /\ ~stop /\ ~pause /\ With("failed") # {}

Retry ==
    /\ phase = "retry"
    /\ IF RetryWanted
       THEN phase' = "requeueing" /\ adv' = "running" /\ plan' = Recovery
       ELSE phase' = "closing" /\ UNCHANGED <<adv, plan>>
    /\ UNCHANGED <<routed, record, file, todo, local, runs, crashes>>

Mass == \E id \in With("completed") : "mass" \in Range(file[id].text)

\* mutant: a stopped task is done when nothing is pending
FinalStatusUncounted ==
    IF record = "COMPLETED" /\ Mass THEN "FAILED"
    ELSE IF record = "STOPPED" /\ With("pending") = {} THEN "COMPLETED" ELSE record

\* the verdict the task is left with
FinalStatus ==
    IF record = "COMPLETED" /\ Mass THEN "FAILED"
    ELSE IF /\ record = "STOPPED" /\ Translated = Segments
            /\ With("pending") = {} /\ With("failed") = {}
         THEN "COMPLETED" ELSE record

Discard ==
    /\ phase' = "idle" /\ plan' = [id \in {} |-> {}] /\ todo' = <<>> /\ created' = FALSE
    /\ ran' = FALSE /\ stop' = FALSE /\ pause' = FALSE /\ paused' = FALSE
    /\ retryState' = "" /\ fallback' = FALSE

CloseTask ==
    /\ phase = "closing" /\ Discard
    /\ adv' = IF retryState = "running" /\ ~stop /\ ~pause THEN "done" ELSE adv
    /\ record' = FinalStatus
    /\ UNCHANGED <<routed, file, runs, crashes>>

\* the process dies and the next one heals the record it finds
Crash ==
    /\ phase \in CrashAt /\ crashes < MaxCrashes /\ Discard
    /\ crashes' = crashes + 1
    /\ record' = IF record \in {"PENDING", "RUNNING"} THEN "STOPPED" ELSE record
    /\ UNCHANGED <<routed, adv, file, runs>>

----------------------------------------------------------------------------

Work ==
    \/ Seed \/ SeedHeader \/ PrepareOne \/ Prepared \/ BeginRound \/ EndRound
    \/ LoopOn \/ SplitChild \/ SplitDone \/ Retry \/ CloseTask
    \/ \E id \in Range(Ids) : Settle(id) \/ SplitParent(id)

RoundsNext == Start \/ RequestStop \/ RequestPause \/ Crash \/ Work
RoundsFair == WF_roundVars(Work)
RoundsSpec == RoundsInit /\ [][RoundsNext]_roundVars

----------------------------------------------------------------------------
(* Properties *)

\* A task that says COMPLETED has a text for every segment of its input.
CompletedMeansTranslated ==
    phase = "idle" /\ record = "COMPLETED" => Translated = Segments

\* Whatever a task at rest has not translated, a subtask that Continue would
\* run again still owns.
GapsCanBeFilled ==
    phase = "idle" /\ runs > 0 /\ record # "COMPLETED" =>
        \A s \in Segments \ Translated :
            \E id \in With("pending") \cup With("failed") : s \in SegsOf(id)

\* A recovery that fails takes no other row of its chunk out of the output
\* (runner.py, TranslationRecoveryRunner).
RecoveryKeepsTheRest ==
    \A id \in With("failed") : file[id].marker # {} =>
        \A s \in SegsOf(id) \ file[id].marker :
            TextOf(file[id], s) \in {"good", "draft"} => s \in Counted(id)

\* No segment falls between the records: the untranslated ones can be run
\* again, and the translated ones stay in the output.
NothingIsLost == GapsCanBeFilled /\ RecoveryKeepsTheRest

\* The advanced retry is declared done only when every chunk that still fails
\* has been sent to the fallback route.
RetryReachesAll ==
    [][adv = "running" /\ adv' = "done" =>
          \A id \in With("failed") : file[id].byFallback]_roundVars

\* A run whose executor has closed STOPPED starts nothing more.
StoppedStaysStopped ==
    [][ran /\ record = "STOPPED" => record' # "RUNNING"]_roundVars

\* What starts further calls obeys the user and reaches every failure.
RetriesObey == RetryReachesAll /\ StoppedStaysStopped

\* Splits and retries come to an end: a task that runs is at rest again.
RoundsEnd == phase # "idle" ~> phase = "idle"
==============================================================================
