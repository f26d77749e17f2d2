----------------------------- MODULE ToolTasks ------------------------------
(***************************************************************************)
(* transoria/bridge/task_service.py, the single-pass tools: replacement,   *)
(* EPUB compression, conversion and merge, TXT to EPUB.  One kind of tool, *)
(* its tasks on disk, the registry, one thread a task and the HTTP calls,  *)
(* which the router's lock makes one at a time.  A thread and a call may   *)
(* interleave wherever one reads or writes what the other can see.  The    *)
(* outputs go to a folder of their own (replace_originals is FALSE).       *)
(***************************************************************************)
EXTENDS Naturals, Sequences, FiniteSets, SequencesExt

CONSTANTS
    ToolIds,    \* task ids, a sequence: the order in which starts use them
    ToolCasts   \* bounds of a behaviour: [kind, files, starts, eager, faults], the tool,
                \* its files, how often it is started, stop_on_first_error, and which
                \* of "seed" (a write of the seed fails), "raise" (the tool raises),
                \* "restart", "join" (30 s are not enough for the old thread) may happen

\* only a replacement may find nothing to do; the others refuse to start then
ASSUME ToolsAssumption ==
    /\ ToolIds \in Seq(ToSet(ToolIds)) /\ ToolIds # <<>>
    /\ \A c \in ToolCasts :
         /\ c.kind \in {"replacement", "epub_compress", "epub_convert", "txt_to_epub", "epub_merge"}
         /\ c.files \in Seq(ToSet(c.files)) /\ "nothing" \notin ToSet(c.files)
         /\ IsInjective(c.files)
         /\ c.files = <<>> => c.kind = "replacement"
         /\ c.starts \in 0..Len(ToolIds) /\ c.eager \in BOOLEAN

VARIABLES
    tool,      \* the bounds of this behaviour
    record,    \* task.json: TaskStatus, or "none"
    rows,      \* subtask files: SubtaskStatus, or "none"
    result,    \* result.json: its output_files, or Nothing
    frozen,    \* _completed_snapshots and _completed_results, or Nothing
    entries,   \* TaskRegistry: none, live, done
    stopFlags, \* RunningTask._stop_flag
    at,        \* where the thread of a task is
    todo,      \* files its loop has still to take
    outs,      \* files whose output it has made
    broke,     \* its loop ended early: by a stop, or by a first error
    ask,       \* the HTTP call: [op, id, live, seen]
    told,      \* ghost: the terminal status the page was told last
    toolRestarts   \* bound
toolVars == <<tool, record, rows, result, frozen, entries, stopFlags, at, todo, outs, broke, ask, told, toolRestarts>>
onDisk   == <<record, rows, result>>
inThread == <<at, todo, outs, broke>>

Tools     == ToSet(ToolIds)
Nothing   == {"nothing"}
Transient == {"PENDING", "RUNNING", "STOPPING"}
Final     == {"COMPLETED", "FAILED", "STOPPED"}
Idle      == [op |-> "none", id |-> ToolIds[1], live |-> {}, seen |-> <<"none", <<>>>>]
Files     == tool.files
NoRows    == [f \in ToSet(Files) |-> "none"]
Unsent    == [f \in ToSet(Files) |-> "PENDING"]
May(fault) == fault \in tool.faults
Over(t)   == at[t] \in {"unborn", "ended"}
Count(t, st) == Cardinality({f \in ToSet(Files) : rows[t][f] = st})

ToolsInit ==
    /\ tool \in ToolCasts
    /\ record = [t \in Tools |-> "none"] /\ rows = [t \in Tools |-> NoRows]
    /\ result = [t \in Tools |-> Nothing] /\ frozen = [t \in Tools |-> Nothing]
    /\ entries = [t \in Tools |-> "none"] /\ stopFlags = [t \in Tools |-> FALSE]
    /\ at = [t \in Tools |-> "unborn"] /\ todo = [t \in Tools |-> <<>>]
    /\ outs = [t \in Tools |-> {}] /\ broke = [t \in Tools |-> "no"]
    /\ ask = Idle /\ told = [t \in Tools |-> "none"] /\ toolRestarts = 0

-----------------------------------------------------------------------------
(* The thread of a task *)

MovesTo(t, place) == at' = [at EXCEPT ![t] = place]
Writes(t, st)     == record' = [record EXCEPT ![t] = IF @ = "none" THEN @ ELSE st]
Saves(t, f, st)   == rows' = [rows EXCEPT ![t][f] = st]
Others(t)         == UNCHANGED <<tool, frozen, entries, stopFlags, ask, told, toolRestarts>>

\* _mark_status(RUNNING), then cache.load: the files it will take
Opens(t) ==
    /\ at[t] = "begin" /\ MovesTo(t, "files")
    /\ Writes(t, "RUNNING") /\ todo' = [todo EXCEPT ![t] = Files]
    /\ UNCHANGED <<rows, result, outs, broke>> /\ Others(t)

\* the stop flag is read before each file; the file is saved RUNNING
Takes(t) ==
    /\ at[t] = "files" /\ todo[t] # <<>>
    /\ IF stopFlags[t]
       THEN /\ broke' = [broke EXCEPT ![t] = "stop"] /\ MovesTo(t, "report")
            /\ UNCHANGED <<rows, todo>>
       ELSE /\ MovesTo(t, "work") /\ Saves(t, Head(todo[t]), "RUNNING") /\ UNCHANGED <<todo, broke>>
    /\ UNCHANGED <<record, result, outs>> /\ Others(t)

\* the tool made its output, or did not
Finishes(t, ok, stopHere) ==
    /\ at[t] = "work"
    /\ Saves(t, Head(todo[t]), IF ok THEN "COMPLETED" ELSE "FAILED")
    /\ outs' = [outs EXCEPT ![t] = IF ok THEN @ \cup {Head(todo[t])} ELSE @]
    /\ todo' = [todo EXCEPT ![t] = Tail(@)]
    /\ broke' = [broke EXCEPT ![t] = IF stopHere THEN "error" ELSE @]
    /\ MovesTo(t, IF stopHere \/ Len(todo[t]) = 1 THEN "report" ELSE "files")
    /\ UNCHANGED <<record, result>> /\ Others(t)

\* _write_result with the outputs of the loop
Reports(t) ==
    /\ at[t] = "report" /\ MovesTo(t, "verdict")
    /\ result' = [result EXCEPT ![t] = outs[t]]
    /\ UNCHANGED <<record, rows, todo, outs, broke>> /\ Others(t)

Closes(t, st) ==
    /\ at[t] = "verdict" /\ Writes(t, st) /\ MovesTo(t, "mirror")
    /\ UNCHANGED <<rows, result, todo, outs, broke>> /\ Others(t)

\* mutant: a failure counts more than files that were not reached
VerdictByFailures(t) ==
    IF Count(t, "FAILED") > 0 THEN "FAILED" ELSE "COMPLETED"
Verdict(t) ==
    IF broke[t] = "stop" \/ Count(t, "PENDING") > 0 \/ Count(t, "RUNNING") > 0 THEN "STOPPED"
    ELSE IF Count(t, "FAILED") > 0 THEN "FAILED" ELSE "COMPLETED"
\* _run_replacement_loop: an exception of a file is its failure
ReplacementLoop(t) ==
    /\ tool.kind = "replacement"
    /\ \/ Opens(t) \/ Takes(t) \/ Reports(t)
       \/ Finishes(t, TRUE, FALSE) \/ Finishes(t, FALSE, tool.eager)
       \/ Closes(t, Verdict(t))

\* the loops of the other tools report a failing file in its result
PlainLoop(t) ==
    \/ Opens(t) \/ Takes(t) \/ Reports(t) \/ Closes(t, Verdict(t))
    \/ \E ok \in BOOLEAN : Finishes(t, ok, FALSE)
CompressLoop(t)  == tool.kind = "epub_compress" /\ PlainLoop(t)
ConvertLoop(t)   == tool.kind = "epub_convert" /\ PlainLoop(t)
TxtToEpubLoop(t) == tool.kind = "txt_to_epub" /\ PlainLoop(t)

\* a merge looks at the stop flag once, before it begins, and then leaves no result
MergeOnce(t) ==
    /\ tool.kind = "epub_merge"
    /\ \/ Opens(t) \/ Reports(t)
       \/ ~stopFlags[t] /\ Takes(t)
       \/ /\ at[t] = "files" /\ stopFlags[t]
          /\ Writes(t, "STOPPED") /\ MovesTo(t, "mirror")
          /\ UNCHANGED <<rows, result, todo, outs, broke>> /\ Others(t)
       \/ \E ok \in BOOLEAN : Finishes(t, ok, FALSE)
       \/ Closes(t, IF Count(t, "FAILED") > 0 THEN "FAILED" ELSE "COMPLETED")

\* _maybe_cleanup_cache: a clean run is kept in memory
Freezes(t) ==
    /\ at[t] = "mirror" /\ MovesTo(t, "done")
    /\ frozen' = IF record[t] = "COMPLETED" /\ Count(t, "FAILED") = 0
                 THEN [frozen EXCEPT ![t] = result[t]] ELSE frozen
    /\ UNCHANGED <<tool, onDisk, entries, stopFlags, todo, outs, broke, ask, told, toolRestarts>>

Retired(t, place) ==
    /\ MovesTo(t, place) /\ todo' = [todo EXCEPT ![t] = <<>>]
    /\ broke' = [broke EXCEPT ![t] = "no"]

\* _spawn_thread: mark_done
LeavesThread(t) ==
    /\ at[t] = "done" /\ Retired(t, "ended")
    /\ entries' = [entries EXCEPT ![t] = IF @ = "none" THEN @ ELSE "done"]
    /\ UNCHANGED <<tool, onDisk, frozen, stopFlags, outs, ask, told, toolRestarts>>

\* the tool raises: done in the registry first, FAILED on disk next
Raises(t) ==
    /\ May("raise") /\ at[t] = "work" /\ tool.kind # "replacement" /\ Retired(t, "raised")
    /\ entries' = [entries EXCEPT ![t] = IF @ = "none" THEN @ ELSE "done"]
    /\ UNCHANGED <<tool, onDisk, frozen, stopFlags, outs, ask, told, toolRestarts>>
\* _on_task_failure
NotesFailure(t) ==
    /\ at[t] = "raised" /\ MovesTo(t, "ended") /\ Writes(t, "FAILED")
    /\ UNCHANGED <<rows, result, todo, outs, broke>> /\ Others(t)

ToolThread(t) ==
    \/ ReplacementLoop(t) \/ CompressLoop(t) \/ ConvertLoop(t) \/ TxtToEpubLoop(t)
    \/ MergeOnce(t) \/ Freezes(t) \/ LeavesThread(t) \/ Raises(t) \/ NotesFailure(t)

\* _partial_*_payload: what the finished rows say so far
Partial(t) == {f \in ToSet(Files) : rows[t][f] = "COMPLETED"}
\* read_artifacts: the result, the rows, or what memory kept
Artifacts(t) ==
    IF record[t] = "none" THEN frozen[t]
    ELSE IF result[t] # Nothing THEN result[t] ELSE Partial(t)

-----------------------------------------------------------------------------
(* Calls.  A start stops what runs of its kind and waits for it. *)

Begins(op, t, set) == ask' = [op |-> op, id |-> t, live |-> set, seen |-> Idle.seen]
Replies            == ask' = Idle
IsLive(t)            == entries[t] = "live"
Unused(t)          == entries[t] = "none" /\ record[t] = "none" /\ at[t] = "unborn" /\ rows[t] = NoRows
IsNext(t) == \E i \in 1..tool.starts : ToolIds[i] = t /\ Unused(t) /\ \A j \in 1..(i - 1) : ~Unused(ToolIds[j])
\* _resolve_live_running: an entry whose record is terminal is done
Resolved(set)      == [t \in Tools |-> IF t \in set /\ entries[t] = "live" /\ record[t] \in Final
                                       THEN "done" ELSE entries[t]]

\* _purge_kind_for_start up to the join
AsksStart ==
    /\ ask.op = "none"
    /\ LET live == {t \in Tools : IsLive(t) /\ record[t] \notin Final}
       IN /\ \E t \in Tools : IsNext(t) /\ Begins("join", t, live)
          /\ entries' = Resolved(Tools)
          /\ stopFlags' = [t \in Tools |-> t \in live \/ stopFlags[t]]
    /\ UNCHANGED <<tool, onDisk, frozen, inThread, told, toolRestarts>>

\* mutant: the start does not wait for the thread it has stopped
JoinsWithoutWaiting ==
    /\ ask.op = "join" /\ ask' = [ask EXCEPT !.op = "seed"]
    /\ UNCHANGED <<tool, onDisk, frozen, entries, stopFlags, inThread, told, toolRestarts>>
\* the threads have ended, or 30 s have passed and one of them is in conflict
Joins ==
    /\ ask.op = "join"
    /\ \A t \in ask.live : Over(t) \/ May("join")
    /\ IF \A t \in ask.live : entries[t] = "done" THEN ask' = [ask EXCEPT !.op = "seed"] ELSE Replies
    /\ UNCHANGED <<tool, onDisk, frozen, entries, stopFlags, inThread, told, toolRestarts>>

\* registry.add, cache.write_seed (the files, then the record), _spawn_thread
Seeds ==
    LET t == ask.id IN
    /\ ask.op = "seed" /\ Replies
    /\ entries' = [entries EXCEPT ![t] = "live"]
    /\ \/ /\ rows' = [rows EXCEPT ![t] = Unsent] /\ record' = [record EXCEPT ![t] = "PENDING"]
          /\ MovesTo(t, "begin")
       \/ /\ May("seed") /\ UNCHANGED <<record, at>>
          /\ rows' = [rows EXCEPT ![t] = [NoRows EXCEPT ![Head(Files)] = "PENDING"]]
    /\ UNCHANGED <<tool, result, frozen, stopFlags, todo, outs, broke, told, toolRestarts>>

\* no files: a record that is COMPLETED at once, and no thread to wait for
StartReplacement ==
    /\ tool.kind = "replacement"
    /\ \/ Files # <<>> /\ Seeds
       \/ LET t == ask.id IN
          /\ ask.op = "seed" /\ Replies /\ Files = <<>>
          /\ record' = [record EXCEPT ![t] = "COMPLETED"]
          /\ result' = [result EXCEPT ![t] = {}] /\ entries' = [entries EXCEPT ![t] = "done"]
          /\ MovesTo(t, "ended")
          /\ UNCHANGED <<tool, rows, frozen, stopFlags, todo, outs, broke, told, toolRestarts>>
StartCompress  == tool.kind = "epub_compress" /\ Seeds
StartConvert   == tool.kind = "epub_convert" /\ Seeds
StartTxtToEpub == tool.kind = "txt_to_epub" /\ Seeds
StartMerge     == tool.kind = "epub_merge" /\ Seeds

\* stop_task: the flag of a live task, then STOPPING, then read_snapshot
AsksStop(t) ==
    /\ ask.op = "none" /\ record[t] # "none"
    /\ IF IsLive(t) THEN Begins("mark", t, {}) /\ stopFlags' = [stopFlags EXCEPT ![t] = TRUE]
                  ELSE Begins("load", t, {}) /\ UNCHANGED stopFlags
    /\ UNCHANGED <<tool, onDisk, frozen, entries, inThread, told, toolRestarts>>
MarksStopping ==
    /\ ask.op = "mark" /\ Writes(ask.id, "STOPPING") /\ ask' = [ask EXCEPT !.op = "load"]
    /\ UNCHANGED <<tool, rows, result, frozen, entries, stopFlags, inThread, told, toolRestarts>>

\* read_snapshot, read_artifacts, list_recent_tasks: the record as it is now
AsksSnapshot(t) ==
    /\ ask.op = "none" /\ record[t] # "none" /\ Begins("load", t, {})
    /\ UNCHANGED <<tool, onDisk, frozen, entries, stopFlags, inThread, told, toolRestarts>>
LoadsSnapshot ==
    /\ ask.op = "load"
    /\ ask' = [ask EXCEPT !.op = "judge", !.seen = <<record[ask.id], rows[ask.id]>>]
    /\ UNCHANGED <<tool, onDisk, frozen, entries, stopFlags, inThread, told, toolRestarts>>

Reset(t, saw) ==
    [rows EXCEPT ![t] = [f \in DOMAIN @ |-> IF saw[2][f] = "RUNNING" THEN "PENDING" ELSE @[f]]]
\* _reconcile_zombie: what was loaded is a dead thread's, or a terminal record with a RUNNING file
Heals(t, saw) ==
    IF saw[1] \in Transient
    THEN IF IsLive(t) THEN UNCHANGED <<record, rows>>
         ELSE record' = [record EXCEPT ![t] = "STOPPED"] /\ rows' = Reset(t, saw)
    ELSE /\ UNCHANGED record
         /\ rows' = IF saw[1] \in {"STOPPED", "FAILED"} THEN Reset(t, saw) ELSE rows
Said(t, saw) == IF saw[1] \in Transient /\ ~IsLive(t) THEN "STOPPED" ELSE saw[1]

\* mutant: the entry of a task that is told to be over stays live
SettlesNothing(t, st) == UNCHANGED entries
\* read_snapshot ends with _resolve_live_running
Settles(t, st) ==
    entries' = IF st \in Final /\ IsLive(t) THEN [entries EXCEPT ![t] = "done"] ELSE entries

ReadSnapshot ==
    LET t == ask.id  st == Said(t, ask.seen) IN
    /\ ask.op = "judge" /\ Replies
    /\ Heals(t, ask.seen) /\ Settles(t, st)
    /\ told' = IF st \in Final THEN [told EXCEPT ![t] = st] ELSE told
    /\ UNCHANGED <<tool, result, frozen, stopFlags, inThread, toolRestarts>>

\* purge_caches(all): refused while a task is active
PurgeCaches ==
    /\ ask.op = "none" /\ \E t \in Tools : record[t] # "none"
    /\ entries' = Resolved(Tools)
    /\ \A t \in Tools : entries'[t] # "live"
    /\ record' = [t \in Tools |-> "none"] /\ result' = [t \in Tools |-> Nothing]
    /\ rows' = [t \in Tools |-> IF record[t] = "none" THEN rows[t] ELSE NoRows]
    /\ frozen' = [t \in Tools |-> IF record[t] = "none" THEN frozen[t] ELSE Nothing]
    /\ UNCHANGED <<tool, stopFlags, inThread, ask, told, toolRestarts>>

\* the process ends and starts again
RestartTools ==
    /\ May("restart") /\ toolRestarts = 0 /\ toolRestarts' = 1
    /\ entries' = [t \in Tools |-> "none"] /\ stopFlags' = [t \in Tools |-> FALSE]
    /\ frozen' = [t \in Tools |-> Nothing] /\ Replies
    /\ at' = [t \in Tools |-> IF at[t] = "unborn" THEN "unborn" ELSE "ended"]
    /\ todo' = [t \in Tools |-> <<>>] /\ broke' = [t \in Tools |-> "no"]
    /\ UNCHANGED <<tool, onDisk, outs, told>>

ToolCall ==
    \/ AsksStart \/ Joins
    \/ StartReplacement \/ StartCompress \/ StartConvert \/ StartTxtToEpub \/ StartMerge
    \/ MarksStopping \/ LoadsSnapshot \/ ReadSnapshot \/ PurgeCaches
    \/ \E t \in Tools : AsksStop(t) \/ AsksSnapshot(t)
ToolsNext == ToolCall \/ RestartTools \/ \E t \in Tools : ToolThread(t)

ToolsSpec == ToolsInit /\ [][ToolsNext]_toolVars

-----------------------------------------------------------------------------
Writing(t) == at[t] \in {"begin", "files", "work", "report", "verdict"}

\* A terminal status the page has been told stays: no stop, no poll and no
\* thread writes another over it (read_snapshot, _resolve_live_running).
ToldIsKept ==
    \A t \in Tools : told[t] # "none" /\ ~May("raise") => record[t] \in {told[t], "none"}

\* One thread of a kind works at a time, although a start does not wait for
\* the old one longer than its join (_purge_kind_for_start).
OneToolWorks == \A t, u \in Tools : Writing(t) /\ Writing(u) => t = u

\* An entry that blocks the next start has a thread that will free it.
EntriesHaveThreads == \A t \in Tools : IsLive(t) /\ ~May("seed") => ~Over(t)

\* COMPLETED says every file is done and listed; FAILED that none is left.
VerdictsAreTrue ==
    \A t \in Tools :
        /\ record[t] = "COMPLETED" => Count(t, "COMPLETED") = Len(Files) /\ result[t] = ToSet(Files)
        /\ record[t] = "FAILED" /\ ~May("raise") =>
             Count(t, "FAILED") > 0 /\ Count(t, "PENDING") = 0

\* Only outputs that were made are listed, and a finished run lists them all.
ArtifactsAreMade ==
    \A t \in Tools : Artifacts(t) # Nothing =>
        /\ Artifacts(t) \subseteq outs[t]
        /\ record[t] \in {"COMPLETED", "FAILED"} /\ ~May("raise") => Artifacts(t) = outs[t]

\* What the tools' page shows and blocks is what their threads have done.
ToolsTellTheTruth ==
    /\ ToldIsKept /\ OneToolWorks /\ EntriesHaveThreads /\ VerdictsAreTrue /\ ArtifactsAreMade
=============================================================================
