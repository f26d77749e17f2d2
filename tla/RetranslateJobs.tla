---------------------------- MODULE RetranslateJobs -------------------------
(***************************************************************************)
(* transoria/bridge/task_service.py, the re-translation of segments of a   *)
(* finished task, with handlers/proofreading.update_segment: one thread a  *)
(* request, slots of a model, quality reviews shared by a leader and its   *)
(* followers, the job's file and its checkpoints, cancelling, restarts and *)
(* the purge of the cache.  The segments are those of one cached subtask,  *)
(* which is read and written as a whole.  A candidate text is named by the *)
(* job it comes from.                                                      *)
(***************************************************************************)
EXTENDS Naturals, Sequences, FiniteSets, SequencesExt

CONSTANTS
    Jobs,        \* request ids
    Casts,       \* bounds of a behaviour: [jobs, slots, edits, restarts, purges], its
                 \* requests, slots (effective_concurrency_limit), edits, restarts, purge
    SegsOf,      \* Jobs -> set of segments asked for; more than one is a batch
    Reviewed,    \* the language pair has a quality review
    ReviewMax,   \* _RETRANSLATE_QUALITY_BATCH_MAX_ITEMS
    Overlap      \* an edit may be saved while a job writes the same subtask

NoJob == "nobody"
ASSUME JobsAssumption ==
    /\ IsFiniteSet(Jobs) /\ NoJob \notin Jobs
    /\ \A c \in Casts : c.slots \in Nat
    /\ ReviewMax \in Nat

VARIABLES
    text,      \* segment -> its translation in the cached subtask
    kept,      \* the task is in the cache (not purged)
    job,       \* _retranslate_jobs: the objects in memory
    disk,      \* retranslate/<id>.json
    known,     \* ids in _retranslate_jobs
    orig,      \* original_dst of a request's segments
    thread,    \* where the thread of a request is
    busy,      \* _active_retranslates_by_model
    marks,     \* _retranslate_cancelled
    queue,     \* items of the quality group
    leads,     \* the leader of the group, or NoJob
    batch,     \* items of the review call in flight
    verdict,   \* item.result or item.error
    locked,    \* owner of the task lock, or NoJob
    read,      \* snapshot the owner of the lock works on
    edit,      \* the user's edit being saved: [seg, read], or NoEdit
    edits, restarts,  \* bounds
    cast,      \* the bounds of this behaviour
    wrote      \* ghost: segments a job has written

retransVars == <<text, kept, job, disk, known, orig, thread, busy, marks, queue, leads, batch,
                 verdict, locked, read, edit, edits, restarts, cast, wrote>>

Segs     == UNION {SegsOf[j] : j \in Jobs}
NoEdit   == [seg |-> "nothing", read |-> <<>>]
Absent   == [status |-> "absent", runner |-> "none", quality |-> "none", done |-> {}]
Fresh    == [Absent EXCEPT !.status = "pending"]
Old      == [s \in Segs |-> "old"]
Terminal == {"completed", "failed", "stale", "unresolved", "cancelled"}
Single(j) == Cardinality(SegsOf[j]) = 1

RetransInit ==
    /\ cast \in Casts
    /\ text = Old /\ read = Old /\ kept = TRUE
    /\ job = [j \in Jobs |-> Absent] /\ disk = job
    /\ known = {} /\ marks = {} /\ busy = 0
    /\ orig = [j \in Jobs |-> [s \in SegsOf[j] |-> "old"]]
    /\ thread = [j \in Jobs |-> "none"]
    /\ queue = <<>> /\ batch = <<>> /\ leads = NoJob
    /\ verdict = [j \in Jobs |-> "none"]
    /\ locked = NoJob /\ edit = NoEdit /\ edits = 0 /\ restarts = 0
    /\ wrote = [j \in Jobs |-> {}]

-----------------------------------------------------------------------------
(* Requests *)

groupVars == <<queue, leads, batch, verdict>>
fileVars  == <<text, kept, locked, read, edit, edits, wrote, cast>>
Live(j)   == j \in known /\ job[j].status \in {"pending", "running"}

\* start_retranslate: refused while a live request shares a segment
StartJob(j) ==
    /\ j \in cast.jobs /\ kept /\ locked = NoJob
    /\ disk[j] = Absent /\ j \notin known
    /\ \A k \in Jobs : Live(k) => SegsOf[k] \cap SegsOf[j] = {}
    /\ job' = [job EXCEPT ![j] = Fresh] /\ disk' = [disk EXCEPT ![j] = Fresh]
    /\ known' = known \cup {j}
    /\ orig' = [orig EXCEPT ![j] = [s \in SegsOf[j] |-> text[s]]]
    /\ thread' = [thread EXCEPT ![j] = "slot"]
    /\ UNCHANGED <<busy, marks, restarts, groupVars, fileVars>>

Loaded(j) == IF j \in known THEN job[j] ELSE disk[j]
\* mutant: the checkpoints go whatever the status was
ResumedForgetting(j) == [Loaded(j) EXCEPT !.status = "pending", !.runner = "none", !.quality = "none"]
\* what a resumed request keeps: the checkpoints, unless it failed
Resumed(j) ==
    IF Loaded(j).status = "failed" THEN [Fresh EXCEPT !.done = Loaded(j).done]
    ELSE [Loaded(j) EXCEPT !.status = "pending"]

\* resume_retranslate: a failed request, or one no thread of this process runs
ResumeJob(j) ==
    /\ ~Live(j) /\ thread[j] = "none"
    /\ Loaded(j).status \in {"pending", "running", "failed"}
    /\ job' = [job EXCEPT ![j] = Resumed(j)] /\ disk' = [disk EXCEPT ![j] = Resumed(j)]
    /\ known' = known \cup {j}
    /\ thread' = [thread EXCEPT ![j] = "slot"]
    /\ UNCHANGED <<orig, busy, marks, restarts, groupVars, fileVars>>

\* _gc_retranslate_jobs: terminal requests are forgotten, their file stays
Expire(j) ==
    /\ j \in known /\ job[j].status \in Terminal /\ thread[j] = "none"
    /\ known' = known \ {j}
    /\ UNCHANGED <<job, disk, orig, thread, busy, marks, restarts, groupVars, fileVars>>

\* cancel_retranslate: marks every live request of the task and cancels its calls
CancelAll ==
    /\ \E j \in Jobs : Live(j)
    /\ marks' = marks \cup {j \in Jobs : Live(j)}
    /\ UNCHANGED <<job, disk, known, orig, thread, busy, restarts, groupVars, fileVars>>

-----------------------------------------------------------------------------
(* The thread of a request *)

\* mutant: a request that ends keeps its slot when it was cancelled
ReleaseUnlessCancelled(st) == IF st = "cancelled" THEN busy ELSE busy - 1
\* _release_retranslate_slot, in a finally
Release(st) == busy - 1

\* the last steps of a thread: the status in memory and on disk, the slot returned
End(j, st, done) ==
    /\ job' = [job EXCEPT ![j].status = st, ![j].done = done]
    /\ disk' = [disk EXCEPT ![j] = job'[j]]
    /\ known' = known \cup {j}
    /\ marks' = IF st = "cancelled" THEN marks \ {j} ELSE marks
    /\ busy' = Release(st)
    /\ thread' = [thread EXCEPT ![j] = "none"]

At(j, st) == thread' = [thread EXCEPT ![j] = st]
Goes(j, st) == At(j, st) /\ UNCHANGED <<job, disk, known, marks, busy>>
Changed(j, now) == {s \in SegsOf[j] : now[s] # orig[j][s]}

SlotFree == busy < cast.slots

\* _acquire_retranslate_slot: cancelled while it waits, or a slot
TakeSlot(j) ==
    /\ thread[j] = "slot"
    /\ \/ /\ j \in marks
          /\ job' = [job EXCEPT ![j].status = "cancelled"]
          /\ disk' = [disk EXCEPT ![j] = job'[j]]
          /\ known' = known \cup {j} /\ marks' = marks \ {j}
          /\ thread' = [thread EXCEPT ![j] = "none"]
          /\ UNCHANGED busy
       \/ /\ j \notin marks /\ SlotFree
          /\ busy' = busy + 1
          /\ At(j, "begin")
          /\ UNCHANGED <<job, disk, known, marks>>
    /\ UNCHANGED <<orig, restarts, groupVars, fileVars>>

\* _execute_retranslate and _run_retranslate_batch up to the runner: status
\* running, then the texts are compared with those the request was made for
Begin(j) ==
    /\ thread[j] = "begin" /\ locked = NoJob
    /\ IF ~kept THEN End(j, "failed", {})
       ELSE IF Changed(j, text) = SegsOf[j]
            THEN End(j, IF Single(j) THEN "stale" ELSE "completed", {})
            ELSE /\ job' = [job EXCEPT ![j].status = "running",
                        ![j].quality = IF job[j].runner = "none" THEN "none" ELSE @]
                 /\ disk' = [disk EXCEPT ![j] = job'[j]]
                 /\ At(j, IF job[j].runner = "none" THEN "call" ELSE "answered")
                 /\ UNCHANGED <<known, marks, busy>>
    /\ UNCHANGED <<orig, restarts, groupVars, fileVars>>

\* mutant: an exception of the call hides that it was cancelled: no status
RunnerEndsSilently(j) ==
    /\ thread[j] = "call"
    /\ \/ j \in marks /\ At(j, "none") /\ busy' = busy - 1 /\ UNCHANGED <<job, disk, known, marks>>
       \/ End(j, "failed", {})
    /\ UNCHANGED <<orig, restarts, groupVars, fileVars>>
\* _run_retranslate_coroutine around the runner, and the checkpoint of its answer
RunnerEnds(j) ==
    /\ thread[j] = "call"
    /\ \/ j \in marks /\ End(j, "cancelled", {})
       \/ End(j, "failed", {})
       \/ /\ j \notin marks
          /\ job' = [job EXCEPT ![j].runner = "answer"]
          /\ disk' = [disk EXCEPT ![j] = job'[j]]
          /\ At(j, "answered")
          /\ UNCHANGED <<known, marks, busy>>
    /\ UNCHANGED <<orig, restarts, groupVars, fileVars>>

\* the checks before the review: the text may have changed during the call, or
\* the answer be the text there already; the review may not be called for
Answered(j) ==
    /\ thread[j] = "answered"
    /\ IF ~Single(j)
       THEN \/ Reviewed /\ job[j].quality = "none" /\ Goes(j, "own review")
            \/ Goes(j, "commit")
       ELSE /\ locked = NoJob
            /\ IF ~kept THEN End(j, "failed", {})
               ELSE IF Changed(j, text) # {} THEN End(j, "stale", {})
               ELSE \/ End(j, "unresolved", {})
                    \/ Reviewed /\ job[j].quality = "none" /\ Goes(j, "review")
                    \/ (job[j].quality # "none" \/ ~Reviewed) /\ Goes(j, "commit")
                    \/ Reviewed /\ Goes(j, "commit")  \* preserved non-prose
    /\ UNCHANGED <<orig, restarts, groupVars, fileVars>>

\* _review_retranslate_batch_latin_candidates: a batch reviews its own candidates
OwnReviewEnds(j) ==
    /\ thread[j] = "own review"
    /\ \/ j \in marks /\ End(j, "cancelled", {})
       \/ Goes(j, "commit")   \* an error leaves the reviewed segments unresolved
       \/ /\ j \notin marks
          /\ job' = [job EXCEPT ![j].quality = "decided"]
          /\ disk' = [disk EXCEPT ![j] = job'[j]]
          /\ At(j, "commit") /\ UNCHANGED <<known, marks, busy>>
    /\ UNCHANGED <<orig, restarts, groupVars, fileVars>>

-----------------------------------------------------------------------------
(* The quality review: a leader drains the group, followers wait *)

jobVars == <<job, disk, known, marks, busy>>

\* _review_retranslation_candidate_batched
Join(j) ==
    /\ thread[j] = "review"
    /\ queue' = Append(queue, j)
    /\ verdict' = [verdict EXCEPT ![j] = "none"]
    /\ IF leads = NoJob THEN leads' = j /\ At(j, "gather")
       ELSE UNCHANGED leads /\ At(j, "follow")
    /\ UNCHANGED <<batch, orig, restarts, jobVars, fileVars>>

\* mutant: the batch is read and not taken off the queue
GatherCopying(j) ==
    /\ thread[j] = "gather"
    /\ \E n \in 1..ReviewMax :
         /\ n <= Len(queue)
         /\ batch' = SubSeq(queue, 1, n) /\ UNCHANGED queue
    /\ At(j, "asking")
    /\ UNCHANGED <<leads, verdict, orig, restarts, jobVars, fileVars>>
\* _drain_retranslate_quality_group: after the wait, or at once on later rounds
Gather(j) ==
    /\ thread[j] = "gather"
    /\ \E n \in 1..ReviewMax :      \* the token limit may cut the batch
         /\ n <= Len(queue)
         /\ batch' = SubSeq(queue, 1, n)
         /\ queue' = SubSeq(queue, n + 1, Len(queue))
    /\ At(j, "asking")
    /\ UNCHANGED <<leads, verdict, orig, restarts, jobVars, fileVars>>

Judged(items, v) == [k \in Jobs |-> IF k \in items THEN v ELSE verdict[k]]

\* mutant: a cancelled leader releases its own batch and forgets the queue
EndedWithBatch(asked) == asked
\* the items a cancelled call ends: its own and everything queued behind it
EndedWith(asked) == asked \cup ToSet(queue)

\* the call ends: a decision for each item, an error for the batch, or a
\* cancellation, which ends the group with everything queued
ReviewEnds(j) ==
    /\ thread[j] = "asking"
    /\ LET asked == ToSet(batch)
           more  == queue # <<>>
       IN \/ /\ asked \cap marks # {}
             /\ verdict' = Judged(EndedWith(asked), "cancelled")
             /\ queue' = <<>> /\ leads' = NoJob
             /\ At(j, "decided")
          \/ /\ verdict' = Judged(asked, "error")
             /\ leads' = IF more THEN leads ELSE NoJob
             /\ At(j, IF more THEN "gather" ELSE "decided")
             /\ UNCHANGED queue
          \/ /\ asked \cap marks = {}
             /\ \E v \in [asked -> {"accept", "keep"}] :
                  verdict' = [k \in Jobs |-> IF k \in asked THEN v[k] ELSE verdict[k]]
             /\ leads' = IF more THEN leads ELSE NoJob
             /\ At(j, IF more THEN "gather" ELSE "decided")
             /\ UNCHANGED queue
    /\ batch' = <<>>
    /\ UNCHANGED <<orig, restarts, jobVars, fileVars>>

\* item.done: the thread goes on with its own item's decision
Decided(j) ==
    /\ \/ thread[j] = "decided"
       \/ thread[j] = "follow" /\ verdict[j] # "none"
    /\ CASE verdict[j] = "cancelled" -> End(j, "cancelled", {})
         [] verdict[j] \in {"error"} -> End(j, "unresolved", {})
         [] verdict[j] = "keep" ->
              /\ job' = [job EXCEPT ![j].quality = "decided", ![j].status = "unresolved"]
              /\ disk' = [disk EXCEPT ![j] = job'[j]]
              /\ busy' = Release("unresolved")
              /\ At(j, "none") /\ UNCHANGED <<known, marks>>
         [] verdict[j] = "accept" ->
              /\ job' = [job EXCEPT ![j].quality = "decided"]
              /\ disk' = [disk EXCEPT ![j] = job'[j]]
              /\ At(j, "commit") /\ UNCHANGED <<known, marks, busy>>
    /\ verdict' = [verdict EXCEPT ![j] = "none"]
    /\ UNCHANGED <<queue, leads, batch, orig, restarts, fileVars>>

-----------------------------------------------------------------------------
(* The commit, under the task lock, and the edit of the user, without it *)

\* the snapshot the commit is checked against and written from
Lock(j) ==
    /\ thread[j] = "commit" /\ locked = NoJob
    /\ Overlap \/ edit = NoEdit
    /\ IF ~kept THEN End(j, IF Single(j) THEN "failed" ELSE "completed", {}) /\ UNCHANGED <<locked, read>>
       ELSE locked' = j /\ read' = text /\ Goes(j, "patch")
    /\ UNCHANGED <<cast, text, kept, edit, edits, wrote, orig, restarts, groupVars>>

\* mutant: the text is not compared again
AcceptableUnchecked(j) == SegsOf[j]
\* segments of the request whose text is still the one it was made for
Acceptable(j) == SegsOf[j] \ Changed(j, read)

\* mutant: the status is settled before the write is known to have worked
ReportedEarly(j, picked, works) == picked
\* segments reported completed: only if the subtask could be saved
Reported(j, picked, works) == IF works THEN picked ELSE {}

\* _patch_segment_dst, _apply_retranslate_batch_candidates
Patch(j) ==
    /\ thread[j] = "patch"
    /\ LET ok == Acceptable(j)
       IN IF Single(j) /\ ok = {} THEN End(j, "stale", {}) /\ UNCHANGED <<text, wrote>>
          ELSE \E picked \in IF Single(j) THEN {ok} ELSE SUBSET ok, works \in BOOLEAN :
                 /\ works => kept   \* save_subtask needs the directory
                 /\ IF works
                    THEN /\ text' = IF picked = {} THEN text
                                    ELSE [s \in Segs |-> IF s \in picked THEN j ELSE read[s]]
                         /\ wrote' = [wrote EXCEPT ![j] = @ \cup picked]
                    ELSE UNCHANGED <<text, wrote>>
                 /\ End(j, IF Single(j) /\ ~works THEN "failed" ELSE "completed",
                        Reported(j, picked, works))
    /\ locked' = NoJob /\ read' = Old
    /\ UNCHANGED <<cast, kept, edit, edits, orig, restarts, groupVars>>

\* proofreading.update_segment: load, then save the whole subtask
EditLoads(s) ==
    /\ kept /\ edit = NoEdit /\ edits < cast.edits
    /\ Overlap \/ locked = NoJob
    /\ edit' = [seg |-> s, read |-> text] /\ edits' = edits + 1
    /\ UNCHANGED <<cast, text, kept, locked, read, wrote, thread, orig, restarts, jobVars, groupVars>>
EditSaves ==
    /\ edit # NoEdit
    /\ text' = IF kept THEN [edit.read EXCEPT ![edit.seg] = "edit"] ELSE text
    /\ edit' = NoEdit
    /\ UNCHANGED <<cast, kept, locked, read, edits, wrote, thread, orig, restarts, jobVars, groupVars>>

\* purge_caches deletes the directory of the task; requests are not asked
PurgeTask ==
    /\ kept /\ cast.purges /\ kept' = FALSE
    /\ text' = Old
    /\ disk' = [j \in Jobs |-> Absent]
    /\ UNCHANGED <<cast, locked, read, edit, edits, wrote, job, known, marks, busy, thread, orig, restarts, groupVars>>

\* the process ends; only the subtask and the files of the requests stay
RestartService ==
    /\ restarts < cast.restarts /\ restarts' = restarts + 1
    /\ job' = [j \in Jobs |-> Absent] /\ known' = {} /\ marks' = {} /\ busy' = 0
    /\ thread' = [j \in Jobs |-> "none"]
    /\ queue' = <<>> /\ batch' = <<>> /\ leads' = NoJob
    /\ verdict' = [j \in Jobs |-> "none"]
    /\ locked' = NoJob /\ read' = Old /\ edit' = NoEdit
    /\ UNCHANGED <<cast, text, kept, disk, orig, edits, wrote>>

ThreadStep(j) ==
    \/ TakeSlot(j) \/ Begin(j) \/ RunnerEnds(j) \/ Answered(j) \/ OwnReviewEnds(j)
    \/ Join(j) \/ Gather(j) \/ ReviewEnds(j) \/ Decided(j) \/ Lock(j) \/ Patch(j)

RetransNext ==
    \/ \E j \in Jobs : StartJob(j) \/ ResumeJob(j) \/ Expire(j) \/ ThreadStep(j)
    \/ CancelAll
    \/ \E s \in Segs : EditLoads(s)
    \/ EditSaves
    \/ PurgeTask
    \/ RestartService

\* calls return (they have timeouts), waits end, and a save goes through or fails
RetransFair == WF_retransVars(EditSaves) /\ \A j \in Jobs : WF_retransVars(ThreadStep(j))
RetransSpec == RetransInit /\ [][RetransNext]_retransVars /\ RetransFair
-----------------------------------------------------------------------------
(* Properties *)

\* Requests, files, threads and the group have their types; an item waits in one place.
RetransTypeOK ==
    /\ text \in [Segs -> Jobs \cup {"old", "edit"}]
    /\ \A j \in Jobs :
         /\ job[j].status \in Terminal \cup {"absent", "pending", "running"}
         /\ disk[j].status \in Terminal \cup {"absent", "pending", "running"}
    /\ known \subseteq Jobs /\ marks \subseteq Jobs
    /\ leads \in Jobs \cup {NoJob} /\ locked \in Jobs \cup {NoJob}
    /\ ToSet(queue) \cap ToSet(batch) = {}

\* Every slot that is counted is held by a thread that will give it back, and
\* there are never more than the model allows, whichever way requests end.
SlotsAreHeld ==
    /\ busy = Cardinality({j \in Jobs : thread[j] \notin {"none", "slot"}})
    /\ busy <= cast.slots

\* A request that shows as pending or running in this process has a thread: no
\* way of ending leaves the page polling a request nobody works on.
LiveHasThread == \A j \in Jobs : Live(j) => thread[j] # "none"

\* A segment reported as re-translated was written with the request's text.
DoneWasWritten == \A j \in Jobs : job[j].done \cup disk[j].done \subseteq wrote[j]

\* What the service says of its requests is so: slots, live ones, done segments.
RequestsAreTrue == RetransTypeOK /\ SlotsAreHeld /\ LiveHasThread /\ DoneWasWritten

\* What the user typed is only ever replaced by a request made for that very
\* text (test_retranslate_batch_keeps_user_edited_segment_stale, and the page's
\* "You edited this segment manually; LLM result discarded").
EditsSurvive ==
    [][kept' => \A s \in Segs :
         text[s] = "edit" /\ text'[s] # "edit" =>
             \E j \in Jobs : text'[s] = j /\ orig[j][s] = "edit"]_retransVars

\* A paid answer on disk is only dropped with the request's failure or the
\* task's purge: neither a restart nor a resume asks the model again.
AnswersAreReused ==
    [][\A j \in Jobs :
         disk[j].runner = "answer" /\ disk'[j].runner # "answer" =>
             disk[j].status = "failed" \/ kept # kept']_retransVars

\* Once the user stops asking again, every thread ends: leaders release their
\* followers, cancelled or not, and nobody waits for a slot, a lock or a
\* decision for ever.
ThreadsEnd ==
    <>[][\A j \in Jobs : ~ResumeJob(j)]_retransVars
        => \A j \in Jobs : thread[j] # "none" ~> thread[j] = "none"
=============================================================================
