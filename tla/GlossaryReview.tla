--------------------------- MODULE GlossaryReview ---------------------------
(***************************************************************************)
(* One glossary review, from its start to the edits of its result          *)
(* (transoria/workflows/glossary_review, its thread and its HTTP calls in  *)
(* transoria/bridge/task_service.py).  Rows of a workbook go through the   *)
(* review rounds in batches, then the names through one consistency round. *)
(* The executor is reduced to what RunLedger promises of it; the seeding   *)
(* of a round is one step (a crash inside it is outside the model), and a  *)
(* continued review begins once the old thread has returned.  A decision   *)
(* changes the translation of a row; categories are changed alike.         *)
(***************************************************************************)
EXTENDS Lists, Naturals, Sequences, FiniteSets, SequencesExt

CONSTANT ReviewCasts    \* [terms, rounds, size, acts, stops, edits, faults]: the rows (src, dst,
                        \* isName), review_rounds, batch_size, the decisions a model
                        \* may give, bounds, and which of "restart", "fail", "write"

\* load_glossary_xlsx refuses a workbook without rows
ASSUME ReviewAssumption ==
    \A c \in ReviewCasts :
        /\ c.terms \in Seq([src : STRING, dst : STRING, isName : BOOLEAN]) /\ c.terms # <<>>
        /\ c.rounds \in Nat \ {0} /\ c.size \in Nat \ {0} /\ "none" \notin c.acts

VARIABLES
    review,     \* the bounds of this behaviour
    header,     \* status in task.json
    batches,    \* subtask files: <<round, batch>> to [terms, status, said]
    entry,      \* registry: none, live, done
    stopFlag,   \* RunningTask._stop_flag
    where,      \* the thread, at a step of orchestrator.run
    round,      \* round_index
    held,       \* final_snapshot.record.status
    book,       \* row ids of the reviewed workbook, in order
    report,     \* the report is on disk
    stopping,   \* the rest of stop_task: "mark" the record, "read" the snapshot
    shown,      \* ghost: the terminal status the page was told last
    dropped,    \* ghost: rows the user has deleted from the result
    stops, edits, lives    \* bounds
reviewVars == <<review, header, batches, entry, stopFlag, where, round, held, book, report,
                stopping, shown, dropped, stops, edits, lives>>
inReview == <<where, round, held>>
bounds   == <<review, stops, edits, lives>>

None     == <<>>
NoBook   == <<0>>
Terms    == DOMAIN review.terms
LastRound == review.rounds + 1
Fault(f) == f \in review.faults
AllDone(bs) == bs # None /\ \A k \in DOMAIN bs : bs[k].status = "COMPLETED"

-----------------------------------------------------------------------------
(* Replaying the decisions *)

\* _subtask_decisions: only of the batch's own rows, only of a completed batch
Heard(bs, r, x) == {k \in DOMAIN bs : k[1] = r /\ x \in bs[k].terms /\ bs[k].status = "COMPLETED"}
Said(bs, r, x)  ==
    IF Heard(bs, r, x) = {} THEN "none" ELSE bs[CHOOSE k \in Heard(bs, r, x) : TRUE].said[x]

\* mutant: the consistency round deletes rows
AppliedDeleting(t, act, r) ==
    IF t.deleted THEN t ELSE IF act = "delete" THEN [t EXCEPT !.deleted = TRUE]
    ELSE IF act \in {"none", "keep"} THEN t ELSE [t EXCEPT !.dst = act]
\* _apply_decision
Applied(t, act, r) ==
    IF t.deleted \/ act \in {"none", "keep"} \/ (act = "delete" /\ r = LastRound) THEN t
    ELSE IF act = "delete" THEN [t EXCEPT !.deleted = TRUE] ELSE [t EXCEPT !.dst = act]

\* _replay_completed, up to a round
Replayed(dst, acts, r) ==
    LET left[q \in 0..r] == IF q = 0 THEN [dst |-> dst, deleted |-> FALSE] ELSE Applied(left[q - 1], acts[q], q)
    IN  left[r]
After(bs, r) ==
    [x \in Terms |-> Replayed(review.terms[x].dst, [q \in 1..r |-> Said(bs, q, x)], r)]
\* the rows that are left
Kept(bs) == InOrder({x \in Terms : ~After(bs, LastRound)[x].deleted}, Len(review.terms))

\* _review_history: the decisions on a source term before a round, round by round
OneByOne(own, n) ==
    LET all[q \in 0..n] == IF q = 0 THEN <<>> ELSE all[q - 1] \o [i \in DOMAIN own[q] |-> <<q, own[q][i]>>]
    IN  all[n]
History(bs, src, before) ==
    LET own(q) == {x \in Terms : review.terms[x].src = src /\ Said(bs, q, x) # "none"}
    IN  OneByOne([q \in 1..before - 1 |-> InOrder(own(q), Len(review.terms))], before - 1)
\* _has_consensus
Agrees(bs, x, r) ==
    LET h == History(bs, review.terms[x].src, r)
        left(i) == After(bs, h[i][1])[h[i][2]]
    IN  r >= 3 /\ Len(h) >= 2 /\ left(Len(h)) = left(Len(h) - 1)

\* _build_round_subtasks, _build_character_consistency_subtasks
Chosen(bs, r) ==
    InOrder({x \in Terms : /\ ~After(bs, r - 1)[x].deleted
                           /\ IF r = LastRound THEN review.terms[x].isName ELSE ~Agrees(bs, x, r)},
            Len(review.terms))
Sent(terms) == [terms |-> terms, status |-> "PENDING", said |-> [x \in terms |-> "none"]]
NewBatches(bs, r) ==
    LET rows == Chosen(bs, r)
        size == IF r = LastRound THEN Len(review.terms) ELSE review.size
        slice(b) == {i \in DOMAIN rows : (b - 1) * size < i /\ i <= b * size}
    IN  [k \in {r} \X {b \in DOMAIN rows : slice(b) # {}} |-> Sent({rows[i] : i \in slice(k[2])})]

-----------------------------------------------------------------------------
(* The thread *)

Goes(place)      == where' = place
OnlyThread       == UNCHANGED <<entry, stopFlag, stopping, shown, dropped, bounds>>
InRound(bs, r)   == {k \in DOMAIN bs : k[1] = r}

\* _seed_initial_task
SeedsReview ==
    /\ where = "seed" /\ Goes("round") /\ round' = 1
    /\ IF batches = None THEN batches' = NewBatches(None, 1) /\ header' = "PENDING"
                         ELSE UNCHANGED <<batches, header>>
    /\ UNCHANGED <<held, book, report>> /\ OnlyThread

\* _reset_failed_round_subtasks
FailedReset(bs, r) ==
    [k \in DOMAIN bs |-> IF k[1] = r /\ bs[k].status = "FAILED" THEN [bs[k] EXCEPT !.status = "PENDING"]
                         ELSE bs[k]]
\* _ensure_round_seeded; a round without rows, or all done, is passed over
EntersRound ==
    LET new  == NewBatches(batches, round)
        bs   == IF InRound(batches, round) # {} THEN batches
                ELSE [k \in DOMAIN batches \cup DOMAIN new |-> IF k \in DOMAIN new THEN new[k] ELSE batches[k]]
        done == \A k \in InRound(bs, round) : bs[k].status = "COMPLETED"
    IN  /\ where = "round"
        /\ batches' = FailedReset(bs, round)
        /\ IF done THEN /\ Goes(IF round = LastRound THEN "close" ELSE "round")
                        /\ round' = IF round = LastRound THEN round ELSE round + 1
                   ELSE Goes("run") /\ UNCHANGED round
        /\ UNCHANGED <<header, held, book, report>> /\ OnlyThread

Open(st) == {k \in DOMAIN batches : batches[k].status = st}
\* TaskExecutor._finalize
RoundVerdict(stopped) ==
    IF stopped THEN "STOPPED" ELSE IF Open("FAILED") # {} THEN "FAILED" ELSE "COMPLETED"
Finalizes(stopped) ==
    /\ header' = RoundVerdict(stopped) /\ held' = RoundVerdict(stopped) /\ Goes("upgrade")
    /\ UNCHANGED <<batches, round, book, report>> /\ OnlyThread

\* executor.run, which a stop asked before it was made has already reached
RunsRound ==
    /\ where = "run"
    /\ IF Open("PENDING") # {} /\ stopFlag THEN Finalizes(TRUE)
       ELSE /\ header' = "RUNNING" /\ Goes("drive")
            /\ UNCHANGED <<batches, round, held, book, report>> /\ OnlyThread
TakesBatch(k) ==
    /\ where = "drive" /\ k \in Open("PENDING") /\ ~stopFlag
    /\ batches' = [batches EXCEPT ![k].status = "RUNNING"]
    /\ UNCHANGED <<header, inReview, book, report>> /\ OnlyThread
\* the model answers for some of the rows, the request fails, or the stop cancels it
SettlesBatch(k) ==
    /\ where = "drive" /\ k \in Open("RUNNING")
    /\ \/ \E said \in [batches[k].terms -> review.acts \cup {"none"}] :
            batches' = [batches EXCEPT ![k].status = "COMPLETED", ![k].said = said]
       \/ Fault("fail") /\ batches' = [batches EXCEPT ![k].status = "FAILED"]
       \/ stopFlag /\ batches' = [batches EXCEPT ![k].status = "PENDING"]
    /\ UNCHANGED <<header, inReview, book, report>> /\ OnlyThread
EndsRun ==
    /\ where = "drive" /\ Open("RUNNING") = {} /\ (Open("PENDING") = {} \/ stopFlag)
    /\ Finalizes(stopFlag)

\* a stop that came when everything was done does not count
UpgradesStop ==
    LET st == IF held = "STOPPED" /\ AllDone(batches) THEN "COMPLETED" ELSE held
    IN  /\ where = "upgrade" /\ held' = st
        /\ header' = IF st = held THEN header ELSE st
        /\ Goes(IF st # "COMPLETED" THEN "leave" ELSE IF round < LastRound THEN "again" ELSE "close")
        /\ UNCHANGED <<batches, round, book, report>> /\ OnlyThread
GoesOn ==
    /\ where = "again" /\ header' = "RUNNING" /\ round' = round + 1 /\ Goes("round")
    /\ UNCHANGED <<batches, held, book, report>> /\ OnlyThread

\* _complete_if_no_open_subtasks
Closes ==
    /\ where = "close" /\ Goes("book")
    /\ header' = IF AllDone(batches) THEN "COMPLETED" ELSE header
    /\ held' = header'
    /\ UNCHANGED <<batches, round, book, report>> /\ OnlyThread
\* write_reviewed_xlsx, which may find the file open elsewhere
WritesBook ==
    /\ where = "book"
    /\ \/ Goes("report") /\ book' = Kept(batches)
       \/ Fault("write") /\ Goes("raised") /\ UNCHANGED book
    /\ UNCHANGED <<header, batches, round, held, report>> /\ OnlyThread
WritesReport ==
    /\ where = "report" /\ Goes("leave") /\ report' = TRUE
    /\ UNCHANGED <<header, batches, round, held, book>> /\ OnlyThread

Leaves(place) ==
    /\ Goes(place) /\ round' = 0 /\ held' = "none"
    /\ entry' = IF entry = "live" THEN "done" ELSE entry
    /\ UNCHANGED <<header, batches, stopFlag, book, report, stopping, shown, dropped, bounds>>
LeavesReview ==
    \/ where = "leave" /\ Leaves("ended")
    \/ where = "raised" /\ Leaves("failing")
FailsReview ==
    /\ where = "failing" /\ Goes("ended") /\ header' = "FAILED"
    /\ UNCHANGED <<batches, round, held, book, report>> /\ OnlyThread

ReviewThread ==
    \/ SeedsReview \/ EntersRound \/ RunsRound \/ EndsRun \/ UpgradesStop \/ GoesOn
    \/ Closes \/ WritesBook \/ WritesReport \/ LeavesReview \/ FailsReview
    \/ \E k \in DOMAIN batches : TakesBatch(k) \/ SettlesBatch(k)

-----------------------------------------------------------------------------
(* Calls, one at a time.  A poll reads and heals in one step. *)

NotThread == UNCHANGED <<inReview, book, report, dropped, review, edits>>
Transient == {"PENDING", "RUNNING", "STOPPING"}
Final     == {"COMPLETED", "FAILED", "STOPPED"}

StartReview ==
    /\ where = "unborn" /\ header' = "RUNNING" /\ entry' = "live" /\ Goes("seed")
    /\ UNCHANGED <<batches, stopFlag, round, held, book, report, stopping, shown, dropped, bounds>>

\* stop_task: the flag, then STOPPING over whatever the record says by then
StopsReview ==
    /\ stopping = "no" /\ entry = "live" /\ stops < review.stops
    /\ stopFlag' = TRUE /\ stops' = stops + 1 /\ stopping' = "mark"
    /\ UNCHANGED <<header, batches, entry, shown, lives>> /\ NotThread
MarksReview ==
    /\ stopping = "mark" /\ header' = "STOPPING" /\ stopping' = "read"
    /\ UNCHANGED <<batches, entry, stopFlag, shown, stops, lives>> /\ NotThread

Rested(bs) ==
    [k \in DOMAIN bs |-> IF bs[k].status = "RUNNING" THEN [bs[k] EXCEPT !.status = "PENDING"] ELSE bs[k]]
Artifacts == report /\ book # NoBook
\* _reconcile_zombie: the status and the files it leaves
Zombie == header \in Transient /\ entry # "live"
Woken  == IF Zombie THEN "STOPPED" ELSE header
\* _reconcile_glossary_review_completion
Recognised ==
    IF Woken = "STOPPED" /\ Artifacts /\ AllDone(Rested(batches)) THEN "COMPLETED"
    ELSE IF Woken = "COMPLETED" /\ ~Artifacts THEN IF entry = "live" THEN "RUNNING" ELSE "STOPPED"
    ELSE Woken
\* read_snapshot
PollReview ==
    LET st == Recognised IN
    /\ stopping # "mark" /\ header # "none" /\ stopping' = "no"
    /\ header' = IF st = "RUNNING" THEN header ELSE st
    /\ batches' = IF Zombie \/ header \in {"STOPPED", "FAILED"} THEN Rested(batches) ELSE batches
    /\ entry' = IF st \in Final /\ entry = "live" THEN "done" ELSE entry
    /\ shown' = IF st \in Final THEN st ELSE shown
    /\ UNCHANGED <<stopFlag, stops, lives>> /\ NotThread

\* continue_task: what it loads has been healed
ContinueReview ==
    /\ stopping = "no" /\ where = "ended" /\ entry # "live" /\ lives < 2
    /\ header \in Transient \cup {"STOPPED", "FAILED"}
    /\ batches' = Rested(batches)
    /\ header' = "RUNNING" /\ entry' = "live" /\ stopFlag' = FALSE /\ Goes("seed")
    /\ shown' = "none" /\ lives' = lives + 1
    /\ UNCHANGED <<round, held, book, report, stopping, dropped, review, stops, edits>>

RestartReview ==
    /\ Fault("restart") /\ lives < 2 /\ where \notin {"unborn", "ended"}
    /\ entry' = "none" /\ stopFlag' = FALSE /\ Goes("ended") /\ round' = 0 /\ held' = "none"
    /\ stopping' = "no"
    /\ UNCHANGED <<header, batches, book, report, shown, dropped, bounds>>

-----------------------------------------------------------------------------
(* Edits of the reviewed workbook, by row number, once the thread has ended *)

Edits(rows, gone) ==
    /\ shown = "COMPLETED" /\ where = "ended" /\ stopping = "no" /\ edits < review.edits
    /\ edits' = edits + 1 /\ book' = rows /\ dropped' = gone
    /\ UNCHANGED <<review, header, batches, entry, stopFlag, inReview, report, stopping, shown, stops, lives>>
\* sheet.delete_rows one after the other, from the last
Deleted(rows, is) ==
    LET at(k)   == Len(rows) - k + 1
        left[k \in 0..Len(rows)] ==
            IF k = 0 THEN rows ELSE IF at(k) \in is THEN RemoveAt(left[k - 1], at(k)) ELSE left[k - 1]
    IN  left[Len(rows)]
DeleteFinalRows ==
    \E is \in SUBSET DOMAIN book :
        is # {} /\ Edits(Deleted(book, is), dropped \cup {book[i] : i \in is})
\* update_glossary_review_final_row, when it deletes
UpdateFinalRow ==
    \E i \in DOMAIN book : Edits(RemoveAt(book, i), dropped \cup {book[i]})
RestoreRow ==
    \E x \in Terms \ ToSet(book) : Edits(Append(book, x), dropped \ {x})

ReviewInit ==
    /\ review \in ReviewCasts
    /\ header = "none" /\ batches = None /\ entry = "none" /\ stopFlag = FALSE
    /\ where = "unborn" /\ round = 0 /\ held = "none" /\ book = NoBook /\ report = FALSE
    /\ stopping = "no" /\ shown = "none" /\ dropped = {} /\ stops = 0 /\ edits = 0 /\ lives = 0
ReviewNext ==
    \/ ReviewThread \/ StartReview \/ StopsReview \/ MarksReview \/ PollReview
    \/ ContinueReview \/ RestartReview \/ DeleteFinalRows \/ UpdateFinalRow \/ RestoreRow
ReviewSpec == ReviewInit /\ [][ReviewNext]_reviewVars

-----------------------------------------------------------------------------
Decided(x, r) == \E k \in InRound(batches, r) : x \in batches[k].terms /\ batches[k].status = "COMPLETED"
\* the decisions on the term of a row before a round, in the order they count
Told(x, r) ==
    {d \in (1..r - 1) \X Terms : review.terms[d[2]].src = review.terms[x].src /\ Said(batches, d[1], d[2]) # "none"}
Earlier(d, e) == d[1] < e[1] \/ (d[1] = e[1] /\ d[2] < e[2])
\* the last two of them have left the same
Settled(x, r) ==
    /\ r >= 3
    /\ \E d, e \in Told(x, r) :
        /\ Earlier(d, e) /\ \A o \in Told(x, r) : o = e \/ o = d \/ Earlier(o, d)
        /\ After(batches, d[1])[d[2]] = After(batches, e[1])[e[2]]

\* A review told COMPLETED is whole: in each round each row was sent and
\* answered unless it was deleted or, from the third on, the last two decisions
\* on its term, of this row or of another with the same source, agree
\* (_ensure_round_seeded, _reset_failed_round_subtasks, _has_consensus).
EveryRowReviewed ==
    shown = "COMPLETED" => \A x \in Terms, r \in 1..review.rounds :
        Decided(x, r) \/ After(batches, r - 1)[x].deleted \/ Settled(x, r)

\* Its workbook lacks a row only if a review round or the user deleted it:
\* the consistency round never does, and edits hit the rows they name.
RowsAreKept ==
    shown = "COMPLETED" => \A x \in Terms :
        LET struck == \E r \in 1..review.rounds : Said(batches, r, x) = "delete"
        IN  /\ x \in dropped => x \notin ToSet(book)
            /\ x \notin ToSet(book) => x \in dropped \/ struck
            /\ edits = 0 /\ struck => x \notin ToSet(book)

\* COMPLETED is told once the workbook and the report are there, although the
\* record says it between the rounds, and stays (_reconcile_glossary_review_completion).
ToldWhenWritten ==
    shown = "COMPLETED" => Artifacts /\ (header = "COMPLETED" \/ Fault("write"))

\* What the page calls a finished review is one.
ReviewIsComplete == EveryRowReviewed /\ RowsAreKept /\ ToldWhenWritten
=============================================================================
