----------------------------- MODULE ChunkRunner -----------------------------
(***************************************************************************)
(* One chunk through TranslationSubtaskRunner._attempt                     *)
(* (transoria/workflows/translation/runner.py): the batch call and its     *)
(* re-asks for the lines still missing, the rescue of a chunk that mostly  *)
(* echoes its source, the low-confidence micro-batches and solo retries    *)
(* with their shared budget, and the result.  A line's text is not there   *)
(* ("none"), the source itself ("echo"), a doubtful "draft", "good", or a  *)
(* sentence that several lines may share ("dup").                          *)
(***************************************************************************)
EXTENDS Naturals, FiniteSets, FiniteSetsExt

CONSTANTS Lines,            \* 1..n, the chunk indices
          Partials,         \* _PARTIAL_ACCEPT_MAX_RETRIES
          LowRetries,       \* low_confidence_max_retries
          CallsPerRetry,    \* _LOW_CONFIDENCE_RETRY_CALLS_PER_CONFIGURED_RETRY
          MassMin,          \* _MASS_SOURCE_RESIDUE_MIN_SEGMENTS
          MicroMin, MicroMax \* the sizes of a micro-batch

ASSUME ChunkAssumption ==
    /\ Lines \subseteq Nat /\ IsFiniteSet(Lines)
    /\ Partials \in Nat /\ LowRetries \in Nat /\ CallsPerRetry \in Nat

VARIABLES stage, tryNo, acc, pending, partials, asked, reason, rescued,
          cand, fin,
          queue,       \* the micro-batches still to send
          alone,       \* micro_leftovers: the lines of no micro-batch
          list,        \* the lines a micro-batch has not settled
          round, soloed, unsolved, budget, calls,
          flagged, recoverable, accepted, chunkOutcome

batchVars == <<acc, pending, partials, asked>>
lineVars  == <<reason, cand, fin, soloed, unsolved>>
workVars  == <<queue, alone, list, round, budget>>
resultVars == <<flagged, recoverable, accepted>>
chunkVars == <<stage, tryNo, rescued, calls, chunkOutcome, batchVars, lineVars, workVars,
               resultVars>>

Read == {"echo", "draft", "good", "dup"}
Low(t) == t \in {"echo", "draft"}
\* _low_confidence_candidate_rank
LineRank(t) == CASE t = "none" -> 0 [] t = "echo" -> 1 [] t = "draft" -> 2 [] OTHER -> 3
\* what a call for the lines S may answer: some of them, each with some text
Answers(S) == UNION {[T -> Read] : T \in SUBSET S}
\* _detect_duplicate_drift
Drift(t) == LET d == {l \in Lines : t[l] = "dup"}
            IN  IF Cardinality(d) > 1 THEN d ELSE {}

\* _low_confidence_retry_budget_for_attempt
Budget(a) == LET total == LowRetries * CallsPerRetry
             IN  IF a <= 1 THEN total ELSE Min({total, 1})

None == [l \in Lines |-> "none"]

ChunkInit ==
    /\ stage = "batch" /\ tryNo = 1
    /\ acc = None /\ pending = Lines /\ partials = Partials /\ asked = FALSE
    /\ reason = None /\ rescued = FALSE /\ cand = None /\ fin = None
    /\ queue = {} /\ alone = {} /\ list = {} /\ round = 0 /\ soloed = {} /\ unsolved = {}
    /\ budget = Budget(1) /\ calls = 0
    /\ flagged = {} /\ recoverable = {} /\ accepted = {} /\ chunkOutcome = "none"

----------------------------------------------------------------------------
(* The batch call and the re-asks *)

Fail(why) ==
    /\ stage' = "done" /\ chunkOutcome' = why
    /\ UNCHANGED <<tryNo, rescued, batchVars, lineVars, workVars, resultVars>>

\* the lines still to ask for once t has arrived
Missing(t)    == pending \ DOMAIN t
LineMerged(t)     == [l \in Lines |-> IF l \in DOMAIN t THEN t[l] ELSE acc[l]]
Suspicious(t) == IF Missing(t) = {} THEN Drift(LineMerged(t)) ELSE {}
StillOpen(t)  == Missing(t) \cup Suspicious(t)

\* out of re-asks: the open lines fall back to their source
FallBack(t) ==
    /\ acc' = [l \in Lines |-> IF l \in StillOpen(t) THEN "echo" ELSE LineMerged(t)[l]]
    /\ reason' = [l \in Lines |-> IF l \notin StillOpen(t) THEN reason[l]
                                  ELSE IF Missing(t) = {} THEN "drift" ELSE "count"]
    /\ pending' = {} /\ stage' = "judge" /\ UNCHANGED partials

AskAgain(t) ==
    /\ acc' = [l \in Lines |-> IF l \in Suspicious(t) THEN "none" ELSE LineMerged(t)[l]]
    /\ pending' = StillOpen(t)
    /\ IF StillOpen(t) = {} THEN stage' = "judge" /\ UNCHANGED partials
                            ELSE partials' = partials - 1 /\ UNCHANGED stage
    /\ UNCHANGED reason

Batch ==
    /\ stage = "batch" /\ asked' = TRUE /\ calls' = calls + 1
    /\ \E t \in Answers(pending) :
          IF StillOpen(t) # {} /\ partials = 0 THEN FallBack(t) ELSE AskAgain(t)
    /\ UNCHANGED <<tryNo, rescued, chunkOutcome, cand, fin, soloed, unsolved, workVars, resultVars>>

\* a transient failure of a re-ask is survived, that of the first call is not
BatchTransient ==
    /\ stage = "batch" /\ asked /\ calls' = calls + 1
    /\ reason' = [l \in Lines |-> IF l \in pending THEN "partial" ELSE reason[l]]
    /\ pending' = {} /\ stage' = "judge"
    /\ UNCHANGED <<tryNo, rescued, chunkOutcome, acc, partials, asked, cand, fin, soloed,
                   unsolved, workVars, resultVars>>

\* what the solo retries take up: the lines of no micro-batch come first
Leftover == alone \cup list
SoloLine == IF alone # {} THEN Min(alone) ELSE Min(list)

\* any other error of any call ends the chunk
CallFails ==
    /\ \/ stage \in {"batch", "rescue"}
       \/ stage = "micro" /\ queue # {} /\ budget > 0
       \/ stage = "solo" /\ Leftover # {} /\ budget > 0 /\ round < LowRetries
    /\ calls' = calls + 1
    /\ Fail("error")

----------------------------------------------------------------------------
(* Judgement and the rescue of an echoing chunk *)

Judged(l) == IF acc[l] = "none" THEN "echo" ELSE acc[l]
Doubted   == {l \in Lines : Low(Judged(l)) \/ reason[l] # "none"}
EchoLines   == {l \in Lines : Judged(l) = "echo"}
\* _should_fail_for_mass_source_residue
IsMass(S) == Cardinality(S) >= MassMin /\ 2 * Cardinality(S) >= Cardinality(Lines)

\* _split_low_confidence_micro_batches: a batch ends where it is full or where
\* its tokens are too many, which may be anywhere
SameBatch(cuts, l, k) == \A c \in cuts : c <= l <=> c <= k
Batches(S, cuts)      == {{k \in S : SameBatch(cuts, l, k)} : l \in S}

\* the reason setdefault leaves on the lines S
Excuse(S, why) == [l \in Lines |-> IF l \in S /\ reason[l] = "none" THEN why ELSE reason[l]]

ToRetries(S) ==
    /\ stage' = "micro"
    /\ \E cuts \in SUBSET S :
         /\ \A b \in Batches(S, cuts) : Cardinality(b) <= MicroMax
         /\ queue' = {b \in Batches(S, cuts) : Cardinality(b) >= MicroMin}
         /\ alone' = S \ (UNION queue')
    /\ UNCHANGED list

JudgeLines ==
    /\ stage = "judge"
    /\ cand' = [l \in Lines |-> Judged(l)]
    /\ LET retry == IF LowRetries > 0 THEN Doubted ELSE {} IN
       /\ fin' = [l \in Lines |-> IF l \in retry THEN "none" ELSE Judged(l)]
       /\ flagged' = Doubted \ retry
       /\ IF IsMass(EchoLines) /\ ~rescued
          THEN /\ stage' = "rescue" /\ rescued' = TRUE
               /\ UNCHANGED <<reason, queue, alone, list>>
          ELSE /\ ToRetries(retry) /\ UNCHANGED rescued
               /\ reason' = IF IsMass(EchoLines) THEN Excuse(EchoLines, "mass") ELSE reason
    /\ UNCHANGED <<tryNo, calls, chunkOutcome, batchVars, soloed, unsolved, round, budget,
                   recoverable, accepted>>

Better(t, l) == l \in DOMAIN t /\ LineRank(t[l]) > LineRank(acc[l])

\* a rescued line is compared with the text the batch gave it
Rescue ==
    /\ stage = "rescue" /\ calls' = calls + 1
    /\ \E t \in Answers(EchoLines) :
          IF \E l \in DOMAIN t : acc[l] = "none"
          THEN Fail("no text to compare with")
          ELSE /\ acc' = [l \in Lines |-> IF Better(t, l) THEN t[l] ELSE acc[l]]
               /\ reason' = [l \in Lines |-> IF Better(t, l) THEN "none" ELSE reason[l]]
               /\ stage' = "judge"
               /\ UNCHANGED <<tryNo, rescued, chunkOutcome, pending, partials, asked, cand,
                              fin, soloed, unsolved, workVars, resultVars>>

RescueTransient ==
    /\ stage = "rescue" /\ calls' = calls + 1
    /\ reason' = Excuse(EchoLines, "mass")
    /\ ToRetries(IF LowRetries > 0 THEN Doubted ELSE {})
    /\ UNCHANGED <<tryNo, rescued, chunkOutcome, batchVars, cand, fin, soloed, unsolved, round,
                   budget, resultVars>>

----------------------------------------------------------------------------
(* Low-confidence retries *)

\* mutant: the latest text wins
TakeLatest(t) ==
    /\ fin' = [l \in Lines |-> IF l \in DOMAIN t /\ ~Low(t[l]) THEN t[l] ELSE fin[l]]
    /\ cand' = [l \in Lines |-> IF l \in DOMAIN t THEN t[l] ELSE cand[l]]

\* a line either passes, or keeps the better of its two texts
Take(t) ==
    /\ fin' = [l \in Lines |-> IF l \in DOMAIN t /\ ~Low(t[l]) THEN t[l] ELSE fin[l]]
    /\ cand' = [l \in Lines |-> IF l \in DOMAIN t /\ LineRank(t[l]) > LineRank(cand[l])
                                THEN t[l] ELSE cand[l]]

\* the first of the micro-batches
NextBatch == CHOOSE b \in queue : \A other \in queue : Min(b) <= Min(other)

SendBatch(batch) ==
    /\ stage = "micro" /\ queue # {} /\ budget > 0 /\ batch = NextBatch
    /\ budget' = budget - 1 /\ calls' = calls + 1
    /\ queue' = queue \ {batch} /\ soloed' = soloed \cup batch

Micro ==
    /\ \E batch \in queue : \E t \in Answers(batch) :
          /\ SendBatch(batch) /\ Take(t)
          /\ reason' = [l \in Lines |-> IF l \in DOMAIN t /\ LineRank(t[l]) > LineRank(cand[l])
                                        THEN "none" ELSE reason[l]]
          /\ list' = list \cup {l \in batch : l \notin DOMAIN t \/ Low(t[l])}
    /\ UNCHANGED <<stage, tryNo, rescued, chunkOutcome, batchVars, alone, unsolved, round, resultVars>>

MicroTransient ==
    /\ \E batch \in queue : SendBatch(batch) /\ list' = list \cup batch
    /\ UNCHANGED <<stage, tryNo, rescued, chunkOutcome, batchVars, reason, cand, fin, alone, unsolved,
                   round, resultVars>>

\* nothing to send, or nothing to pay with
MicroOver ==
    /\ stage = "micro" /\ (queue = {} \/ budget = 0)
    /\ list' = list \cup (UNION queue) /\ queue' = {}
    /\ stage' = "solo"
    /\ UNCHANGED <<tryNo, rescued, calls, chunkOutcome, batchVars, lineVars, alone, round, budget,
                   resultVars>>

SoloReady == stage = "solo" /\ Leftover # {} /\ budget > 0 /\ round < LowRetries

\* the line is through
Dequeue(l) == alone' = alone \ {l} /\ list' = list \ {l} /\ round' = 0

\* a text that says the same again ends the rounds of its line
Solo ==
    /\ SoloReady /\ budget' = budget - 1 /\ calls' = calls + 1
    /\ LET l == SoloLine IN
       /\ soloed' = soloed \cup {l}
       /\ \E t \in Answers({l}), same \in BOOLEAN :
             /\ same => l \in DOMAIN t /\ t[l] = cand[l]
             /\ Take(t)
             /\ reason' = IF same \/ (l \in DOMAIN t /\ LineRank(t[l]) > LineRank(cand[l]))
                          THEN [reason EXCEPT ![l] = "none"] ELSE reason
             /\ IF l \in DOMAIN t /\ (same \/ ~Low(t[l]))
                THEN /\ Dequeue(l)
                     /\ unsolved' = IF same /\ Low(t[l]) THEN unsolved \cup {l} ELSE unsolved
                ELSE /\ round' = round + 1 /\ UNCHANGED <<alone, list, unsolved>>
    /\ UNCHANGED <<stage, tryNo, rescued, chunkOutcome, batchVars, queue, resultVars>>

LeaveLine ==
    /\ Dequeue(SoloLine)
    /\ unsolved' = unsolved \cup {SoloLine} /\ soloed' = soloed \cup {SoloLine}

SoloTransient ==
    /\ SoloReady /\ budget' = budget - 1 /\ calls' = calls + 1 /\ LeaveLine
    /\ UNCHANGED <<stage, tryNo, rescued, chunkOutcome, batchVars, reason, cand, fin, queue,
                   resultVars>>

SoloOver ==
    /\ stage = "solo" /\ Leftover # {} /\ (budget = 0 \/ round = LowRetries) /\ LeaveLine
    /\ UNCHANGED <<stage, tryNo, rescued, calls, chunkOutcome, batchVars, reason, cand, fin,
                   queue, budget, resultVars>>

----------------------------------------------------------------------------
(* The result *)

Settled(l) == IF l \in unsolved THEN cand[l] ELSE fin[l]
LineTexts      == [l \in Lines |-> Settled(l)]
\* _should_fail_for_terminal_source_residue
Terminal ==
    LET e == {l \in Lines : Settled(l) = "echo"} IN
    IF \/ Cardinality(Lines) \in 2..MassMin - 1 /\ e = Lines
       \/ Cardinality(e) >= MassMin /\ 5 * Cardinality(e) >= Cardinality(Lines)
    THEN e ELSE {}
\* mutant: a repetition among lines already retried is not reported
RepeatedUnsoloed == Drift(LineTexts) \ soloed
Repeated ==
    LET d == Drift(LineTexts) IN IF d \ soloed # {} THEN d \ soloed ELSE d
\* mutant: a line that fell back after its retries is not a candidate
RecoverableCounted == Terminal \cup {l \in flagged \cup unsolved : reason[l] = "count"}
\* segments _recovery_candidate_ids returns
Recoverable == {l \in unsolved : cand[l] = "echo"} \cup Terminal
               \cup {l \in flagged \cup unsolved : reason[l] = "count"}
CountFails  == {l \in flagged \cup unsolved : reason[l] = "count"} # {}

FinishChunk ==
    /\ stage = "solo" /\ Leftover = {}
    /\ stage' = "done"
    /\ fin' = LineTexts
    /\ flagged' = flagged \cup unsolved \cup Terminal \cup Repeated
    /\ recoverable' = Recoverable
    /\ accepted' = IF CountFails THEN Lines \ Recoverable ELSE {}
    /\ chunkOutcome' = IF CountFails THEN "mismatch" ELSE "completed"
    /\ UNCHANGED <<tryNo, rescued, calls, batchVars, reason, cand, soloed, unsolved, workVars>>

\* the executor's next attempt at a chunk, or the next chunk
NextChunk ==
    /\ stage = "done" /\ stage' = "batch" /\ tryNo' \in 1..2
    /\ acc' = None /\ pending' = Lines /\ partials' = Partials /\ asked' = FALSE
    /\ reason' = None /\ rescued' = FALSE /\ cand' = None /\ fin' = None
    /\ queue' = {} /\ alone' = {} /\ list' = {} /\ round' = 0 /\ soloed' = {} /\ unsolved' = {}
    /\ budget' = Budget(tryNo') /\ calls' = 0
    /\ flagged' = {} /\ recoverable' = {} /\ accepted' = {} /\ chunkOutcome' = "none"

ChunkNext ==
    \/ Batch \/ BatchTransient \/ CallFails \/ JudgeLines \/ Rescue \/ RescueTransient
    \/ Micro \/ MicroTransient \/ MicroOver \/ Solo \/ SoloTransient \/ SoloOver
    \/ FinishChunk \/ NextChunk

ChunkSpec == ChunkInit /\ [][ChunkNext]_chunkVars

----------------------------------------------------------------------------
(* Properties *)

HasResult == stage = "done" /\ chunkOutcome \in {"completed", "mismatch"}

\* A result has a text for every line, and each text the checks doubt, or that
\* several lines share, is reported for proofreading.
DoubtIsFlagged ==
    HasResult => /\ \A l \in Lines : fin[l] # "none" /\ (Low(fin[l]) => l \in flagged)
                 /\ Drift(fin) # {} => Drift(fin) \cap flagged # {}

\* With retries configured, a line that ends as its own source can be recovered
\* later, and a chunk that failed its line count accepts no such line.
EchoIsRecoverable ==
    HasResult /\ LowRetries > 0 => \A l \in Lines : fin[l] = "echo" => l \in recoverable \ accepted

\* The calls paid for one chunk are bounded by its configuration.
PaidCallsAreBounded == calls <= 1 + Partials + 1 + Budget(tryNo)

\* What a chunk delivers says of itself what is doubtful, and costs no more than
\* its configuration allows.
DoubtIsMarked == DoubtIsFlagged /\ EchoIsRecoverable /\ PaidCallsAreBounded

Best(l) == IF fin[l] # "none" THEN fin[l]
           ELSE IF stage \in {"micro", "solo", "done"} THEN cand[l] ELSE Judged(l)

\* A retry never exchanges a line's text for a worse one.
BestIsKept ==
    [][stage # "batch" /\ stage' # "batch" =>
          \A l \in Lines : LineRank(Best(l)') >= LineRank(Best(l))]_chunkVars

\* Lines the re-asks could not get fall through to the solo retry: a chunk fails
\* only because a call failed or its line count does not fit (runner.py:85-90).
LeftoversFallThrough == chunkOutcome # "no text to compare with"
==============================================================================
