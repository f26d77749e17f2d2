--------------------------- MODULE GlossaryChunks ---------------------------
(***************************************************************************)
(* transoria/workflows/glossary/runner.py: one chunk of a book is put to   *)
(* the model, whose answer may be prose, cut off, late or an error.  What  *)
(* is cut off or late is asked again in halves, of which each is asked as  *)
(* the whole was.  A text is a sequence of lines, a line one of words; the *)
(* terms of a text are its words.                                          *)
(***************************************************************************)
EXTENDS Lists, SequencesExt, Functions

CONSTANTS
    ChunkTexts,       \* texts a chunk may have
    RequestRetries,   \* request_retry_attempts of the settings
    CutDepth,         \* _CUTOFF_MAX_SPLIT_DEPTH
    LateDepth         \* _HIGH_CONCURRENCY_MAX_SPLIT_DEPTH

\* a chunk has a line; a word stands for its place in the chunk, so it is there once
WordsOf(lines) == FlattenSeq(lines)
ASSUME ChunksAssumption ==
    /\ RequestRetries \in Nat /\ CutDepth \in Nat /\ LateDepth \in 0..CutDepth
    /\ \A text \in ChunkTexts : /\ text \in Seq(Seq(STRING)) /\ text # <<>>
                                /\ IsInjective(WordsOf(text))

VARIABLES
    whole,    \* the text of the chunk
    pieces,   \* what is still to be asked: Seq([lines, depth])
    spent,    \* [format, transport]: retries of the first piece
    heard,    \* words in the answers so far
    lostWords, \* ghost: [cut, prose, row, torn]: words no answer has, by their reason
    asked,    \* ghost: calls paid for
    chunkEnd  \* none, completed, failed
chunkVars == <<whole, pieces, spent, heard, lostWords, asked, chunkEnd>>

Reasons == {"cut", "prose", "row", "torn"}
NoRetries   == [format |-> 0, transport |-> 0]
\* budgets of retry_async as _run_single sets them
LeastOf(a, b)   == IF a < b THEN a ELSE b
FormatBudget    == LeastOf(1, RequestRetries)
TransportBudget == LeastOf(3, RequestRetries)

ChunksInit ==
    /\ whole \in ChunkTexts /\ pieces = <<[lines |-> whole, depth |-> 0]>> /\ spent = NoRetries
    /\ heard = <<>> /\ lostWords = [r \in Reasons |-> {}] /\ asked = 0 /\ chunkEnd = "none"

Piece      == Head(pieces)
Asking     == chunkEnd = "none"
Pays       == asked' = asked + 1 /\ UNCHANGED whole
Misses(words, reason) == lostWords' = [lostWords EXCEPT ![reason] = @ \cup words]
Hears(words)          == heard' = heard \o words
NextPiece ==
    /\ pieces' = Tail(pieces) /\ spent' = NoRetries
    /\ chunkEnd' = IF Len(pieces) = 1 THEN "completed" ELSE "none"

-----------------------------------------------------------------------------
(* _run_single, _attempt *)

AnswersWhole == Asking /\ Pays /\ Hears(WordsOf(Piece.lines)) /\ NextPiece /\ UNCHANGED lostWords
\* some rows cannot be used: what can be is taken, the issues are noted
AnswersPartly ==
    /\ Asking /\ Pays /\ NextPiece
    /\ \E bad \in 1..Len(Piece.lines) :
           /\ Len(Piece.lines) > 1
           /\ Hears(WordsOf(RemoveAt(Piece.lines, bad)))
           /\ Misses(ToSet(Piece.lines[bad]), "row")
\* no entry and three issues or more: once more with a reminder, then nothing
AnswersProse ==
    /\ Asking /\ Pays /\ UNCHANGED heard
    /\ IF spent.format < FormatBudget
       THEN spent' = [spent EXCEPT !.format = @ + 1] /\ UNCHANGED <<pieces, lostWords, chunkEnd>>
       ELSE NextPiece /\ Misses(ToSet(WordsOf(Piece.lines)), "prose")
FailsChunk == chunkEnd' = "failed" /\ pieces' = <<>> /\ spent' = NoRetries /\ UNCHANGED <<heard, lostWords>>
\* a server error, a lost connection
FailsBriefly ==
    /\ Asking /\ Pays
    /\ IF spent.transport < TransportBudget
       THEN spent' = [spent EXCEPT !.transport = @ + 1] /\ UNCHANGED <<pieces, heard, lostWords, chunkEnd>>
       ELSE FailsChunk
FailsForGood == Asking /\ Pays /\ FailsChunk

-----------------------------------------------------------------------------
(* _run_resilient *)

\* mutant: the halves do not know that they are halves
HalvedFlat(halves) ==
    /\ pieces' = [i \in 1..2 |-> [lines |-> halves[i], depth |-> Piece.depth]] \o Tail(pieces)
    /\ spent' = NoRetries /\ UNCHANGED <<heard, chunkEnd>>
\* _split_text_in_half: between lines, and inside the line where there is but one
Halved(halves) ==
    /\ pieces' = [i \in 1..2 |-> [lines |-> halves[i], depth |-> Piece.depth + 1]] \o Tail(pieces)
    /\ spent' = NoRetries /\ UNCHANGED <<heard, chunkEnd>>
AsksHalves ==
    LET lines  == Piece.lines
        middle == Len(lines) \div 2
        line   == lines[1]
    IN  IF Len(lines) > 1
        THEN Halved(<<SubSeq(lines, 1, middle), SubSeq(lines, middle + 1, Len(lines))>>) /\ UNCHANGED lostWords
        \* the middle of the letters lies between two words, or in one, which neither half has
        ELSE \E left \in 0..Len(line), torn \in 0..1 :
                 /\ left + torn <= Len(line) /\ (torn = 0 => line = <<>> \/ left \in 1..(Len(line) - 1))
                 /\ Halved(<<<<SubSeq(line, 1, left)>>, <<SubSeq(line, left + torn + 1, Len(line))>>>>)
                 /\ Misses(ToSet(SubSeq(line, left + 1, left + torn)), "torn")
\* a single letter has no halves; it is one word or a part of one
Single(lines) == Len(lines) = 1 /\ Len(lines[1]) <= 1
\* the answer is cut off, or the provider has withheld the rest of it: after enough
\* halving the complete lines are what there is
CutOff ==
    /\ Asking /\ Pays
    /\ \/ Piece.depth < CutDepth /\ AsksHalves
       \/ /\ Piece.depth = CutDepth \/ Single(Piece.lines)
          /\ \E n \in 0..(Len(Piece.lines) - 1) :
                /\ Hears(WordsOf(SubSeq(Piece.lines, 1, n)))
                /\ Misses(ToSet(WordsOf(SubSeq(Piece.lines, n + 1, Len(Piece.lines)))), "cut")
                /\ NextPiece
\* no answer in time: what is already in halves is not halved again
TimesOut ==
    /\ Asking /\ Pays
    /\ \/ Piece.depth < LateDepth /\ AsksHalves
       \/ (Piece.depth >= LateDepth \/ Single(Piece.lines)) /\ FailsChunk

ChunksNext ==
    \/ AnswersWhole \/ AnswersPartly \/ AnswersProse \/ FailsBriefly \/ FailsForGood \/ CutOff \/ TimesOut

ChunksSpec == ChunksInit /\ [][ChunksNext]_chunkVars

-----------------------------------------------------------------------------
(* Properties *)

InText(words)  == Picked(WordsOf(whole), {i \in DOMAIN WordsOf(whole) : WordsOf(whole)[i] \in words})
Missed         == UNION {lostWords[r] : r \in Reasons}
Waiting        == WordsOf([i \in DOMAIN pieces |-> WordsOf(pieces[i].lines)])
\* every word of the chunk is heard once and in its place, still to be asked, or lost for one
\* reason that the code knows; nothing is counted twice, however the chunk was cut
WordsAddUp ==
    chunkEnd # "failed" =>
        /\ heard \o Waiting = InText(ToSet(heard) \cup ToSet(Waiting))
        /\ ToSet(heard) \cup ToSet(Waiting) \cup Missed = ToSet(WordsOf(whole))
        /\ Missed \cap (ToSet(heard) \cup ToSet(Waiting)) = {}
\* a chunk costs no more than its pieces and the retries of each
PieceCalls == 1 + FormatBudget + TransportBudget
\* what a piece that may be halved n times costs, with its halves
CostOf[n \in 0..CutDepth] == IF n = 0 THEN PieceCalls ELSE PieceCalls + 2 * CostOf[n - 1]
CostIsBounded == asked <= CostOf[CutDepth]
\* A chunk is heard: each of its words once, or missed for a reason, at a bounded cost
ChunkIsHeard == WordsAddUp /\ CostIsBounded
=============================================================================
