--------------------------- MODULE ReviewReplies ----------------------------
(***************************************************************************)
(* transoria/workflows/glossary_review/runner.py: one batch of rows is put *)
(* to the model.  An answer that is cut off is continued in the same       *)
(* conversation, rows it leaves out are asked for once more, an answer     *)
(* nobody can read is asked for again.  A text is a sequence of pieces: a  *)
(* decision, the head or the tail of one that is cut, or prose.            *)
(***************************************************************************)
EXTENDS Lists, SequencesExt

CONSTANTS
    BatchRows,          \* rows of the batch
    Voices,             \* bounds of a behaviour: [says, named, early], the decisions the model writes
                        \* (rows of no batch too), whether the batch is the pass over the names
                        \* (character_consistency), whether the provider cuts below the model's limit
    ValidActs,          \* VALID_ACTIONS
    ContinueMax,        \* MAX_CONTINUATIONS
    UnreadableRetries,  \* UNREADABLE_RETRY_BUDGET, or less with fewer retries at all
    SendRetries,        \* transport_retry_attempts
    PieceMax            \* bound: decisions in one answer

Decisions == [row : Nat, act : STRING]
ASSUME RepliesAssumption ==
    /\ BatchRows \in SUBSET (Nat \ {0}) /\ "keep" \in ValidActs /\ ValidActs \subseteq STRING
    /\ \A v \in Voices : v.says \in SUBSET Decisions /\ v.named \in BOOLEAN /\ v.early \in BOOLEAN
    /\ {ContinueMax, UnreadableRetries, SendRetries, PieceMax} \subseteq Nat

VARIABLES
    voice,    \* the bounds of this behaviour
    topic,    \* what is asked: main, missing; then done, failed
    wanted,   \* rows asked for again
    reply,    \* the parts of the conversation, joined
    turn,     \* continuation
    seenAtCut,\* decisions in the reply at the last cut
    capped,   \* output_cap is asked for
    bare,     \* it was refused: this call goes without
    budgets,  \* [format, transport]: retries left
    picked,   \* the decisions kept: Seq([row, act])
    mains,    \* ghost: how many of them are of the main conversation
    meant     \* ghost: decisions the model has finished in the conversations that count
talkVars  == <<reply, turn, seenAtCut, capped, bare>>
replyVars == <<voice, topic, wanted, talkVars, budgets, picked, mains, meant>>

PieceOf(d, part) == [d |-> d, part |-> part]
Prose            == PieceOf([row |-> 0, act |-> "prose"], "prose")
RowsIn(ds)       == {ds[i].row : i \in DOMAIN ds}
ThingsIn(ps)     == [i \in DOMAIN ps |-> ps[i].d]
AskedRows        == IF topic = "main" THEN BatchRows ELSE wanted

NewTalk == reply' = <<>> /\ turn' = 0 /\ seenAtCut' = 0 /\ capped' = FALSE /\ bare' = FALSE
RepliesInit ==
    /\ voice \in Voices /\ topic = "main" /\ wanted = {}
    /\ reply = <<>> /\ turn = 0 /\ seenAtCut = 0 /\ capped = FALSE /\ bare = FALSE
    /\ budgets = [format |-> UnreadableRetries, transport |-> SendRetries]
    /\ picked = <<>> /\ mains = 0 /\ meant = <<>>

----------------------------------------------------------------------------
(* What is in a text *)

\* mutant: the parts are read one by one, so a decision cut in two is in neither
ClosedApart(text) == {i \in DOMAIN text : text[i].part = "whole"}
\* _scan_decision_items: an object is complete where it closes; what a cut has left and nobody
\* went on with is skipped
Closed(text) ==
    {i \in DOMAIN text : \/ text[i].part = "whole"
                         \/ text[i].part = "tail" /\ i > 1 /\ text[i - 1].part = "head"}
Scanned(text) == ThingsIn(Picked(text, Closed(text)))

\* _reply_items, _parse_decision_items: an empty list is an answer, unless it was continued
Readable(text, continued) ==
    Scanned(text) # <<>> \/ (~continued /\ Prose \notin ToSet(text))

\* _decisions_from_items, for the rows that were asked for
DecisionsOf(text, rows) ==
    LET own == ThingsIn(Picked(text, {i \in Closed(text) : text[i].d.row \in rows}))
    IN  [i \in DOMAIN own |-> IF own[i].act \in ValidActs THEN own[i] ELSE [own[i] EXCEPT !.act = "keep"]]

----------------------------------------------------------------------------
(* One call of the client *)

\* the model goes on with what was cut, or begins anew; prose, or some decisions
Replied ==
    LET on   == IF reply # <<>> /\ Last(reply).part = "head"
                THEN {<<>>, <<PieceOf(Last(reply).d, "tail")>>} ELSE {<<>>}
        body == {<<Prose>>} \cup UNION {[1..n -> {PieceOf(d, "whole") : d \in voice.says}] : n \in 0..PieceMax}
    IN  {o \o b : o \in on, b \in body}
Cut == {w \o t : w \in Replied, t \in {<<>>} \cup {<<PieceOf(d, "head")>> : d \in voice.says}}

Finished(part, rows) ==
    ThingsIn(Picked(part, {i \in DOMAIN part : part[i].part \in {"whole", "tail"} /\ part[i].d.row \in rows}))
Means(part) == meant' = meant \o Finished(part, AskedRows)

\* the attempt is over: the retries of run, unless the main answer already stands
GivesUp(left) ==
    /\ NewTalk /\ UNCHANGED <<wanted, mains>>
    /\ IF topic = "missing"
       THEN topic' = "done" /\ meant' = SubSeq(meant, 1, mains) /\ UNCHANGED <<budgets, picked>>
       ELSE /\ meant' = <<>> /\ UNCHANGED picked
            /\ IF left # "none" /\ budgets[left] > 0
               THEN budgets' = [budgets EXCEPT ![left] = @ - 1] /\ UNCHANGED topic
               ELSE topic' = "failed" /\ UNCHANGED budgets

Conversing == topic \in {"main", "missing"}

\* asked for again if the answer has listed rows it does not change
Unanswered(ds) == BatchRows \ RowsIn(ds)
AsksAgain(ds)  == ~voice.named /\ Unanswered(ds) # {} /\ \E d \in ToSet(ds) : d.act = "keep"

\* _attempt after the main conversation, _review_missing_rows after the other
Concludes(text) ==
    LET ds == DecisionsOf(text, AskedRows) IN
    IF topic = "missing"
    THEN topic' = "done" /\ picked' = picked \o ds /\ NewTalk /\ UNCHANGED <<wanted, budgets, mains>>
    ELSE /\ topic' = IF AsksAgain(ds) THEN "missing" ELSE "done"
         /\ wanted' = IF AsksAgain(ds) THEN Unanswered(ds) ELSE {}
         /\ picked' = ds /\ mains' = Len(ds)
         /\ NewTalk /\ UNCHANGED budgets
Unreadable(text) ==
    topic = "main" /\ \/ ~Readable(text, turn > 0)
                      \/ Scanned(text) # <<>> /\ DecisionsOf(text, BatchRows) = <<>>

Answers ==
    /\ Conversing /\ UNCHANGED voice
    /\ \E part \in Replied :
         IF Unreadable(reply \o part) THEN GivesUp("format")
         ELSE Concludes(reply \o part) /\ Means(part)

\* LlmTruncatedResponseError: go on, as long as that brings decisions
CutShort ==
    /\ Conversing /\ UNCHANGED voice
    /\ \E part \in Cut :
         LET seen == Len(Scanned(reply \o part)) IN
         IF turn = ContinueMax \/ (turn > 0 /\ seen <= seenAtCut) THEN GivesUp("none")
         ELSE /\ reply' = reply \o part /\ turn' = turn + 1 /\ seenAtCut' = seen
              /\ capped' = (capped \/ voice.early) /\ bare' = FALSE /\ Means(part)
              /\ UNCHANGED <<topic, wanted, budgets, picked, mains>>

\* HTTP 4xx: with a cap, once more without it (_chat_once)
Refused ==
    /\ Conversing /\ UNCHANGED voice
    /\ IF capped /\ ~bare
       THEN bare' = TRUE /\ UNCHANGED <<topic, wanted, reply, turn, seenAtCut, capped, budgets, picked, mains, meant>>
       ELSE GivesUp("none")

\* a server error, a lost connection, a timeout
BreaksOff == Conversing /\ UNCHANGED voice /\ GivesUp("transport")

RepliesNext == Answers \/ CutShort \/ Refused \/ BreaksOff

RepliesSpec == RepliesInit /\ [][RepliesNext]_replyVars

----------------------------------------------------------------------------
(* Properties *)

(* Every decision for a row that was asked for, finished by the model in a conversation that *)
(* stands, is kept, in its order and once, also where a cut went through it, and nothing is  *)
(* kept that it has not said (_scan_decision_items, _chat_until_complete).                   *)
SaidIsKept ==
    topic = "done" =>
        /\ [i \in DOMAIN picked |-> picked[i].row] = [i \in DOMAIN meant |-> meant[i].row]
        /\ \A i \in DOMAIN picked : picked[i].act \in {meant[i].act, "keep"} \cap ValidActs

(* What the second conversation says never stands against the first, and it fails nothing:   *)
(* the answer of the first stands (_review_missing_rows).                                    *)
MainAnswerStands ==
    /\ RowsIn(SubSeq(picked, 1, mains)) \cap RowsIn(SubSeq(picked, mains + 1, Len(picked))) = {}
    /\ topic = "failed" => picked = <<>>

(* An answer that lists unchanged rows leaves none without a decision or a second question;  *)
(* one that lists changes only is not paid for twice.                                        *)
RowsAreAsked ==
    topic = "done" /\ ~voice.named =>
        LET main == SubSeq(picked, 1, mains) IN
        wanted = IF \E d \in ToSet(main) : d.act = "keep" THEN BatchRows \ RowsIn(main) ELSE {}

(* A cut answer is continued only while that brings decisions.                               *)
CutsEnd == Conversing => turn <= ContinueMax /\ turn <= seenAtCut + 1

RepliesAreHeard == SaidIsKept /\ MainAnswerStands /\ RowsAreAsked /\ CutsEnd
=============================================================================
