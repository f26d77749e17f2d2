----------------------------- MODULE ChatStream -----------------------------
(***************************************************************************)
(* transoria/llm/client.py: how HttpxChatTransport reads one streamed      *)
(* answer, and how LlmClient judges the body put together from it.         *)
(*                                                                         *)
(* Text is counted in pieces.  What the code tells apart of an event is    *)
(* whether it brings text, a finish reason, a usage block with or without  *)
(* token counts, or reasoning.                                             *)
(***************************************************************************)
EXTENDS Naturals

CONSTANTS
    MaxPieces,   \* bound: pieces of text in an answer
    DetectLoops  \* detect_stream_repetition

VARIABLES
    streamAt,    \* "closed", "opened", "reading", "judged"
    pieces,      \* chunks
    looping,     \* the text so far ends in a runaway repetition
    usage,       \* "none", "blank" (a block without counts), "counted", "estimated"
    finish,      \* finish_reason
    reasoned,    \* thinking_detected
    progress,    \* last phase written to the request log
    heard,       \* ghost: everything the provider has sent
    verdict      \* what chat() makes of the answer

streamVars == <<streamAt, pieces, looping, usage, finish, reasoned, progress,
                heard, verdict>>

Reasons == {"stop", "length", "filter"}
Problem == {"length", "filter"}
Nothing == [finish |-> "none", reasoned |-> FALSE, counted |-> FALSE]

StreamInit ==
    /\ streamAt = "closed" /\ pieces = 0 /\ looping = FALSE
    /\ usage = "none" /\ finish = "none" /\ reasoned = FALSE
    /\ progress = "none" /\ heard = Nothing /\ verdict = "none"

-----------------------------------------------------------------------------
(* _execute_streaming *)

Open ==
    /\ streamAt \in {"closed", "judged"}
    /\ streamAt' = "opened" /\ pieces' = 0 /\ looping' = FALSE
    /\ usage' = "none" /\ finish' = "none" /\ reasoned' = FALSE
    /\ progress' = "none" /\ heard' = Nothing /\ verdict' = "none"

\* the status line: an error status is returned with the body it came with
Headers ==
    /\ streamAt = "opened"
    /\ progress' = "headers"
    /\ \/ streamAt' = "reading" /\ UNCHANGED verdict
       \/ streamAt' = "judged" /\ verdict' = "http"
    /\ UNCHANGED <<pieces, looping, usage, finish, reasoned, heard>>

\* first_token is written once, then streaming from time to time
NextProgress(n) ==
    IF n = 0 THEN {progress}
    ELSE IF progress = "headers" THEN {"first_token"} ELSE {progress, "streaming"}

\* a text delta; the repetition check looks at the tail every 128 characters
ReadText ==
    /\ streamAt = "reading" /\ pieces < MaxPieces
    /\ pieces' = pieces + 1
    /\ \E loops \in BOOLEAN, checked \in BOOLEAN :
         /\ looping' = loops
         /\ IF DetectLoops /\ checked /\ loops
            THEN /\ streamAt' = "judged" /\ verdict' = "degenerate"
                 /\ usage' = "estimated" /\ progress' = "failed"
            ELSE /\ progress' \in NextProgress(pieces + 1)
                 /\ UNCHANGED <<streamAt, verdict, usage>>
    /\ UNCHANGED <<finish, reasoned, heard>>

\* mutant: a later event without a reason clears it
ReadFinishLast(r) ==
    /\ finish' = r
    /\ heard' = [heard EXCEPT !.finish = IF r = "none" THEN @ ELSE r]
\* delta.finish_reason, message_delta.stop_reason: only a non-empty one counts
ReadFinish(r) ==
    /\ finish' = IF r = "none" THEN finish ELSE r
    /\ heard' = [heard EXCEPT !.finish = IF r = "none" THEN @ ELSE r]

\* usage blocks are merged: counts seen once are kept
ReadUsage(u) ==
    /\ usage' = IF u = "counted" \/ usage = "counted" THEN "counted" ELSE "blank"
    /\ heard' = [heard EXCEPT !.counted = @ \/ u = "counted"]

ReadEvent ==
    /\ streamAt = "reading"
    /\ \/ /\ \E r \in Reasons \cup {"none"} : ReadFinish(r)
          /\ UNCHANGED <<usage, reasoned>>
       \/ /\ \E u \in {"blank", "counted"} : ReadUsage(u)
          /\ UNCHANGED <<finish, reasoned>>
       \/ /\ reasoned' = TRUE /\ heard' = [heard EXCEPT !.reasoned = TRUE]
          /\ UNCHANGED <<finish, usage>>
    /\ UNCHANGED <<streamAt, pieces, looping, progress, verdict>>

\* mutant: any usage block will do
FinalUsageAny(u, n) == IF n > 0 /\ u = "none" THEN "estimated" ELSE u
\* without token counts the usage of a non-empty answer is estimated
FinalUsage(u, n) == IF n > 0 /\ u \in {"none", "blank"} THEN "estimated" ELSE u

-----------------------------------------------------------------------------
(* the parsers and _record_request_response *)

\* mutant: an empty answer is judged before its finish reason
JudgeEmptyFirst(n, loops, reason) ==
    IF n = 0 THEN "empty"
    ELSE IF DetectLoops /\ loops THEN "degenerate"
    ELSE IF reason \in Problem THEN "cut_off" ELSE "complete"

Judge(n, loops, reason) ==
    IF DetectLoops /\ loops THEN "degenerate"
    ELSE IF reason \in Problem THEN "cut_off"
    ELSE IF n = 0 THEN "empty" ELSE "complete"

Logged(v) == IF v = "complete" THEN "completed" ELSE "failed"

\* [DONE] or the end of the lines: one body for all three parsers.  With
\* thinking off a reasoned answer has been refused before (OffIgnored).
EndOfStream ==
    /\ streamAt = "reading"
    /\ streamAt' = "judged"
    /\ usage' = FinalUsage(usage, pieces)
    /\ verdict' = Judge(pieces, looping, finish)
    /\ progress' = Logged(verdict')
    /\ UNCHANGED <<pieces, looping, finish, reasoned, heard>>

\* the connection breaks, the timeout strikes or the task is stopped
Broken ==
    /\ streamAt \in {"opened", "reading"}
    /\ streamAt' = "judged" /\ verdict' = "broken" /\ progress' = "failed"
    /\ UNCHANGED <<pieces, looping, usage, finish, reasoned, heard>>

StreamNext == Open \/ Headers \/ ReadText \/ ReadEvent \/ EndOfStream \/ Broken
StreamSpec == StreamInit /\ [][StreamNext]_streamVars

-----------------------------------------------------------------------------
\* An answer the provider cut off or filtered is never taken for a complete or
\* an empty one, whatever follows its finish reason (_record_request_response).
CutOffIsReported ==
    verdict \in {"complete", "empty"} => heard.finish \notin Problem

\* A non-empty answer that was read to its end is accounted for: with counts of
\* the provider if it sent any, else with an estimate (_usage_has_token_counts).
UsageIsCounted ==
    verdict \in {"complete", "cut_off"} /\ pieces > 0 =>
      usage = IF heard.counted THEN "counted" ELSE "estimated"

\* The body put together from a stream says what the provider has said.
StreamIsHeard == CutOffIsReported /\ UsageIsCounted
=============================================================================
