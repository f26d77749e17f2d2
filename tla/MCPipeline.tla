---------------------------- MODULE MCPipeline -----------------------------
(***************************************************************************)
(* The parts a translation task runs through, each on a small instance of  *)
(* its own.  They share no variable, so a behaviour plays one scene: one   *)
(* chunk, the calls of the client, a streamed answer, its decoding, the    *)
(* writing of the translated book, the request limiters or the token       *)
(* limiter.                                                                *)
(***************************************************************************)
EXTENDS ChunkRunner, LlmClient, ChatStream, AnswerDecoding, BookText, SendLimits

VARIABLE scene

vars == <<scene, chunkVars, clientVars, streamVars, decodeVars, bookTextVars, limitVars>>

MCKeys   == <<"k1", "k2">>
MCFields == <<"thinking">>
MCThinkingOn   == [call1 |-> TRUE, call2 |-> FALSE]
MCHeaderRows   == {<<"info", "src", "dst">>, <<"info", "dst", "src">>, <<"dst", "src">>}
\* a table whose rows are numbered in a column of their own
MCNumbered     == {<<"number", "src", "dst", "info">>}
MCRoutes       == 1..2
MCRouteProfile == <<"p", "q">>
MCRpm          == [p |-> 2, q |-> 0]

TreeOf(tags, lasts, texts, tails) ==
    [tag |-> tags, last |-> lasts, text |-> texts, tail |-> tails, twice |-> FALSE]
NoText == TreeOf(<<"block">>, <<1>>, <<<<>>>>, <<<<>>>>)
\* the pages of a book
MCPages ==
    {NoText,
     \* a paragraph with an emphasis and code, in a body
     TreeOf(<<"block", "block", "inline", "code">>, <<4, 4, 3, 4>>,
            <<<<>>, <<1>>, <<2, 3>>, <<9>>>>, <<<<>>, <<0>>, <<4>>, <<5>>>>),
     \* an initial in two nested tags
     TreeOf(<<"block", "block", "inline", "inline", "inline">>, <<5, 5, 4, 4, 5>>,
            <<<<>>, <<0>>, <<>>, <<1>>, <<4, 5>>>>, <<<<>>, <<>>, <<2, 3>>, <<>>, <<>>>>),
     \* an initial of its own before an emphasis
     TreeOf(<<"block", "inline", "inline">>, <<3, 2, 3>>,
            <<<<>>, <<1>>, <<3, 4>>>>, <<<<>>, <<2>>, <<>>>>),
     \* text beside blocks
     TreeOf(<<"block", "inline", "inline", "block", "link">>, <<5, 3, 3, 4, 5>>,
            <<<<1>>, <<2, 2>>, <<3>>, <<5>>, <<7>>>>, <<<<>>, <<4>>, <<3>>, <<6>>, <<>>>>),
     \* text around a block that is in no block of its own
     TreeOf(<<"block", "other", "block", "inline">>, <<4, 4, 4, 4>>,
            <<<<>>, <<1>>, <<2>>, <<3>>>>, <<<<>>, <<6>>, <<7>>, <<4>>>>),
     \* a word with its reading
     TreeOf(<<"block", "ruby", "rt", "rt">>, <<4, 4, 3, 4>>,
            <<<<1>>, <<2>>, <<9>>, <<9>>>>, <<<<>>, <<4>>, <<3>>, <<>>>>),
     \* a line break and a comment
     TreeOf(<<"block", "br", "note">>, <<3, 2, 3>>,
            <<<<1>>, <<>>, <<>>>>, <<<<>>, <<2>>, <<3>>>>),
     \* two emphases and nothing else; named twice
     [TreeOf(<<"block", "inline", "link">>, <<3, 2, 3>>,
            <<<<>>, <<1, 1>>, <<2>>>>, <<<<>>, <<>>, <<>>>>) EXCEPT !.twice = TRUE]}
MCPlainTexts == {<<>>, <<1, LF>>, <<1, CR, LF, LF, 2, CR, 3>>, <<LF, CR, CR, LF>>, <<1, CR, 2, LF>>}
MCPageWays == {"translated", "bilingual", "dedup", "slots"}

Init ==
    /\ scene \in {"chunk", "client", "stream", "decode", "pages", "requests", "tokens"}
    /\ BookTextInit /\ (scene # "pages" => pageTree = NoText /\ pageWay = "slots")
    /\ ClientInit /\ (scene # "client" => ~pooled)
    /\ ChunkInit /\ StreamInit /\ DecodeInit /\ LimitsInit

Next ==
    /\ UNCHANGED scene
    /\ IF scene = "chunk"  THEN ChunkNext   ELSE UNCHANGED chunkVars
    /\ IF scene = "client" THEN ClientNext ELSE UNCHANGED clientVars
    /\ IF scene = "stream" THEN StreamNext ELSE UNCHANGED streamVars
    /\ IF scene = "decode" THEN DecodeNext ELSE UNCHANGED decodeVars
    /\ IF scene = "pages" THEN BookTextNext ELSE UNCHANGED bookTextVars
    /\ CASE scene = "requests" -> Tick \/ RpmNext
         [] scene = "tokens"   -> Tick \/ TpmNext
         [] OTHER -> UNCHANGED limitVars

Fairness == ClientFair /\ LimitsFair

Spec == Init /\ [][Next]_vars /\ Fairness

=============================================================================
