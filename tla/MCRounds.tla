----------------------------- MODULE MCRounds ------------------------------
(***************************************************************************)
(* The workflows, each on a small instance: a translation, a glossary      *)
(* extraction with one of its chunks, a glossary review with one of its    *)
(* batches.  A behaviour plays one scene.                                  *)
(***************************************************************************)
EXTENDS TranslationRounds, GlossaryReview, GlossaryRuns, GlossaryAnswers

VARIABLE scene

vars == <<scene, roundVars, reviewVars, chunkVars, glossaryVars, replyVars>>

MCChunks == <<"c1", "c2">>
MCSegs   == [c1 |-> <<1, 2>>, c2 |-> <<3>>]

Term(src, isName) == [src |-> src, dst |-> "x", isName |-> isName]
Name  == Term("s", TRUE)
Place == Term("t", FALSE)
Cast(terms, rounds, size, acts, allowed, changes, faults) ==
    [terms |-> terms, rounds |-> rounds, size |-> size, acts |-> acts,
     stops |-> allowed, edits |-> changes, faults |-> faults]
\* crashes and stops; failing batches; names through all rounds; agreement of
\* two rows; a workbook that cannot be written; edits of the result
MCReviewCasts ==
    {Cast(<<Name, Place>>, 1, 1, {"keep", "delete"}, 1, 0, {"restart"}),
     Cast(<<Name, Place>>, 2, 1, {"delete"}, 0, 0, {"fail"}),
     Cast(<<Name>>, 3, 1, {"keep", "delete", "y"}, 1, 0, {"restart"}),
     Cast(<<Term("t", TRUE), Place>>, 3, 2, {"keep", "y"}, 0, 0, {}),
     Cast(<<Place>>, 1, 1, {"keep"}, 1, 0, {"write", "restart"}),
     Cast(<<Place, Name, Term("u", FALSE)>>, 1, 3, {"delete"}, 0, 2, {})}

\* lines that are cut in halves, one line that is cut through
MCChunkTexts == {<<<<"a", "b">>, <<"c">>, <<"d", "e">>>>, <<<<"a", "b", "c", "d">>>>}

\* "a" is a part of "ab" and has another spelling
MCSpellings == <<<<"a">>, <<"a", "b">>, <<"A">>>>
MCFold      == [s \in ToSet(MCSpellings) |-> IF s = <<"A">> THEN <<"a">> ELSE s]
MCDsts      == <<<<"a">>, <<"x">>, <<"y">>>>
MCInfos     == <<<<"name">>, <<"other">>>>
MCRejected  == {<<"other">>}
Found(i, dst, info) == [src |-> MCSpellings[i], dst |-> <<dst>>, info |-> info]
MCExtracts ==
    {<<Found(2, "y", <<"name">>), Found(1, "x", <<>>)>>,
     <<Found(3, "x", <<"name">>), Found(1, "y", <<"name">>), Found(1, "a", <<"name">>), Found(2, "y", <<"other">>)>>}
ThreeLines == <<<<<<"a", "b", "a">>, <<"A", "c">>>>, <<<<"a", "b">>>>>>
TwoLines   == <<<<<<"a", "b">>, <<"a", "b", "a">>>>>>
MCFolders ==
    {[books |-> <<[stem |-> "one", chunks |-> ThreeLines], [stem |-> "two", chunks |-> TwoLines]>>,
      joins |-> j, min |-> IF j THEN 1 ELSE 2, refs |-> 2] : j \in BOOLEAN}

\* a change and no change, rows of another batch and words of no contract, the names
Judges(row, act) == [row |-> row, act |-> act]
VoiceOf(says, names, early) == [says |-> says, named |-> names, early |-> early]
MCVoices ==
    {VoiceOf({Judges(1, "keep"), Judges(2, "modify")}, FALSE, FALSE),
     VoiceOf({Judges(1, "odd"), Judges(9, "keep")}, FALSE, TRUE),
     VoiceOf({Judges(1, "keep"), Judges(2, "keep")}, TRUE, TRUE)}

Init ==
    /\ scene \in {"translation", "review", "chunk", "extraction", "replies"}
    /\ RoundsInit /\ (scene # "translation" => ~routed)
    /\ ReviewInit /\ (scene # "review" => review = CHOOSE c \in ReviewCasts : TRUE)
    /\ ChunksInit /\ (scene # "chunk" => Len(whole) = 1)
    /\ GlossaryInit /\ (scene # "extraction" => shelf.joins)
    /\ RepliesInit /\ (scene # "replies" => ~voice.named /\ voice.early)

Next ==
    /\ UNCHANGED scene
    /\ IF scene = "translation" THEN RoundsNext ELSE UNCHANGED roundVars
    /\ IF scene = "review" THEN ReviewNext ELSE UNCHANGED reviewVars
    /\ IF scene = "chunk" THEN ChunksNext ELSE UNCHANGED chunkVars
    /\ IF scene = "extraction" THEN GlossaryNext ELSE UNCHANGED glossaryVars
    /\ IF scene = "replies" THEN RepliesNext ELSE UNCHANGED replyVars

Spec == Init /\ [][Next]_vars /\ RoundsFair
=============================================================================
