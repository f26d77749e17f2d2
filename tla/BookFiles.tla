----------------------------- MODULE BookFiles ------------------------------
(***************************************************************************)
(* What tools leave in files: books merged into one, a text cut into       *)
(* chapters, replaced text, and the way of each result to its place.       *)
(***************************************************************************)
EXTENDS EpubMerge, OutputFiles, TxtChapters, ReplaceRules

\* What ends up in files is true to what went in: a merged book keeps chapters, links and
\* contents, a text loses no line to its chapters, rules act one after the other, the source
\* and other files stay whole until a result is
FilesAreTrue == MergeIsSound /\ ChaptersHoldTheText /\ RulesChain /\ FilesSurvive
=============================================================================
