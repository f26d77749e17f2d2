-------------------------- MODULE GlossaryAnswers ---------------------------
(***************************************************************************)
(* What a glossary hears of the model: the answers about a chunk of a      *)
(* book, and those about a batch of its review.  The two workflows share   *)
(* no state.                                                               *)
(***************************************************************************)
EXTENDS GlossaryChunks, ReviewReplies

AnswersSpec == ChunksSpec /\ RepliesSpec

(* Every word of a chunk is heard once or missed for a reason, and every decision on a row of *)
(* a batch that the model has finished is kept once, at a bounded cost (_run_resilient of the *)
(* extraction, _chat_until_complete of the review).                                           *)
AnswersAreHeard == ChunkIsHeard /\ RepliesAreHeard
=============================================================================
