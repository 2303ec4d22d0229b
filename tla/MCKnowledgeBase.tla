--------------------------- MODULE MCKnowledgeBase ---------------------------
(* A small instance of KnowledgeBase for TLC: scores in tenths, -1, 0 and 4. *)
EXTENDS KnowledgeBase

MCScores == {-1, 0, 4}
=============================================================================
