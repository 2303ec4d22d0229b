----------------------------- MODULE MCRagIndex -----------------------------
(* Small instances of RagIndex for TLC. *)
EXTENDS RagIndex

CONSTANTS q1, q2, w1, w2, d1, d2

\* w1 uploads d1; w2 is the plain reindex.
MCUpload == [w \in Writers |-> IF w = w1 THEN d1 ELSE NoDoc]
MCNoText == {Missing, {}}
============================================================================
