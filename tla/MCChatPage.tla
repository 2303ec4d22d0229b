----------------------------- MODULE MCChatPage -----------------------------
(* Small instances of ChatPage for TLC. *)
EXTENDS ChatPage

CONSTANTS x1, x2, x3, t1, t2, v1, v2

Symmetry ==
    Permutations({x1, x2, x3}) \cup Permutations({t1, t2}) \cup Permutations({v1, v2})
=============================================================================
