--------------------------- MODULE MCUsageRollup ---------------------------
(* Small instances of UsageRollup for TLC. *)
EXTENDS UsageRollup, TLC

CONSTANTS r1, r2, r3, r4, k1

\* One key for all requests but r4, which is anonymous.
MCKeyOf == [r \in Requests |-> IF r = r4 THEN Anonymous ELSE k1]

Symmetry == Permutations(Requests \ {r4})
============================================================================
