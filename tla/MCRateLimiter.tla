--------------------------- MODULE MCRateLimiter ---------------------------
(* Small instances of RateLimiter for TLC. *)
EXTENDS RateLimiter, TLC

CONSTANTS c1, c2

MCLimit == [i \in Identities |-> 2]

\* Calls are interchangeable.
Symmetry == Permutations({c1, c2})
============================================================================
