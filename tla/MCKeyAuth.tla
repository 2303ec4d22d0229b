----------------------------- MODULE MCKeyAuth ------------------------------
(* Small instances of KeyAuth for TLC. *)
EXTENDS KeyAuth, TLC

CONSTANTS k1, k2, r1, r2, r3, home, away

\* k1 has a tier the gateway does not know, is bound to one address and may
\* expire; k2 is unlimited.
MCTier == [k \in Keys |-> IF k = k1 THEN "trial" ELSE "enterprise"]
MCTierLimits == [free |-> 1, pro |-> 3, enterprise |-> Unlimited]
MCAllowlist == [k \in Keys |-> IF k = k1 THEN {home} ELSE {}]
MCExpiresAt == [k \in Keys |-> IF k = k1 THEN 1 ELSE Never]

Symmetry == Permutations({r1, r2, r3})
==============================================================================
