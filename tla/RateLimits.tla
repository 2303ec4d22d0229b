----------------------------- MODULE RateLimits -----------------------------
(***************************************************************************)
(* The arithmetic of services/ratelimit.py: tier budgets, the purge of an  *)
(* in-process deque, and the two ways of rounding Retry-After.  Times are  *)
(* integer ticks; a second is Second ticks, so that the rounding to whole  *)
(* seconds is visible.                                                     *)
(***************************************************************************)
EXTENDS Integers, Sequences, FiniteSets

\* limit_for_tier: TIER_LIMITS.get(tier, TIER_LIMITS["free"]).
LimitForTier(tierLimits, tier) ==
    IF tier \in DOMAIN tierLimits THEN tierLimits[tier] ELSE tierLimits["free"]

\* How many entries "while dq and dq[0] < window_start: dq.popleft()" removes:
\* the longest prefix of entries older than start.
PopCount(q, start) ==
    Cardinality({n \in 1..Len(q) : \A k \in 1..n : q[k] < start})

Purge(q, start) == SubSeq(q, PopCount(q, start) + 1, Len(q))

\* int(x) + 1, for the non-negative x the purge leaves.
TruncatedPlusOne(ticks, second) == (ticks \div second) + 1

CeilingPlusOne(ticks, second) == -((-ticks) \div second) + 1      \* fault: + 1

\* math.ceil(x).
Ceiling(ticks, second) == -((-ticks) \div second)
=============================================================================
