---------------------------- MODULE RateLimiter ----------------------------
(***************************************************************************)
(* services/ratelimit.py: check() of the back end that build_rate_limiter  *)
(* made at start.  In-process, a deque of wall-clock stamps per identity;  *)
(* check() has no await and is one step of the event loop.  In Redis, a    *)
(* sorted set per identity that all gateway processes share: check() reads *)
(* the clock of its own process, then awaits a Lua script that Redis runs  *)
(* atomically, and other calls run in between.  A clock is real time with  *)
(* an error of at most Skew ticks: it may step back between two reads.     *)
(* Without a limit (None), check() returns at once and touches nothing.    *)
(***************************************************************************)
EXTENDS RateLimits

CONSTANTS
    Identities,     \* identities with a limit
    Limit,          \* Limit[i]: the limit check() is called with for i
    Calls,          \* calls that can await Redis together
    Window,         \* _WINDOW_SECONDS, in ticks
    Second,         \* ticks in a second
    Skew,           \* error of a process's clock, in ticks
    MaxDelay,       \* a script runs at most this long after the clock was read
    RandomFresh,    \* math.random() gives each execution another value; FALSE:
                    \* Redis reseeds it, and every execution draws the same one
    MaxTime,        \* bound: the last tick explored
    MaxLosses       \* bound: how often the store is lost (and an answer only before)

ASSUME LimiterAssumption ==
    /\ Limit \in [Identities -> Nat \ {0}]
    /\ Window \in Nat \ {0} /\ Second \in Nat \ {0}
    /\ Skew \in Nat /\ MaxDelay \in Nat /\ RandomFresh \in BOOLEAN
    /\ MaxTime \in Nat /\ MaxLosses \in Nat

VARIABLES
    backend,        \* settings.rate_limit_backend
    now,            \* real time
    hits,           \* _hits: the deque of each identity (absent = empty)
    zset,           \* zset[i]: the sorted set rl:<i>, as [score, member]
    expireAt,       \* expireAt[i]: when EXPIRE lets the sorted set lapse
    call,           \* call[c]: NoCall, or the identity and stamp on their way
    answer,         \* the last RateLimitResult of each identity, and when it denied
    losses,         \* how often the store was lost
    admitted,       \* history: real times of the admissions
    base            \* history: admissions made before the last loss

vars == <<backend, now, hits, zset, expireAt, call, answer, losses, admitted, base>>

----------------------------------------------------------------------------

NoCall == [identity |-> "none", stamp |-> 0, sent |-> 0]
\* RateLimitResult(True, _, 0), and the answer of nobody: when is not kept.
Allowed == [allowed |-> TRUE, retry_after |-> 0, at |-> -1]
None(value) == [i \in Identities |-> value]

Init ==
    /\ backend \in {"memory", "redis"}
    /\ now = 0 /\ losses = 0
    /\ hits = None(<<>>) /\ zset = None({}) /\ expireAt = None(0)
    /\ call = [c \in Calls |-> NoCall]
    /\ answer = None(Allowed)
    /\ admitted = None(<<>>) /\ base = None(0)

InFlight(c) == call[c] # NoCall

\* Time passes, but not beyond MaxDelay for a script under way.
Tick ==
    /\ now < MaxTime
    /\ \A c \in Calls : InFlight(c) => now < call[c].sent + MaxDelay
    /\ now' = now + 1
    /\ UNCHANGED <<backend, hits, zset, expireAt, call, answer, losses, admitted, base>>

\* time.time() of some process.
Clock == (now - Skew)..(now + Skew)

RoomOffByOne(n, i) == n <= Limit[i]     \* fault: > limit instead of >= limit

Room(n, i) == n < Limit[i]

\* check() returns for i.
Admitted(i) ==
    /\ answer' = [answer EXCEPT ![i] = Allowed]
    /\ admitted' = [admitted EXCEPT ![i] = Append(@, now)]

Denied(i, retry) ==
    /\ answer' = [answer EXCEPT ![i] = [allowed |-> FALSE, retry_after |-> retry, at |-> now]]
    /\ UNCHANGED admitted

----------------------------------------------------------------------------
(* MemoryRateLimiter *)

KeepAll(i, t) == hits[i]                                \* fault: no purge
KeepShort(i, t) == Purge(hits[i], t - Window + 1)       \* fault: purges the edge

Keep(i, t) == Purge(hits[i], t - Window)

\* The deque has room after the purge and gets the stamp; or it is full, the
\* purge stays, and retry_after comes from its head.
CheckMemory(i, t) ==
    LET q == Keep(i, t) IN
    /\ backend = "memory"
    /\ \/ /\ Room(Len(q), i)
          /\ hits' = [hits EXCEPT ![i] = Append(q, t)]
          /\ Admitted(i)
       \/ /\ ~Room(Len(q), i)
          /\ hits' = [hits EXCEPT ![i] = q]
          /\ Denied(i, TruncatedPlusOne(q[1] + Window - t, Second))
    /\ UNCHANGED <<backend, now, zset, expireAt, call, losses, base>>

----------------------------------------------------------------------------
(* RedisRateLimiter *)

\* now = time.time(); then the script is sent.
ReadClock(c, i) ==
    /\ backend = "redis" /\ ~InFlight(c)
    /\ \E stamp \in Clock :
          call' = [call EXCEPT ![c] = [identity |-> i, stamp |-> stamp, sent |-> now]]
    /\ UNCHANGED <<backend, now, hits, zset, expireAt, answer, losses, admitted, base>>

\* The connection fails before the script runs: the exception leaves check().
Fail(c) ==
    /\ InFlight(c)
    /\ call' = [call EXCEPT ![c] = NoCall]
    /\ UNCHANGED <<backend, now, hits, zset, expireAt, answer, losses, admitted, base>>

\* A key past its EXPIRE is gone.
Stored(i) == IF now >= expireAt[i] THEN {} ELSE zset[i]

\* Fault: the purge is strict, as in the in-process limiter.
SurvivorsStrict(i, stamp) == {e \in Stored(i) : e.score >= stamp - Window}

\* ZREMRANGEBYSCORE key 0 now-window: what the purge leaves (scores are epoch
\* seconds, never negative).
Survivors(i, stamp) == {e \in Stored(i) : e.score > stamp - Window}

Oldest(entries) ==
    (CHOOSE e \in entries : \A f \in entries : e.score <= f.score).score

\* now .. '-' .. math.random()
Member(entries, stamp) ==
    LET taken == {e.member : e \in entries} IN
    <<stamp, IF RandomFresh
             THEN CHOOSE n \in 0..Cardinality(entries) : <<stamp, n>> \notin taken
             ELSE 0>>

\* ZADD: a member that is there already gets the new score.
ZAdd(entries, e) == {f \in entries : f.member # e.member} \cup {e}

\* Redis runs the script of call c.
Script(c, entries) ==
    LET i == call[c].identity
        stamp == call[c].stamp IN
    IF Room(Cardinality(entries), i)
    THEN /\ zset' = [zset EXCEPT ![i] =
                ZAdd(entries, [score |-> stamp, member |-> Member(entries, stamp)])]
         /\ expireAt' = [expireAt EXCEPT ![i] = now + Window]
    ELSE /\ zset' = [zset EXCEPT ![i] = entries]
         /\ UNCHANGED expireAt

\* ... and check() returns what it answers.
Eval(c) ==
    LET i == call[c].identity
        stamp == call[c].stamp
        entries == Survivors(i, stamp) IN
    /\ InFlight(c)
    /\ Script(c, entries)
    /\ IF Room(Cardinality(entries), i)
       THEN Admitted(i)
       ELSE Denied(i, Ceiling(Oldest(entries) + Window - stamp, Second))
    /\ call' = [call EXCEPT ![c] = NoCall]
    /\ UNCHANGED <<backend, now, hits, losses, base>>

\* ... or the connection fails before the answer is there: counted, not admitted.
EvalUnanswered(c) ==
    LET i == call[c].identity IN
    /\ InFlight(c) /\ losses < MaxLosses
    /\ Script(c, Survivors(i, call[c].stamp))
    /\ answer' = [answer EXCEPT ![i] = Allowed]
    /\ call' = [call EXCEPT ![c] = NoCall]
    /\ UNCHANGED <<backend, now, hits, losses, admitted, base>>

----------------------------------------------------------------------------

\* A new process starts with an empty _hits; the Redis container of
\* docker-compose.yml has no volume, and a restart empties it.
Lose ==
    /\ losses < MaxLosses
    /\ losses' = losses + 1
    /\ hits' = None(<<>>) /\ zset' = None({})
    /\ answer' = None(Allowed)
    /\ base' = [i \in Identities |-> Len(admitted[i])]
    /\ UNCHANGED <<backend, now, expireAt, call, admitted>>

Next ==
    \/ Tick \/ Lose
    \/ \E i \in Identities, t \in Clock : CheckMemory(i, t)
    \/ \E c \in Calls : \/ \E i \in Identities : ReadClock(c, i)
                        \/ Fail(c) \/ Eval(c) \/ EvalUnanswered(c)

Spec == Init /\ [][Next]_vars

----------------------------------------------------------------------------
(* Properties *)

\* Every variable has the values the program can give it.
TypeOK ==
    /\ backend \in {"memory", "redis"} /\ now \in Nat /\ losses \in 0..MaxLosses
    /\ hits \in [Identities -> Seq(Int)]
    /\ zset \in [Identities -> SUBSET [score : Int, member : Int \X Nat]]
    /\ \A i \in Identities : IsFiniteSet(zset[i])
    /\ expireAt \in [Identities -> Nat]
    /\ call \in [Calls -> {NoCall} \cup [identity : Identities, stamp : Int, sent : Nat]]
    /\ answer \in [Identities -> [allowed : BOOLEAN, retry_after : Nat, at : Int]]
    /\ admitted \in [Identities -> Seq(Nat)]
    /\ base \in [Identities -> Nat]

\* Two reads of a clock differ by up to 2 * Skew.  The in-process purge is
\* strict, so an entry outlives the edge of the window; a stamp may be MaxDelay
\* old when its script runs.
PromisedSpan ==
    IF backend = "memory" THEN Window + 1 - 2 * Skew ELSE Window - MaxDelay - 2 * Skew

Promise == INSTANCE SlidingWindow WITH span <- PromisedSpan

\* Both back ends implement the sliding-window promise, step by step, in
\* whatever order and however late the scripts of all processes run.
ImplementsPromise == Promise!Spec

\* No identity is admitted more than Limit times in PromisedSpan ticks of real
\* time on the strength of one store.
BudgetKept == Promise!BudgetKept

\* Losing the store costs at most one budget more: over all losses, no window
\* of PromisedSpan ticks holds more than one Limit for each store there was.
LossCostsOneBudget ==
    \A i \in Identities : \A t \in 0..now :
        Cardinality({j \in DOMAIN admitted[i] : t - PromisedSpan < admitted[i][j]
                                                /\ admitted[i][j] <= t})
            <= Limit[i] * (losses + 1)

\* Entries that count for i when the clock shows t.
Load(i, t) == IF backend = "memory" THEN Len(Keep(i, t)) ELSE Cardinality(Survivors(i, t))

\* "seconds until a slot frees up" (RateLimitResult.retry_after): a caller that
\* waits as long as Retry-After told it, and twice the error of the clocks,
\* finds a slot, whatever the clock shows and whichever process it asks.
RetryAfterSuffices ==
    \A i \in Identities :
        ~answer[i].allowed /\ now >= answer[i].at + answer[i].retry_after * Second + 2 * Skew
            => \A t \in Clock : Room(Load(i, t), i)

\* ... and is not told to wait a whole second longer than that, the time a
\* script was under way set aside: until then it would still be denied.
RetryAfterTight ==
    LET delay == IF backend = "memory" THEN 0 ELSE MaxDelay IN
    \A i \in Identities :
        ~answer[i].allowed
        /\ now <= answer[i].at + (answer[i].retry_after - 1) * Second - 2 * Skew - delay
            => \A t \in Clock : ~Room(Load(i, t), i)
============================================================================
