------------------------- MODULE RateLimiter_proofs -------------------------
(***************************************************************************)
(* Proofs about RateLimiter, for any identities, limits, window, clock     *)
(* error and delay: both back ends implement SlidingWindow step by step,   *)
(* so that no window exceeds its budget and a lost store costs one; and    *)
(* Retry-After is neither too short nor a second too long.                 *)
(***************************************************************************)
EXTENDS RateLimiter, FiniteSetTheorems, TLAPS

\* Admissions are times that have been.
Times ==
    \A i \in Identities : /\ base[i] <= Len(admitted[i])
                          /\ \A j \in 1..Len(admitted[i]) : admitted[i][j] <= now

\* A script under way is no later than MaxDelay, its stamp no worse than a clock.
InTransit ==
    \A c \in Calls : InFlight(c) =>
        /\ backend = "redis"
        /\ call[c].sent <= now /\ now <= call[c].sent + MaxDelay
        /\ call[c].sent - Skew <= call[c].stamp /\ call[c].stamp <= call[c].sent + Skew

\* A deque holds the stamps of the latest admissions, no more than the limit;
\* the n earlier ones have left every window.
Stamps(q, times, n) ==
    \A k \in 1..Len(q) : times[n + k] - Skew <= q[k] /\ q[k] <= times[n + k] + Skew
Gone(times, from, n, present) ==
    \A j \in (from + 1)..n : times[j] <= present - (Window + 1 - 2 * Skew)
Records(q, times, from, n, present) ==
    /\ from <= n /\ n + Len(q) = Len(times)
    /\ Stamps(q, times, n) /\ Gone(times, from, n, present)
DequeHolds ==
    backend = "memory" => \A i \in Identities :
        /\ Len(hits[i]) <= Limit[i]
        /\ \E n \in Nat : Records(hits[i], admitted[i], base[i], n, now)

\* A sorted set holds an entry of its own, no older than the admission allows,
\* for each admission of the window that ends now, and lapses only after it.
Backs(f, window, times, entries) ==
    /\ f \in Injection(window, entries)
    /\ \A j \in window : times[j] - MaxDelay - Skew <= f[j].score
SetHolds ==
    backend = "redis" => \A i \in Identities :
        /\ Cardinality(zset[i]) <= Limit[i]
        /\ expireAt[i] <= now + Window
        /\ \A e \in zset[i] : e.score - Skew + Window <= expireAt[i]
        /\ \A j \in (base[i] + 1)..Len(admitted[i]) : admitted[i][j] + Window <= expireAt[i]
        /\ RandomFresh =>
              \E f : Backs(f, Promise!InWindow(i, now), admitted[i], zset[i])

\* The stamp s and the oldest entry o that a Retry-After was made of, while the
\* store is still as it was when it denied.
Stands(i, o, s) ==
    LET d == answer[i].retry_after * Second IN
    \/ /\ backend = "memory"
       /\ Len(hits[i]) = Limit[i] /\ o = hits[i][1]
       /\ answer[i].at - Skew <= s /\ s <= answer[i].at + Skew
       /\ d - Second <= o + Window - s /\ o + Window - s < d
    \/ /\ backend = "redis"
       /\ Cardinality(zset[i]) = Limit[i]
       /\ \E e \in zset[i] : e.score = o
       /\ \A e \in zset[i] : o <= e.score
       /\ answer[i].at - MaxDelay - Skew <= s /\ s <= answer[i].at + Skew
       /\ d - Second < o + Window - s /\ o + Window - s <= d
AnswerStands ==
    \A i \in Identities : ~answer[i].allowed => \E o, s \in Int : Stands(i, o, s)

IInv == TypeOK /\ Times /\ InTransit /\ DequeHolds /\ SetHolds /\ AnswerStands

----------------------------------------------------------------------------
(* Rounding and purging *)

LEMMA Division ==
    ASSUME NEW a \in Int, NEW b \in Nat \ {0}
    PROVE  a \div b \in Int /\ (a \div b) * b <= a /\ a < (a \div b) * b + b
  OBVIOUS

LEMMA NotNegative ==
    ASSUME NEW r \in Int, NEW b \in Nat \ {0}, r * b + b > 0
    PROVE  r \in Nat
  <1>1. CASE r <= -1
    <2>1. r + 1 <= 0 /\ (r + 1) * b = r * b + b
      BY <1>1
    <2>2. \A x, y \in Int : x <= 0 /\ y > 0 => x * y <= 0
      OBVIOUS
    <2> QED
      BY <2>1, <2>2
  <1>2. CASE r >= 0
    BY <1>2
  <1> QED
    BY <1>1, <1>2

\* int(x) + 1 seconds are more than x, and by no more than a second.
LEMMA TruncatedRounds ==
    ASSUME NEW a \in Nat, NEW b \in Nat \ {0}, NEW r, r = TruncatedPlusOne(a, b)
    PROVE  r \in Nat /\ r * b \in Int /\ r * b - b <= a /\ a < r * b
  <1>1. PICK q \in Int : q = a \div b
    BY Division
  <1>2. q * b \in Int /\ q * b <= a /\ a < q * b + b
    BY <1>1, Division
  <1>3. r = q + 1 /\ r * b = q * b + b
    BY <1>1 DEF TruncatedPlusOne
  <1>4. q \in Nat
    BY <1>2, NotNegative
  <1> QED
    BY <1>2, <1>3, <1>4

\* math.ceil(x) seconds are at least x, and less than a second more.
LEMMA CeilingRounds ==
    ASSUME NEW a \in Nat, NEW b \in Nat \ {0}, NEW r, r = Ceiling(a, b)
    PROVE  r \in Nat /\ r * b \in Int /\ r * b - b < a /\ a <= r * b
  <1>1. PICK q \in Int : q = (-a) \div b
    BY Division
  <1>2. q * b \in Int /\ q * b <= -a /\ -a < q * b + b
    BY <1>1, Division
  <1>3. r = -q /\ r \in Int /\ r * b = -(q * b)
    BY <1>1 DEF Ceiling
  <1>4. r \in Nat
    BY <1>2, <1>3, NotNegative
  <1> QED
    BY <1>2, <1>3, <1>4

LEMMA Segment ==
    ASSUME NEW n \in Nat
    PROVE  IsFiniteSet(1..n) /\ Cardinality(1..n) = n
  <1>1. IsFiniteSet(1..n) /\ Cardinality(1..n) = IF 1 > n THEN 0 ELSE n - 1 + 1
    BY FS_Interval
  <1> QED
    BY <1>1

\* What "while dq and dq[0] < window_start: dq.popleft()" leaves.
LEMMA PopCountBound ==
    ASSUME NEW q \in Seq(Int), NEW start \in Int
    PROVE  PopCount(q, start) \in 0..Len(q)
  <1> DEFINE P == {n \in 1..Len(q) : \A k \in 1..n : q[k] < start}
  <1>1. Len(q) \in Nat /\ P \in SUBSET (1..Len(q))
    OBVIOUS
  <1>2. IsFiniteSet(1..Len(q)) /\ Cardinality(1..Len(q)) = Len(q)
    BY <1>1, Segment
  <1>3. IsFiniteSet(P) /\ Cardinality(P) <= Len(q)
    BY <1>1, <1>2, FS_Subset
  <1>4. Cardinality(P) \in Nat
    BY <1>3, FS_CardinalityType
  <1> QED
    BY <1>1, <1>3, <1>4 DEF PopCount

LEMMA PopCountExact ==
    ASSUME NEW q \in Seq(Int), NEW start \in Int, NEW p, p = PopCount(q, start)
    PROVE  /\ p \in 0..Len(q)
           /\ \A k \in 1..p : q[k] < start
           /\ p < Len(q) => q[p + 1] >= start
  <1> DEFINE P == {n \in 1..Len(q) : \A k \in 1..n : q[k] < start}
  <1>1. p \in 0..Len(q) /\ p \in Nat /\ Len(q) \in Nat
    BY PopCountBound
  <1>2. Cardinality(P) = p
    BY DEF PopCount
  <1>3. IsFiniteSet(P)
    <2>1. P \in SUBSET (1..Len(q))
      OBVIOUS
    <2> QED
      BY <1>1, <2>1, Segment, FS_Subset
  <1>4. ASSUME NEW k \in 1..p, ~(q[k] < start) PROVE FALSE
    <2>1. PICK b \in Int : b = k - 1
      BY <1>1
    <2>2. P \in SUBSET (1..b) /\ b \in 0..p - 1
      BY <1>1, <1>4, <2>1
    <2>3. IsFiniteSet(1..b) /\ Cardinality(1..b) = b
      BY <1>1, <2>2, Segment
    <2>4. Cardinality(P) <= b
      BY <2>2, <2>3, FS_Subset
    <2> QED
      BY <1>1, <1>2, <2>2, <2>4
  <1>5. ASSUME p < Len(q), q[p + 1] < start PROVE FALSE
    <2>1. \A k \in 1..(p + 1) : q[k] < start
      BY <1>1, <1>4, <1>5
    <2>2. 1..(p + 1) \in SUBSET P
      BY <1>1, <1>5, <2>1
    <2>3. Cardinality(1..(p + 1)) = p + 1
      BY <1>1, Segment
    <2>4. Cardinality(1..(p + 1)) <= Cardinality(P)
      BY <1>3, <2>2, FS_Subset
    <2> QED
      BY <1>1, <1>2, <2>3, <2>4
  <1>6. \A k \in 1..p : q[k] < start
    BY <1>4
  <1>7. p < Len(q) => q[p + 1] >= start
    <2>1. p < Len(q) => q[p + 1] \in Int
      BY <1>1
    <2> QED
      BY <1>5, <2>1
  <1> QED
    BY <1>1, <1>6, <1>7

LEMMA PurgeExact ==
    ASSUME NEW q \in Seq(Int), NEW start \in Int, NEW rest, rest = Purge(q, start)
    PROVE  \E p \in 0..Len(q) :
              /\ rest \in Seq(Int) /\ Len(rest) = Len(q) - p
              /\ \A k \in 1..Len(rest) : rest[k] = q[p + k]
              /\ \A k \in 1..p : q[k] < start
              /\ rest # <<>> => rest[1] >= start
  <1>1. PICK p \in 0..Len(q) : p = PopCount(q, start)
    BY PopCountBound
  <1>2. rest = SubSeq(q, p + 1, Len(q))
    BY <1>1 DEF Purge
  <1>3. rest \in Seq(Int) /\ Len(rest) = Len(q) - p /\ \A k \in 1..Len(rest) : rest[k] = q[p + k]
    BY <1>2
  <1>4. (\A k \in 1..p : q[k] < start) /\ (p < Len(q) => q[p + 1] >= start)
    BY <1>1, PopCountExact
  <1>5. rest # <<>> => rest[1] >= start
    <2>1. ASSUME rest # <<>> PROVE p < Len(q) /\ rest[1] = q[p + 1]
      <3>1. Len(rest) \in Nat /\ Len(rest) # 0 /\ Len(q) \in Nat /\ p \in Nat
        BY <1>3, <2>1
      <3>2. 1 \in 1..Len(rest) /\ p < Len(q)
        BY <1>3, <3>1
      <3> QED
        BY <1>3, <3>2
    <2> QED
      BY <1>4, <2>1
  <1> QED
    BY <1>3, <1>4, <1>5

----------------------------------------------------------------------------
(* What a check does *)

Older(q, n, start) == \A k \in 1..n : q[k] < start
Near(t, present) == present - Skew <= t /\ t <= present + Skew
Shifted(q, rest, n) == Len(rest) = Len(q) - n /\ \A k \in 1..Len(rest) : rest[k] = q[n + k]

\* The deque of i loses its n oldest stamps, which are older than the window;
\* what is left has room for t, or says how long to wait.
MemoryOutcome(i, t, n, rest) ==
    /\ rest \in Seq(Int) /\ Shifted(hits[i], rest, n)
    /\ Older(hits[i], n, t - Window)
    /\ \/ /\ Len(rest) < Limit[i]
          /\ hits' = [hits EXCEPT ![i] = Append(rest, t)]
          /\ Admitted(i)
       \/ /\ Len(rest) >= Limit[i]
          /\ hits' = [hits EXCEPT ![i] = rest]
          /\ \E r \in Nat : /\ Denied(i, r) /\ r * Second \in Int
                            /\ r * Second - Second <= rest[1] + Window - t
                            /\ rest[1] + Window - t < r * Second

LEMMA MemoryStep ==
    ASSUME TypeOK, NEW i \in Identities, NEW t \in Clock, CheckMemory(i, t)
    PROVE  \E n \in 0..Len(hits[i]), rest \in Seq(Int) : MemoryOutcome(i, t, n, rest)
  <1> DEFINE rest == Keep(i, t)
  <1>1. /\ hits[i] \in Seq(Int) /\ t \in Int /\ t - Window \in Int
        /\ Limit[i] \in Nat \ {0} /\ Second \in Nat \ {0}
    BY LimiterAssumption DEF TypeOK, Clock, LimiterAssumption
  <1>2. PICK n \in 0..Len(hits[i]) :
              /\ rest \in Seq(Int) /\ Len(rest) = Len(hits[i]) - n
              /\ \A k \in 1..Len(rest) : rest[k] = hits[i][n + k]
              /\ \A k \in 1..n : hits[i][k] < t - Window
              /\ rest # <<>> => rest[1] >= t - Window
    BY <1>1, PurgeExact DEF Keep
  <1>3. CASE Len(rest) < Limit[i]
    BY <1>1, <1>2, <1>3 DEF CheckMemory, Room, MemoryOutcome, Shifted, Older
  <1>4. CASE ~(Len(rest) < Limit[i])
    <2>1. Len(rest) >= Limit[i] /\ rest # <<>> /\ rest[1] \in Int
      BY <1>1, <1>2, <1>4
    <2>2. PICK a \in Nat : a = rest[1] + Window - t
      BY <1>1, <1>2, <2>1, LimiterAssumption DEF LimiterAssumption
    <2>3. PICK r \in Nat : r = TruncatedPlusOne(a, Second)
      BY <1>1, TruncatedRounds
    <2>4. r * Second \in Int /\ r * Second - Second <= a /\ a < r * Second
      BY <1>1, <2>3, TruncatedRounds
    <2>5. hits' = [hits EXCEPT ![i] = rest] /\ Denied(i, r)
      BY <1>4, <2>2, <2>3 DEF CheckMemory, Room
    <2> HIDE DEF rest
    <2> QED
      BY <1>2, <2>1, <2>2, <2>4, <2>5 DEF MemoryOutcome, Shifted, Older
  <1> QED
    BY <1>3, <1>4

\* A draw that gives each execution another value finds one that is not taken.
LEMMA FreshDraw ==
    ASSUME NEW s \in Int, NEW entries, IsFiniteSet(entries), RandomFresh
    PROVE  /\ Member(entries, s) \in {s} \X Nat
           /\ \A e \in entries : e.member # Member(entries, s)
  <1> DEFINE taken == {e.member : e \in entries}
             m == Cardinality(entries)
  <1>1. m \in Nat
    BY FS_CardinalityType
  <1>2. IsFiniteSet(taken) /\ Cardinality(taken) <= m
    <2> DEFINE f == [e \in entries |-> e.member]
    <2>1. f \in Surjection(entries, taken)
      BY DEF Surjection
    <2> QED
      BY <2>1, FS_Surjection
  <1>3. Cardinality(taken) \in Nat
    BY <1>2, FS_CardinalityType
  <1>4. IsFiniteSet(0..m) /\ Cardinality(0..m) = m + 1
    <2>1. IsFiniteSet(0..m) /\ Cardinality(0..m) = IF 0 > m THEN 0 ELSE m - 0 + 1
      BY <1>1, FS_Interval
    <2> QED
      BY <1>1, <2>1
  <1>5. \E n \in 0..m : <<s, n>> \notin taken
    <2> SUFFICES ASSUME \A n \in 0..m : <<s, n>> \in taken PROVE FALSE
      OBVIOUS
    <2> DEFINE f == [n \in 0..m |-> <<s, n>>]
    <2>1. f \in Injection(0..m, taken)
      BY DEF Injection, IsInjective
    <2>2. Cardinality(0..m) <= Cardinality(taken)
      BY <1>2, <2>1, FS_Injection
    <2> QED
      BY <1>1, <1>2, <1>3, <1>4, <2>2
  <1>6. PICK n \in 0..m : n = CHOOSE x \in 0..m : <<s, x>> \notin taken
    BY <1>5
  <1>7. <<s, n>> \notin taken
    BY <1>5, <1>6
  <1>8. Member(entries, s) = <<s, n>>
    BY <1>6 DEF Member
  <1> QED
    BY <1>1, <1>7, <1>8

Entries == [score : Int, member : Int \X Nat]

\* The script of c leaves entries of the window, and adds its own if it has room.
ScriptOutcome(c, i, entries, e) ==
    /\ i = call[c].identity
    /\ entries \subseteq zset[i] /\ entries \subseteq Entries /\ IsFiniteSet(entries)
    /\ \A x \in zset[i] : now < expireAt[i] /\ x.score > call[c].stamp - Window => x \in entries
    /\ \A x \in entries : x.score > call[c].stamp - Window
    /\ e \in Entries /\ e.score = call[c].stamp
    /\ RandomFresh => e \notin entries
    /\ \/ /\ Cardinality(entries) < Limit[i]
          /\ \E kept \in SUBSET entries :
                /\ RandomFresh => kept = entries
                /\ zset' = [zset EXCEPT ![i] = kept \cup {e}]
          /\ expireAt' = [expireAt EXCEPT ![i] = now + Window]
       \/ /\ Cardinality(entries) >= Limit[i]
          /\ zset' = [zset EXCEPT ![i] = entries]
          /\ expireAt' = expireAt

LEMMA CallTypes ==
    ASSUME TypeOK, NEW c \in Calls, InFlight(c)
    PROVE  /\ call[c].identity \in Identities /\ call[c].stamp \in Int /\ call[c].sent \in Nat
           /\ Limit[call[c].identity] \in Nat \ {0}
  <1>1. call[c] \in [identity : Identities, stamp : Int, sent : Nat]
    BY DEF TypeOK, InFlight
  <1> QED
    BY <1>1, LimiterAssumption DEF LimiterAssumption

LEMMA ScriptStep ==
    ASSUME TypeOK, NEW c \in Calls, InFlight(c),
           NEW entries, entries = Survivors(call[c].identity, call[c].stamp),
           Script(c, entries)
    PROVE  \E e : ScriptOutcome(c, call[c].identity, entries, e)
  <1> DEFINE i == call[c].identity
             s == call[c].stamp
             e == [score |-> s, member |-> Member(entries, s)]
  <1>1. /\ i \in Identities /\ s \in Int /\ Limit[i] \in Nat \ {0} /\ now \in Nat
        /\ expireAt[i] \in Nat /\ zset[i] \subseteq Entries /\ IsFiniteSet(zset[i])
    BY CallTypes DEF TypeOK, Entries
  <1>2. /\ entries \subseteq zset[i]
        /\ \A x \in zset[i] : now < expireAt[i] /\ x.score > s - Window => x \in entries
        /\ \A x \in entries : x.score > s - Window
    BY <1>1 DEF Survivors, Stored
  <1>3. IsFiniteSet(entries) /\ Cardinality(entries) \in Nat
    BY <1>1, <1>2, FS_Subset, FS_CardinalityType
  <1>4. Member(entries, s) \in Int \X Nat
    <2>1. CASE RandomFresh
      BY <1>1, <1>3, <2>1, FreshDraw
    <2>2. CASE ~RandomFresh
      BY <1>1, <2>2 DEF Member
    <2> QED
      BY <2>1, <2>2
  <1>5. e \in Entries /\ e.score = s /\ e.member = Member(entries, s)
    BY <1>1, <1>4 DEF Entries
  <1>6. RandomFresh => \A x \in entries : x.member # e.member
    BY <1>1, <1>3, <1>5, FreshDraw
  <1> HIDE DEF e, i, s
  <1>7. CASE Cardinality(entries) < Limit[i]
    <2>1. /\ zset' = [zset EXCEPT ![i] = ZAdd(entries, e)]
          /\ expireAt' = [expireAt EXCEPT ![i] = now + Window]
      BY <1>7 DEF Script, Room, e, i, s
    <2>2. ZAdd(entries, e) = {x \in entries : x.member # e.member} \cup {e}
      BY DEF ZAdd
    <2>3. RandomFresh => {x \in entries : x.member # e.member} = entries
      BY <1>6
    <2> QED
      BY <1>1, <1>2, <1>3, <1>5, <1>6, <1>7, <2>1, <2>2, <2>3 DEF ScriptOutcome, i, s
  <1>8. CASE ~(Cardinality(entries) < Limit[i])
    <2>1. zset' = [zset EXCEPT ![i] = entries] /\ expireAt' = expireAt
      BY <1>8 DEF Script, Room, i, s
    <2>2. Cardinality(entries) >= Limit[i]
      BY <1>1, <1>3, <1>8
    <2> QED
      BY <1>1, <1>2, <1>3, <1>5, <1>6, <2>1, <2>2 DEF ScriptOutcome, i, s
  <1> QED
    BY <1>7, <1>8

----------------------------------------------------------------------------
(* The deque of an identity and its admissions *)

LEMMA GoneLater ==
    ASSUME NEW times \in Seq(Nat), NEW from \in Nat, NEW n \in Nat, n <= Len(times),
           NEW present \in Nat, Gone(times, from, n, present)
    PROVE  Gone(times, from, n, present + 1)
  <1>1. PICK span \in Int : span = Window + 1 - 2 * Skew
    BY LimiterAssumption DEF LimiterAssumption
  <1>2. \A j \in (from + 1)..n : times[j] \in Nat /\ times[j] <= present - span
    BY <1>1 DEF Gone
  <1>3. \A j \in (from + 1)..n : times[j] <= present + 1 - span
    BY <1>2
  <1> QED
    BY <1>1, <1>3 DEF Gone

\* What is purged stands for admissions that have left every window.
LEMMA RecordsPurge ==
    ASSUME NEW q \in Seq(Int), NEW times \in Seq(Nat), NEW from \in Nat, NEW m \in Nat,
           NEW present \in Nat, Records(q, times, from, m, present),
           NEW n \in 0..Len(q), NEW rest \in Seq(Int), Shifted(q, rest, n),
           NEW t \in Int, Near(t, present), Older(q, n, t - Window)
    PROVE  Records(rest, times, from, m + n, present)
  <1>1. /\ Window \in Nat /\ Skew \in Nat /\ from <= m /\ m + Len(q) = Len(times)
        /\ Len(rest) = Len(q) - n
    BY LimiterAssumption DEF LimiterAssumption, Records, Shifted
  <1>2. Stamps(rest, times, m + n)
    <2> SUFFICES ASSUME NEW k \in 1..Len(rest)
                 PROVE  times[m + n + k] - Skew <= rest[k] /\ rest[k] <= times[m + n + k] + Skew
      BY DEF Stamps
    <2>1. n + k \in 1..Len(q) /\ rest[k] = q[n + k] /\ m + (n + k) = m + n + k
      BY <1>1 DEF Shifted
    <2> QED
      BY <2>1 DEF Records, Stamps
  <1>3. Gone(times, from, m + n, present)
    <2> SUFFICES ASSUME NEW j \in (from + 1)..(m + n)
                 PROVE  times[j] <= present - (Window + 1 - 2 * Skew)
      BY DEF Gone
    <2>1. CASE j <= m
      BY <2>1 DEF Records, Gone
    <2>2. CASE j > m
      <3>1. PICK k \in 1..n : j = m + k
        <4>1. j - m \in 1..n /\ j = m + (j - m)
          BY <2>2
        <4> QED
          BY <4>1
      <3>2. k \in 1..Len(q) /\ q[k] \in Int /\ times[j] \in Nat
        BY <1>1, <3>1, SMTT(30)
      <3>3. times[j] - Skew <= q[k] /\ q[k] < t - Window
        BY <3>1, <3>2 DEF Records, Stamps, Older
      <3>4. PICK a \in Int, b \in Nat : a = q[k] /\ b = times[j]
        BY <3>2
      <3>5. b - Skew <= a /\ a < t - Window /\ t <= present + Skew
        BY <3>3, <3>4 DEF Near
      <3>6. b <= present - (Window + 1 - 2 * Skew)
        BY <1>1, <3>5
      <3> QED
        BY <3>4, <3>6
    <2> QED
      BY <2>1, <2>2
  <1>4. from <= m + n /\ m + n + Len(rest) = Len(times)
    <2>1. PICK x \in Nat, y \in Nat, z \in Nat : x = Len(q) /\ y = Len(rest) /\ z = Len(times)
      OBVIOUS
    <2>2. n \in 0..x /\ from <= m /\ m + x = z /\ y = x - n
      BY <1>1, <2>1
    <2>3. from <= m + n /\ m + n + y = z
      BY <2>2
    <2> QED
      BY <2>1, <2>3
  <1> QED
    BY <1>2, <1>3, <1>4 DEF Records

\* The stamp of an admission is put behind the others.
LEMMA RecordsAppend ==
    ASSUME NEW q \in Seq(Int), NEW times \in Seq(Nat), NEW from \in Nat, NEW n \in Nat,
           NEW present \in Nat, Records(q, times, from, n, present),
           NEW t \in Int, Near(t, present)
    PROVE  Records(Append(q, t), Append(times, present), from, n, present)
  <1> DEFINE p == Append(q, t)
             later == Append(times, present)
  <1>1. PICK x \in Nat, z \in Nat : x = Len(q) /\ z = Len(times)
    OBVIOUS
  <1>2. Len(p) = x + 1 /\ p[x + 1] = t /\ \A k \in 1..x : p[k] = q[k]
    BY <1>1
  <1>3. Len(later) = z + 1 /\ later[z + 1] = present /\ \A k \in 1..z : later[k] = times[k]
    BY <1>1
  <1> HIDE DEF p, later
  <1>4. from <= n /\ n + x = z
    BY <1>1 DEF Records
  <1>5. Stamps(p, later, n)
    <2> SUFFICES ASSUME NEW k \in 1..(x + 1)
                 PROVE  later[n + k] - Skew <= p[k] /\ p[k] <= later[n + k] + Skew
      BY <1>2 DEF Stamps
    <2>1. CASE k = x + 1
      <3>1. n + k = z + 1
        BY <1>4, <2>1
      <3>2. p[k] = t /\ later[n + k] = present
        BY <1>2, <1>3, <2>1, <3>1
      <3> QED
        BY <3>2, Zenon DEF Near
    <2>2. CASE k # x + 1
      <3>1. k \in 1..x /\ n + k \in 1..z
        BY <1>4, <2>2
      <3>2. times[n + k] - Skew <= q[k] /\ q[k] <= times[n + k] + Skew
        BY <1>1, <3>1 DEF Records, Stamps
      <3>3. p[k] = q[k] /\ later[n + k] = times[n + k]
        BY <1>2, <1>3, <3>1
      <3> QED
        BY <3>2, <3>3, Zenon
    <2> QED
      BY <2>1, <2>2
  <1>6. Gone(later, from, n, present)
    <2>1. \A j \in (from + 1)..n : j \in 1..z
      BY <1>4
    <2> QED
      BY <1>3, <2>1 DEF Records, Gone
  <1>7. n + Len(p) = Len(later)
    BY <1>2, <1>3, <1>4
  <1> QED
    BY <1>4, <1>5, <1>6, <1>7 DEF Records, p, later

----------------------------------------------------------------------------
(* Entries behind a window *)

\* A part of the window is backed by what is left of the entries.
LEMMA BacksLess ==
    ASSUME NEW f, NEW window, NEW times, NEW entries, Backs(f, window, times, entries),
           NEW part \in SUBSET window, NEW others, \A j \in part : f[j] \in others,
           NEW later, \A j \in part : later[j] = times[j]
    PROVE  \E g : Backs(g, part, later, others)
  <1> DEFINE g == [j \in part |-> f[j]]
  <1>1. g \in Injection(part, others)
    BY DEF Backs, Injection, IsInjective
  <1>2. \A j \in part : later[j] - MaxDelay - Skew <= g[j].score
    BY DEF Backs
  <1> QED
    BY <1>1, <1>2 DEF Backs

\* One more admission is backed by one more entry.
LEMMA BacksMore ==
    ASSUME NEW f, NEW window, NEW times, NEW entries, Backs(f, window, times, entries),
           NEW n, n \notin window, NEW e, e \notin entries,
           NEW later, \A j \in window : later[j] = times[j],
           later[n] - MaxDelay - Skew <= e.score
    PROVE  \E g : Backs(g, window \cup {n}, later, entries \cup {e})
  <1> DEFINE g == [j \in window \cup {n} |-> IF j = n THEN e ELSE f[j]]
  <1>1. g \in Injection(window \cup {n}, entries \cup {e})
    BY DEF Backs, Injection, IsInjective
  <1>2. \A j \in window \cup {n} : later[j] - MaxDelay - Skew <= g[j].score
    BY DEF Backs
  <1> QED
    BY <1>1, <1>2 DEF Backs

----------------------------------------------------------------------------
(* The invariant is inductive *)

Kinds == [allowed : BOOLEAN, retry_after : Nat, at : Int]

LEMMA InvInit == Init => IInv
  <1> SUFFICES ASSUME Init PROVE IInv
    OBVIOUS
  <1>1. TypeOK
    <2>1. Allowed \in Kinds
      BY DEF Allowed, Kinds
    <2>2. IsFiniteSet({})
      BY FS_EmptySet
    <2> QED
      BY <2>1, <2>2, LimiterAssumption DEF Init, None, TypeOK, Kinds, LimiterAssumption
  <1>2. Times
    BY DEF Init, None, Times
  <1>3. InTransit
    BY DEF Init, InTransit, InFlight
  <1>4. DequeHolds
    <2>1. ASSUME NEW i \in Identities
          PROVE  /\ Len(hits[i]) <= Limit[i]
                 /\ Records(hits[i], admitted[i], base[i], 0, now)
      BY LimiterAssumption DEF Init, None, Records, Stamps, Gone, LimiterAssumption
    <2> QED
      BY <2>1 DEF DequeHolds
  <1>5. SetHolds
    <2>1. ASSUME NEW i \in Identities
          PROVE  /\ Cardinality(zset[i]) <= Limit[i] /\ zset[i] = {}
                 /\ admitted[i] = <<>> /\ base[i] = 0
      BY FS_EmptySet, LimiterAssumption DEF Init, None, LimiterAssumption
    <2>2. ASSUME NEW i \in Identities
          PROVE  Backs(<<>>, Promise!InWindow(i, now), admitted[i], zset[i])
      <3>1. Promise!InWindow(i, now) = {}
        BY <2>1 DEF Promise!InWindow
      <3>2. <<>> = [j \in {} |-> 0]
        OBVIOUS
      <3>3. <<>> \in Injection({}, {})
        BY <3>2 DEF Injection, IsInjective
      <3> QED
        BY <2>1, <3>1, <3>3 DEF Backs
    <2>3. \A i \in Identities : (base[i] + 1)..Len(admitted[i]) = {}
      BY <2>1
    <2>4. \A i \in Identities : expireAt[i] <= now + Window
      BY LimiterAssumption DEF Init, None, LimiterAssumption
    <2> QED
      BY <2>1, <2>2, <2>3, <2>4 DEF SetHolds
  <1>6. AnswerStands
    BY DEF Init, None, Allowed, AnswerStands
  <1> QED
    BY <1>1, <1>2, <1>3, <1>4, <1>5, <1>6 DEF IInv

\* What no check touches stays as it is.
LEMMA InvTick == ASSUME IInv, Tick PROVE IInv'
  <1>1. /\ now' = now + 1 /\ now \in Nat
        /\ \A c \in Calls : InFlight(c) => now < call[c].sent + MaxDelay
        /\ UNCHANGED <<backend, hits, zset, expireAt, call, answer, losses, admitted, base>>
    BY DEF IInv, TypeOK, Tick
  <1>2. TypeOK'
    BY <1>1 DEF IInv, TypeOK
  <1>3. Times'
    <2>1. \A i \in Identities : admitted[i] \in Seq(Nat)
      BY DEF IInv, TypeOK
    <2> QED
      BY <1>1, <2>1 DEF IInv, Times
  <1>4. InTransit'
    <2>1. ASSUME NEW c \in Calls, InFlight(c)
          PROVE  call[c].sent <= now + 1 /\ now + 1 <= call[c].sent + MaxDelay
      BY <1>1, <2>1, CallTypes, LimiterAssumption DEF IInv, InTransit, LimiterAssumption
    <2> QED
      BY <1>1, <2>1 DEF IInv, InTransit, InFlight
  <1>5. DequeHolds'
    <2> SUFFICES ASSUME backend = "memory", NEW i \in Identities
                 PROVE  /\ Len(hits[i]) <= Limit[i]
                        /\ \E n \in Nat : Records(hits[i], admitted[i], base[i], n, now')
      BY <1>1 DEF DequeHolds
    <2>1. PICK n \in Nat : Records(hits[i], admitted[i], base[i], n, now)
      BY DEF IInv, DequeHolds
    <2>2. /\ hits[i] \in Seq(Int) /\ admitted[i] \in Seq(Nat) /\ base[i] \in Nat
          /\ Gone(admitted[i], base[i], n, now)
      BY <2>1 DEF IInv, TypeOK, Records
    <2>3. n <= Len(admitted[i])
      BY <2>1, <2>2 DEF Records
    <2>4. Gone(admitted[i], base[i], n, now')
      BY <1>1, <2>2, <2>3, GoneLater
    <2> QED
      BY <2>1, <2>4 DEF IInv, DequeHolds, Records
  <1>6. SetHolds'
    <2>0. backend = "redis" => \A i \in Identities : expireAt[i] <= now + 1 + Window
      <3>1. \A i \in Identities : expireAt[i] \in Nat
        BY DEF IInv, TypeOK
      <3> QED
        BY <1>1, <3>1, LimiterAssumption DEF IInv, SetHolds, LimiterAssumption
    <2> SUFFICES ASSUME backend = "redis", RandomFresh, NEW i \in Identities
                 PROVE  \E f : Backs(f, Promise!InWindow(i, now)', admitted[i], zset[i])
      BY <1>1, <2>0 DEF IInv, SetHolds
    <2>1. PICK f : Backs(f, Promise!InWindow(i, now), admitted[i], zset[i])
      BY DEF IInv, SetHolds
    <2>2. Promise!InWindow(i, now)' \subseteq Promise!InWindow(i, now)
      <3>1. PromisedSpan \in Int /\ PromisedSpan' = PromisedSpan
        BY <1>1, LimiterAssumption DEF PromisedSpan, LimiterAssumption
      <3>2. \A j \in (base[i] + 1)..Len(admitted[i]) : admitted[i][j] \in Nat /\ admitted[i][j] <= now
        BY DEF IInv, TypeOK, Times
      <3> QED
        BY <1>1, <3>1, <3>2 DEF Promise!InWindow
    <2>3. \A j \in Promise!InWindow(i, now)' : f[j] \in zset[i]
      BY <2>1, <2>2 DEF Backs, Injection
    <2> QED
      BY <2>1, <2>2, <2>3, BacksLess
  <1>7. AnswerStands'
    BY <1>1 DEF IInv, AnswerStands, Stands
  <1> QED
    BY <1>2, <1>3, <1>4, <1>5, <1>6, <1>7 DEF IInv

LEMMA InvLose == ASSUME IInv, Lose PROVE IInv'
  <1>1. /\ losses' = losses + 1 /\ losses < MaxLosses
        /\ hits' = None(<<>>) /\ zset' = None({}) /\ answer' = None(Allowed)
        /\ base' = [i \in Identities |-> Len(admitted[i])]
        /\ UNCHANGED <<backend, now, expireAt, call, admitted>>
    BY DEF Lose
  <1>2. TypeOK'
    <2>1. Allowed \in Kinds
      BY DEF Allowed, Kinds
    <2>2. losses' \in 0..MaxLosses
      BY <1>1, LimiterAssumption DEF IInv, TypeOK, LimiterAssumption
    <2>3. /\ hits' \in [Identities -> Seq(Int)] /\ base' \in [Identities -> Nat]
          /\ zset' \in [Identities -> SUBSET Entries]
          /\ \A i \in Identities : zset'[i] = {}
          /\ answer' \in [Identities -> Kinds]
      BY <1>1, <2>1 DEF IInv, TypeOK, None
    <2> QED
      BY <1>1, <2>2, <2>3, FS_EmptySet DEF IInv, TypeOK, Kinds, Entries
  <1>3. \A i \in Identities : /\ hits'[i] = <<>> /\ zset'[i] = {} /\ answer'[i] = Allowed
                              /\ base'[i] = Len(admitted[i]) /\ Len(admitted[i]) \in Nat
                              /\ admitted'[i] = admitted[i] /\ Limit[i] \in Nat
    BY <1>1, LimiterAssumption DEF None, IInv, TypeOK, LimiterAssumption
  <1>4. Times'
    BY <1>1, <1>3 DEF IInv, Times
  <1>5. InTransit'
    BY <1>1 DEF IInv, InTransit, InFlight
  <1>6. DequeHolds'
    <2>1. ASSUME NEW i \in Identities, NEW n \in Nat, n = Len(admitted[i])
          PROVE  Len(hits'[i]) <= Limit[i] /\ Records(hits'[i], admitted'[i], base'[i], n, now')
      <3>1. /\ Len(hits'[i]) = 0 /\ Limit[i] \in Nat /\ base'[i] = n
            /\ Len(admitted'[i]) = n
        BY <1>3, <2>1
      <3>2. 1..Len(hits'[i]) = {} /\ (base'[i] + 1)..n = {}
        BY <3>1
      <3> QED
        BY <3>1, <3>2 DEF Records, Stamps, Gone
    <2>2. ASSUME NEW i \in Identities
          PROVE  /\ Len(hits'[i]) <= Limit[i]
                 /\ \E n \in Nat : Records(hits'[i], admitted'[i], base'[i], n, now')
      BY <1>3, <2>1
    <2> QED
      BY <2>2 DEF DequeHolds
  <1>7. SetHolds'
    <2>1. ASSUME NEW i \in Identities
          PROVE  Backs(<<>>, Promise!InWindow(i, now)', admitted'[i], zset'[i])
      <3>1. Promise!InWindow(i, now)' = {}
        BY <1>3 DEF Promise!InWindow
      <3>2. <<>> = [j \in {} |-> 0]
        OBVIOUS
      <3>3. <<>> \in Injection({}, {})
        BY <3>2 DEF Injection, IsInjective
      <3> QED
        BY <1>3, <3>1, <3>3 DEF Backs
    <2>2. \A i \in Identities : Cardinality(zset'[i]) <= Limit[i]
      <3> TAKE i \in Identities
      <3>1. Cardinality(zset'[i]) = 0
        <4>1. zset'[i] = {}
          BY <1>3
        <4> QED
          BY <4>1, FS_EmptySet
      <3>2. Limit[i] \in Nat
        BY <1>3
      <3> QED
        BY <3>1, <3>2
    <2>3. \A i \in Identities : (base'[i] + 1)..Len(admitted'[i]) = {}
      BY <1>3
    <2>4. \A i \in Identities : \E f : Backs(f, Promise!InWindow(i, now)', admitted'[i], zset'[i])
      BY <2>1
    <2>5. backend' = "redis" => \A i \in Identities : expireAt'[i] <= now' + Window
      BY <1>1 DEF IInv, SetHolds
    <2> QED
      BY <1>3, <2>2, <2>3, <2>4, <2>5 DEF SetHolds
  <1>8. AnswerStands'
    BY <1>3 DEF AnswerStands, Allowed
  <1> QED
    BY <1>2, <1>4, <1>5, <1>6, <1>7, <1>8 DEF IInv

\* A call that is sent, or whose connection fails, changes no store.
LEMMA InvStores ==
    ASSUME IInv, UNCHANGED <<backend, now, hits, zset, expireAt, answer, admitted, base>>
    PROVE  Times' /\ DequeHolds' /\ SetHolds' /\ AnswerStands'
  <1>1. Times'
    BY DEF IInv, Times
  <1>2. DequeHolds'
    BY DEF IInv, DequeHolds
  <1>3. SetHolds'
    <2>1. \A i \in Identities : Promise!InWindow(i, now)' = Promise!InWindow(i, now)
      BY DEF Promise!InWindow, PromisedSpan
    <2> QED
      BY <2>1 DEF IInv, SetHolds
  <1>4. AnswerStands'
    BY DEF IInv, AnswerStands, Stands
  <1> QED
    BY <1>1, <1>2, <1>3, <1>4

LEMMA InvReadClock ==
    ASSUME IInv, NEW c \in Calls, NEW i \in Identities, ReadClock(c, i)
    PROVE  IInv'
  <1>1. PICK stamp \in Clock :
              call' = [call EXCEPT ![c] = [identity |-> i, stamp |-> stamp, sent |-> now]]
    BY DEF ReadClock
  <1>2. /\ UNCHANGED <<backend, now, hits, zset, expireAt, answer, losses, admitted, base>>
        /\ now \in Nat /\ stamp \in Int /\ now - Skew <= stamp /\ stamp <= now + Skew
    BY LimiterAssumption DEF ReadClock, IInv, TypeOK, Clock, LimiterAssumption
  <1>3. TypeOK'
    BY <1>1, <1>2 DEF IInv, TypeOK
  <1>4. InTransit'
    <2> SUFFICES ASSUME NEW d \in Calls, InFlight(d)'
                 PROVE  /\ backend' = "redis" /\ call'[d].sent <= now
                        /\ now <= call'[d].sent + MaxDelay
                        /\ call'[d].sent - Skew <= call'[d].stamp
                        /\ call'[d].stamp <= call'[d].sent + Skew
      BY <1>2 DEF InTransit
    <2>1. CASE d = c
      <3>1. call'[d] = [identity |-> i, stamp |-> stamp, sent |-> now] /\ backend' = "redis"
        BY <1>1, <2>1 DEF IInv, TypeOK, ReadClock
      <3> QED
        BY <1>2, <3>1, LimiterAssumption DEF LimiterAssumption
    <2>2. CASE d # c
      <3>1. call'[d] = call[d] /\ backend' = backend
        BY <1>1, <1>2, <2>2 DEF IInv, TypeOK
      <3> QED
        BY <3>1 DEF IInv, InTransit, InFlight
    <2> QED
      BY <2>1, <2>2
  <1> QED
    BY <1>2, <1>3, <1>4, InvStores DEF IInv

\* A call that is over is no longer under way.
LEMMA EndTransit ==
    ASSUME IInv, NEW c \in Calls, call' = [call EXCEPT ![c] = NoCall],
           now' = now, backend' = backend
    PROVE  /\ InTransit'
           /\ call' \in [Calls -> {NoCall} \cup [identity : Identities, stamp : Int, sent : Nat]]
  <1>1. ASSUME NEW d \in Calls, InFlight(d)' PROVE call'[d] = call[d] /\ InFlight(d)
    BY <1>1 DEF IInv, TypeOK, InFlight
  <1> QED
    BY <1>1 DEF IInv, InTransit, TypeOK

LEMMA InvFail == ASSUME IInv, NEW c \in Calls, Fail(c) PROVE IInv'
  <1>1. /\ call' = [call EXCEPT ![c] = NoCall]
        /\ UNCHANGED <<backend, now, hits, zset, expireAt, answer, losses, admitted, base>>
    BY DEF Fail
  <1>2. TypeOK'
    BY <1>1, EndTransit DEF IInv, TypeOK
  <1> QED
    BY <1>1, <1>2, InvStores, EndTransit DEF IInv

\* What check() answers, and the history that it extends.
LEMMA AdmittedTypes ==
    ASSUME IInv, NEW i \in Identities, Admitted(i), now' = now, base' = base
    PROVE  /\ answer' \in [Identities -> Kinds] /\ answer'[i] = Allowed
           /\ admitted' \in [Identities -> Seq(Nat)]
           /\ admitted'[i] = Append(admitted[i], now)
           /\ \A k \in Identities : k # i => answer'[k] = answer[k] /\ admitted'[k] = admitted[k]
           /\ Times'
  <1>1. /\ answer' = [answer EXCEPT ![i] = Allowed]
        /\ admitted' = [admitted EXCEPT ![i] = Append(@, now)]
        /\ answer \in [Identities -> Kinds] /\ admitted \in [Identities -> Seq(Nat)]
        /\ now \in Nat /\ base \in [Identities -> Nat]
    BY DEF Admitted, IInv, TypeOK, Kinds
  <1>2. Allowed \in Kinds
    BY DEF Allowed, Kinds
  <1>3. /\ answer' \in [Identities -> Kinds] /\ answer'[i] = Allowed
        /\ \A k \in Identities : k # i => answer'[k] = answer[k]
    BY <1>1, <1>2
  <1>4. /\ admitted' \in [Identities -> Seq(Nat)]
        /\ admitted'[i] = Append(admitted[i], now)
        /\ \A k \in Identities : k # i => admitted'[k] = admitted[k]
    BY <1>1
  <1>5. Times'
    <2> SUFFICES ASSUME NEW k \in Identities
                 PROVE  /\ base[k] <= Len(admitted'[k])
                        /\ \A j \in 1..Len(admitted'[k]) : admitted'[k][j] <= now
      BY DEF Times
    <2>1. CASE k # i
      BY <1>4, <2>1 DEF IInv, Times
    <2>2. CASE k = i
      <3>1. PICK n \in Nat : n = Len(admitted[i])
        BY <1>1
      <3>2. /\ Len(admitted'[i]) = n + 1 /\ admitted'[i][n + 1] = now
            /\ \A j \in 1..n : admitted'[i][j] = admitted[i][j]
        BY <1>1, <1>4, <3>1
      <3>3. base[i] <= n /\ \A j \in 1..n : admitted[i][j] <= now
        BY <3>1 DEF IInv, Times
      <3>4. base[i] <= n + 1
        BY <1>1, <3>3
      <3>5. \A j \in 1..(n + 1) : j = n + 1 \/ j \in 1..n
        OBVIOUS
      <3>6. now <= now
        BY <1>1
      <3> QED
        BY <2>2, <3>2, <3>3, <3>4, <3>5, <3>6
    <2> QED
      BY <2>1, <2>2
  <1> QED
    BY <1>3, <1>4, <1>5

LEMMA DeniedTypes ==
    ASSUME IInv, NEW i \in Identities, NEW r \in Nat, Denied(i, r), now' = now, base' = base
    PROVE  /\ answer' \in [Identities -> Kinds]
           /\ answer'[i] = [allowed |-> FALSE, retry_after |-> r, at |-> now]
           /\ \A k \in Identities : k # i => answer'[k] = answer[k]
           /\ admitted' = admitted /\ admitted' \in [Identities -> Seq(Nat)]
           /\ Times'
  <1>1. /\ answer' = [answer EXCEPT ![i] = [allowed |-> FALSE, retry_after |-> r, at |-> now]]
        /\ admitted' = admitted
        /\ answer \in [Identities -> Kinds] /\ admitted \in [Identities -> Seq(Nat)]
        /\ now \in Nat
    BY DEF Denied, IInv, TypeOK, Kinds
  <1>2. [allowed |-> FALSE, retry_after |-> r, at |-> now] \in Kinds
    BY <1>1 DEF Kinds
  <1>3. Times'
    BY <1>1 DEF IInv, Times
  <1> QED
    BY <1>1, <1>2, <1>3

LEMMA ClockNear ==
    ASSUME TypeOK, NEW t \in Clock
    PROVE  t \in Int /\ Near(t, now)
  BY LimiterAssumption DEF TypeOK, Clock, Near, LimiterAssumption

LEMMA InvCheckMemory ==
    ASSUME IInv, NEW i \in Identities, NEW t \in Clock, CheckMemory(i, t)
    PROVE  IInv'
  <1>1. backend = "memory" /\ UNCHANGED <<backend, now, zset, expireAt, call, losses, base>>
    BY DEF CheckMemory
  <1>2. PICK n \in 0..Len(hits[i]), rest \in Seq(Int) : MemoryOutcome(i, t, n, rest)
    BY MemoryStep DEF IInv
  <1>3. /\ hits[i] \in Seq(Int) /\ admitted[i] \in Seq(Nat) /\ base[i] \in Nat /\ now \in Nat
        /\ t \in Int /\ Near(t, now) /\ Limit[i] \in Nat
        /\ Len(hits[i]) \in Nat /\ Len(hits[i]) <= Limit[i]
    <2>1. /\ hits[i] \in Seq(Int) /\ admitted[i] \in Seq(Nat) /\ base[i] \in Nat /\ now \in Nat
          /\ Limit[i] \in Nat
      BY LimiterAssumption DEF IInv, TypeOK, LimiterAssumption
    <2>2. t \in Int /\ Near(t, now)
      BY ClockNear DEF IInv
    <2>3. Len(hits[i]) <= Limit[i]
      BY <1>1 DEF IInv, DequeHolds
    <2> QED
      BY <2>1, <2>2, <2>3
  <1>4. PICK m \in Nat : Records(hits[i], admitted[i], base[i], m, now)
    BY <1>1 DEF IInv, DequeHolds
  <1>5. rest \in Seq(Int) /\ Shifted(hits[i], rest, n) /\ Older(hits[i], n, t - Window)
    BY <1>2 DEF MemoryOutcome
  <1>6. m + n \in Nat /\ Records(rest, admitted[i], base[i], m + n, now)
    <2>1. n \in Nat /\ m + n \in Nat
      BY <1>3
    <2>2. /\ hits[i] \in Seq(Int) /\ admitted[i] \in Seq(Nat) /\ base[i] \in Nat
          /\ now \in Nat /\ t \in Int /\ Near(t, now)
      BY <1>3
    <2>3. Records(rest, admitted[i], base[i], m + n, now)
      BY <1>4, <1>5, <2>2, RecordsPurge
    <2> QED
      BY <2>1, <2>3
  <1>7. InTransit' /\ SetHolds'
    <2>1. InTransit'
      BY <1>1 DEF IInv, InTransit, InFlight
    <2>2. backend' # "redis"
      BY <1>1
    <2> QED
      BY <2>1, <2>2 DEF SetHolds
  <1>8. CASE /\ Len(rest) < Limit[i]
             /\ hits' = [hits EXCEPT ![i] = Append(rest, t)]
             /\ Admitted(i)
    <2>1. /\ answer' \in [Identities -> Kinds] /\ answer'[i] = Allowed
          /\ admitted' \in [Identities -> Seq(Nat)]
          /\ admitted'[i] = Append(admitted[i], now)
          /\ \A k \in Identities : k # i => answer'[k] = answer[k] /\ admitted'[k] = admitted[k]
          /\ Times'
      BY <1>1, <1>8, AdmittedTypes
    <2>2. /\ Append(rest, t) \in Seq(Int) /\ Len(Append(rest, t)) = Len(rest) + 1
          /\ Len(rest) \in Nat
      BY <1>3, <1>5
    <2>3. /\ hits' \in [Identities -> Seq(Int)] /\ hits'[i] = Append(rest, t)
          /\ \A k \in Identities : k # i => hits'[k] = hits[k]
      BY <1>8, <2>2 DEF IInv, TypeOK
    <2>4. TypeOK'
      BY <1>1, <2>1, <2>3 DEF IInv, TypeOK, Kinds
    <2>5. Records(hits'[i], admitted'[i], base[i], m + n, now)
      BY <1>3, <1>5, <1>6, <2>1, <2>3, RecordsAppend
    <2>6. Len(hits'[i]) <= Limit[i]
      BY <1>3, <1>8, <2>2, <2>3
    <2>7. DequeHolds'
      <3>1. ASSUME NEW k \in Identities
            PROVE  /\ Len(hits'[k]) <= Limit[k]
                   /\ \E o \in Nat : Records(hits'[k], admitted'[k], base[k], o, now)
        <4>1. CASE k = i
          BY <1>6, <2>5, <2>6, <4>1
        <4>2. CASE k # i
          BY <1>1, <2>1, <2>3, <4>2 DEF IInv, DequeHolds
        <4> QED
          BY <4>1, <4>2
      <3> QED
        BY <1>1, <3>1 DEF DequeHolds
    <2>8. AnswerStands'
      <3> SUFFICES ASSUME NEW k \in Identities, ~answer'[k].allowed
                   PROVE  \E o, s \in Int : Stands(k, o, s)'
        BY DEF AnswerStands
      <3>1. k # i
        BY <2>1 DEF Allowed
      <3> QED
        BY <1>1, <2>1, <2>3, <3>1 DEF IInv, AnswerStands, Stands
    <2> QED
      BY <1>7, <2>1, <2>4, <2>7, <2>8 DEF IInv
  <1>9. ASSUME Len(rest) >= Limit[i], hits' = [hits EXCEPT ![i] = rest],
               NEW r \in Nat, Denied(i, r), r * Second \in Int,
               r * Second - Second <= rest[1] + Window - t,
               rest[1] + Window - t < r * Second
        PROVE  IInv'
    <2>1. /\ answer' \in [Identities -> Kinds]
          /\ answer'[i] = [allowed |-> FALSE, retry_after |-> r, at |-> now]
          /\ \A k \in Identities : k # i => answer'[k] = answer[k]
          /\ admitted' = admitted /\ admitted' \in [Identities -> Seq(Nat)]
          /\ Times'
      BY <1>1, <1>9, DeniedTypes
    <2>2. /\ hits' \in [Identities -> Seq(Int)] /\ hits'[i] = rest
          /\ \A k \in Identities : k # i => hits'[k] = hits[k]
      BY <1>5, <1>9 DEF IInv, TypeOK
    <2>3. TypeOK'
      BY <1>1, <2>1, <2>2 DEF IInv, TypeOK, Kinds
    <2>4. Len(rest) \in Nat /\ Len(rest) = Limit[i]
      BY <1>3, <1>5, <1>9 DEF Shifted
    <2>5. DequeHolds'
      <3>1. ASSUME NEW k \in Identities
            PROVE  /\ Len(hits'[k]) <= Limit[k]
                   /\ \E o \in Nat : Records(hits'[k], admitted'[k], base[k], o, now)
        <4>1. CASE k = i
          BY <1>3, <1>6, <2>1, <2>2, <2>4, <4>1
        <4>2. CASE k # i
          BY <1>1, <2>1, <2>2, <4>2 DEF IInv, DequeHolds
        <4> QED
          BY <4>1, <4>2
      <3> QED
        BY <1>1, <3>1 DEF DequeHolds
    <2>6. AnswerStands'
      <3> SUFFICES ASSUME NEW k \in Identities, ~answer'[k].allowed
                   PROVE  \E o, s \in Int : Stands(k, o, s)'
        BY DEF AnswerStands
      <3>1. CASE k # i
        BY <1>1, <2>1, <2>2, <3>1 DEF IInv, AnswerStands, Stands
      <3>2. CASE k = i
        <4>1. rest # <<>> /\ rest[1] \in Int
          <5>1. Limit[i] \in Nat \ {0}
            BY LimiterAssumption DEF LimiterAssumption
          <5>2. Len(rest) # 0
            BY <2>4, <5>1
          <5> QED
            BY <1>5, <2>4, <5>2
        <4>2. Stands(i, rest[1], t)'
          BY <1>1, <1>3, <1>9, <2>1, <2>2, <2>4 DEF Stands, Near
        <4> QED
          BY <1>3, <3>2, <4>1, <4>2
      <3> QED
        BY <3>1, <3>2
    <2> QED
      BY <1>7, <2>1, <2>3, <2>5, <2>6 DEF IInv
  <1> QED
    BY <1>2, <1>8, <1>9 DEF MemoryOutcome

----------------------------------------------------------------------------
(* What the script leaves *)

\* An entry that backs an admission of the window outlives the purge and EXPIRE.
LEMMA WindowSurvives ==
    ASSUME IInv, NEW c \in Calls, InFlight(c), NEW i, NEW entries, NEW e,
           ScriptOutcome(c, i, entries, e),
           NEW f, Backs(f, Promise!InWindow(i, now), admitted[i], zset[i]),
           NEW j \in Promise!InWindow(i, now)
    PROVE  f[j] \in entries
  <1>1. /\ i \in Identities /\ call[c].stamp \in Int /\ now \in Nat /\ expireAt[i] \in Nat
        /\ admitted[i] \in Seq(Nat) /\ base[i] \in Nat /\ zset[i] \subseteq Entries
        /\ Window \in Nat /\ Skew \in Nat /\ MaxDelay \in Nat /\ call[c].sent \in Nat
    BY CallTypes, LimiterAssumption
       DEF ScriptOutcome, IInv, TypeOK, Entries, LimiterAssumption
  <1>2. backend = "redis" /\ call[c].stamp <= now + Skew
    BY <1>1 DEF IInv, InTransit
  <1>3. /\ j \in (base[i] + 1)..Len(admitted[i])
        /\ now - (Window - MaxDelay - 2 * Skew) < admitted[i][j]
    BY <1>2 DEF Promise!InWindow, PromisedSpan
  <1>4. admitted[i][j] \in Nat /\ admitted[i][j] + Window <= expireAt[i]
    <2>1. j \in 1..Len(admitted[i])
      BY <1>1, <1>3
    <2>2. admitted[i][j] \in Nat
      BY <1>1, <2>1
    <2>3. admitted[i][j] + Window <= expireAt[i]
      BY <1>1, <1>2, <1>3, Zenon DEF IInv, SetHolds
    <2> QED
      BY <2>2, <2>3
  <1>5. f[j] \in zset[i] /\ admitted[i][j] - MaxDelay - Skew <= f[j].score
    BY DEF Backs, Injection
  <1>6. f[j].score \in Int
    BY <1>1, <1>5 DEF Entries
  <1>7. PICK a \in Nat, v \in Int, x \in Nat, s \in Int :
              a = admitted[i][j] /\ v = f[j].score /\ x = expireAt[i] /\ s = call[c].stamp
    BY <1>1, <1>4, <1>6
  <1>8. /\ now - (Window - MaxDelay - 2 * Skew) < a /\ a + Window <= x
        /\ a - MaxDelay - Skew <= v /\ s <= now + Skew
    BY <1>2, <1>3, <1>4, <1>5, <1>7
  <1>9. now < x /\ v > s - Window
    BY <1>1, <1>8
  <1> QED
    BY <1>5, <1>7, <1>9 DEF ScriptOutcome

\* The sorted set and its EXPIRE when the script of c has run.
LEMMA ScriptTypes ==
    ASSUME TypeOK, NEW c \in Calls, InFlight(c), NEW i, NEW entries, NEW e,
           ScriptOutcome(c, i, entries, e)
    PROVE  /\ zset' \in [Identities -> SUBSET Entries]
           /\ \A k \in Identities : IsFiniteSet(zset'[k])
           /\ expireAt' \in [Identities -> Nat]
           /\ \A k \in Identities : k # i => zset'[k] = zset[k] /\ expireAt'[k] = expireAt[k]
           /\ \/ /\ Cardinality(entries) < Limit[i]
                 /\ \E kept \in SUBSET entries : /\ RandomFresh => kept = entries
                                                 /\ zset'[i] = kept \cup {e}
                 /\ expireAt'[i] = now + Window
              \/ /\ Cardinality(entries) >= Limit[i]
                 /\ zset'[i] = entries /\ expireAt'[i] = expireAt[i]
  <1>1. /\ i \in Identities /\ zset \in [Identities -> SUBSET Entries]
        /\ expireAt \in [Identities -> Nat] /\ now + Window \in Nat
        /\ \A k \in Identities : IsFiniteSet(zset[k])
    <2>1. i \in Identities
      BY CallTypes DEF ScriptOutcome
    <2> QED
      BY <2>1, LimiterAssumption DEF TypeOK, Entries, LimiterAssumption
  <1>2. entries \in SUBSET Entries /\ IsFiniteSet(entries) /\ e \in Entries
    BY DEF ScriptOutcome
  <1>3. CASE /\ Cardinality(entries) < Limit[i]
             /\ expireAt' = [expireAt EXCEPT ![i] = now + Window]
             /\ \E kept \in SUBSET entries :
                   /\ RandomFresh => kept = entries
                   /\ zset' = [zset EXCEPT ![i] = kept \cup {e}]
    <2>1. PICK kept \in SUBSET entries : /\ RandomFresh => kept = entries
                                         /\ zset' = [zset EXCEPT ![i] = kept \cup {e}]
      BY <1>3
    <2>2. IsFiniteSet(kept \cup {e}) /\ kept \cup {e} \in SUBSET Entries
      BY <1>2, FS_Subset, FS_AddElement
    <2>3. zset'[i] = kept \cup {e} /\ \A k \in Identities : k # i => zset'[k] = zset[k]
      BY <1>1, <2>1
    <2> QED
      BY <1>1, <1>3, <2>1, <2>2, <2>3
  <1>4. CASE /\ Cardinality(entries) >= Limit[i]
             /\ zset' = [zset EXCEPT ![i] = entries] /\ expireAt' = expireAt
    BY <1>1, <1>2, <1>4
  <1> QED
    BY <1>3, <1>4 DEF ScriptOutcome

\* The history of i is as it was, or one admission longer if there was room.
Extends(i, entries) ==
    \/ admitted' = admitted
    \/ /\ Cardinality(entries) < Limit[i]
       /\ admitted' = [admitted EXCEPT ![i] = Append(@, now)]

LEMMA HistoryTypes ==
    ASSUME TypeOK, NEW i \in Identities, NEW entries, Extends(i, entries)
    PROVE  /\ admitted' \in [Identities -> Seq(Nat)]
           /\ admitted'[i] \in Seq(Nat)
           /\ \A k \in Identities : k # i => admitted'[k] = admitted[k]
  <1>1. admitted \in [Identities -> Seq(Nat)] /\ now \in Nat
    BY DEF TypeOK
  <1>2. CASE admitted' = admitted
    BY <1>1, <1>2
  <1>3. CASE admitted' = [admitted EXCEPT ![i] = Append(@, now)]
    BY <1>1, <1>3
  <1> QED
    BY <1>2, <1>3 DEF Extends

\* An admission that is answered is the last of its window.
LEMMA WindowGrows ==
    ASSUME IInv, NEW i \in Identities, UNCHANGED <<backend, now, base>>,
           admitted'[i] = Append(admitted[i], now),
           NEW n \in Nat, n = Len(admitted[i]) + 1
    PROVE  /\ Promise!InWindow(i, now)' \subseteq Promise!InWindow(i, now) \cup {n}
           /\ n \notin Promise!InWindow(i, now)
           /\ \A j \in Promise!InWindow(i, now) : admitted'[i][j] = admitted[i][j]
           /\ admitted'[i][n] = now
  <1>1. admitted[i] \in Seq(Nat) /\ base[i] \in Nat /\ now \in Nat
    BY DEF IInv, TypeOK
  <1>2. PICK m \in Nat, b \in Nat : m = Len(admitted[i]) /\ b = base[i]
    BY <1>1
  <1>3. /\ Len(admitted'[i]) = m + 1 /\ admitted'[i][m + 1] = now /\ n = m + 1
        /\ \A j \in 1..m : admitted'[i][j] = admitted[i][j]
    BY <1>1, <1>2
  <1>4. PromisedSpan' = PromisedSpan
    BY DEF PromisedSpan
  <1>5. \A j \in (b + 1)..(m + 1) : j # m + 1 => j \in (b + 1)..m /\ j \in 1..m
    OBVIOUS
  <1>6. \A j \in (b + 1)..m : j \in 1..m /\ j # m + 1
    OBVIOUS
  <1> DEFINE Within(times, j) == now - PromisedSpan < times[j] /\ times[j] <= now
  <1>7. /\ Promise!InWindow(i, now) = {j \in (b + 1)..m : Within(admitted[i], j)}
        /\ Promise!InWindow(i, now)' = {j \in (b + 1)..(m + 1) : Within(admitted'[i], j)}
    BY <1>2, <1>3, <1>4 DEF Promise!InWindow
  <1>8. \A j \in 1..m : Within(admitted'[i], j) <=> Within(admitted[i], j)
    BY <1>3
  <1> HIDE DEF Within
  <1> QED
    BY <1>3, <1>5, <1>6, <1>7, <1>8
LEMMA SetSize ==
    ASSUME IInv, NEW c \in Calls, InFlight(c), NEW i, NEW entries, NEW e,
           ScriptOutcome(c, i, entries, e)
    PROVE  Cardinality(zset'[i]) <= Limit[i]
  <1>1. /\ i \in Identities /\ Limit[i] \in Nat /\ backend = "redis"
        /\ IsFiniteSet(zset[i]) /\ Cardinality(zset[i]) <= Limit[i]
    BY CallTypes DEF ScriptOutcome, IInv, TypeOK, InTransit, SetHolds
  <1>2. IsFiniteSet(entries) /\ entries \subseteq zset[i]
    BY DEF ScriptOutcome
  <1>3. Cardinality(entries) \in Nat /\ Cardinality(zset[i]) \in Nat
    BY <1>1, <1>2, FS_CardinalityType
  <1>4. ASSUME NEW kept \in SUBSET entries, zset'[i] = kept \cup {e},
               Cardinality(entries) < Limit[i]
        PROVE  Cardinality(zset'[i]) <= Limit[i]
    <2>1. IsFiniteSet(kept) /\ Cardinality(kept) <= Cardinality(entries)
      BY <1>2, FS_Subset
    <2>2. Cardinality(kept) \in Nat
      BY <2>1, FS_CardinalityType
    <2>3. \/ Cardinality(kept \cup {e}) = Cardinality(kept)
          \/ Cardinality(kept \cup {e}) = Cardinality(kept) + 1
      BY <2>1, FS_AddElement
    <2> QED
      BY <1>1, <1>3, <1>4, <2>1, <2>2, <2>3
  <1>5. Cardinality(entries) <= Cardinality(zset[i])
    BY <1>1, <1>2, FS_Subset
  <1>6. zset'[i] = entries => Cardinality(zset'[i]) <= Limit[i]
    BY <1>1, <1>3, <1>5
  <1> QED
    BY <1>4, <1>6, ScriptTypes DEF IInv

\* EXPIRE is behind every entry and every admission of the set.
LEMMA SetLapses ==
    ASSUME IInv, NEW c \in Calls, InFlight(c), NEW i, NEW entries, NEW e,
           ScriptOutcome(c, i, entries, e),
           Extends(i, entries), Times', UNCHANGED <<now, base>>
    PROVE  /\ expireAt'[i] <= now + Window
           /\ \A x \in zset'[i] : x.score - Skew + Window <= expireAt'[i]
           /\ \A j \in (base[i] + 1)..Len(admitted'[i]) :
                 admitted'[i][j] + Window <= expireAt'[i]
  <1>1. /\ i \in Identities /\ backend = "redis" /\ now \in Nat /\ base[i] \in Nat
        /\ Window \in Nat /\ Skew \in Nat /\ expireAt[i] \in Nat
        /\ call[c].stamp \in Int /\ zset[i] \subseteq Entries /\ Limit[i] \in Nat
        /\ call[c].sent \in Nat
    BY CallTypes, LimiterAssumption
       DEF ScriptOutcome, IInv, TypeOK, InTransit, Entries, LimiterAssumption
  <1>2. /\ expireAt[i] <= now + Window
        /\ \A x \in zset[i] : x.score - Skew + Window <= expireAt[i]
        /\ \A j \in (base[i] + 1)..Len(admitted[i]) : admitted[i][j] + Window <= expireAt[i]
    BY <1>1 DEF IInv, SetHolds
  <1>3. entries \subseteq zset[i] /\ e.score = call[c].stamp /\ IsFiniteSet(entries)
    BY DEF ScriptOutcome
  <1>4. CASE /\ expireAt'[i] = now + Window
             /\ \E kept \in SUBSET entries : zset'[i] = kept \cup {e}
    <2>1. call[c].stamp <= now + Skew
      BY <1>1 DEF IInv, InTransit
    <2>2. \A x \in zset'[i] : x = e \/ x \in zset[i]
      BY <1>3, <1>4
    <2>3. e.score - Skew + Window <= now + Window
      BY <1>1, <1>3, <2>1
    <2>4. \A x \in zset[i] : x.score \in Int
      BY <1>1 DEF Entries
    <2>5. \A x \in zset[i] : x.score - Skew + Window <= now + Window
      BY <1>1, <1>2, <2>4
    <2>6. admitted'[i] \in Seq(Nat)
      BY <1>1, HistoryTypes DEF IInv
    <2>7. ASSUME NEW j \in (base[i] + 1)..Len(admitted'[i])
          PROVE  admitted'[i][j] + Window <= now + Window
      <3>1. j \in 1..Len(admitted'[i])
        BY <1>1, <2>6
      <3>2. admitted'[i][j] \in Nat /\ admitted'[i][j] <= now
        BY <1>1, <2>6, <3>1 DEF Times
      <3> QED
        BY <1>1, <3>2
    <2> QED
      BY <1>1, <1>4, <2>2, <2>3, <2>5, <2>7
  <1>5. CASE /\ expireAt'[i] = expireAt[i] /\ zset'[i] = entries
             /\ Cardinality(entries) >= Limit[i]
    <2>1. admitted' = admitted
      <3>1. Cardinality(entries) \in Nat
        BY <1>3, FS_CardinalityType
      <3> QED
        BY <1>1, <1>5, <3>1 DEF Extends
    <2> QED
      BY <1>2, <1>3, <1>5, <2>1
  <1>6. TypeOK
    BY DEF IInv
  <1>7. \/ /\ expireAt'[i] = now + Window
           /\ \E kept \in SUBSET entries : zset'[i] = kept \cup {e}
        \/ /\ expireAt'[i] = expireAt[i] /\ zset'[i] = entries
           /\ Cardinality(entries) >= Limit[i]
    BY <1>6, ScriptTypes
  <1> QED
    BY <1>4, <1>5, <1>7

\* The window is still backed, with the new entry behind a new admission.
LEMMA SetBacks ==
    ASSUME IInv, NEW c \in Calls, InFlight(c), NEW i, NEW entries, NEW e,
           ScriptOutcome(c, i, entries, e),
           Extends(i, entries), UNCHANGED <<backend, now, base>>, RandomFresh
    PROVE  \E f : Backs(f, Promise!InWindow(i, now)', admitted'[i], zset'[i])
  <1> DEFINE W == Promise!InWindow(i, now)
  <1>1. i \in Identities /\ backend = "redis" /\ Limit[i] \in Nat
    BY CallTypes DEF ScriptOutcome, IInv, InTransit
  <1>2. PICK f : Backs(f, W, admitted[i], zset[i])
    BY <1>1 DEF IInv, SetHolds
  <1>3. \A j \in W : f[j] \in entries
    BY <1>2, WindowSurvives
  <1>4. PICK g : Backs(g, W, admitted[i], entries)
    BY <1>2, <1>3, BacksLess
  <1>5. e \notin entries /\ Cardinality(entries) \in Nat
    BY FS_CardinalityType DEF ScriptOutcome
  <1>6. /\ Cardinality(entries) < Limit[i] => zset'[i] = entries \cup {e}
        /\ ~(Cardinality(entries) < Limit[i]) => zset'[i] = entries
    BY <1>1, <1>5, ScriptTypes DEF IInv
  <1>7. zset'[i] \in {entries, entries \cup {e}}
    BY <1>6
  <1>8. CASE admitted' = admitted
    <2>1. W' = W
      BY <1>8 DEF Promise!InWindow, PromisedSpan
    <2>2. \A j \in W : g[j] \in zset'[i]
      BY <1>4, <1>7 DEF Backs, Injection
    <2> QED
      BY <1>4, <1>8, <2>1, <2>2, BacksLess
  <1>9. CASE /\ Cardinality(entries) < Limit[i]
             /\ admitted' = [admitted EXCEPT ![i] = Append(@, now)]
    <2>1. PICK n \in Nat : n = Len(admitted[i]) + 1
      BY <1>1 DEF IInv, TypeOK
    <2>2. admitted'[i] = Append(admitted[i], now)
      BY <1>1, <1>9 DEF IInv, TypeOK
    <2>3. /\ W' \subseteq W \cup {n} /\ n \notin W /\ admitted'[i][n] = now
          /\ \A j \in W : admitted'[i][j] = admitted[i][j]
      BY <1>1, <2>1, <2>2, WindowGrows, ZenonT(60)
    <2>4. now - MaxDelay - Skew <= e.score
      <3>1. /\ call[c].stamp \in Int /\ call[c].sent \in Nat /\ now \in Nat
            /\ Skew \in Nat /\ MaxDelay \in Nat
        BY CallTypes, LimiterAssumption DEF IInv, TypeOK, LimiterAssumption
      <3>2. /\ now <= call[c].sent + MaxDelay /\ call[c].sent - Skew <= call[c].stamp
            /\ e.score = call[c].stamp
        BY DEF IInv, InTransit, ScriptOutcome
      <3> QED
        BY <3>1, <3>2
    <2>5. PICK h : Backs(h, W \cup {n}, admitted'[i], entries \cup {e})
      <3>1. admitted'[i][n] - MaxDelay - Skew <= e.score
        BY <2>3, <2>4
      <3>2. e \notin entries
        BY <1>5
      <3> HIDE DEF W
      <3> QED
        BY <1>4, <2>3, <3>1, <3>2, BacksMore
    <2>6. zset'[i] = entries \cup {e}
      BY <1>6, <1>9
    <2>7. \A j \in W' : h[j] \in zset'[i]
      BY <2>3, <2>5, <2>6 DEF Backs, Injection
    <2> QED
      BY <2>3, <2>5, <2>7, BacksLess
  <1> QED
    BY <1>8, <1>9 DEF Extends

LEMMA SetAfter ==
    ASSUME IInv, NEW c \in Calls, InFlight(c), NEW i, NEW entries, NEW e,
           ScriptOutcome(c, i, entries, e),
           Extends(i, entries), Times', UNCHANGED <<backend, now, base>>,
           admitted' \in [Identities -> Seq(Nat)]
    PROVE  SetHolds'
  <1>1. i \in Identities
    BY CallTypes DEF ScriptOutcome, IInv
  <1> SUFFICES ASSUME NEW k \in Identities, backend = "redis"
               PROVE  /\ Cardinality(zset'[k]) <= Limit[k]
                      /\ expireAt'[k] <= now + Window
                      /\ \A x \in zset'[k] : x.score - Skew + Window <= expireAt'[k]
                      /\ \A j \in (base[k] + 1)..Len(admitted'[k]) :
                            admitted'[k][j] + Window <= expireAt'[k]
                      /\ RandomFresh =>
                            \E f : Backs(f, Promise!InWindow(k, now)', admitted'[k], zset'[k])
    BY DEF SetHolds
  <1>2. CASE k = i
    BY <1>1, <1>2, SetSize, SetLapses, SetBacks
  <1>3. CASE k # i
    <2>1. zset'[k] = zset[k] /\ expireAt'[k] = expireAt[k]
      BY <1>3, ScriptTypes DEF IInv
    <2>2. admitted'[k] = admitted[k]
      BY <1>1, <1>3 DEF Extends, IInv, TypeOK
    <2>3. Promise!InWindow(k, now)' = Promise!InWindow(k, now)
      BY <2>2 DEF Promise!InWindow, PromisedSpan
    <2> QED
      BY <2>1, <2>2, <2>3 DEF IInv, SetHolds
  <1> QED
    BY <1>2, <1>3
----------------------------------------------------------------------------

LEMMA LeastExists ==
    ASSUME NEW T \in SUBSET (Nat \ {0}), NEW n \in T
    PROVE  \E m \in T : \A k \in T : m <= k
  <1> DEFINE q == [k \in 1..n |-> IF k \in T THEN 1 ELSE 0]
  <1>1. n \in Nat /\ n > 0
    OBVIOUS
  <1>2. q \in Seq(Int) /\ Len(q) = n
    <2>1. q \in [1..n -> Int] /\ DOMAIN q = 1..n
      OBVIOUS
    <2> HIDE DEF q
    <2> QED
      BY <1>1, <2>1
  <1>3. \A k \in 1..n : q[k] = IF k \in T THEN 1 ELSE 0
    OBVIOUS
  <1> HIDE DEF q
  <1>4. PICK p \in Int : p = PopCount(q, 1)
    BY <1>2, PopCountBound
  <1>5. /\ p \in 0..n /\ \A k \in 1..p : q[k] < 1
        /\ p < n => q[p + 1] >= 1
    <2>1. /\ p \in 0..Len(q) /\ \A k \in 1..p : q[k] < 1
          /\ p < Len(q) => q[p + 1] >= 1
      <3>1. q \in Seq(Int) /\ 1 \in Int
        BY <1>2
      <3> QED
        BY <1>4, <3>1, PopCountExact, Zenon
    <2> QED
      BY <1>2, <2>1
  <1>6. p < n
    <2>1. q[n] = 1
      BY <1>1, <1>3
    <2>2. p = n => q[n] < 1
      BY <1>1, <1>5
    <2> QED
      BY <1>1, <1>5, <2>1, <2>2
  <1>7. p + 1 \in T
    BY <1>1, <1>3, <1>5, <1>6
  <1>8. \A k \in 1..p : k \notin T
    BY <1>1, <1>3, <1>5, <1>6
  <1>9. \A k \in T : p + 1 <= k
    BY <1>5, <1>8
  <1> QED
    BY <1>7, <1>9

\* A set of scores that are later than some time has an oldest one.
LEMMA OldestExists ==
    ASSUME NEW entries, entries \subseteq Entries, entries # {},
           NEW start \in Int, \A x \in entries : x.score > start
    PROVE  /\ Oldest(entries) \in Int /\ Oldest(entries) > start
           /\ \E x \in entries : x.score = Oldest(entries)
           /\ \A x \in entries : Oldest(entries) <= x.score
  <1> DEFINE ages == {n \in Nat \ {0} : \E x \in entries : x.score = start + n}
  <1>1. ages \in SUBSET (Nat \ {0})
    OBVIOUS
  <1>2. \A x \in entries : x.score \in Int
    BY DEF Entries
  <1>3. ASSUME NEW x \in entries
        PROVE  \E n \in ages : x.score = start + n
    <2>1. PICK v \in Int : v = x.score
      BY <1>2
    <2>2. v - start \in Nat \ {0} /\ v = start + (v - start)
      BY <2>1
    <2> QED
      BY <2>1, <2>2
  <1>4. PICK n \in ages : \A m \in ages : n <= m
    <2>1. \E m : m \in ages
      BY <1>3
    <2> QED
      BY <1>1, <2>1, LeastExists
  <1>5. PICK x \in entries : x.score = start + n
    BY <1>4
  <1>6. \A y \in entries : x.score <= y.score
    <2> TAKE y \in entries
    <2>1. PICK m \in ages : y.score = start + m
      BY <1>3
    <2>2. n <= m /\ n \in Nat /\ m \in Nat
      BY <1>1, <1>4
    <2>3. start + n <= start + m
      BY <2>2
    <2> QED
      BY <1>5, <2>1, <2>3
  <1> HIDE DEF ages
  <1>7. PICK z \in entries : /\ \A y \in entries : z.score <= y.score
                             /\ Oldest(entries) = z.score
    BY <1>6 DEF Oldest
  <1> QED
    BY <1>2, <1>7

\* Nothing that the script of a call does concerns the in-process back end or
\* the answers of the other identities.
LEMMA OtherAnswers ==
    ASSUME IInv, NEW c \in Calls, InFlight(c), NEW i, NEW entries, NEW e,
           ScriptOutcome(c, i, entries, e), backend' = backend, hits' = hits,
           NEW k \in Identities, k # i, answer'[k] = answer[k], ~answer'[k].allowed
    PROVE  \E o, s \in Int : Stands(k, o, s)'
  <1>1. PICK o \in Int, s \in Int : Stands(k, o, s)
    BY DEF IInv, AnswerStands
  <1>2. zset'[k] = zset[k]
    BY ScriptTypes DEF IInv
  <1>3. Stands(k, o, s)'
    BY <1>1, <1>2 DEF Stands
  <1> QED
    BY <1>3

LEMMA InvAdmitted ==
    ASSUME IInv, NEW c \in Calls, InFlight(c), NEW i, NEW entries, NEW e,
           ScriptOutcome(c, i, entries, e), Cardinality(entries) < Limit[i],
           call' = [call EXCEPT ![c] = NoCall], Admitted(i),
           UNCHANGED <<backend, now, hits, losses, base>>
    PROVE  IInv'
  <1>1. i \in Identities /\ backend = "redis"
    BY CallTypes DEF ScriptOutcome, IInv, InTransit
  <1>2. /\ answer' \in [Identities -> Kinds] /\ answer'[i] = Allowed
        /\ admitted' \in [Identities -> Seq(Nat)]
        /\ \A k \in Identities : k # i => answer'[k] = answer[k]
        /\ Times'
    BY <1>1, AdmittedTypes
  <1>3. /\ zset' \in [Identities -> SUBSET Entries] /\ expireAt' \in [Identities -> Nat]
        /\ \A k \in Identities : IsFiniteSet(zset'[k])
    BY ScriptTypes DEF IInv
  <1>4. /\ InTransit'
        /\ call' \in [Calls -> {NoCall} \cup [identity : Identities, stamp : Int, sent : Nat]]
    BY EndTransit
  <1>5. TypeOK'
    BY <1>2, <1>3, <1>4 DEF IInv, TypeOK, Kinds, Entries
  <1>6. SetHolds'
    <2>1. Extends(i, entries)
      BY DEF Extends, Admitted
    <2> QED
      BY <1>2, <2>1, SetAfter
  <1>7. DequeHolds'
    BY <1>1 DEF DequeHolds
  <1>8. AnswerStands'
    <2> SUFFICES ASSUME NEW k \in Identities, ~answer'[k].allowed
                 PROVE  \E o, s \in Int : Stands(k, o, s)'
      BY DEF AnswerStands
    <2>1. k # i
      BY <1>2 DEF Allowed
    <2> QED
      BY <1>2, <2>1, OtherAnswers
  <1> QED
    BY <1>2, <1>4, <1>5, <1>6, <1>7, <1>8 DEF IInv

\* The script ran, but its caller has no answer.
LEMMA InvUnanswered ==
    ASSUME IInv, NEW c \in Calls, InFlight(c), NEW i, NEW entries, NEW e,
           ScriptOutcome(c, i, entries, e), call' = [call EXCEPT ![c] = NoCall],
           answer' = [answer EXCEPT ![i] = Allowed],
           UNCHANGED <<backend, now, hits, losses, admitted, base>>
    PROVE  IInv'
  <1>1. i \in Identities /\ backend = "redis"
    BY CallTypes DEF ScriptOutcome, IInv, InTransit
  <1>2. /\ answer' \in [Identities -> Kinds] /\ answer'[i] = Allowed
        /\ \A k \in Identities : k # i => answer'[k] = answer[k]
    <2>1. Allowed \in Kinds
      BY DEF Allowed, Kinds
    <2>2. answer \in [Identities -> Kinds]
      BY DEF IInv, TypeOK, Kinds
    <2> QED
      BY <1>1, <2>1, <2>2
  <1>3. /\ zset' \in [Identities -> SUBSET Entries] /\ expireAt' \in [Identities -> Nat]
        /\ \A k \in Identities : IsFiniteSet(zset'[k])
    BY ScriptTypes DEF IInv
  <1>4. /\ InTransit'
        /\ call' \in [Calls -> {NoCall} \cup [identity : Identities, stamp : Int, sent : Nat]]
    BY EndTransit
  <1>5. TypeOK'
    BY <1>2, <1>3, <1>4 DEF IInv, TypeOK, Kinds, Entries
  <1>6. Times'
    BY DEF IInv, Times
  <1>7. SetHolds'
    <2>1. Extends(i, entries) /\ admitted' \in [Identities -> Seq(Nat)]
      BY DEF Extends, IInv, TypeOK
    <2> QED
      BY <1>6, <2>1, SetAfter
  <1>8. DequeHolds'
    BY <1>1 DEF DequeHolds
  <1>9. AnswerStands'
    <2> SUFFICES ASSUME NEW k \in Identities, ~answer'[k].allowed
                 PROVE  \E o, s \in Int : Stands(k, o, s)'
      BY DEF AnswerStands
    <2>1. k # i
      BY <1>2 DEF Allowed
    <2> QED
      BY <1>2, <2>1, OtherAnswers
  <1> QED
    BY <1>4, <1>5, <1>6, <1>7, <1>8, <1>9 DEF IInv
LEMMA InvDenied ==
    ASSUME IInv, NEW c \in Calls, InFlight(c), NEW i, NEW entries, NEW e,
           ScriptOutcome(c, i, entries, e), Cardinality(entries) >= Limit[i],
           call' = [call EXCEPT ![c] = NoCall],
           NEW s, s = call[c].stamp,
           Denied(i, Ceiling(Oldest(entries) + Window - s, Second)),
           UNCHANGED <<backend, now, hits, losses, base>>
    PROVE  IInv'
  <1>1. /\ i \in Identities /\ backend = "redis" /\ s \in Int /\ call[c].sent \in Nat
        /\ now \in Nat /\ IsFiniteSet(zset[i]) /\ Cardinality(zset[i]) <= Limit[i]
    <2>1. i \in Identities /\ backend = "redis" /\ s \in Int /\ call[c].sent \in Nat
      BY CallTypes DEF ScriptOutcome, IInv, InTransit
    <2> QED
      BY <2>1 DEF IInv, TypeOK, SetHolds
  <1>2. /\ Window \in Nat /\ Second \in Nat \ {0} /\ Limit[i] \in Nat \ {0}
        /\ Skew \in Nat /\ MaxDelay \in Nat
    BY <1>1, LimiterAssumption DEF LimiterAssumption
  <1>3. /\ entries \subseteq zset[i] /\ entries \subseteq Entries /\ IsFiniteSet(entries)
        /\ \A x \in entries : x.score > s - Window
    BY DEF ScriptOutcome
  <1>4. Cardinality(entries) = Limit[i] /\ entries # {}
    <2>1. Cardinality(entries) \in Nat /\ Cardinality(zset[i]) \in Nat
      BY <1>1, <1>3, FS_CardinalityType
    <2>2. Cardinality(entries) <= Cardinality(zset[i])
      BY <1>1, <1>3, FS_Subset
    <2>3. Cardinality(entries) = Limit[i]
      BY <1>1, <1>2, <2>1, <2>2
    <2> QED
      BY <1>2, <2>3, FS_EmptySet
  <1>5. PICK o \in Int : /\ o = Oldest(entries) /\ o > s - Window
                         /\ \E x \in entries : x.score = o
                         /\ \A x \in entries : o <= x.score
    <2>1. s - Window \in Int
      BY <1>1, <1>2
    <2> QED
      BY <1>3, <1>4, <2>1, OldestExists
  <1>6. PICK a \in Nat : a = o + Window - s
    BY <1>1, <1>2, <1>5
  <1>7. PICK r \in Nat : r = Ceiling(a, Second)
    BY <1>2, CeilingRounds
  <1>8. r * Second \in Int /\ r * Second - Second < a /\ a <= r * Second
    BY <1>2, <1>7, CeilingRounds
  <1>9. Denied(i, r)
    BY <1>5, <1>6, <1>7
  <1>10. /\ answer' \in [Identities -> Kinds]
         /\ answer'[i] = [allowed |-> FALSE, retry_after |-> r, at |-> now]
         /\ \A k \in Identities : k # i => answer'[k] = answer[k]
         /\ admitted' = admitted /\ admitted' \in [Identities -> Seq(Nat)]
         /\ Times'
    BY <1>1, <1>9, DeniedTypes
  <1>11. /\ zset' \in [Identities -> SUBSET Entries] /\ expireAt' \in [Identities -> Nat]
         /\ \A k \in Identities : IsFiniteSet(zset'[k])
    BY ScriptTypes DEF IInv
  <1>12. zset'[i] = entries
    <2>1. ~(Cardinality(entries) < Limit[i])
      BY <1>2, <1>4
    <2> QED
      BY <2>1, ScriptTypes DEF IInv
  <1>13. /\ InTransit'
         /\ call' \in [Calls -> {NoCall} \cup [identity : Identities, stamp : Int, sent : Nat]]
    BY EndTransit
  <1>14. TypeOK'
    BY <1>10, <1>11, <1>13 DEF IInv, TypeOK, Kinds, Entries
  <1>15. SetHolds'
    <2>1. Extends(i, entries)
      BY <1>10 DEF Extends
    <2> QED
      BY <1>10, <2>1, SetAfter
  <1>16. DequeHolds'
    BY <1>1 DEF DequeHolds
  <1>17. Stands(i, o, s)'
    <2>1. now - MaxDelay - Skew <= s /\ s <= now + Skew
      <3>1. /\ call[c].sent <= now /\ now <= call[c].sent + MaxDelay
            /\ call[c].sent - Skew <= s /\ s <= call[c].sent + Skew
        BY DEF IInv, InTransit
      <3> QED
        BY <1>1, <1>2, <3>1
    <2>2. r * Second - Second < o + Window - s /\ o + Window - s <= r * Second
      BY <1>6, <1>8
    <2> QED
      BY <1>1, <1>4, <1>5, <1>10, <1>12, <2>1, <2>2 DEF Stands
  <1>18. AnswerStands'
    <2> SUFFICES ASSUME NEW k \in Identities, ~answer'[k].allowed
                 PROVE  \E x, y \in Int : Stands(k, x, y)'
      BY DEF AnswerStands
    <2>1. CASE k = i
      BY <1>1, <1>17, <2>1
    <2>2. CASE k # i
      BY <1>10, <2>2, OtherAnswers
    <2> QED
      BY <2>1, <2>2
  <1> QED
    BY <1>10, <1>13, <1>14, <1>15, <1>16, <1>18 DEF IInv

LEMMA InvEval == ASSUME IInv, NEW c \in Calls, Eval(c) PROVE IInv'
  <1> DEFINE i == call[c].identity
             s == call[c].stamp
             entries == Survivors(i, s)
  <1>1. /\ InFlight(c) /\ Script(c, entries) /\ call' = [call EXCEPT ![c] = NoCall]
        /\ UNCHANGED <<backend, now, hits, losses, base>>
    BY DEF Eval
  <1>2. PICK e : ScriptOutcome(c, i, entries, e)
    BY <1>1, ScriptStep DEF IInv
  <1>3. CASE Cardinality(entries) < Limit[i]
    <2>1. Admitted(i)
      BY <1>3 DEF Eval, Room
    <2> HIDE DEF i, s, entries
    <2> QED
      BY <1>1, <1>2, <1>3, <2>1, InvAdmitted
  <1>4. CASE ~(Cardinality(entries) < Limit[i])
    <2>1. Denied(i, Ceiling(Oldest(entries) + Window - s, Second))
      BY <1>4 DEF Eval, Room
    <2>2. Cardinality(entries) >= Limit[i]
      BY <1>2, <1>4 DEF ScriptOutcome
    <2>3. s = call[c].stamp
      OBVIOUS
    <2> HIDE DEF i, s, entries
    <2> QED
      BY <1>1, <1>2, <2>1, <2>2, <2>3, InvDenied
  <1> QED
    BY <1>3, <1>4

LEMMA InvEvalUnanswered == ASSUME IInv, NEW c \in Calls, EvalUnanswered(c) PROVE IInv'
  <1> DEFINE i == call[c].identity
             entries == Survivors(i, call[c].stamp)
  <1>1. /\ InFlight(c) /\ Script(c, entries) /\ call' = [call EXCEPT ![c] = NoCall]
        /\ answer' = [answer EXCEPT ![i] = Allowed]
        /\ UNCHANGED <<backend, now, hits, losses, admitted, base>>
    BY DEF EvalUnanswered
  <1>2. PICK e : ScriptOutcome(c, i, entries, e)
    BY <1>1, ScriptStep DEF IInv
  <1> HIDE DEF i, entries
  <1> QED
    BY <1>1, <1>2, InvUnanswered

LEMMA InvStutter == ASSUME IInv, UNCHANGED vars PROVE IInv'
  <1>1. /\ UNCHANGED <<backend, now, hits, zset, expireAt, answer, admitted, base>>
        /\ call' = call /\ losses' = losses
    BY DEF vars
  <1>2. TypeOK' /\ InTransit'
    BY <1>1 DEF IInv, TypeOK, InTransit, InFlight
  <1> QED
    BY <1>1, <1>2, InvStores DEF IInv

LEMMA InvNext == IInv /\ [Next]_vars => IInv'
  <1> SUFFICES ASSUME IInv, [Next]_vars PROVE IInv'
    OBVIOUS
  <1>1. CASE Tick
    BY <1>1, InvTick
  <1>2. CASE Lose
    BY <1>2, InvLose
  <1>3. CASE \E i \in Identities, t \in Clock : CheckMemory(i, t)
    BY <1>3, InvCheckMemory
  <1>4. CASE \E c \in Calls : \E i \in Identities : ReadClock(c, i)
    BY <1>4, InvReadClock
  <1>5. CASE \E c \in Calls : Fail(c)
    BY <1>5, InvFail
  <1>6. CASE \E c \in Calls : Eval(c)
    BY <1>6, InvEval
  <1>7. CASE \E c \in Calls : EvalUnanswered(c)
    BY <1>7, InvEvalUnanswered
  <1>8. CASE UNCHANGED vars
    BY <1>8, InvStutter
  <1> QED
    BY <1>1, <1>2, <1>3, <1>4, <1>5, <1>6, <1>7, <1>8 DEF Next

\* What the stores hold is tied to the admissions and to the answers given.
THEOREM Invariant == Spec => []IInv
  BY InvInit, InvNext, PTL DEF Spec

\* Every variable of the limiter has the values the program can give it.
THEOREM TypeCorrect == Spec => []TypeOK
  <1>1. IInv => TypeOK
    BY DEF IInv
  <1> QED
    BY <1>1, Invariant, PTL
----------------------------------------------------------------------------
(* Retry-After *)

LEMMA Seconds ==
    ASSUME NEW r \in Nat
    PROVE  /\ r * Second \in Nat /\ (r - 1) * Second \in Int
           /\ (r - 1) * Second = r * Second - Second
  <1>1. PICK n \in Nat : n = Second
    BY LimiterAssumption DEF LimiterAssumption
  <1>2. r * n \in Nat /\ (r - 1) * n \in Int /\ (r - 1) * n = r * n - n
    OBVIOUS
  <1> QED
    BY <1>1, <1>2

\* A purge shortens a deque if its head is older than the window.
LEMMA HeadGoes ==
    ASSUME NEW q \in Seq(Int), q # <<>>, NEW start \in Int
    PROVE  Len(Purge(q, start)) < Len(q) <=> q[1] < start
  <1> DEFINE rest == Purge(q, start)
  <1>1. PICK p \in 0..Len(q) :
              /\ rest \in Seq(Int) /\ Len(rest) = Len(q) - p
              /\ \A k \in 1..Len(rest) : rest[k] = q[p + k]
              /\ \A k \in 1..p : q[k] < start
              /\ rest # <<>> => rest[1] >= start
    BY PurgeExact
  <1> SUFFICES Len(rest) < Len(q) <=> q[1] < start
    OBVIOUS
  <1> HIDE DEF rest
  <1>2. PICK n \in Nat, m \in Nat : n = Len(q) /\ m = Len(rest)
    BY <1>1
  <1>3. p \in 0..n /\ m = n - p /\ n > 0 /\ q[1] \in Int
    <2>1. Len(q) # 0 /\ q[1] \in Int
      OBVIOUS
    <2> QED
      BY <1>1, <1>2, <2>1
  <1>4. CASE p = 0
    <2>1. m = n /\ 1 \in 1..m /\ p + 1 = 1
      BY <1>3, <1>4
    <2>2. rest # <<>>
      <3>1. Len(rest) # 0
        BY <1>2, <1>3, <2>1
      <3> QED
        BY <3>1
    <2>3. rest[1] = q[1] /\ rest[1] >= start
      BY <1>1, <1>2, <2>1, <2>2
    <2>4. ~(m < n) /\ ~(q[1] < start)
      BY <1>3, <2>1, <2>3
    <2> QED
      BY <1>2, <2>4
  <1>5. CASE p # 0
    <2>1. m < n /\ 1 \in 1..p
      BY <1>3, <1>5
    <2>2. q[1] < start
      BY <1>1, <2>1
    <2> QED
      BY <1>2, <2>1, <2>2
  <1> QED
    BY <1>4, <1>5

\* A full deque has room again when its head is purged, and not before.
LEMMA DequeFrees ==
    ASSUME IInv, backend = "memory", NEW i \in Identities, NEW t \in Clock,
           Len(hits[i]) = Limit[i]
    PROVE  Room(Load(i, t), i) <=> hits[i][1] < t - Window
  <1>1. hits[i] \in Seq(Int) /\ hits[i] # <<>> /\ t - Window \in Int
    <2>1. t \in Int
      BY ClockNear DEF IInv
    <2>2. Limit[i] # 0
      BY LimiterAssumption DEF LimiterAssumption
    <2> QED
      BY <2>1, <2>2, LimiterAssumption DEF IInv, TypeOK, LimiterAssumption
  <1>2. Len(Keep(i, t)) < Len(hits[i]) <=> hits[i][1] < t - Window
    BY <1>1, HeadGoes DEF Keep
  <1>3. Load(i, t) = Len(Keep(i, t))
    BY DEF Load
  <1> QED
    BY <1>2, <1>3, Zenon DEF Room

\* A full sorted set has room again when an entry of it is purged, ...
LEMMA SetFrees ==
    ASSUME IInv, backend = "redis", NEW i \in Identities, NEW t \in Clock,
           Cardinality(zset[i]) = Limit[i],
           NEW x \in zset[i], x.score <= t - Window
    PROVE  Room(Load(i, t), i)
  <1>1. /\ IsFiniteSet(zset[i]) /\ Limit[i] \in Nat /\ t - Window \in Int
        /\ x.score \in Int
    <2>1. t \in Int
      BY ClockNear DEF IInv
    <2>2. zset[i] \subseteq Entries
      BY DEF IInv, TypeOK, Entries
    <2> QED
      BY <2>1, <2>2, LimiterAssumption DEF IInv, TypeOK, LimiterAssumption, Entries
  <1>2. Survivors(i, t) \subseteq zset[i] \ {x}
    BY <1>1 DEF Survivors, Stored
  <1>3. /\ IsFiniteSet(zset[i] \ {x})
        /\ Cardinality(zset[i] \ {x}) = Cardinality(zset[i]) - 1
    BY <1>1, FS_RemoveElement
  <1>4. /\ Cardinality(Survivors(i, t)) <= Cardinality(zset[i] \ {x})
        /\ Cardinality(Survivors(i, t)) \in Nat
    BY <1>2, <1>3, FS_Subset, FS_CardinalityType
  <1>5. Load(i, t) = Cardinality(Survivors(i, t))
    BY DEF Load
  <1> QED
    BY <1>1, <1>3, <1>4, <1>5 DEF Room

\* ... and not before, unless it lapses.
LEMMA SetStaysFull ==
    ASSUME IInv, backend = "redis", NEW i \in Identities, NEW t \in Clock,
           Cardinality(zset[i]) = Limit[i], now < expireAt[i],
           \A x \in zset[i] : x.score > t - Window
    PROVE  ~Room(Load(i, t), i)
  <1>1. Limit[i] \in Nat /\ expireAt[i] \in Nat /\ now \in Nat
    BY LimiterAssumption DEF IInv, TypeOK, LimiterAssumption
  <1>2. Survivors(i, t) = zset[i]
    BY <1>1 DEF Survivors, Stored
  <1>3. Load(i, t) = Limit[i]
    BY <1>2 DEF Load
  <1> QED
    BY <1>1, <1>3 DEF Room

\* "seconds until a slot frees up": it suffices ...
LEMMA Suffices == IInv => RetryAfterSuffices
  <1> SUFFICES ASSUME IInv, NEW i \in Identities, ~answer[i].allowed,
                      now >= answer[i].at + answer[i].retry_after * Second + 2 * Skew,
                      NEW t \in Clock
               PROVE  Room(Load(i, t), i)
    BY DEF RetryAfterSuffices
  <1>1. answer[i].at \in Int /\ answer[i].retry_after \in Nat
    BY DEF IInv, TypeOK
  <1>2. PICK at \in Int, d \in Nat : at = answer[i].at /\ d = answer[i].retry_after * Second
    BY <1>1, Seconds
  <1>3. PICK o \in Int, s \in Int : Stands(i, o, s)
    BY DEF IInv, AnswerStands
  <1>4. /\ now \in Nat /\ Skew \in Nat /\ Window \in Nat /\ t \in Int
        /\ Second \in Nat /\ MaxDelay \in Nat
    BY ClockNear, LimiterAssumption DEF IInv, TypeOK, LimiterAssumption
  <1>5. now >= at + d + 2 * Skew /\ now - Skew <= t
    <2>1. now - Skew <= t
      BY ClockNear DEF IInv, Near
    <2> QED
      BY <1>2, <2>1
  <1>6. CASE backend = "memory"
    <2>1. /\ Len(hits[i]) = Limit[i] /\ o = hits[i][1]
          /\ s <= at + Skew /\ o + Window - s < d
      BY <1>2, <1>3, <1>6 DEF Stands
    <2>2. o < t - Window
      BY <1>4, <1>5, <2>1
    <2> QED
      BY <1>6, <2>1, <2>2, DequeFrees
  <1>7. CASE backend = "redis"
    <2>1. /\ Cardinality(zset[i]) = Limit[i] /\ \E x \in zset[i] : x.score = o
          /\ s <= at + Skew /\ o + Window - s <= d
      BY <1>2, <1>3, <1>7 DEF Stands
    <2>2. PICK x \in zset[i] : x.score = o
      BY <2>1
    <2>3. o <= t - Window
      BY <1>4, <1>5, <2>1
    <2> QED
      BY <1>7, <2>1, <2>2, <2>3, SetFrees
  <1> QED
    BY <1>6, <1>7 DEF IInv, TypeOK

LEMMA NotYet ==
    ASSUME NEW present \in Int, NEW t \in Int, NEW at \in Int, NEW d \in Int, NEW o \in Int,
           NEW s \in Int, NEW skew \in Int, NEW window \in Int, NEW second \in Int,
           t <= present + skew, present <= at + (d - second) - 2 * skew,
           at - skew <= s, d - second <= o + window - s
    PROVE  ~(o < t - window)
  <1>1. t <= at + (d - second) - skew
    OBVIOUS
  <1> QED
    BY <1>1

\* ... and is not a second too long.
LEMMA Tight == IInv => RetryAfterTight
  <1> SUFFICES ASSUME IInv, NEW i \in Identities, ~answer[i].allowed,
                      NEW delay, delay = (IF backend = "memory" THEN 0 ELSE MaxDelay),
                      now <= answer[i].at + (answer[i].retry_after - 1) * Second
                                 - 2 * Skew - delay,
                      NEW t \in Clock
               PROVE  ~Room(Load(i, t), i)
    BY DEF RetryAfterTight
  <1>1. answer[i].at \in Int /\ answer[i].retry_after \in Nat
    BY DEF IInv, TypeOK
  <1>2. PICK at \in Int, d \in Nat, u \in Int :
              /\ at = answer[i].at /\ d = answer[i].retry_after * Second
              /\ u = (answer[i].retry_after - 1) * Second
              /\ u = d - Second
    <2>1. PICK r \in Nat : r = answer[i].retry_after
      BY <1>1
    <2>2. /\ r * Second \in Nat /\ (r - 1) * Second \in Int
          /\ (r - 1) * Second = r * Second - Second
      BY Seconds
    <2> QED
      BY <1>1, <2>1, <2>2
  <1>3. u = d - Second
    BY <1>2
  <1>4. PICK o \in Int, s \in Int : Stands(i, o, s)
    BY DEF IInv, AnswerStands
  <1>5. /\ now \in Nat /\ Skew \in Nat /\ Window \in Nat /\ t \in Int
        /\ Second \in Nat /\ MaxDelay \in Nat
    BY ClockNear, LimiterAssumption DEF IInv, TypeOK, LimiterAssumption
  <1>6. t <= now + Skew
    BY ClockNear DEF IInv, Near
  <1>7. CASE backend = "memory"
    <2>1. now <= at + u - 2 * Skew
      BY <1>2, <1>5, <1>7
    <2>2. /\ Len(hits[i]) = Limit[i] /\ o = hits[i][1]
          /\ at - Skew <= s /\ d - Second <= o + Window - s
      BY <1>2, <1>4, <1>7 DEF Stands
    <2>3. ~(o < t - Window)
      <3>1. now <= at + (d - Second) - 2 * Skew
        BY <1>3, <2>1
      <3>2. now \in Int /\ d \in Int /\ Skew \in Int /\ Window \in Int /\ Second \in Int
        BY <1>5
      <3> QED
        BY <1>5, <1>6, <2>2, <3>1, <3>2, NotYet
    <2> QED
      BY <1>7, <2>2, <2>3, DequeFrees
  <1>8. CASE backend = "redis"
    <2>1. now <= at + u - 2 * Skew - MaxDelay
      BY <1>2, <1>8
    <2>2. /\ Cardinality(zset[i]) = Limit[i]
          /\ \E x \in zset[i] : x.score = o
          /\ \A x \in zset[i] : o <= x.score
          /\ at - MaxDelay - Skew <= s /\ d - Second < o + Window - s
      BY <1>2, <1>4, <1>8 DEF Stands
    <2>3. o > t - Window /\ now < o - Skew + Window
      BY <1>3, <1>5, <1>6, <2>1, <2>2
    <2>4. \A x \in zset[i] : x.score \in Int
      BY DEF IInv, TypeOK
    <2>5. \A x \in zset[i] : x.score > t - Window
      BY <1>5, <2>2, <2>3, <2>4
    <2>6. now < expireAt[i]
      <3>1. o - Skew + Window <= expireAt[i] /\ expireAt[i] \in Nat
        BY <1>8, <2>2 DEF IInv, SetHolds, TypeOK
      <3> QED
        BY <1>5, <2>3, <3>1
    <2> QED
      BY <1>8, <2>2, <2>5, <2>6, SetStaysFull
  <1> QED
    BY <1>7, <1>8 DEF IInv, TypeOK

\* A caller that waits as long as Retry-After told it finds a slot.
THEOREM RetrySuffices == Spec => []RetryAfterSuffices
  BY Suffices, Invariant, PTL

\* Until the second before that, it is still denied.
THEOREM RetryTight == Spec => []RetryAfterTight
  BY Tight, Invariant, PTL
----------------------------------------------------------------------------
(* The promise *)

\* Redis gives each script a member of its own.
DistinctMembers == backend = "redis" => RandomFresh

\* The present window of i has room for the admission of this step, if any.
AdmitsWithin(i) ==
    \/ admitted' = admitted
    \/ /\ Cardinality(Promise!InWindow(i, now)) < Limit[i]
       /\ admitted' = [admitted EXCEPT ![i] = Append(@, now)]

\* The deque counts the window: what it dropped has left it.
LEMMA DequeCounts ==
    ASSUME NEW q \in Seq(Int), NEW times \in Seq(Nat), NEW from \in Nat, NEW n \in Nat,
           NEW present \in Nat, Records(q, times, from, n, present),
           NEW window,
           \A j \in window : /\ j \in (from + 1)..Len(times)
                             /\ present - (Window + 1 - 2 * Skew) < times[j]
    PROVE  Cardinality(window) <= Len(q)
  <1>1. PICK x \in Nat, z \in Nat : x = Len(q) /\ z = Len(times)
    OBVIOUS
  <1>2. from <= n /\ n + x = z
    BY <1>1 DEF Records
  <1>3. ASSUME NEW j \in window PROVE j \in (n + 1)..z
    <2>1. /\ j \in (from + 1)..z /\ j \in 1..Len(times)
          /\ present - (Window + 1 - 2 * Skew) < times[j]
      BY <1>1
    <2>2. PICK a \in Nat : a = times[j]
      BY <2>1
    <2>3. PICK edge \in Int : edge = present - (Window + 1 - 2 * Skew)
      BY LimiterAssumption DEF LimiterAssumption
    <2>4. ~(a <= edge)
      BY <2>1, <2>2, <2>3
    <2>5. j <= n => a <= edge
      BY <2>1, <2>2, <2>3 DEF Records, Gone
    <2> QED
      BY <1>2, <2>1, <2>4, <2>5
  <1>4. IsFiniteSet((n + 1)..z) /\ Cardinality((n + 1)..z) = x
    <2>1. /\ IsFiniteSet((n + 1)..z)
          /\ Cardinality((n + 1)..z) = IF n + 1 > z THEN 0 ELSE z - (n + 1) + 1
      BY FS_Interval
    <2> QED
      BY <1>2, <2>1
  <1>5. Cardinality(window) <= x
    <2>1. window \subseteq (n + 1)..z
      BY <1>3
    <2> QED
      BY <1>4, <2>1, FS_Subset
  <1> QED
    BY <1>1, <1>5

LEMMA MemoryHasRoom ==
    ASSUME IInv, NEW i \in Identities, NEW t \in Clock, CheckMemory(i, t)
    PROVE  AdmitsWithin(i)
  <1>1. /\ hits[i] \in Seq(Int) /\ admitted[i] \in Seq(Nat) /\ base[i] \in Nat /\ now \in Nat
        /\ Limit[i] \in Nat /\ t \in Int /\ Near(t, now)
    <2>1. t \in Int /\ Near(t, now)
      BY ClockNear DEF IInv
    <2> QED
      BY <2>1, LimiterAssumption DEF IInv, TypeOK, LimiterAssumption
  <1>2. backend = "memory"
    BY DEF CheckMemory
  <1>3. PICK m \in Nat : Records(hits[i], admitted[i], base[i], m, now)
    BY <1>2 DEF IInv, DequeHolds
  <1>4. PICK n \in 0..Len(hits[i]), rest \in Seq(Int) : MemoryOutcome(i, t, n, rest)
    BY MemoryStep DEF IInv
  <1>5. n \in Nat /\ m + n \in Nat
    BY <1>1
  <1>6. /\ rest \in Seq(Int)
        /\ Records(rest, admitted[i], base[i], m + n, now)
    BY <1>1, <1>3, <1>4, <1>5, RecordsPurge DEF MemoryOutcome
  <1>7. \A j \in Promise!InWindow(i, now) :
            /\ j \in (base[i] + 1)..Len(admitted[i])
            /\ now - (Window + 1 - 2 * Skew) < admitted[i][j]
    BY <1>2 DEF Promise!InWindow, PromisedSpan
  <1>8. Cardinality(Promise!InWindow(i, now)) <= Len(rest)
    BY <1>1, <1>5, <1>6, <1>7, DequeCounts
  <1>9. CASE Len(rest) < Limit[i] /\ Admitted(i)
    <2>1. Cardinality(Promise!InWindow(i, now)) \in Nat
      <3>1. IsFiniteSet((base[i] + 1)..Len(admitted[i]))
        <4>1. base[i] + 1 \in Int /\ Len(admitted[i]) \in Int
          BY <1>1
        <4> QED
          BY <4>1, FS_Interval
      <3>2. Promise!InWindow(i, now) \subseteq (base[i] + 1)..Len(admitted[i])
        BY <1>7
      <3> QED
        BY <3>1, <3>2, FS_Subset, FS_CardinalityType
    <2>2. PICK x \in Nat : x = Len(rest)
      BY <1>6
    <2> QED
      BY <1>1, <1>8, <1>9, <2>1, <2>2 DEF AdmitsWithin, Admitted
  <1>10. CASE admitted' = admitted
    BY <1>10 DEF AdmitsWithin
  <1> QED
    BY <1>4, <1>9, <1>10 DEF MemoryOutcome, Denied

\* The sorted set holds an entry for each admission of the window.
LEMMA RedisHasRoom ==
    ASSUME IInv, DistinctMembers, NEW c \in Calls, Eval(c)
    PROVE  AdmitsWithin(call[c].identity)
  <1> DEFINE i == call[c].identity
             entries == Survivors(i, call[c].stamp)
             W == Promise!InWindow(i, now)
  <1>1. InFlight(c) /\ Script(c, entries)
    BY DEF Eval
  <1>2. PICK e : ScriptOutcome(c, i, entries, e)
    BY <1>1, ScriptStep DEF IInv
  <1>3. i \in Identities /\ backend = "redis" /\ RandomFresh
    BY <1>1, CallTypes DEF IInv, InTransit, DistinctMembers
  <1>4. PICK f : Backs(f, W, admitted[i], zset[i])
    BY <1>3 DEF IInv, SetHolds
  <1>5. \A j \in W : f[j] \in entries
    <2> HIDE DEF i, entries
    <2> QED
      BY <1>1, <1>2, <1>4, WindowSurvives
  <1>6. PICK g : Backs(g, W, admitted[i], entries)
    <2> HIDE DEF i, entries, W
    <2> QED
      BY <1>4, <1>5, BacksLess
  <1>7. IsFiniteSet(entries)
    BY <1>2 DEF ScriptOutcome
  <1>8. Cardinality(W) <= Cardinality(entries) /\ IsFiniteSet(W)
    <2>1. g \in Injection(W, entries)
      BY <1>6 DEF Backs
    <2> HIDE DEF i, entries, W
    <2> QED
      BY <1>7, <2>1, FS_Injection
  <1>9. CASE Cardinality(entries) < Limit[i]
    <2>1. admitted' = [admitted EXCEPT ![i] = Append(@, now)]
      BY <1>9 DEF Eval, Room, Admitted
    <2>2. Cardinality(W) \in Nat /\ Cardinality(entries) \in Nat /\ Limit[i] \in Nat
      <3>1. Limit[i] \in Nat
        BY <1>3, LimiterAssumption DEF LimiterAssumption
      <3> QED
        BY <1>7, <1>8, <3>1, FS_CardinalityType
    <2>3. Cardinality(W) < Limit[i]
      <3> HIDE DEF i, entries, W
      <3> QED
        BY <1>8, <1>9, <2>2
    <2> QED
      BY <2>1, <2>3 DEF AdmitsWithin
  <1>10. CASE ~(Cardinality(entries) < Limit[i])
    <2>1. admitted' = admitted
      BY <1>10 DEF Eval, Room, Denied
    <2> QED
      BY <2>1 DEF AdmitsWithin
  <1> QED
    BY <1>9, <1>10

\* What a step of either back end is to a caller.
Advances == now' = now + 1 /\ UNCHANGED <<backend, losses, admitted, base>>
Forgets ==
    /\ losses' = losses + 1 /\ base' = [i \in Identities |-> Len(admitted[i])]
    /\ UNCHANGED <<backend, now, admitted>>
Admits(i) == AdmitsWithin(i) /\ UNCHANGED <<backend, now, losses, base>>
Rests == UNCHANGED <<backend, now, losses, admitted, base>>

LEMMA StepKinds ==
    ASSUME IInv, DistinctMembers, [Next]_vars
    PROVE  Advances \/ Forgets \/ Rests \/ \E i \in Identities : Admits(i)
  <1>1. CASE Tick
    BY <1>1 DEF Tick, Advances
  <1>2. CASE Lose
    BY <1>2 DEF Lose, Forgets
  <1>3. ASSUME NEW i \in Identities, NEW t \in Clock, CheckMemory(i, t)
        PROVE  Admits(i)
    BY <1>3, MemoryHasRoom DEF CheckMemory, Admits
  <1>4. ASSUME NEW c \in Calls, Eval(c)
        PROVE  \E i \in Identities : Admits(i)
    <2>1. call[c].identity \in Identities
      BY <1>4, CallTypes DEF Eval, IInv
    <2>2. Admits(call[c].identity)
      BY <1>4, RedisHasRoom DEF Eval, Admits
    <2> QED
      BY <2>1, <2>2
  <1>5. ASSUME NEW c \in Calls,
               EvalUnanswered(c) \/ Fail(c) \/ \E i \in Identities : ReadClock(c, i)
        PROVE  Rests
    BY <1>5 DEF EvalUnanswered, Fail, ReadClock, Rests
  <1>6. CASE UNCHANGED vars
    BY <1>6 DEF vars, Rests
  <1> QED
    BY <1>1, <1>2, <1>3, <1>4, <1>5, <1>6 DEF Next

LEMMA StaysDistinct ==
    ASSUME IInv, DistinctMembers, [Next]_vars
    PROVE  DistinctMembers'
  <1>1. backend' = backend
    BY StepKinds DEF Advances, Forgets, Rests, Admits
  <1> QED
    BY <1>1 DEF DistinctMembers

LEMMA SameCardinality == \A S : Promise!Cardinality(S) = Cardinality(S)
  BY Zenon DEF Promise!Cardinality, Cardinality

\* The refinement: the deque and the sorted set keep the sliding-window promise
\* step by step, with the span that the clocks and the transport allow.
THEOREM LimiterKeepsPromise == Spec /\ DistinctMembers => ImplementsPromise
  <1>1. Init => Promise!Init
    BY LimiterAssumption DEF Init, None, Promise!Init, PromisedSpan, LimiterAssumption
  <1>2. ASSUME IInv, DistinctMembers, [Next]_vars
        PROVE  [Promise!Next]_(Promise!vars)
    <2>1. backend' = backend => PromisedSpan' = PromisedSpan
      BY DEF PromisedSpan
    <2>2. CASE Advances
      BY <2>1, <2>2 DEF Advances, Promise!Next, Promise!Advance
    <2>3. CASE Forgets
      BY <2>1, <2>3 DEF Forgets, Promise!Next, Promise!Forget
    <2>4. CASE Rests
      BY <2>1, <2>4 DEF Rests, Promise!vars
    <2>5. ASSUME NEW i \in Identities, Admits(i)
          PROVE  [Promise!Next]_(Promise!vars)
      <3>1. CASE admitted' = admitted
        BY <2>1, <2>5, <3>1 DEF Admits, Promise!vars
      <3>2. CASE admitted' # admitted
        <4>1. Promise!Admit(i)
          <5>1. /\ Cardinality(Promise!InWindow(i, now)) < Limit[i]
                /\ admitted' = [admitted EXCEPT ![i] = Append(@, now)]
            BY <2>5, <3>2 DEF Admits, AdmitsWithin
          <5>2. PromisedSpan' = PromisedSpan /\ now' = now /\ base' = base
            BY <2>1, <2>5 DEF Admits
          <5> QED
            BY <5>1, <5>2, SameCardinality DEF Promise!Admit
        <4> QED
          BY <4>1 DEF Promise!Next
      <3> QED
        BY <3>1, <3>2
    <2> QED
      BY <1>2, <2>2, <2>3, <2>4, <2>5, StepKinds
  <1>3. IInv /\ DistinctMembers /\ [Next]_vars => DistinctMembers'
    BY StaysDistinct
  <1>4. IInv /\ DistinctMembers /\ [Next]_vars => [Promise!Next]_(Promise!vars)
    BY <1>2
  <1> QED
    BY <1>1, <1>3, <1>4, Invariant, PTL DEF Spec, ImplementsPromise, Promise!Spec
----------------------------------------------------------------------------
(* Budgets *)

\* The admissions at the positions after from, up to to, in a window that ends
\* at t; no such window so far holds more than bound of them.
Between(times, from, to, span, t) ==
    {j \in (from + 1)..to : t - span < times[j] /\ times[j] <= t}
Budget(times, from, to, span, present, bound) ==
    \A t \in 0..present : Cardinality(Between(times, from, to, span, t)) <= bound
Until(times, to, present) == \A j \in 1..to : times[j] \in Nat /\ times[j] <= present

LEMMA BetweenFinite ==
    ASSUME NEW times, NEW from \in Nat, NEW to \in Nat, NEW span, NEW t
    PROVE  /\ IsFiniteSet(Between(times, from, to, span, t))
           /\ Cardinality(Between(times, from, to, span, t)) \in Nat
  <1>1. IsFiniteSet((from + 1)..to)
    BY FS_Interval
  <1>2. Between(times, from, to, span, t) \subseteq (from + 1)..to
    BY DEF Between
  <1> QED
    BY <1>1, <1>2, FS_Subset, FS_CardinalityType

\* The window that ends a tick later holds no admission the last one does not.
LEMMA BudgetLater ==
    ASSUME NEW times, NEW from \in Nat, NEW to \in Nat, NEW span \in Int,
           NEW present \in Nat, NEW bound \in Nat,
           Until(times, to, present), Budget(times, from, to, span, present, bound)
    PROVE  Budget(times, from, to, span, present + 1, bound)
  <1> SUFFICES ASSUME NEW t \in 0..(present + 1)
               PROVE  Cardinality(Between(times, from, to, span, t)) <= bound
    BY DEF Budget
  <1>1. CASE t \in 0..present
    BY <1>1 DEF Budget
  <1>2. CASE t = present + 1
    <2> DEFINE A == Between(times, from, to, span, present)
               B == Between(times, from, to, span, t)
    <2>1. B \subseteq A
      BY <1>2 DEF Between, Until
    <2>2. Cardinality(A) <= bound
      BY DEF Budget
    <2>3. IsFiniteSet(A) /\ Cardinality(A) \in Nat /\ Cardinality(B) \in Nat
      BY BetweenFinite
    <2> HIDE DEF A, B
    <2>4. Cardinality(B) <= Cardinality(A)
      BY <2>1, <2>3, FS_Subset
    <2>5. Cardinality(B) <= bound
      BY <2>2, <2>3, <2>4
    <2> QED
      BY <2>5 DEF B
  <1> QED
    BY <1>1, <1>2

\* One more admission lies in no window that ended before, and the window that
\* ends now had room for it.
LEMMA BudgetMore ==
    ASSUME NEW times, NEW later, NEW from \in Nat, NEW to \in Nat, NEW span \in Int,
           NEW present \in Nat, NEW bound \in Nat,
           \A j \in 1..to : later[j] = times[j], later[to + 1] = present,
           Budget(times, from, to, span, present, bound),
           Cardinality(Between(times, from, to, span, present)) < bound
    PROVE  Budget(later, from, to + 1, span, present, bound)
  <1> SUFFICES ASSUME NEW t \in 0..present
               PROVE  Cardinality(Between(later, from, to + 1, span, t)) <= bound
    BY DEF Budget
  <1> DEFINE A == Between(times, from, to, span, t)
             B == Between(later, from, to + 1, span, t)
  <1>1. Cardinality(A) <= bound
    BY DEF Budget
  <1>2. IsFiniteSet(A) /\ Cardinality(A) \in Nat
    BY BetweenFinite
  <1>3. Cardinality(B) \in Nat
    BY BetweenFinite
  <1>4. B \subseteq A \cup {to + 1}
    BY DEF Between
  <1>5. CASE t # present
    <2>1. to + 1 \notin B
      BY <1>5 DEF Between
    <2>2. B \subseteq A
      BY <1>4, <2>1
    <2> HIDE DEF A, B
    <2>3. Cardinality(B) <= Cardinality(A)
      BY <1>2, <2>2, FS_Subset
    <2>4. Cardinality(B) <= bound
      BY <1>1, <1>2, <1>3, <2>3
    <2> QED
      BY <2>4 DEF B
  <1>6. CASE t = present
    <2>1. Cardinality(A) < bound
      BY <1>6
    <2> HIDE DEF A, B
    <2>2. PICK n : n = to + 1
      OBVIOUS
    <2>3. /\ IsFiniteSet(A \cup {n})
          /\ Cardinality(A \cup {n}) =
                IF n \in A THEN Cardinality(A) ELSE Cardinality(A) + 1
      BY <1>2, FS_AddElement
    <2>4. Cardinality(A \cup {n}) \in Nat /\ Cardinality(A \cup {n}) <= bound
      BY <1>2, <2>1, <2>3
    <2>5. Cardinality(B) <= Cardinality(A \cup {n})
      BY <1>4, <2>2, <2>3, FS_Subset
    <2>6. Cardinality(B) <= bound
      BY <1>3, <2>4, <2>5
    <2> QED
      BY <2>6 DEF B
  <1> QED
    BY <1>5, <1>6

\* The budgets of two stores, one after the other.
LEMMA BudgetJoins ==
    ASSUME NEW times, NEW from \in Nat, NEW to \in Nat, NEW span, from <= to,
           NEW present, NEW b \in Nat, NEW c \in Nat,
           Budget(times, 0, from, span, present, b),
           Budget(times, from, to, span, present, c)
    PROVE  Budget(times, 0, to, span, present, b + c)
  <1> SUFFICES ASSUME NEW t \in 0..present
               PROVE  Cardinality(Between(times, 0, to, span, t)) <= b + c
    BY DEF Budget
  <1> DEFINE A == Between(times, 0, from, span, t)
             B == Between(times, from, to, span, t)
             C == Between(times, 0, to, span, t)
  <1>1. Cardinality(A) <= b /\ Cardinality(B) <= c
    BY DEF Budget
  <1>2. /\ IsFiniteSet(A) /\ Cardinality(A) \in Nat /\ IsFiniteSet(B) /\ Cardinality(B) \in Nat
        /\ Cardinality(C) \in Nat
    BY BetweenFinite
  <1>3. C \subseteq A \cup B
    BY DEF Between
  <1> HIDE DEF A, B, C
  <1>4. /\ IsFiniteSet(A \cup B)
        /\ Cardinality(A \cup B) = Cardinality(A) + Cardinality(B) - Cardinality(A \cap B)
    BY <1>2, FS_Union
  <1>5. Cardinality(A \cap B) \in Nat
    BY <1>2, FS_Intersection, FS_CardinalityType
  <1>6. Cardinality(C) <= Cardinality(A \cup B)
    BY <1>3, <1>4, FS_Subset
  <1>7. Cardinality(C) <= b + c
    BY <1>1, <1>2, <1>4, <1>5, <1>6
  <1> QED
    BY <1>7 DEF C

LEMMA BudgetNone ==
    ASSUME NEW times, NEW n \in Nat, NEW span, NEW present, NEW bound \in Nat
    PROVE  Budget(times, n, n, span, present, bound)
  <1>1. \A t : Between(times, n, n, span, t) = {}
    BY DEF Between
  <1>2. Cardinality({}) = 0
    BY FS_EmptySet
  <1> QED
    BY <1>1, <1>2 DEF Budget
\* The admissions since the last loss keep within one budget, those before it
\* within one for each store that was lost.
Budgets ==
    \A i \in Identities :
        /\ Budget(admitted[i], base[i], Len(admitted[i]), PromisedSpan, now, Limit[i])
        /\ Budget(admitted[i], 0, base[i], PromisedSpan, now, Limit[i] * losses)

LEMMA HistoryFacts ==
    ASSUME IInv, NEW i \in Identities
    PROVE  /\ admitted[i] \in Seq(Nat) /\ Len(admitted[i]) \in Nat
           /\ base[i] \in Nat /\ base[i] <= Len(admitted[i])
           /\ Until(admitted[i], Len(admitted[i]), now) /\ Until(admitted[i], base[i], now)
           /\ PromisedSpan \in Int /\ now \in Nat /\ losses \in Nat
           /\ Limit[i] \in Nat /\ Limit[i] * losses \in Nat
           /\ Limit[i] * (losses + 1) = Limit[i] * losses + Limit[i]
  <1>1. /\ admitted[i] \in Seq(Nat) /\ Len(admitted[i]) \in Nat /\ base[i] \in Nat
        /\ now \in Nat
    BY DEF IInv, TypeOK
  <1>2. losses \in Nat /\ Limit[i] \in Nat
    <2>1. losses \in 0..MaxLosses /\ MaxLosses \in Nat
      BY LimiterAssumption DEF IInv, TypeOK, LimiterAssumption
    <2>2. losses \in Nat
      BY <2>1
    <2> QED
      BY <2>2, LimiterAssumption DEF LimiterAssumption
  <1>3. base[i] <= Len(admitted[i]) /\ \A j \in 1..Len(admitted[i]) : admitted[i][j] <= now
    BY DEF IInv, Times
  <1>4. Until(admitted[i], Len(admitted[i]), now)
    BY <1>1, <1>3 DEF Until
  <1>5. Until(admitted[i], base[i], now)
    <2>1. \A j \in 1..base[i] : j \in 1..Len(admitted[i])
      BY <1>1, <1>3
    <2> QED
      BY <1>4, <2>1 DEF Until
  <1>6. PromisedSpan \in Int
    BY LimiterAssumption DEF PromisedSpan, LimiterAssumption
  <1>7. \A x, y \in Nat : x * y \in Nat /\ x * (y + 1) = x * y + x
    OBVIOUS
  <1> QED
    BY <1>1, <1>2, <1>3, <1>4, <1>5, <1>6, <1>7

LEMMA BudgetsInit == Init => Budgets
  <1> SUFFICES ASSUME Init, NEW i \in Identities
               PROVE  /\ Budget(admitted[i], base[i], Len(admitted[i]), PromisedSpan, now, Limit[i])
                      /\ Budget(admitted[i], 0, base[i], PromisedSpan, now, Limit[i] * losses)
    BY DEF Budgets
  <1>1. base[i] = 0 /\ Len(admitted[i]) = 0
    BY DEF Init, None
  <1>2. Limit[i] \in Nat /\ Limit[i] * losses \in Nat
    BY HistoryFacts, InvInit
  <1> QED
    BY <1>1, <1>2, BudgetNone

LEMMA BudgetsStep ==
    ASSUME IInv, DistinctMembers, Budgets, [Next]_vars
    PROVE  Budgets'
  <1> SUFFICES ASSUME NEW i \in Identities
               PROVE  /\ Budget(admitted'[i], base'[i], Len(admitted'[i]), PromisedSpan', now', Limit[i])
                      /\ Budget(admitted'[i], 0, base'[i], PromisedSpan', now', Limit[i] * losses')
    BY DEF Budgets
  <1>1. /\ admitted[i] \in Seq(Nat) /\ Len(admitted[i]) \in Nat
        /\ base[i] \in Nat /\ base[i] <= Len(admitted[i])
        /\ Until(admitted[i], Len(admitted[i]), now) /\ Until(admitted[i], base[i], now)
        /\ PromisedSpan \in Int /\ now \in Nat /\ losses \in Nat
        /\ Limit[i] \in Nat /\ Limit[i] * losses \in Nat
        /\ Limit[i] * (losses + 1) = Limit[i] * losses + Limit[i]
    BY HistoryFacts
  <1>2. /\ Budget(admitted[i], base[i], Len(admitted[i]), PromisedSpan, now, Limit[i])
        /\ Budget(admitted[i], 0, base[i], PromisedSpan, now, Limit[i] * losses)
    BY DEF Budgets
  <1>3. PromisedSpan' = PromisedSpan
    <2>1. backend' = backend
      BY StepKinds DEF Advances, Forgets, Rests, Admits
    <2> QED
      BY <2>1 DEF PromisedSpan
  <1>4. CASE Advances
    BY <1>1, <1>2, <1>3, <1>4, BudgetLater DEF Advances
  <1>5. CASE Forgets
    <2>1. /\ losses' = losses + 1 /\ base'[i] = Len(admitted[i]) /\ now' = now
          /\ admitted' = admitted
      BY <1>5 DEF Forgets
    <2>2. Budget(admitted[i], 0, Len(admitted[i]), PromisedSpan, now, Limit[i] * losses + Limit[i])
      BY <1>1, <1>2, BudgetJoins
    <2>3. Budget(admitted[i], Len(admitted[i]), Len(admitted[i]), PromisedSpan, now, Limit[i])
      BY <1>1, BudgetNone
    <2> QED
      BY <1>1, <1>3, <2>1, <2>2, <2>3
  <1>6. CASE Rests
    BY <1>2, <1>3, <1>6 DEF Rests
  <1>7. ASSUME NEW k \in Identities, Admits(k)
        PROVE  /\ Budget(admitted'[i], base'[i], Len(admitted'[i]), PromisedSpan', now', Limit[i])
               /\ Budget(admitted'[i], 0, base'[i], PromisedSpan', now', Limit[i] * losses')
    <2>1. base' = base /\ now' = now /\ losses' = losses
      BY <1>7 DEF Admits
    <2>2. CASE admitted'[i] = admitted[i]
      BY <1>2, <1>3, <2>1, <2>2
    <2>3. CASE /\ k = i /\ Cardinality(Promise!InWindow(i, now)) < Limit[i]
               /\ admitted' = [admitted EXCEPT ![i] = Append(@, now)]
      <3>1. PICK n \in Nat : n = Len(admitted[i])
        BY <1>1
      <3>2. admitted'[i] = Append(admitted[i], now)
        <4>1. admitted \in [Identities -> Seq(Nat)]
          BY DEF IInv, TypeOK
        <4> QED
          BY <2>3, <4>1
      <3>3. /\ Len(admitted'[i]) = n + 1 /\ admitted'[i][n + 1] = now
            /\ \A j \in 1..n : admitted'[i][j] = admitted[i][j]
        BY <1>1, <3>1, <3>2
      <3>4. Cardinality(Between(admitted[i], base[i], n, PromisedSpan, now)) < Limit[i]
        <4>1. Between(admitted[i], base[i], n, PromisedSpan, now) = Promise!InWindow(i, now)
          BY <3>1 DEF Between, Promise!InWindow
        <4> QED
          BY <2>3, <4>1
      <3>5. Budget(admitted[i], base[i], n, PromisedSpan, now, Limit[i])
        BY <1>2, <3>1
      <3>6. Budget(admitted'[i], base[i], n + 1, PromisedSpan, now, Limit[i])
        BY <1>1, <3>3, <3>4, <3>5, BudgetMore
      <3>7. Budget(admitted'[i], 0, base[i], PromisedSpan, now, Limit[i] * losses)
        <4>1. \A j \in (0 + 1)..base[i] : j \in 1..n
          BY <1>1, <3>1
        <4>2. \A t : Between(admitted'[i], 0, base[i], PromisedSpan, t)
                        = Between(admitted[i], 0, base[i], PromisedSpan, t)
          BY <3>3, <4>1 DEF Between
        <4> QED
          BY <1>2, <4>2 DEF Budget
      <3> QED
        BY <1>3, <2>1, <3>3, <3>6, <3>7
    <2>4. \/ admitted'[i] = admitted[i]
          \/ /\ k = i /\ Cardinality(Promise!InWindow(i, now)) < Limit[i]
             /\ admitted' = [admitted EXCEPT ![i] = Append(@, now)]
      <3>1. admitted \in [Identities -> Seq(Nat)]
        BY DEF IInv, TypeOK
      <3>2. CASE k = i
        BY <1>7, <3>2 DEF Admits, AdmitsWithin
      <3>3. CASE k # i
        BY <1>7, <3>1, <3>3 DEF Admits, AdmitsWithin
      <3> QED
        BY <3>2, <3>3
    <2> QED
      BY <2>2, <2>3, <2>4
  <1> QED
    BY <1>4, <1>5, <1>6, <1>7, StepKinds

LEMMA BudgetsHold == Spec /\ DistinctMembers => [](IInv /\ Budgets)
  <1>1. Init => Budgets
    BY BudgetsInit
  <1>2. IInv /\ DistinctMembers /\ Budgets /\ [Next]_vars => Budgets' /\ DistinctMembers'
    BY BudgetsStep, StaysDistinct
  <1> QED
    BY <1>1, <1>2, Invariant, PTL DEF Spec

\* In no window, the present or any past one, is an identity admitted more than
\* Limit times on the strength of one store.
THEOREM OneBudget == Spec /\ DistinctMembers => []BudgetKept
  <1>1. ASSUME IInv, Budgets PROVE BudgetKept
    <2>1. ASSUME NEW i \in Identities, NEW t \in 0..now
          PROVE  Cardinality(Promise!InWindow(i, t)) <= Limit[i]
      <3>1. Promise!InWindow(i, t)
               = Between(admitted[i], base[i], Len(admitted[i]), PromisedSpan, t)
        BY DEF Between, Promise!InWindow
      <3> QED
        BY <1>1, <3>1 DEF Budgets, Budget
    <2> QED
      BY <2>1, SameCardinality DEF BudgetKept, Promise!BudgetKept
  <1>2. IInv /\ Budgets => BudgetKept
    BY <1>1
  <1> QED
    BY <1>2, BudgetsHold, PTL

\* Over all losses, no window holds more than one budget for each store there was.
THEOREM OneBudgetPerLoss == Spec /\ DistinctMembers => []LossCostsOneBudget
  <1>1. ASSUME IInv, Budgets PROVE LossCostsOneBudget
    <2> SUFFICES ASSUME NEW i \in Identities, NEW t \in 0..now
                 PROVE  Cardinality({j \in DOMAIN admitted[i] :
                                        /\ t - PromisedSpan < admitted[i][j]
                                        /\ admitted[i][j] <= t}) <= Limit[i] * (losses + 1)
      BY DEF LossCostsOneBudget
    <2>1. /\ admitted[i] \in Seq(Nat) /\ Len(admitted[i]) \in Nat
          /\ base[i] \in Nat /\ base[i] <= Len(admitted[i])
          /\ Limit[i] \in Nat /\ Limit[i] * losses \in Nat
          /\ Limit[i] * (losses + 1) = Limit[i] * losses + Limit[i]
      BY <1>1, HistoryFacts
    <2>2. Budget(admitted[i], 0, Len(admitted[i]), PromisedSpan, now, Limit[i] * losses + Limit[i])
      BY <1>1, <2>1, BudgetJoins DEF Budgets
    <2>3. DOMAIN admitted[i] = (0 + 1)..Len(admitted[i])
      BY <2>1
    <2> QED
      BY <2>1, <2>2, <2>3 DEF Budget, Between
  <1>2. IInv /\ Budgets => LossCostsOneBudget
    BY <1>1
  <1> QED
    BY <1>2, BudgetsHold, PTL
=============================================================================
