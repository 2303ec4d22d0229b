--------------------------- MODULE KeyAuth_proofs ---------------------------
(***************************************************************************)
(* KeyAuth for every set of keys, requests and administrators: revocation  *)
(* is for good, nobody who comes too late gets in, and every slot of a     *)
(* budget that is in use has a holder.                                     *)
(***************************************************************************)
EXTENDS KeyAuth, FiniteSetTheorems, TLAPS

----------------------------------------------------------------------------
(* The purge of a deque, and counting holders *)

\* "while dq and dq[0] < window_start" pops no more than there is.
LEMMA PopCountBound ==
    ASSUME NEW q \in Seq(Nat), NEW start \in Int
    PROVE  PopCount(q, start) \in 0..Len(q)
  <1> DEFINE P == {n \in 1..Len(q) : \A k \in 1..n : q[k] < start}
  <1>1. Len(q) \in Nat
    OBVIOUS
  <1>2. IsFiniteSet(1..Len(q)) /\ Cardinality(1..Len(q)) = IF 1 > Len(q) THEN 0 ELSE Len(q) - 1 + 1
    BY <1>1, FS_Interval
  <1>3. Cardinality(1..Len(q)) = Len(q)
    BY <1>1, <1>2
  <1>4. P \in SUBSET (1..Len(q))
    OBVIOUS
  <1>5. IsFiniteSet(P) /\ Cardinality(P) <= Len(q)
    BY <1>2, <1>3, <1>4, FS_Subset
  <1>6. Cardinality(P) \in Nat
    BY <1>5, FS_CardinalityType
  <1> QED
    BY <1>1, <1>5, <1>6 DEF PopCount

LEMMA PurgeShortens ==
    ASSUME NEW q \in Seq(Nat), NEW start \in Int
    PROVE  Purge(q, start) \in Seq(Nat) /\ Len(Purge(q, start)) <= Len(q)
  <1>1. PICK n \in 0..Len(q) : n = PopCount(q, start)
    BY PopCountBound
  <1>2. SubSeq(q, n + 1, Len(q)) \in Seq(Nat) /\ Len(SubSeq(q, n + 1, Len(q))) <= Len(q)
    OBVIOUS
  <1> QED
    BY <1>1, <1>2 DEF Purge

\* A count that grows by one is matched by one new member.
LEMMA CountGrows ==
    ASSUME NEW T, IsFiniteSet(T), NEW S \in SUBSET T, NEW n \in Nat, NEW m \in Nat,
           n <= Cardinality(S), m <= n \/ (m <= n + 1 /\ \E x \in T : x \notin S)
    PROVE  m <= Cardinality(T)
  <1>1. IsFiniteSet(S) /\ Cardinality(S) <= Cardinality(T)
        /\ (Cardinality(S) = Cardinality(T) => S = T)
    BY FS_Subset
  <1>2. Cardinality(S) \in Nat /\ Cardinality(T) \in Nat
    BY <1>1, FS_CardinalityType
  <1> QED
    BY <1>1, <1>2

----------------------------------------------------------------------------
(* Types *)

LEMMA CheckTypes ==
    ASSUME TypeOK, NEW i \in Identities, NEW limit
    PROVE  /\ Len(hits[i]) \in Nat
           /\ Kept(i) \in Seq(Nat) /\ Len(Kept(i)) <= Len(hits[i])
           /\ Counted(i, limit) \in Seq(Nat) /\ Len(Counted(i, limit)) <= Len(hits[i]) + 1
  <1>1. hits[i] \in Seq(Nat) /\ now \in Nat /\ now - Window \in Int
    BY KeyAuthAssumption DEF TypeOK, KeyAuthAssumption
  <1>2. Kept(i) \in Seq(Nat) /\ Len(Kept(i)) <= Len(hits[i])
    BY <1>1, PurgeShortens DEF Kept
  <1>3. Append(Kept(i), now) \in Seq(Nat) /\ Len(Append(Kept(i), now)) = Len(Kept(i)) + 1
    BY <1>1, <1>2
  <1>4. Len(hits[i]) \in Nat /\ Len(Kept(i)) \in Nat
    BY <1>1, <1>2
  <1>5. CASE limit = Unlimited
    BY <1>1, <1>2, <1>4, <1>5 DEF Counted
  <1>6. CASE limit # Unlimited
    BY <1>2, <1>3, <1>4, <1>6 DEF Counted
  <1> QED
    BY <1>5, <1>6

LEMMA IdentityTypes ==
    ASSUME TypeOK, NEW r \in Requests
    PROVE  /\ KeyIdentity(r) \in Identities /\ IpIdentity(r) \in Identities
           /\ KeyIdentity(r) # IpIdentity(r)
  BY DEF TypeOK, KeyIdentity, IpIdentity, Identities

LEMMA RowTypes ==
    /\ NoRow \notin Row
    /\ \A x \in Row : /\ [x EXCEPT !.status = "disabled"] \in Row
                      /\ [x EXCEPT !.is_deleted = TRUE, !.status = "disabled"] \in Row
                      /\ \A t \in Nat : [x EXCEPT !.last_used = t] \in Row
  <1>1. NoRow \notin Row
    <2>1. NoRow.status = "none"
      BY DEF NoRow
    <2>2. \A x \in Row : x.status # "none"
      BY DEF Row
    <2> QED
      BY <2>1, <2>2
  <1>2. ASSUME NEW x \in Row PROVE [x EXCEPT !.status = "disabled"] \in Row
    BY DEF Row
  <1>3. ASSUME NEW x \in Row PROVE [x EXCEPT !.is_deleted = TRUE, !.status = "disabled"] \in Row
    BY DEF Row
  <1>4. ASSUME NEW x \in Row, NEW t \in Nat PROVE [x EXCEPT !.last_used = t] \in Row
    BY DEF Row
  <1> QED
    BY <1>1, <1>2, <1>3, <1>4

----------------------------------------------------------------------------
(* The invariant *)

\* A row that an administrator or a request holds a reading of is there.
PresentFor(r) == req[r].seen # NoRow \/ req[r].pc = "touch" => Exists(req[r].key)
Present ==
    /\ \A a \in Admins : admin[a].op # "idle" => Exists(admin[a].key)
    /\ \A r \in Requests : PresentFor(r)

\* What becomes of a request that came too late: the key stays of no use, so
\* what the SELECT finds of it is no use either.
DeadFor(r) ==
    req[r].dead => /\ req[r].pc \notin {"touch", "admitted"}
                   /\ req[r].pc = "select" => Revoked(req[r].key) \/ Expired(req[r].key)
                   /\ req[r].pc = "guard" => ~Active(r)
DeadStays == \A r \in Requests : DeadFor(r)

KInv == TypeOK /\ Present /\ DeadStays /\ SlotsAccountedFor

Call == [pc : Stages, key : Keys, ip : Ips, seen : Row \cup {NoRow},
         stamp : Nat, dead : BOOLEAN]

LEMMA InitInv == Init => KInv
  <1> SUFFICES ASSUME Init PROVE KInv
    OBVIOUS
  <1>1. ASSUME NEW r \in Requests
        PROVE  req[r] \in Call /\ req[r].pc = "unsent" /\ req[r].dead = FALSE /\ req[r].seen = NoRow
    <2>1. PICK k \in Keys, ip \in Ips : req[r] = Unsent(k, ip)
      BY DEF Init
    <2>2. Unsent(k, ip) \in Call
      BY DEF Unsent, Call, Stages
    <2> QED
      BY <2>1, <2>2 DEF Unsent
  <1>2. \A a \in Admins : admin[a].op = "idle"
    BY DEF Init, Idle
  <1>3. TypeOK
    <2>1. Idle \in [op : {"idle", "delete", "disable"}, key : Keys]
      BY KeyAuthAssumption DEF Idle, KeyAuthAssumption
    <2>2. req \in [Requests -> Call]
      <3>1. DOMAIN req = Requests /\ req = [r \in Requests |-> req[r]]
        BY DEF Init
      <3> QED
        BY <3>1, <1>1
    <2>3. hits \in [Identities -> Seq(Nat)]
      BY DEF Init
    <2> QED
      BY <2>1, <2>2, <2>3 DEF Init, TypeOK, Call
  <1>4. SlotsAccountedFor
    <2>1. ASSUME NEW i \in Identities PROVE Len(hits[i]) <= Cardinality(Holders(i))
      <3>1. Len(hits[i]) = 0
        BY DEF Init
      <3>2. Holders(i) = {}
        BY <1>1 DEF Holders
      <3> QED
        BY <3>1, <3>2, FS_EmptySet
    <2> QED
      BY <2>1 DEF SlotsAccountedFor
  <1> QED
    BY <1>1, <1>2, <1>3, <1>4 DEF KInv, Present, PresentFor, DeadStays, DeadFor

----------------------------------------------------------------------------
(* Steps of one request *)

\* Only request r moves, and it stays the request it is.
Moves(r) ==
    /\ req' \in [Requests -> Call]
    /\ \A q \in Requests \ {r} : req'[q] = req[q]
    /\ req'[r].key = req[r].key /\ req'[r].ip = req[r].ip

Charged == {"touch", "admitted", "500"}

\* A request that has not been charged, or stays charged, costs no more.
LEMMA HoldersKept ==
    ASSUME TypeOK, NEW r \in Requests, Moves(r), NEW i \in Identities,
           \/ req[r].pc \notin Charged \cup {"429ip"}
           \/ req[r].pc \in Charged /\ req'[r].pc \in Charged
    PROVE  Holders(i) \in SUBSET (Holders(i)')
  BY DEF Moves, Holders, Charged, KeyIdentity, IpIdentity

LEMMA HoldersFinite ==
    ASSUME NEW i PROVE IsFiniteSet(Holders(i)) /\ IsFiniteSet(Holders(i)')
  <1>1. Holders(i) \in SUBSET Requests /\ Holders(i)' \in SUBSET Requests
    BY DEF Holders
  <1> QED
    BY <1>1, FS_Subset, KeyAuthAssumption DEF KeyAuthAssumption

\* The slots after a step of r that charged what r now holds.
LEMMA SlotsStep ==
    ASSUME KInv, NEW r \in Requests, Moves(r), hits' \in [Identities -> Seq(Nat)],
           \/ req[r].pc \notin Charged \cup {"429ip"}
           \/ req[r].pc \in Charged /\ req'[r].pc \in Charged,
           \A i \in Identities :
              \/ Len(hits'[i]) <= Len(hits[i])
              \/ /\ Len(hits'[i]) <= Len(hits[i]) + 1
                 /\ req[r].pc \notin Charged \cup {"429ip"}
                 /\ \/ i = KeyIdentity(r) /\ req'[r].pc \in {"touch", "429ip"}
                    \/ i = IpIdentity(r) /\ req'[r].pc = "touch"
    PROVE  SlotsAccountedFor'
  <1>1. ASSUME NEW i \in Identities PROVE Len(hits'[i]) <= Cardinality(Holders(i)')
    <2>1. Holders(i) \in SUBSET (Holders(i)') /\ IsFiniteSet(Holders(i)')
      BY HoldersKept, HoldersFinite DEF KInv
    <2>2. Len(hits[i]) \in Nat /\ Len(hits'[i]) \in Nat
      BY DEF KInv, TypeOK
    <2>3. Len(hits[i]) <= Cardinality(Holders(i))
      BY DEF KInv, SlotsAccountedFor
    <2>4. CASE Len(hits'[i]) <= Len(hits[i])
      BY <2>1, <2>2, <2>3, <2>4, CountGrows
    <2>5. CASE ~(Len(hits'[i]) <= Len(hits[i]))
      <3>1. r \notin Holders(i)
        BY <2>5 DEF Holders, Charged
      <3>2. r \in Holders(i)'
        BY <2>5 DEF Holders, Charged, Moves, KeyIdentity, IpIdentity
      <3>3. Len(hits'[i]) <= Len(hits[i]) + 1
        BY <2>5
      <3> QED
        BY <2>1, <2>2, <2>3, <3>1, <3>2, <3>3, CountGrows
    <2> QED
      BY <2>4, <2>5
  <1> QED
    BY <1>1 DEF SlotsAccountedFor

\* The others are where they were.
LEMMA OthersKept ==
    ASSUME KInv, NEW r \in Requests, Moves(r), UNCHANGED <<now, row, admin>>,
           PresentFor(r)', DeadFor(r)'
    PROVE  Present' /\ DeadStays'
  <1>1. ASSUME NEW q \in Requests \ {r} PROVE PresentFor(q)' /\ DeadFor(q)'
    <2>1. req'[q] = req[q] /\ PresentFor(q) /\ DeadFor(q)
      BY DEF Moves, KInv, Present, DeadStays
    <2> QED
      BY <2>1 DEF PresentFor, DeadFor, Exists, Revoked, Expired, Active
  <1>2. \A a \in Admins : admin'[a].op # "idle" => Exists(admin[a].key)'
    BY DEF KInv, Present, Exists
  <1> QED
    BY <1>1, <1>2 DEF Present, DeadStays

\* A step that charges nobody.
LEMMA FreeStep ==
    ASSUME KInv, NEW r \in Requests, Moves(r), UNCHANGED <<now, row, admin, hits>>,
           PresentFor(r)', DeadFor(r)',
           \/ req[r].pc \notin Charged \cup {"429ip"}
           \/ req[r].pc \in Charged /\ req'[r].pc \in Charged
    PROVE  KInv'
  <1>1. Present' /\ DeadStays'
    BY OthersKept
  <1>2. \A i \in Identities : Len(hits'[i]) <= Len(hits[i])
    BY DEF KInv, TypeOK
  <1>3. hits' \in [Identities -> Seq(Nat)]
    BY DEF KInv, TypeOK
  <1>4. SlotsAccountedFor'
    BY <1>2, <1>3, SlotsStep
  <1>5. TypeOK'
    BY DEF KInv, TypeOK, Moves, Call
  <1> QED
    BY <1>1, <1>4, <1>5 DEF KInv

LEMMA StepMoves ==
    ASSUME TypeOK, NEW r \in Requests, NEW to \in Stages, Step(r, to)
    PROVE  /\ Moves(r) /\ req'[r].pc = to /\ req'[r].seen = NoRow
           /\ req'[r].dead = req[r].dead
  BY DEF TypeOK, Step, Moves, Call

LEMMA ArriveInv ==
    ASSUME KInv, NEW r \in Requests, Arrive(r) PROVE KInv'
  <1>1. /\ Moves(r) /\ req'[r].pc = "select" /\ req'[r].seen = req[r].seen
        /\ req'[r].dead = (Exists(req[r].key) /\ (Revoked(req[r].key) \/ Expired(req[r].key)))
    BY ZenonT(60) DEF Arrive, KInv, TypeOK, Moves, Call, Stages
  <1>2. UNCHANGED <<now, row, admin, hits>> /\ req[r].pc = "unsent"
    BY DEF Arrive
  <1>3. PresentFor(r)'
    BY <1>1, <1>2 DEF KInv, Present, PresentFor, Exists, Moves
  <1>4. DeadFor(r)'
    BY <1>1, <1>2 DEF DeadFor, Exists, Revoked, Expired, Moves
  <1> QED
    BY <1>1, <1>2, <1>3, <1>4, FreeStep DEF Charged

LEMMA SelectInv ==
    ASSUME KInv, NEW r \in Requests, Select(r) PROVE KInv'
  <1> DEFINE k == req[r].key
             read == IF row[k].is_deleted THEN NoRow ELSE row[k]
  <1>1. read \in Row \cup {NoRow} /\ k \in Keys
    BY DEF KInv, TypeOK
  <1>2. /\ Moves(r) /\ req'[r].pc = "guard" /\ req'[r].seen = read
        /\ req'[r].dead = req[r].dead
    BY <1>1, ZenonT(60) DEF Select, KInv, TypeOK, Moves, Call, Stages
  <1>3. UNCHANGED <<now, row, admin, hits>> /\ req[r].pc = "select"
    BY DEF Select
  <1>4. PresentFor(r)'
    BY <1>2, <1>3 DEF PresentFor, Exists, Moves
  <1>5. DeadFor(r)'
    <2>1. ASSUME req[r].dead PROVE ~Active(r)'
      <3>1. Revoked(k) \/ Expired(k)
        BY <1>3, <2>1 DEF KInv, DeadStays, DeadFor
      <3>2. CASE Expired(k)
        BY <3>2, <1>2, <1>3 DEF Active, Expired, Moves
      <3>3. CASE row[k].is_deleted
        BY <3>3, <1>2, <1>3 DEF Active
      <3>4. CASE row[k].status = "disabled"
        BY <3>4, <1>2, <1>3 DEF Active, NoRow
      <3> QED
        BY <3>1, <3>2, <3>3, <3>4 DEF Revoked
    <2> QED
      BY <2>1, <1>2 DEF DeadFor
  <1> QED
    BY <1>2, <1>3, <1>4, <1>5, FreeStep DEF Charged

\* 401, 403 and 500: the call ends, and keeps what it was charged.
LEMMA EndInv ==
    ASSUME KInv, NEW r \in Requests, NEW to \in {"401", "403", "500"}, Step(r, to),
           UNCHANGED <<now, row, admin, hits>>,
           \/ req[r].pc \notin Charged \cup {"429ip"}
           \/ req[r].pc \in Charged /\ to \in Charged
    PROVE  KInv'
  <1>1. /\ Moves(r) /\ req'[r].pc = to /\ req'[r].seen = NoRow
        /\ req'[r].dead = req[r].dead
    BY StepMoves DEF KInv, Stages
  <1>2. PresentFor(r)' /\ DeadFor(r)'
    BY <1>1 DEF PresentFor, DeadFor
  <1> QED
    BY <1>1, <1>2, FreeStep

\* A step of the guard that charges: the budgets hold the new slots, and the
\* request that holds them was not dead.
LEMMA ChargeStep ==
    ASSUME KInv, NEW r \in Requests, Moves(r), UNCHANGED <<now, row, admin>>,
           req[r].pc = "guard", Active(r), req'[r].dead = req[r].dead,
           req'[r].pc \in {"touch", "429", "429ip"},
           hits' \in [Identities -> Seq(Nat)],
           \A i \in Identities :
              \/ Len(hits'[i]) <= Len(hits[i])
              \/ /\ Len(hits'[i]) <= Len(hits[i]) + 1
                 /\ \/ i = KeyIdentity(r) /\ req'[r].pc \in {"touch", "429ip"}
                    \/ i = IpIdentity(r) /\ req'[r].pc = "touch"
    PROVE  KInv'
  <1>1. req[r].pc \notin Charged \cup {"429ip"}
    BY DEF Charged
  <1>2. SlotsAccountedFor'
    BY <1>1, SlotsStep
  <1>3. ~req[r].dead /\ req[r].seen # NoRow
    BY DEF KInv, DeadStays, DeadFor, Active
  <1>4. Exists(req[r].key)
    BY <1>3 DEF KInv, Present, PresentFor
  <1>5. PresentFor(r)' /\ DeadFor(r)'
    BY <1>3, <1>4 DEF PresentFor, DeadFor, Exists, Moves
  <1>6. Present' /\ DeadStays'
    BY <1>5, OthersKept
  <1>7. TypeOK'
    BY DEF KInv, TypeOK, Moves, Call
  <1> QED
    BY <1>2, <1>6, <1>7 DEF KInv

LEMMA KeyLimitedInv ==
    ASSUME KInv, NEW r \in Requests, KeyLimited(r) PROVE KInv'
  <1> DEFINE i == KeyIdentity(r)
  <1>1. /\ Moves(r) /\ req'[r].pc = "429" /\ req'[r].dead = req[r].dead
    BY StepMoves DEF KInv, Stages, KeyLimited
  <1>2. i \in Identities /\ Kept(i) \in Seq(Nat) /\ Len(Kept(i)) <= Len(hits[i])
    BY IdentityTypes, CheckTypes DEF KInv
  <1>3. hits' = [hits EXCEPT ![i] = Kept(i)]
    BY DEF KeyLimited
  <1>4. hits' \in [Identities -> Seq(Nat)] /\ hits'[i] = Kept(i)
        /\ \A j \in Identities \ {i} : hits'[j] = hits[j]
    BY <1>2, <1>3 DEF KInv, TypeOK
  <1>5. \A j \in Identities : Len(hits'[j]) <= Len(hits[j])
    BY <1>2, <1>4, CheckTypes DEF KInv
  <1> QED
    BY <1>1, <1>4, <1>5, ChargeStep DEF KeyLimited

LEMMA IpLimitedInv ==
    ASSUME KInv, NEW r \in Requests, IpLimited(r) PROVE KInv'
  <1> DEFINE i == KeyIdentity(r)
             p == IpIdentity(r)
             c == Counted(i, KeyLimit(r))
  <1>1. /\ Moves(r) /\ req'[r].pc = "429ip" /\ req'[r].dead = req[r].dead
    BY StepMoves DEF KInv, Stages, IpLimited
  <1>2. /\ i \in Identities /\ c \in Seq(Nat) /\ Len(c) <= Len(hits[i]) + 1
        /\ p \in Identities /\ Kept(p) \in Seq(Nat) /\ Len(Kept(p)) <= Len(hits[p])
        /\ i # p
    BY IdentityTypes, CheckTypes DEF KInv
  <1>3. hits' = [hits EXCEPT ![i] = c, ![p] = Kept(p)]
    BY DEF IpLimited
  <1>4. hits' \in [Identities -> Seq(Nat)] /\ hits'[i] = c /\ hits'[p] = Kept(p)
        /\ \A j \in Identities \ {i, p} : hits'[j] = hits[j]
    BY <1>2, <1>3 DEF KInv, TypeOK
  <1>5. \A j \in Identities : \/ Len(hits'[j]) <= Len(hits[j])
                              \/ j = i /\ Len(hits'[j]) <= Len(hits[j]) + 1
    BY <1>2, <1>4, CheckTypes, SMTT(30) DEF KInv
  <1> QED
    BY <1>1, <1>4, <1>5, ChargeStep DEF IpLimited

LEMMA PassInv ==
    ASSUME KInv, NEW r \in Requests, Pass(r) PROVE KInv'
  <1> DEFINE i == KeyIdentity(r)
             p == IpIdentity(r)
             c == Counted(i, KeyLimit(r))
             d == Counted(p, IpLimit)
  <1>1. /\ Moves(r) /\ req'[r].pc = "touch" /\ req'[r].dead = req[r].dead
    BY ZenonT(60) DEF KInv, TypeOK, Stages, Pass, Moves, Call
  <1>2. /\ i \in Identities /\ c \in Seq(Nat) /\ Len(c) <= Len(hits[i]) + 1
        /\ p \in Identities /\ d \in Seq(Nat) /\ Len(d) <= Len(hits[p]) + 1
        /\ i # p
    BY IdentityTypes, CheckTypes DEF KInv
  <1>3. hits' = [hits EXCEPT ![i] = c, ![p] = d]
    BY DEF Pass
  <1>4. hits' \in [Identities -> Seq(Nat)] /\ hits'[i] = c /\ hits'[p] = d
        /\ \A j \in Identities \ {i, p} : hits'[j] = hits[j]
    BY <1>2, <1>3 DEF KInv, TypeOK
  <1>5. \A j \in Identities : \/ Len(hits'[j]) <= Len(hits[j])
                              \/ j \in {i, p} /\ Len(hits'[j]) <= Len(hits[j]) + 1
    BY <1>2, <1>4, CheckTypes DEF KInv
  <1> QED
    BY <1>1, <1>4, <1>5, ChargeStep DEF Pass

----------------------------------------------------------------------------
(* Steps on rows *)

\* What no change of a row undoes.
RevokedNext(k) == row'[k].is_deleted \/ row'[k].status = "disabled"
StillThere(k) ==
    /\ row[k] # NoRow => row'[k] # NoRow
    /\ Revoked(k) => RevokedNext(k)

\* A row may change under the requests as long as it stays there and a revoked
\* one stays revoked.
LEMMA RowStep ==
    ASSUME KInv, UNCHANGED <<now, req, hits>>,
           row' \in [Keys -> Row \cup {NoRow}],
           admin' \in [Admins -> [op : {"idle", "delete", "disable"}, key : Keys]],
           \A k \in Keys : StillThere(k),
           \A a \in Admins : admin'[a].op # "idle" => row'[admin'[a].key] # NoRow
    PROVE  KInv'
  <1>1. TypeOK'
    BY DEF KInv, TypeOK
  <1>2. Present'
    <2>1. \A r \in Requests : req[r].key \in Keys /\ PresentFor(r)
      BY DEF KInv, TypeOK, Present
    <2> QED
      BY <2>1 DEF Present, PresentFor, StillThere, Exists
  <1>3. DeadStays'
    <2>1. ASSUME NEW r \in Requests PROVE DeadFor(r)'
      <3>1. DeadFor(r) /\ req[r].key \in Keys
        BY DEF KInv, TypeOK, DeadStays
      <3>2. req'[r] = req[r] /\ now' = now
        OBVIOUS
      <3>3. Revoked(req[r].key) => RevokedNext(req[r].key)
        BY <3>1 DEF StillThere
      <3> QED
        BY <3>1, <3>2, <3>3 DEF DeadFor, Revoked, RevokedNext, Expired, Active
    <2> QED
      BY <2>1 DEF DeadStays
  <1>4. \A i \in Identities : Holders(i)' = Holders(i)
    BY DEF Holders, KeyIdentity, IpIdentity
  <1>5. SlotsAccountedFor'
    BY <1>4 DEF KInv, SlotsAccountedFor
  <1> QED
    BY <1>1, <1>2, <1>3, <1>5 DEF KInv

LEMMA CreateKeyInv ==
    ASSUME KInv, NEW k \in Keys, CreateKey(k) PROVE KInv' /\ \A l \in Keys : StillThere(l)
  <1> DEFINE fresh == [status |-> "active", is_deleted |-> FALSE, last_used |-> Never]
  <1>1. fresh \in Row
    BY DEF Row
  <1>2. fresh \in Row /\ fresh # NoRow
    BY <1>1, RowTypes
  <1>3. row' \in [Keys -> Row \cup {NoRow}] /\ row'[k] = fresh /\ row[k] = NoRow
        /\ \A l \in Keys \ {k} : row'[l] = row[l]
    BY <1>2 DEF KInv, TypeOK, CreateKey, Exists
  <1>4. ~Revoked(k)
    BY <1>3 DEF Revoked, NoRow
  <1>5. StillThere(k)
    BY <1>2, <1>3, <1>4 DEF StillThere
  <1>6. ASSUME NEW l \in Keys \ {k} PROVE StillThere(l)
    BY <1>3 DEF StillThere, RevokedNext, Revoked
  <1>7. \A l \in Keys : StillThere(l)
    BY <1>5, <1>6
  <1>8. UNCHANGED <<now, admin, req, hits>>
    BY DEF CreateKey
  <1>9. \A a \in Admins : admin'[a].op # "idle" => row'[admin'[a].key] # NoRow
    BY <1>7, <1>8 DEF KInv, TypeOK, Present, Exists, StillThere
  <1>10. admin' \in [Admins -> [op : {"idle", "delete", "disable"}, key : Keys]]
    BY <1>8 DEF KInv, TypeOK
  <1> QED
    BY <1>3, <1>7, <1>8, <1>9, <1>10, RowStep

LEMMA ReadForAdminInv ==
    ASSUME KInv, NEW a \in Admins, NEW k \in Keys, NEW op \in {"delete", "disable"},
           ReadForAdmin(a, k, op)
    PROVE  KInv'
  <1>1. /\ UNCHANGED <<now, row, req, hits>> /\ Exists(k)
        /\ admin' = [admin EXCEPT ![a] = [op |-> op, key |-> k]]
    BY DEF ReadForAdmin
  <1>2. admin' \in [Admins -> [op : {"idle", "delete", "disable"}, key : Keys]]
    BY <1>1 DEF KInv, TypeOK
  <1>3. \A b \in Admins : admin'[b].op # "idle" => row'[admin'[b].key] # NoRow
    BY <1>1 DEF KInv, TypeOK, Present, Exists
  <1>4. row' \in [Keys -> Row \cup {NoRow}]
    BY <1>1 DEF KInv, TypeOK
  <1>5. \A l \in Keys : StillThere(l)
    BY <1>1 DEF StillThere, RevokedNext, Revoked
  <1> QED
    BY <1>1, <1>2, <1>3, <1>4, <1>5, RowStep

\* The two commits set the flag or the status of one row that is there.
LEMMA CommitStep ==
    ASSUME KInv, NEW a \in Admins, NEW x \in Row, admin[a].op # "idle",
           admin' = [admin EXCEPT ![a] = Idle], UNCHANGED <<now, req, hits>>,
           row' = [row EXCEPT ![admin[a].key] = x],
           x.status = "disabled"
    PROVE  KInv' /\ \A l \in Keys : StillThere(l)
  <1> DEFINE k == admin[a].key
  <1>1. k \in Keys
    BY DEF KInv, TypeOK
  <1>2. Idle \in [op : {"idle", "delete", "disable"}, key : Keys] /\ Idle.op = "idle"
    BY KeyAuthAssumption DEF Idle, KeyAuthAssumption
  <1>3. admin' \in [Admins -> [op : {"idle", "delete", "disable"}, key : Keys]]
    BY <1>2 DEF KInv, TypeOK
  <1>4. row' \in [Keys -> Row \cup {NoRow}] /\ row'[k] = x
        /\ \A l \in Keys \ {k} : row'[l] = row[l]
    BY <1>1 DEF KInv, TypeOK
  <1>5. \A l \in Keys : StillThere(l)
    BY <1>4, RowTypes DEF StillThere, RevokedNext, Revoked
  <1>6. \A b \in Admins : admin'[b].op # "idle" => row'[admin'[b].key] # NoRow
    <2>1. ASSUME NEW b \in Admins, admin'[b].op # "idle" PROVE row'[admin'[b].key] # NoRow
      <3>1. b # a /\ admin'[b] = admin[b]
        BY <1>2, <2>1 DEF KInv, TypeOK
      <3>2. Exists(admin[b].key) /\ admin[b].key \in Keys
        BY <2>1, <3>1 DEF KInv, TypeOK, Present
      <3> QED
        BY <3>1, <3>2, <1>5 DEF StillThere, Exists
    <2> QED
      BY <2>1
  <1> QED
    BY <1>3, <1>4, <1>5, <1>6, RowStep

LEMMA CommitDisableInv ==
    ASSUME KInv, NEW a \in Admins, CommitDisable(a)
    PROVE  KInv' /\ \A l \in Keys : StillThere(l)
  <1> DEFINE k == admin[a].key
             x == [row[k] EXCEPT !.status = "disabled"]
  <1>1. k \in Keys /\ row[k] \in Row
    BY DEF KInv, TypeOK, Present, Exists, CommitDisable
  <1>2. x \in Row
    BY <1>1, RowTypes
  <1>3. x.status = "disabled"
    BY <1>1 DEF Row
  <1>4. row' = [row EXCEPT ![k] = x]
    BY DEF CommitDisable
  <1> QED
    BY <1>2, <1>3, <1>4, CommitStep DEF CommitDisable

LEMMA CommitDeleteInv ==
    ASSUME KInv, NEW a \in Admins, CommitDelete(a)
    PROVE  KInv' /\ \A l \in Keys : StillThere(l)
  <1> DEFINE k == admin[a].key
             x == [row[k] EXCEPT !.is_deleted = TRUE, !.status = "disabled"]
  <1>1. k \in Keys /\ row[k] \in Row
    BY DEF KInv, TypeOK, Present, Exists, CommitDelete
  <1>2. x \in Row
    BY <1>1, RowTypes
  <1>3. x.status = "disabled"
    BY <1>1 DEF Row
  <1>4. row' = [row EXCEPT ![k] = x]
    BY <1>1 DEF CommitDelete, KInv, TypeOK
  <1> QED
    BY <1>2, <1>3, <1>4, CommitStep DEF CommitDelete

\* The update of last_used: the row is there, whatever became of it since it
\* was read, and stays what it became.
LEMMA TouchInv ==
    ASSUME KInv, NEW r \in Requests, Touch(r)
    PROVE  KInv' /\ \A l \in Keys : StillThere(l)
  <1> DEFINE k == req[r].key
             x == [row[k] EXCEPT !.last_used = req[r].stamp]
  <1>1. k \in Keys /\ req[r].pc = "touch" /\ req[r].stamp \in Nat /\ PresentFor(r) /\ ~req[r].dead
    BY DEF KInv, TypeOK, Touch, Present, DeadStays, DeadFor
  <1>2. row[k] \in Row
    BY <1>1 DEF KInv, TypeOK, PresentFor, Exists
  <1>3. x \in Row /\ x.status = row[k].status /\ x.is_deleted = row[k].is_deleted
    BY <1>1, <1>2, RowTypes DEF Row
  <1>4. row' = [row EXCEPT ![k] = x] /\ UNCHANGED <<now, admin, hits>>
    BY DEF Touch
  <1>5. row' \in [Keys -> Row \cup {NoRow}] /\ row'[k] = x
        /\ \A l \in Keys \ {k} : row'[l] = row[l]
    BY <1>1, <1>3, <1>4 DEF KInv, TypeOK
  <1>6. ASSUME NEW l \in Keys PROVE StillThere(l)
    <2>1. CASE l = k
      BY <2>1, <1>3, <1>5, RowTypes DEF StillThere, RevokedNext, Revoked
    <2>2. CASE l # k
      BY <2>2, <1>5 DEF StillThere, RevokedNext, Revoked
    <2> QED
      BY <2>1, <2>2
  <1>7. Moves(r) /\ req'[r].pc = "admitted" /\ req'[r].seen = NoRow /\ req'[r].dead = req[r].dead
    BY StepMoves DEF KInv, Touch, Stages
  <1>8. PresentFor(r)' /\ DeadFor(r)'
    BY <1>1, <1>7 DEF PresentFor, DeadFor
  <1>9. ASSUME NEW q \in Requests \ {r} PROVE PresentFor(q)' /\ DeadFor(q)'
    <2>1. /\ req'[q] = req[q] /\ now' = now /\ req[q].key \in Keys
          /\ PresentFor(q) /\ DeadFor(q) /\ StillThere(req[q].key)
      BY <1>4, <1>6, <1>7 DEF Moves, KInv, TypeOK, Present, DeadStays
    <2>2. PresentFor(q)'
      BY <2>1 DEF PresentFor, Exists, StillThere
    <2>3. DeadFor(q)'
      BY <2>1 DEF DeadFor, StillThere, Revoked, RevokedNext, Expired, Active
    <2> QED
      BY <2>2, <2>3
  <1>10. \A a \in Admins : admin'[a].op # "idle" => row'[admin'[a].key] # NoRow
    BY <1>4, <1>6 DEF KInv, TypeOK, Present, Exists, StillThere
  <1>11. Present' /\ DeadStays'
    BY <1>8, <1>9, <1>10 DEF Present, DeadStays, Exists
  <1>12. SlotsAccountedFor'
    <2>1. hits' \in [Identities -> Seq(Nat)] /\ \A i \in Identities : Len(hits'[i]) <= Len(hits[i])
      BY <1>4 DEF KInv, TypeOK
    <2>2. req[r].pc \in Charged /\ req'[r].pc \in Charged
      BY <1>1, <1>7 DEF Charged
    <2> QED
      BY <1>7, <2>1, <2>2, SlotsStep
  <1>13. TypeOK'
    BY <1>4, <1>5, <1>7 DEF KInv, TypeOK, Moves, Call
  <1> QED
    BY <1>6, <1>11, <1>12, <1>13 DEF KInv

\* Time brings nobody back.
LEMMA TickInv ==
    ASSUME KInv, Tick PROVE KInv'
  <1>1. now \in Nat /\ now' = now + 1 /\ UNCHANGED <<row, admin, req, hits>>
    BY DEF Tick, KInv, TypeOK
  <1>2. TypeOK' /\ Present'
    BY <1>1 DEF KInv, TypeOK, Present, PresentFor, Exists
  <1>3. ASSUME NEW r \in Requests PROVE DeadFor(r)'
    <2>1. DeadFor(r) /\ req[r].key \in Keys
      BY DEF KInv, TypeOK, DeadStays
    <2>2. ExpiresAt[req[r].key] \in Nat \cup {Never}
      BY <2>1, KeyAuthAssumption DEF KeyAuthAssumption
    <2>3. ExpiresAt[req[r].key] # Never /\ ExpiresAt[req[r].key] < now
          => ExpiresAt[req[r].key] < now'
      BY <1>1, <2>2
    <2> QED
      BY <1>1, <2>1, <2>3 DEF DeadFor, Revoked, Expired, Active
  <1>4. SlotsAccountedFor'
    BY <1>1 DEF KInv, SlotsAccountedFor, Holders, KeyIdentity, IpIdentity
  <1> QED
    BY <1>2, <1>3, <1>4 DEF KInv, DeadStays

----------------------------------------------------------------------------
(* The theorems *)

LEMMA AdministrationInv ==
    ASSUME KInv, Administration
    PROVE  KInv' /\ \A k \in Keys : StillThere(k)
  <1>1. CASE \E k \in Keys : CreateKey(k)
    BY <1>1, CreateKeyInv
  <1>2. CASE \E a \in Admins, k \in Keys : ReadForAdmin(a, k, "delete") \/ ReadForAdmin(a, k, "disable")
    <2>1. KInv'
      BY <1>2, ReadForAdminInv
    <2>2. UNCHANGED row
      BY <1>2 DEF ReadForAdmin
    <2> QED
      BY <2>1, <2>2 DEF StillThere, Revoked, RevokedNext
  <1>3. CASE \E a \in Admins : CommitDisable(a)
    BY <1>3, CommitDisableInv
  <1>4. CASE \E a \in Admins : CommitDelete(a)
    BY <1>4, CommitDeleteInv
  <1> QED
    BY <1>1, <1>2, <1>3, <1>4 DEF Administration

LEMMA AuthenticationInv ==
    ASSUME KInv, NEW r \in Requests,
           \/ ArriveWithoutKey(r) \/ Arrive(r) \/ Select(r)
           \/ Unauthorized(r) \/ Forbidden(r) \/ KeyLimited(r) \/ IpLimited(r) \/ Pass(r)
           \/ Touch(r) \/ TouchFails(r)
    PROVE  KInv' /\ \A k \in Keys : StillThere(k)
  <1>1. CASE Touch(r)
    BY <1>1, TouchInv
  <1>2. CASE ~Touch(r)
    <2>1. UNCHANGED row
      BY <1>2 DEF ArriveWithoutKey, Arrive, Select, Unauthorized, Forbidden, KeyLimited,
                  IpLimited, Pass, TouchFails
    <2>2. ASSUME ArriveWithoutKey(r) PROVE KInv'
      <3>1. Step(r, "401") /\ req[r].pc = "unsent" /\ UNCHANGED <<now, row, admin, hits>>
        BY <2>2 DEF ArriveWithoutKey
      <3>2. req[r].pc \notin Charged \cup {"429ip"}
        BY <3>1 DEF Charged
      <3> QED
        BY <3>1, <3>2, EndInv
    <2>3. ASSUME Unauthorized(r) PROVE KInv'
      <3>1. Step(r, "401") /\ req[r].pc = "guard" /\ UNCHANGED <<now, row, admin, hits>>
        BY <2>3 DEF Unauthorized
      <3>2. req[r].pc \notin Charged \cup {"429ip"}
        BY <3>1 DEF Charged
      <3> QED
        BY <3>1, <3>2, EndInv
    <2>4. ASSUME Forbidden(r) PROVE KInv'
      <3>1. Step(r, "403") /\ req[r].pc = "guard" /\ UNCHANGED <<now, row, admin, hits>>
        BY <2>4 DEF Forbidden
      <3>2. req[r].pc \notin Charged \cup {"429ip"}
        BY <3>1 DEF Charged
      <3> QED
        BY <3>1, <3>2, EndInv
    <2>5. ASSUME TouchFails(r) PROVE KInv'
      <3>1. Step(r, "500") /\ req[r].pc = "touch" /\ UNCHANGED <<now, row, admin, hits>>
        BY <2>5 DEF TouchFails
      <3>2. req[r].pc \in Charged /\ "500" \in Charged
        BY <3>1 DEF Charged
      <3> QED
        BY <3>1, <3>2, EndInv
    <2>6. KInv'
      BY <1>2, <2>2, <2>3, <2>4, <2>5, ArriveInv, SelectInv, KeyLimitedInv, IpLimitedInv, PassInv
    <2> QED
      BY <2>1, <2>6 DEF StillThere, Revoked, RevokedNext
  <1> QED
    BY <1>1, <1>2

LEMMA NextInv == KInv /\ [Next]_vars => KInv' /\ \A k \in Keys : StillThere(k)
  <1> SUFFICES ASSUME KInv, [Next]_vars PROVE KInv' /\ \A k \in Keys : StillThere(k)
    OBVIOUS
  <1>1. CASE Tick
    <2>1. UNCHANGED row
      BY <1>1 DEF Tick
    <2> QED
      BY <1>1, <2>1, TickInv DEF StillThere, Revoked, RevokedNext
  <1>2. CASE Administration
    BY <1>2, AdministrationInv
  <1>3. CASE Authentication
    BY <1>3, AuthenticationInv DEF Authentication
  <1>4. CASE UNCHANGED vars
    <2>1. TypeOK' /\ Present' /\ DeadStays'
      BY <1>4 DEF vars, KInv, TypeOK, Present, PresentFor, DeadStays, DeadFor, Exists,
                  Revoked, Expired, Active
    <2>2. SlotsAccountedFor'
      BY <1>4 DEF vars, KInv, SlotsAccountedFor, Holders, KeyIdentity, IpIdentity
    <2> QED
      BY <1>4, <2>1, <2>2 DEF vars, KInv, StillThere, Revoked, RevokedNext
  <1> QED
    BY <1>1, <1>2, <1>3, <1>4 DEF Next

THEOREM KInvHolds == Spec => []KInv
  <1> QED
    BY InitInv, NextInv, PTL DEF Spec

\* Whatever the keys, requests, tiers and administrators, every variable keeps
\* its type.
THEOREM TypeCorrect == Spec => []TypeOK
  <1>1. KInv => TypeOK
    BY DEF KInv
  <1> QED
    BY <1>1, KInvHolds, PTL

\* A request that arrives after its key was deleted, disabled or expired is
\* never admitted.
THEOREM NobodyLate == Spec => []NoLateAdmission
  <1>1. KInv => NoLateAdmission
    BY DEF KInv, DeadStays, DeadFor, NoLateAdmission
  <1> QED
    BY <1>1, KInvHolds, PTL

\* Every slot of a budget that is in use belongs to a request that passed the
\* checks, or that only the budget of its address turned away.
THEOREM SlotsHaveHolders == Spec => []SlotsAccountedFor
  <1>1. KInv => SlotsAccountedFor
    BY DEF KInv
  <1> QED
    BY <1>1, KInvHolds, PTL

\* Neither a late update of last_used nor another administrator brings a
\* deleted or disabled key back.
THEOREM RevokedStays == Spec => RevokedForever
  <1>1. KInv /\ [Next]_vars => [\A k \in Keys : Revoked(k) => Revoked(k)']_vars
    BY NextInv DEF StillThere, Revoked, RevokedNext
  <1> QED
    BY <1>1, KInvHolds, PTL DEF Spec, RevokedForever

----------------------------------------------------------------------------
(* The budget of a key: every admission of a window stands in the deque *)

YoungIn(q, t) == {n \in 1..Len(q) : q[n] > t}

LEMMA YoungFinite ==
    ASSUME NEW q \in Seq(Nat), NEW t
    PROVE  /\ IsFiniteSet(YoungIn(q, t))
           /\ Cardinality(YoungIn(q, t)) \in Nat /\ Cardinality(YoungIn(q, t)) <= Len(q)
  <1>1. Len(q) \in Nat
    OBVIOUS
  <1>2. IsFiniteSet(1..Len(q)) /\ Cardinality(1..Len(q)) = IF 1 > Len(q) THEN 0 ELSE Len(q) - 1 + 1
    BY <1>1, FS_Interval
  <1>3. YoungIn(q, t) \in SUBSET (1..Len(q))
    BY DEF YoungIn
  <1>4. IsFiniteSet(YoungIn(q, t)) /\ Cardinality(YoungIn(q, t)) <= Cardinality(1..Len(q))
    BY <1>2, <1>3, FS_Subset
  <1> QED
    BY <1>1, <1>2, <1>4, FS_CardinalityType

\* Everything that is popped is older than the start of the window.
LEMMA PurgeDropsOld ==
    ASSUME NEW q \in Seq(Nat), NEW start \in Int, NEW k \in 1..PopCount(q, start)
    PROVE  q[k] < start
  <1> DEFINE P == {n \in 1..Len(q) : \A j \in 1..n : q[j] < start}
  <1>1. PopCount(q, start) \in 0..Len(q) /\ Len(q) \in Nat
    BY PopCountBound
  <1>2. k \in 1..Len(q) /\ q[k] \in Nat /\ k - 1 \in Int
    BY <1>1
  <1> SUFFICES ASSUME ~(q[k] < start) PROVE FALSE
    OBVIOUS
  <1>3. PICK b \in Int : b = k - 1
    BY <1>2
  <1>4. P \in SUBSET (1..b)
    BY <1>1, <1>2, <1>3
  <1>5. IsFiniteSet(1..b) /\ Cardinality(1..b) = IF 1 > b THEN 0 ELSE b - 1 + 1
    BY FS_Interval
  <1>6. Cardinality(P) <= Cardinality(1..b)
    BY <1>4, <1>5, FS_Subset
  <1>7. Cardinality(P) = PopCount(q, start)
    BY DEF PopCount
  <1> QED
    BY <1>1, <1>2, <1>3, <1>5, <1>6, <1>7

\* A purge leaves what is younger than the start of the window.
LEMMA PurgeKeepsYoung ==
    ASSUME NEW q \in Seq(Nat), NEW start \in Int, NEW t \in Int, start <= t
    PROVE  Cardinality(YoungIn(q, t)) <= Cardinality(YoungIn(Purge(q, start), t))
  <1> DEFINE p == PopCount(q, start)
             rest == Purge(q, start)
             f == [n \in YoungIn(q, t) |-> n - p]
  <1>1. p \in 0..Len(q) /\ Len(q) \in Nat
    BY PopCountBound
  <1>2. rest \in Seq(Nat) /\ Len(rest) = Len(q) - p /\ \A n \in 1..(Len(q) - p) : rest[n] = q[n + p]
    <2> HIDE DEF p
    <2>1. rest = SubSeq(q, p + 1, Len(q))
      BY DEF Purge, p
    <2> QED
      BY <1>1, <2>1
  <1> HIDE DEF rest
  <1>3. \A n \in YoungIn(q, t) : n \in (p + 1)..Len(q)
    <2>1. ASSUME NEW n \in 1..Len(q), q[n] > t PROVE ~(n <= p)
      <3>1. SUFFICES ASSUME n \in 1..p PROVE FALSE
        BY <1>1
      <3>2. q[n] < start
        BY <3>1, PurgeDropsOld
      <3>3. q[n] \in Nat
        OBVIOUS
      <3> QED
        BY <2>1, <3>2, <3>3
    <2> QED
      BY <1>1, <2>1 DEF YoungIn
  <1>4. \A n \in YoungIn(q, t) : n - p \in YoungIn(rest, t)
    <2>1. ASSUME NEW n \in YoungIn(q, t) PROVE n - p \in YoungIn(rest, t)
      <3>1. n \in (p + 1)..Len(q) /\ q[n] > t
        BY <1>3 DEF YoungIn
      <3>2. n - p \in 1..(Len(q) - p) /\ (n - p) + p = n
        BY <1>1, <3>1
      <3> QED
        BY <1>2, <3>1, <3>2 DEF YoungIn
    <2> QED
      BY <2>1
  <1>5. f \in Injection(YoungIn(q, t), YoungIn(rest, t))
    BY <1>1, <1>3, <1>4 DEF Injection, IsInjective
  <1>6. IsFiniteSet(YoungIn(rest, t))
    BY <1>2, YoungFinite
  <1> QED
    BY <1>5, <1>6, FS_Injection DEF rest

LEMMA AppendYoung ==
    ASSUME NEW q \in Seq(Nat), NEW x \in Nat, NEW t \in Int
    PROVE  /\ Cardinality(YoungIn(q, t)) <= Cardinality(YoungIn(Append(q, x), t))
           /\ x > t => Cardinality(YoungIn(Append(q, x), t)) = Cardinality(YoungIn(q, t)) + 1
  <1> DEFINE n == Len(q) + 1
  <1>1. /\ Append(q, x) \in Seq(Nat) /\ Len(Append(q, x)) = n /\ Append(q, x)[n] = x
        /\ \A j \in 1..Len(q) : Append(q, x)[j] = q[j]
        /\ Len(q) \in Nat
    OBVIOUS
  <1>2. YoungIn(q, t) \in SUBSET YoungIn(Append(q, x), t) /\ n \notin YoungIn(q, t)
    BY <1>1 DEF YoungIn
  <1>3. IsFiniteSet(YoungIn(q, t)) /\ IsFiniteSet(YoungIn(Append(q, x), t))
    BY <1>1, YoungFinite
  <1>4. x > t => YoungIn(Append(q, x), t) = YoungIn(q, t) \cup {n}
    BY <1>1 DEF YoungIn
  <1>5. Cardinality(YoungIn(q, t)) <= Cardinality(YoungIn(Append(q, x), t))
    BY <1>2, <1>3, FS_Subset
  <1>6. Cardinality(YoungIn(q, t) \cup {n}) = Cardinality(YoungIn(q, t)) + 1
    BY <1>2, <1>3, FS_AddElement
  <1> QED
    BY <1>4, <1>5, <1>6

LimitOf(k) == LimitForTier(TierLimits, Tier[k])

\* The requests of key k that are through, or about to be, since t.
Through(k, t) ==
    {r \in Requests : req[r].pc \in {"touch", "admitted"} /\ req[r].key = k /\ req[r].stamp > t}

Covered(k) ==
    /\ Len(hits[<<"key", k>>]) <= LimitOf(k)
    /\ \A t \in Int : now - Window <= t =>
          Cardinality(Through(k, t)) <= Cardinality(YoungIn(hits[<<"key", k>>], t))

BudgetHeld == \A k \in Keys : LimitOf(k) # Unlimited => Covered(k)

LEMMA ThroughFinite ==
    ASSUME NEW k, NEW t
    PROVE  /\ IsFiniteSet(Through(k, t)) /\ Cardinality(Through(k, t)) \in Nat
           /\ IsFiniteSet(Through(k, t)')
           /\ \A S \in SUBSET Through(k, t) :
                 IsFiniteSet(S) /\ Cardinality(S) \in Nat /\ Cardinality(S) <= Cardinality(Through(k, t))
  <1>1. Through(k, t) \in SUBSET Requests /\ Through(k, t)' \in SUBSET Requests
    BY DEF Through
  <1>2. IsFiniteSet(Through(k, t)) /\ IsFiniteSet(Through(k, t)')
    BY <1>1, FS_Subset, KeyAuthAssumption DEF KeyAuthAssumption
  <1> QED
    BY <1>2, FS_Subset, FS_CardinalityType

\* One step of a request: what it purges is too old to matter, and it is
\* counted among those through only with an entry of its own.
LEMMA CoveredStep ==
    ASSUME KInv, NEW k \in Keys, LimitOf(k) # Unlimited, Covered(k), now' = now,
           NEW r \in Requests,
           LET i == <<"key", k>> IN
           \/ /\ hits'[i] \in {hits[i], Kept(i)}
              /\ \A t \in Int : Through(k, t)' \in SUBSET Through(k, t)
           \/ /\ hits'[i] = Append(Kept(i), now) /\ HasRoom(i, LimitOf(k))
              /\ \A t \in Int : Through(k, t)' \in
                     SUBSET (Through(k, t) \cup (IF now > t THEN {r} ELSE {}))
    PROVE  Covered(k)'
  <1> DEFINE i == <<"key", k>>
             kept == Kept(i)
  <1>1. /\ i \in Identities /\ hits[i] \in Seq(Nat) /\ now \in Nat /\ now - Window \in Int
        /\ kept \in Seq(Nat) /\ Len(kept) <= Len(hits[i])
        /\ Len(kept) \in Nat /\ Len(hits[i]) \in Nat
    <2>1. i \in Identities
      BY DEF Identities
    <2>2. /\ Len(hits[i]) \in Nat /\ kept \in Seq(Nat) /\ Len(kept) <= Len(hits[i])
      BY <2>1, CheckTypes DEF KInv
    <2>3. hits[i] \in Seq(Nat) /\ now \in Nat /\ now - Window \in Int
      BY <2>1, KeyAuthAssumption DEF KInv, TypeOK, KeyAuthAssumption
    <2>4. Len(kept) \in Nat
      BY <2>2
    <2> QED
      BY <2>1, <2>2, <2>3, <2>4
  <1>2. LimitOf(k) \in Nat
    BY KeyAuthAssumption DEF KeyAuthAssumption, LimitOf
  <1>3. Len(hits[i]) <= LimitOf(k)
    BY DEF Covered
  <1>4. Append(kept, now) \in Seq(Nat) /\ Len(Append(kept, now)) = Len(kept) + 1
    BY <1>1
  <1>5. HasRoom(i, LimitOf(k)) => Len(kept) < LimitOf(k)
    BY DEF HasRoom
  <1>6. Len(hits'[i]) <= LimitOf(k)
    BY <1>1, <1>2, <1>3, <1>4, <1>5
  <1>7. ASSUME NEW t \in Int, now - Window <= t
        PROVE  Cardinality(Through(k, t)') <= Cardinality(YoungIn(hits'[i], t))
    <2> DEFINE a == Cardinality(YoungIn(hits[i], t))
               b == Cardinality(YoungIn(kept, t))
               c == Cardinality(YoungIn(Append(kept, now), t))
               n == Cardinality(Through(k, t))
    <2>1. a \in Nat /\ b \in Nat /\ c \in Nat /\ n \in Nat
      BY <1>1, <1>4, YoungFinite, ThroughFinite
    <2>2. n <= a
      BY <1>7 DEF Covered
    <2>3. a <= b
      BY <1>1, <1>7, PurgeKeepsYoung DEF Kept
    <2>4. b <= c /\ (now > t => c = b + 1)
      BY <1>1, AppendYoung
    <2>5. CASE Through(k, t)' \in SUBSET Through(k, t)
      <3>1. Cardinality(Through(k, t)') <= n /\ Cardinality(Through(k, t)') \in Nat
        BY <2>5, ThroughFinite
      <3>2. Cardinality(YoungIn(hits'[i], t)) \in {a, b, c}
        OBVIOUS
      <3> HIDE DEF a, b, c, n
      <3> QED
        BY <2>1, <2>2, <2>3, <2>4, <3>1, <3>2
    <2>6. CASE /\ hits'[i] = Append(kept, now) /\ now > t
               /\ Through(k, t)' \in SUBSET (Through(k, t) \cup {r})
      <3>1. IsFiniteSet(Through(k, t)) /\ IsFiniteSet(Through(k, t) \cup {r})
            /\ Cardinality(Through(k, t) \cup {r}) = IF r \in Through(k, t) THEN n ELSE n + 1
        BY ThroughFinite, FS_AddElement
      <3>2. Cardinality(Through(k, t)') <= Cardinality(Through(k, t) \cup {r})
        BY <2>6, <3>1, FS_Subset
      <3>3. Cardinality(Through(k, t)') \in Nat
        BY ThroughFinite, FS_CardinalityType
      <3>4. Cardinality(YoungIn(hits'[i], t)) = c
        BY <2>6
      <3> HIDE DEF a, b, c, n
      <3>5. Cardinality(Through(k, t) \cup {r}) \in Nat /\ Cardinality(Through(k, t) \cup {r}) <= n + 1
        BY <2>1, <3>1
      <3> QED
        BY <2>1, <2>2, <2>3, <2>4, <2>6, <3>2, <3>3, <3>4, <3>5
    <2> QED
      BY <2>5, <2>6
  <1> QED
    BY <1>6, <1>7 DEF Covered, LimitOf

\* The deque of a key moves only with the requests of the key.
LEMMA BudgetOfRequest ==
    ASSUME KInv, BudgetHeld, NEW r \in Requests,
           \/ ArriveWithoutKey(r) \/ Arrive(r) \/ Select(r)
           \/ Unauthorized(r) \/ Forbidden(r) \/ KeyLimited(r) \/ IpLimited(r) \/ Pass(r)
           \/ Touch(r) \/ TouchFails(r)
    PROVE  BudgetHeld'
  <1>1. ASSUME NEW k \in Keys, LimitOf(k) # Unlimited PROVE Covered(k)'
    <2> DEFINE i == <<"key", k>>
    <2>1. Covered(k) /\ i \in Identities
      BY <1>1 DEF BudgetHeld, Identities
    <2>2. now' = now
      BY DEF ArriveWithoutKey, Arrive, Select, Unauthorized, Forbidden, KeyLimited, IpLimited,
             Pass, Touch, TouchFails
    <2>3. CASE Pass(r)
      <3>1. /\ req' = [req EXCEPT ![r].pc = "touch", ![r].stamp = now]
            /\ req[r].pc = "guard"
            /\ hits' = [hits EXCEPT ![KeyIdentity(r)] = Counted(KeyIdentity(r), KeyLimit(r)),
                                    ![IpIdentity(r)] = Counted(IpIdentity(r), IpLimit)]
            /\ HasRoom(KeyIdentity(r), KeyLimit(r))
        BY <2>3 DEF Pass
      <3>2. IpIdentity(r) # i /\ (KeyIdentity(r) = i <=> req[r].key = k)
        BY DEF KeyIdentity, IpIdentity
      <3>3. CASE req[r].key = k
        <4>1. KeyIdentity(r) = i /\ KeyLimit(r) = LimitOf(k)
          BY <3>2, <3>3 DEF KeyLimit, LimitOf
        <4>2. hits'[i] = Append(Kept(i), now) /\ HasRoom(i, LimitOf(k))
          BY <1>1, <2>1, <3>1, <3>2, <4>1 DEF KInv, TypeOK, Counted
        <4>3. \A t \in Int : Through(k, t)' \in
                  SUBSET (Through(k, t) \cup (IF now > t THEN {r} ELSE {}))
          BY <3>1, <3>3 DEF KInv, TypeOK, Through
        <4> QED
          BY <1>1, <2>1, <2>2, <4>2, <4>3, CoveredStep
      <3>4. CASE req[r].key # k
        <4>1. hits'[i] = hits[i]
          BY <2>1, <3>1, <3>2, <3>4 DEF KInv, TypeOK
        <4>2. \A t \in Int : Through(k, t)' \in SUBSET Through(k, t)
          BY <3>1, <3>4 DEF KInv, TypeOK, Through
        <4> QED
          BY <1>1, <2>1, <2>2, <4>1, <4>2, CoveredStep
      <3> QED
        BY <3>3, <3>4
    <2>4. CASE IpLimited(r)
      <3>1. /\ req' = [req EXCEPT ![r].pc = "429ip", ![r].seen = NoRow]
            /\ hits' = [hits EXCEPT ![KeyIdentity(r)] = Counted(KeyIdentity(r), KeyLimit(r)),
                                    ![IpIdentity(r)] = Kept(IpIdentity(r))]
            /\ HasRoom(KeyIdentity(r), KeyLimit(r))
        BY <2>4 DEF IpLimited, Step
      <3>2. IpIdentity(r) # i /\ (KeyIdentity(r) = i <=> req[r].key = k)
        BY DEF KeyIdentity, IpIdentity
      <3>3. \A t \in Int : Through(k, t)' \in SUBSET Through(k, t)
        BY <3>1 DEF KInv, TypeOK, Through
      <3>4. CASE req[r].key = k
        <4>1. KeyIdentity(r) = i /\ KeyLimit(r) = LimitOf(k)
          BY <3>2, <3>4 DEF KeyLimit, LimitOf
        <4>2. hits'[i] = Append(Kept(i), now) /\ HasRoom(i, LimitOf(k))
          BY <1>1, <2>1, <3>1, <3>2, <4>1 DEF KInv, TypeOK, Counted
        <4>3. \A t \in Int : Through(k, t)' \in
                  SUBSET (Through(k, t) \cup (IF now > t THEN {r} ELSE {}))
          BY <3>3
        <4> QED
          BY <1>1, <2>1, <2>2, <4>2, <4>3, CoveredStep
      <3>5. CASE req[r].key # k
        <4>1. hits'[i] = hits[i]
          BY <2>1, <3>1, <3>2, <3>5 DEF KInv, TypeOK
        <4> QED
          BY <1>1, <2>1, <2>2, <3>3, <4>1, CoveredStep
      <3> QED
        BY <3>4, <3>5
    <2>5. CASE KeyLimited(r)
      <3>1. /\ req' = [req EXCEPT ![r].pc = "429", ![r].seen = NoRow]
            /\ hits' = [hits EXCEPT ![KeyIdentity(r)] = Kept(KeyIdentity(r))]
        BY <2>5 DEF KeyLimited, Step
      <3>2. hits'[i] \in {hits[i], Kept(i)}
        BY <2>1, <3>1 DEF KInv, TypeOK
      <3>3. \A t \in Int : Through(k, t)' \in SUBSET Through(k, t)
        BY <3>1 DEF KInv, TypeOK, Through
      <3> QED
        BY <1>1, <2>1, <2>2, <3>2, <3>3, CoveredStep
    <2>6. CASE ~(Pass(r) \/ IpLimited(r) \/ KeyLimited(r))
      <3>1. hits' = hits
        BY <2>6 DEF ArriveWithoutKey, Arrive, Select, Unauthorized, Forbidden, Touch, TouchFails
      <3>2. /\ \A q \in Requests \ {r} : req'[q] = req[q]
            /\ req'[r].pc \in {"touch", "admitted"} =>
                  /\ req[r].pc \in {"touch", "admitted"}
                  /\ req'[r].key = req[r].key /\ req'[r].stamp = req[r].stamp
        BY <2>6 DEF KInv, TypeOK, ArriveWithoutKey, Arrive, Select, Unauthorized, Forbidden,
                    Touch, TouchFails, Step
      <3>3. \A t \in Int : Through(k, t)' \in SUBSET Through(k, t)
        BY <3>2 DEF Through
      <3> QED
        BY <1>1, <2>1, <2>2, <3>1, <3>3, CoveredStep
    <2> QED
      BY <2>3, <2>4, <2>5, <2>6
  <1> QED
    BY <1>1 DEF BudgetHeld, LimitOf

LEMMA BudgetStep == KInv /\ BudgetHeld /\ [Next]_vars => BudgetHeld'
  <1> SUFFICES ASSUME KInv, BudgetHeld, [Next]_vars PROVE BudgetHeld'
    OBVIOUS
  <1>1. CASE Tick
    <2>1. now \in Nat /\ now' = now + 1 /\ req' = req /\ hits' = hits /\ Window \in Nat
      BY <1>1, KeyAuthAssumption DEF Tick, KInv, TypeOK, KeyAuthAssumption
    <2>2. \A t \in Int : now' - Window <= t => now - Window <= t
      BY <2>1
    <2>3. \A k \in Keys : Covered(k) => Covered(k)'
      BY <2>1, <2>2 DEF Covered, Through, LimitOf
    <2> QED
      BY <2>3 DEF BudgetHeld, LimitOf
  <1>2. CASE Administration \/ UNCHANGED vars
    <2>1. now' = now /\ req' = req /\ hits' = hits
      BY <1>2 DEF Administration, CreateKey, ReadForAdmin, CommitDisable, CommitDelete, vars
    <2> QED
      BY <2>1 DEF BudgetHeld, Covered, Through, LimitOf
  <1>3. CASE Authentication
    BY <1>3, BudgetOfRequest DEF Authentication
  <1> QED
    BY <1>1, <1>2, <1>3 DEF Next

LEMMA BudgetInit == Init => BudgetHeld
  <1> SUFFICES ASSUME Init, NEW k \in Keys, LimitOf(k) # Unlimited PROVE Covered(k)
    BY DEF BudgetHeld
  <1>1. hits[<<"key", k>>] = <<>>
    BY DEF Init, Identities
  <1>2. LimitOf(k) \in Nat
    BY KeyAuthAssumption DEF KeyAuthAssumption, LimitOf
  <1>3. \A t : Through(k, t) = {}
    BY InitInv DEF Init, Unsent, Through
  <1>4. \A t : YoungIn(<<>>, t) = {}
    BY DEF YoungIn
  <1>5. \A t : Cardinality(Through(k, t)) = 0 /\ Cardinality(YoungIn(<<>>, t)) = 0
    BY <1>3, <1>4, FS_EmptySet
  <1>6. Len(<<>>) = 0
    OBVIOUS
  <1> QED
    BY <1>1, <1>2, <1>5, <1>6 DEF Covered

\* However many requests race through the checks, for any keys, tiers and
\* window, no window holds more admissions of a key than its tier allows.
THEOREM BudgetOfTierKept == Spec => []TierBudgetKept
  <1>1. KInv /\ BudgetHeld => TierBudgetKept
    <2> SUFFICES ASSUME KInv, BudgetHeld, NEW k \in Keys, LimitOf(k) # Unlimited
                 PROVE  Cardinality({r \in Requests : /\ req[r].pc = "admitted" /\ req[r].key = k
                                                      /\ req[r].stamp > now - Window}) <= LimitOf(k)
      BY DEF TierBudgetKept, LimitOf
    <2> DEFINE i == <<"key", k>>
               t == now - Window
               S == {r \in Requests : /\ req[r].pc = "admitted" /\ req[r].key = k
                                      /\ req[r].stamp > t}
    <2>1. i \in Identities /\ hits[i] \in Seq(Nat) /\ t \in Int /\ LimitOf(k) \in Nat
      BY KeyAuthAssumption DEF KInv, TypeOK, KeyAuthAssumption, LimitOf, Identities
    <2>2. S \in SUBSET Through(k, t)
      BY DEF Through
    <2>3. Cardinality(S) <= Cardinality(Through(k, t)) /\ Cardinality(S) \in Nat
          /\ Cardinality(Through(k, t)) \in Nat
      BY <2>2, ThroughFinite
    <2>4. Cardinality(Through(k, t)) <= Cardinality(YoungIn(hits[i], t))
          /\ Len(hits[i]) <= LimitOf(k)
      BY <2>1 DEF BudgetHeld, Covered
    <2>5. Cardinality(YoungIn(hits[i], t)) <= Len(hits[i])
          /\ Cardinality(YoungIn(hits[i], t)) \in Nat
      BY <2>1, YoungFinite
    <2> QED
      BY <2>1, <2>3, <2>4, <2>5
  <1> QED
    BY <1>1, KInvHolds, BudgetInit, BudgetStep, PTL DEF Spec
=============================================================================
