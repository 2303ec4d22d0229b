-------------------------- MODULE UsageRollup_proofs --------------------------
(***************************************************************************)
(* Proofs about UsageRollup, for any number of requests, keys, days and    *)
(* gateway instances: a usage row never shows more than was counted and    *)
(* seeded, a request is seeded at most once, a row whose bumps did not     *)
(* overlap is exact, and no report shows more usage than logs.  The sums   *)
(* of the reports are dealt with as the sizes of sets.                     *)
(***************************************************************************)
EXTENDS UsageRollup, FiniteSetTheorems, WellFoundedInduction, TLAPS

----------------------------------------------------------------------------
(* Type correctness *)

RequestRecords == [pc : RequestStages, logDay : Days \cup {Unlogged}, logHour : Hours,
                   day : Days, seen : Nat]
SeedRecords == [pc : SeedStages, rows : [Slots -> Nat]]

\* A request reaches the rollup only with a key.
Attributed ==
    \A r \in Requests : req[r].pc \in {"logged", "counted", "uncounted"} \cup Bumping => KeyOf[r] \in Keys

TypeInv == TypeOK /\ Attributed

\* Counting finite sets of requests gives natural numbers.
LEMMA Counts ==
    ASSUME NEW s
    PROVE  /\ IsFiniteSet(Bumped(s)) /\ Cardinality(Bumped(s)) \in Nat
           /\ IsFiniteSet(LogsIn(s)) /\ Cardinality(LogsIn(s)) \in Nat
  <1>1. Bumped(s) \subseteq Requests /\ LogsIn(s) \subseteq Requests
    BY DEF Bumped, LogsIn
  <1> QED
    BY <1>1, FS_Subset, FS_CardinalityType, RollupAssumption DEF RollupAssumption

\* Init gives every variable a value of its type.
LEMMA TypeInit == Init => TypeInv
  <1> SUFFICES ASSUME Init PROVE TypeInv
    OBVIOUS
  <1> USE RollupAssumption DEF RollupAssumption, Days, Hours, Unlogged, Bumping
  <1>1. None \in [Slots -> Nat]
    BY DEF None
  <1>2. today \in Days /\ hour \in Hours /\ overlapped \subseteq Slots
    BY DEF Init
  <1>3. req \in [Requests -> RequestRecords]
    BY DEF Init, RequestRecords, RequestStages
  <1>4. seed \in [Instances -> SeedRecords]
    BY <1>1 DEF Init, SeedRecords, SeedStages
  <1>5. usage \in [Slots -> Nat] /\ seeded \in [Slots -> Nat]
    BY <1>1 DEF Init
  <1>6. Attributed
    BY DEF Init, Attributed
  <1> QED
    BY <1>2, <1>3, <1>4, <1>5, <1>6 DEF TypeInv, TypeOK, RequestRecords, SeedRecords

\* The slot of a request on its way into the rollup.
LEMMA SlotType ==
    ASSUME TypeInv, NEW r \in Requests, req[r].pc \in {"counted", "uncounted"} \cup Bumping
    PROVE  SlotOf(r) \in Slots
  BY DEF TypeInv, TypeOK, Attributed, SlotOf, Slots

\* Every step of write_log keeps the types.
LEMMA WriteLogTypes ==
    ASSUME TypeInv, NEW r \in Requests,
           \/ CommitLog(r) \/ LogFails(r) \/ BeginBump(r) \/ SelectRow(r)
           \/ InsertRow(r) \/ InsertConflict(r) \/ ReselectRow(r) \/ UpdateRow(r)
           \/ BumpFails(r)
    PROVE  TypeInv'
  <1> USE DEF Bumping
  <1>0. /\ req \in [Requests -> RequestRecords] /\ req[r] \in RequestRecords
        /\ today \in Days /\ hour \in Hours /\ usage \in [Slots -> Nat]
    BY DEF TypeInv, TypeOK, RequestRecords
  <1>1. CASE CommitLog(r)
    <2>1. /\ req' = [req EXCEPT ![r].pc = req'[r].pc, ![r].logDay = today, ![r].logHour = hour]
          /\ req'[r].pc \in {"logged", "anonymous"}
          /\ req'[r].pc = "logged" => KeyOf[r] # Anonymous
      BY <1>0, <1>1 DEF CommitLog
    <2>2. req' \in [Requests -> RequestRecords]
      <3>1. [req[r] EXCEPT !.pc = req'[r].pc, !.logDay = today, !.logHour = hour] \in RequestRecords
        BY <1>0, <2>1 DEF RequestRecords, RequestStages
      <3> QED
        BY <1>0, <2>1, <3>1
    <2>3. Attributed'
      BY <1>0, <2>1, RollupAssumption DEF Attributed, TypeInv, RollupAssumption
    <2> QED
      BY <1>1, <2>2, <2>3 DEF CommitLog, TypeInv, TypeOK, RequestRecords
  <1>2. CASE LogFails(r) \/ InsertConflict(r) \/ BumpFails(r)
    <2>1. req' \in [Requests -> RequestRecords]
      BY <1>0, <1>2 DEF LogFails, InsertConflict, BumpFails, RequestRecords, RequestStages
    <2>2. Attributed'
      <3>1. PICK p \in {"failed", "reselect", "uncounted"} : req' = [req EXCEPT ![r].pc = p]
        BY <1>2 DEF LogFails, InsertConflict, BumpFails
      <3>2. req'[r].pc = "failed" \/ KeyOf[r] \in Keys
        <4>1. CASE LogFails(r)
          BY <1>0, <4>1 DEF LogFails, RequestRecords
        <4>2. CASE InsertConflict(r) \/ BumpFails(r)
          BY <4>2 DEF InsertConflict, BumpFails, Attributed, TypeInv
        <4> QED
          BY <1>2, <4>1, <4>2
      <3> QED
        BY <1>0, <3>1, <3>2 DEF Attributed, TypeInv
    <2> QED
      BY <1>2, <2>1, <2>2 DEF LogFails, InsertConflict, BumpFails, TypeInv, TypeOK, RequestRecords
  <1>3. CASE BeginBump(r)
    <2>1. req' \in [Requests -> RequestRecords]
      BY <1>0, <1>3 DEF BeginBump, RequestRecords, RequestStages
    <2>2. Attributed'
      BY <1>0, <1>3 DEF BeginBump, Attributed, TypeInv
    <2>3. <<KeyOf[r], today>> \in Slots
      BY <1>0, <1>3 DEF BeginBump, Attributed, TypeInv, Slots
    <2>4. overlapped' \subseteq Slots
      BY <1>3, <2>3 DEF BeginBump, TypeInv, TypeOK
    <2> QED
      BY <1>3, <2>1, <2>2, <2>4 DEF BeginBump, TypeInv, TypeOK, RequestRecords
  <1>4. CASE SelectRow(r) \/ ReselectRow(r)
    <2>1. SlotOf(r) \in Slots
      BY <1>4, SlotType DEF SelectRow, ReselectRow
    <2>2. PICK p \in {"insert", "uncounted", "update"} :
             req' = [req EXCEPT ![r].pc = p, ![r].seen = usage[SlotOf(r)]]
      BY <1>4 DEF SelectRow, ReselectRow
    <2>3. req' \in [Requests -> RequestRecords]
      BY <1>0, <2>1, <2>2 DEF RequestRecords, RequestStages
    <2>4. KeyOf[r] \in Keys
      BY <1>4 DEF SelectRow, ReselectRow, Attributed, TypeInv
    <2>5. Attributed'
      BY <1>0, <2>2, <2>4 DEF Attributed, TypeInv
    <2> QED
      BY <1>4, <2>3, <2>5 DEF SelectRow, ReselectRow, TypeInv, TypeOK, RequestRecords
  <1>5. CASE InsertRow(r) \/ UpdateRow(r)
    <2>1. SlotOf(r) \in Slots
      BY <1>5, SlotType DEF InsertRow, UpdateRow
    <2>2. req' = [req EXCEPT ![r].pc = "counted"] /\ KeyOf[r] \in Keys
      BY <1>5 DEF InsertRow, UpdateRow, Attributed, TypeInv
    <2>3. req' \in [Requests -> RequestRecords]
      BY <1>0, <2>2 DEF RequestRecords, RequestStages
    <2>4. Attributed'
      BY <1>0, <2>2 DEF Attributed, TypeInv
    <2>5. usage' \in [Slots -> Nat]
      <3>1. req[r].seen + 1 \in Nat
        BY <1>0 DEF RequestRecords
      <3> QED
        BY <1>0, <1>5, <2>1, <3>1 DEF InsertRow, UpdateRow
    <2> QED
      BY <1>5, <2>3, <2>4, <2>5 DEF InsertRow, UpdateRow, TypeInv, TypeOK, RequestRecords
  <1> QED
    BY <1>1, <1>2, <1>3, <1>4, <1>5

\* Adding what was aggregated to the rows there are gives rows again.
LEMMA SeedSum ==
    ASSUME NEW f \in [Slots -> Nat], NEW g \in [Slots -> Nat]
    PROVE  [s \in Slots |-> f[s] + g[s]] \in [Slots -> Nat]
  OBVIOUS

\* Every step of backfill_usage_daily keeps the types.
LEMMA BackfillTypes ==
    ASSUME TypeInv, NEW b \in Instances,
           CheckEmpty(b) \/ Aggregate(b) \/ InsertSeed(b) \/ SeedFails(b)
    PROVE  TypeInv'
  <1>0. /\ seed \in [Instances -> SeedRecords] /\ seed[b] \in SeedRecords
        /\ usage \in [Slots -> Nat] /\ seeded \in [Slots -> Nat]
    BY DEF TypeInv, TypeOK, SeedRecords
  <1>1. seed' \in [Instances -> SeedRecords]
    <2>1. CASE Aggregate(b)
      <3>1. [s \in Slots |-> Cardinality(LogsIn(s))] \in [Slots -> Nat]
        BY Counts
      <3>2. [pc |-> "insert", rows |-> [s \in Slots |-> Cardinality(LogsIn(s))]] \in SeedRecords
        BY <3>1 DEF SeedRecords, SeedStages
      <3> QED
        BY <1>0, <2>1, <3>2 DEF Aggregate
    <2>2. CASE CheckEmpty(b) \/ InsertSeed(b) \/ SeedFails(b)
      <3>1. PICK p \in SeedStages : seed' = [seed EXCEPT ![b].pc = p]
        BY <2>2 DEF CheckEmpty, InsertSeed, SeedFails, SeedStages
      <3> QED
        BY <1>0, <3>1 DEF SeedRecords
    <2> QED
      BY <2>1, <2>2
  <1>2. usage' \in [Slots -> Nat] /\ seeded' \in [Slots -> Nat]
    <2>1. CASE InsertSeed(b)
      <3>1. seed[b].rows \in [Slots -> Nat]
        BY <1>0 DEF SeedRecords
      <3> QED
        BY <1>0, <2>1, <3>1, SeedSum DEF InsertSeed
    <2>2. CASE ~InsertSeed(b)
      BY <1>0, <2>2 DEF CheckEmpty, Aggregate, SeedFails
    <2> QED
      BY <2>1, <2>2
  <1>3. UNCHANGED <<today, hour, req, overlapped>>
    BY DEF CheckEmpty, Aggregate, InsertSeed, SeedFails
  <1> QED
    BY <1>1, <1>2, <1>3 DEF TypeInv, TypeOK, SeedRecords, Attributed

\* TypeInv is inductive.
LEMMA TypeStep == TypeInv /\ [Next]_vars => TypeInv'
  <1> SUFFICES ASSUME TypeInv, [Next]_vars PROVE TypeInv'
    OBVIOUS
  <1>1. CASE TimePasses \/ Midnight
    <2>1. today' \in Days /\ hour' \in Hours
      BY <1>1, RollupAssumption
      DEF TimePasses, Midnight, TypeInv, TypeOK, Days, Hours, RollupAssumption
    <2>2. UNCHANGED <<usage, req, seed, seeded, overlapped>>
      BY <1>1 DEF TimePasses, Midnight
    <2> QED
      BY <2>1, <2>2 DEF TypeInv, TypeOK, Attributed
  <1>2. CASE WriteLog
    BY <1>2, WriteLogTypes DEF WriteLog
  <1>3. CASE Backfill
    BY <1>3, BackfillTypes DEF Backfill
  <1>4. CASE UNCHANGED vars
    BY <1>4 DEF vars, TypeInv, TypeOK, Attributed
  <1> QED
    BY <1>1, <1>2, <1>3, <1>4 DEF Next

\* Every variable keeps the values the program can give it.
THEOREM TypeCorrect == Spec => []TypeOK
  <1>1. TypeInv => TypeOK
    BY DEF TypeInv
  <1> QED
    BY <1>1, TypeInit, TypeStep, PTL DEF Spec

----------------------------------------------------------------------------
(* The inductive invariant *)

Updating(r, s) == req[r].pc = "update" /\ SlotOf(r) = s

\* What a request has read and is about to write back was not too much then,
\* and can only be too little now.
ReadNotTooMuch ==
    \A r \in Requests, s \in Slots :
        Updating(r, s) => req[r].seen <= Cardinality(Bumped(s)) + seeded[s]

\* A slot that was seeded has a row, and what an instance has aggregated is
\* still in the logs: the unique constraint then admits one seeding of it.
SeededHasRow == \A s \in Slots : seeded[s] # 0 => usage[s] # 0
RowsLogged == \A b \in Instances, s \in Slots : seed[b].rows[s] <= Cardinality(LogsIn(s))

\* In a slot without overlap at most one bump is under way, and what it has read
\* is still what the row, which exists, shows.
Alone ==
    \A r, q \in Requests :
        /\ req[r].pc \in Bumping /\ req[q].pc \in Bumping
        /\ SlotOf(r) = SlotOf(q) /\ SlotOf(r) \notin overlapped
        => r = q
ReadIsCurrent ==
    \A r \in Requests, s \in Slots \ overlapped :
        Updating(r, s) => req[r].seen = usage[s] /\ usage[s] # 0

\* A request has one log at most.
NewUnlogged == \A r \in Requests : req[r].pc = "new" => req[r].logDay = Unlogged

IInv ==
    /\ TypeInv /\ NewUnlogged /\ NeverOvercounts /\ ReadNotTooMuch
    /\ SeededOnce /\ SeededHasRow /\ RowsLogged
    /\ SerialExact /\ Alone /\ ReadIsCurrent

Rest ==
    /\ NewUnlogged
    /\ NeverOvercounts /\ ReadNotTooMuch /\ SeededOnce /\ SeededHasRow /\ RowsLogged
    /\ SerialExact /\ Alone /\ ReadIsCurrent

\* At first there is no row, and nothing is logged or counted.
LEMMA InvInit == Init => IInv
  <1> SUFFICES ASSUME Init PROVE Rest
    BY TypeInit DEF IInv, Rest
  <1>1. \A r \in Requests : req[r].pc = "new" /\ req[r].logDay = Unlogged
    BY DEF Init
  <1>2. \A s \in Slots : /\ usage[s] = 0 /\ seeded[s] = 0
                        /\ \A b \in Instances : seed[b].rows[s] = 0
    BY DEF Init, None
  <1>3. \A s : Bumped(s) = {} /\ Cardinality(Bumped(s)) = 0
    <2>1. \A s : Bumped(s) = {}
      BY <1>1 DEF Bumped
    <2> QED
      BY <2>1, FS_EmptySet
  <1>4. \A s : Cardinality(LogsIn(s)) \in Nat
    BY Counts
  <1>5. NeverOvercounts /\ SeededOnce /\ SeededHasRow /\ RowsLogged /\ SerialExact
    BY <1>2, <1>3, <1>4 DEF NeverOvercounts, SeededOnce, SeededHasRow, RowsLogged, SerialExact
  <1>6. ReadNotTooMuch /\ Alone /\ ReadIsCurrent
    BY <1>1 DEF ReadNotTooMuch, Alone, ReadIsCurrent, Updating, Bumping
  <1>7. NewUnlogged
    BY <1>1 DEF NewUnlogged
  <1> QED
    BY <1>5, <1>6, <1>7 DEF Rest

\* A request that is not counted by its step leaves the counts alone.
LEMMA BumpedSame ==
    ASSUME NEW r \in Requests, \A q \in Requests \ {r} : req'[q] = req[q],
           req[r].pc # "counted", req'[r].pc # "counted"
    PROVE  \A s : Bumped(s)' = Bumped(s)
  BY DEF Bumped, SlotOf

\* One that is counted adds one to its slot and nothing to the others.
LEMMA BumpedGrows ==
    ASSUME NEW r \in Requests, \A q \in Requests \ {r} : req'[q] = req[q],
           req[r].pc # "counted", req'[r].pc = "counted", req'[r].day = req[r].day
    PROVE  \A s : Cardinality(Bumped(s)') =
                     IF s = SlotOf(r) THEN Cardinality(Bumped(s)) + 1 ELSE Cardinality(Bumped(s))
  <1> TAKE s
  <1>1. CASE s = SlotOf(r)
    <2>1. Bumped(s)' = Bumped(s) \cup {r} /\ r \notin Bumped(s)
      BY <1>1 DEF Bumped, SlotOf
    <2> QED
      BY <1>1, <2>1, Counts, FS_AddElement
  <1>2. CASE s # SlotOf(r)
    <2>1. Bumped(s)' = Bumped(s)
      BY <1>2 DEF Bumped, SlotOf
    <2> QED
      BY <1>2, <2>1
  <1> QED
    BY <1>1, <1>2

\* Logs are only added: a slot never has fewer.
LEMMA LogsGrow ==
    ASSUME NEW r \in Requests, \A q \in Requests \ {r} : req'[q] = req[q],
           req'[r].logDay = req[r].logDay \/ req[r].logDay = Unlogged
    PROVE  \A s : Cardinality(LogsIn(s)) <= Cardinality(LogsIn(s)')
                  /\ Cardinality(LogsIn(s)') \in Nat
  <1> TAKE s
  <1>1. LogsIn(s) \subseteq LogsIn(s)' /\ LogsIn(s)' \subseteq Requests
    BY DEF LogsIn, Logged
  <1>2. IsFiniteSet(LogsIn(s)')
    BY <1>1, FS_Subset, RollupAssumption DEF RollupAssumption
  <1> QED
    BY <1>1, <1>2, FS_Subset, FS_CardinalityType

\* Steps of write_log that change no row: what the request reads to write back
\* is what its row shows, and a second bump in a slot is recorded as overlap.
LEMMA AsideStep ==
    ASSUME IInv, NEW r \in Requests, \A q \in Requests \ {r} : req'[q] = req[q],
           req[r].pc # "counted", req'[r].pc \notin {"new", "counted"},
           req'[r].logDay = req[r].logDay \/ req[r].logDay = Unlogged,
           UNCHANGED <<usage, seed, seeded>>, overlapped \subseteq overlapped',
           req'[r].pc = "update" => /\ SlotOf(r)' \in Slots
                                    /\ req'[r].seen = usage[SlotOf(r)'] /\ req'[r].seen # 0,
           req'[r].pc \in Bumping =>
              \/ req[r].pc \in Bumping /\ SlotOf(r)' = SlotOf(r)
              \/ \A q \in Requests \ {r} :
                    req[q].pc \in Bumping /\ SlotOf(q) = SlotOf(r)' => SlotOf(r)' \in overlapped'
    PROVE  Rest'
  <1>1. \A s : Bumped(s)' = Bumped(s)
    BY BumpedSame
  <1>2. \A s : /\ Cardinality(LogsIn(s)) <= Cardinality(LogsIn(s)')
               /\ Cardinality(LogsIn(s)) \in Nat /\ Cardinality(LogsIn(s)') \in Nat
    BY LogsGrow, Counts
  <1>3. \A s \in Slots : usage[s] \in Nat /\ seeded[s] \in Nat
    BY DEF IInv, TypeInv, TypeOK
  <1>4. \A b \in Instances, s \in Slots : seed[b].rows[s] \in Nat
    BY DEF IInv, TypeInv, TypeOK
  <1>5. \A q \in Requests \ {r} : SlotOf(q)' = SlotOf(q)
    BY DEF SlotOf
  <1>6. NeverOvercounts' /\ SeededHasRow' /\ SerialExact'
    BY <1>1 DEF IInv, NeverOvercounts, SeededHasRow, SerialExact
  <1>7. SeededOnce' /\ RowsLogged'
    BY <1>2, <1>3, <1>4 DEF IInv, SeededOnce, RowsLogged
  <1>8. ReadNotTooMuch'
    <2> SUFFICES ASSUME NEW q \in Requests, NEW s \in Slots, Updating(q, s)'
                 PROVE  req'[q].seen <= Cardinality(Bumped(s)) + seeded[s]
      BY <1>1 DEF ReadNotTooMuch
    <2>1. CASE q = r
      BY <2>1 DEF IInv, NeverOvercounts, Updating
    <2>2. CASE q # r
      BY <2>2, <1>5 DEF IInv, ReadNotTooMuch, Updating
    <2> QED
      BY <2>1, <2>2
  <1>9. ReadIsCurrent'
    <2> SUFFICES ASSUME NEW q \in Requests, NEW s \in Slots \ overlapped', Updating(q, s)'
                 PROVE  req'[q].seen = usage[s] /\ usage[s] # 0
      BY DEF ReadIsCurrent
    <2>1. CASE q = r
      BY <2>1 DEF Updating
    <2>2. CASE q # r
      BY <2>2, <1>5 DEF IInv, ReadIsCurrent, Updating
    <2> QED
      BY <2>1, <2>2
  <1>10. Alone'
    BY <1>5 DEF IInv, Alone
  <1>11. NewUnlogged'
    BY DEF IInv, NewUnlogged
  <1> QED
    BY <1>6, <1>7, <1>8, <1>9, <1>10, <1>11 DEF Rest

\* Steps of write_log that write the row of a slot: v, what was read before, is
\* not too much, and without overlap it is what the row shows.
LEMMA CountStep ==
    ASSUME IInv, NEW r \in Requests, NEW v \in Nat,
           req[r].pc \in Bumping, req' = [req EXCEPT ![r].pc = "counted"],
           usage' = [usage EXCEPT ![SlotOf(r)] = v + 1],
           UNCHANGED <<seed, seeded, overlapped>>,
           v <= Cardinality(Bumped(SlotOf(r))) + seeded[SlotOf(r)],
           SlotOf(r) \notin overlapped => v = usage[SlotOf(r)]
    PROVE  Rest'
  <1> DEFINE n == SlotOf(r)
  <1>1. /\ n \in Slots /\ req[r].pc # "counted" /\ req'[r].pc = "counted" /\ req'[r].day = req[r].day
        /\ req'[r].logDay = req[r].logDay
        /\ \A q \in Requests \ {r} : req'[q] = req[q]
    BY SlotType DEF IInv, TypeInv, TypeOK, Bumping
  <1>2. \A s : Cardinality(Bumped(s)') =
                 IF s = n THEN Cardinality(Bumped(s)) + 1 ELSE Cardinality(Bumped(s))
    BY <1>1, BumpedGrows
  <1>3. \A s : /\ Cardinality(LogsIn(s)) <= Cardinality(LogsIn(s)')
               /\ Cardinality(LogsIn(s)) \in Nat /\ Cardinality(LogsIn(s)') \in Nat
               /\ Cardinality(Bumped(s)) \in Nat
    BY <1>1, LogsGrow, Counts
  <1>4. \A s \in Slots : /\ usage[s] \in Nat /\ seeded[s] \in Nat
                        /\ usage'[s] = IF s = n THEN v + 1 ELSE usage[s]
    BY <1>1 DEF IInv, TypeInv, TypeOK
  <1>5. \A b \in Instances, s \in Slots : seed[b].rows[s] \in Nat
    BY DEF IInv, TypeInv, TypeOK
  <1>6. \A q \in Requests : SlotOf(q)' = SlotOf(q)
    BY <1>1 DEF SlotOf
  <1>7. \A q \in Requests : req[q].seen \in Nat /\ (req'[q].pc \in Bumping => q # r)
    BY <1>1 DEF IInv, TypeInv, TypeOK, Bumping
  <1> HIDE DEF n
  <1>8. NeverOvercounts'
    BY <1>1, <1>2, <1>3, <1>4 DEF IInv, NeverOvercounts, n
  <1>9. SeededHasRow'
    BY <1>1, <1>4 DEF IInv, SeededHasRow
  <1>10. SerialExact'
    BY <1>1, <1>2, <1>3, <1>4 DEF IInv, SerialExact, n
  <1>11. SeededOnce' /\ RowsLogged'
    BY <1>3, <1>4, <1>5 DEF IInv, SeededOnce, RowsLogged
  <1>12. Alone'
    BY <1>1, <1>6, <1>7 DEF IInv, Alone
  <1>13. ReadNotTooMuch'
    <2> SUFFICES ASSUME NEW q \in Requests, NEW s \in Slots, Updating(q, s)'
                 PROVE  req'[q].seen <= Cardinality(Bumped(s)') + seeded[s]
      BY DEF ReadNotTooMuch
    <2>1. Updating(q, s) /\ req'[q] = req[q]
      BY <1>1, <1>6, <1>7 DEF Updating, Bumping
    <2>2. req[q].seen <= Cardinality(Bumped(s)) + seeded[s]
      BY <2>1 DEF IInv, ReadNotTooMuch
    <2> QED
      BY <2>1, <2>2, <1>2, <1>3, <1>4, <1>7
  <1>14. ReadIsCurrent'
    <2> SUFFICES ASSUME NEW q \in Requests, NEW s \in Slots \ overlapped, Updating(q, s)'
                 PROVE  req'[q].seen = usage'[s] /\ usage'[s] # 0
      BY DEF ReadIsCurrent
    <2>1. Updating(q, s) /\ req'[q] = req[q] /\ q # r
      BY <1>1, <1>6, <1>7 DEF Updating, Bumping
    <2>2. s # n
      BY <2>1 DEF IInv, Alone, Updating, Bumping, n
    <2> QED
      BY <2>1, <2>2, <1>4 DEF IInv, ReadIsCurrent
  <1>15. NewUnlogged'
    BY <1>1 DEF IInv, NewUnlogged
  <1> QED
    BY <1>8, <1>9, <1>10, <1>11, <1>12, <1>13, <1>14, <1>15 DEF Rest

\* Every step of write_log is of one of the two kinds.
LEMMA WriteLogStep ==
    ASSUME IInv, NEW r \in Requests,
           \/ CommitLog(r) \/ LogFails(r) \/ BeginBump(r) \/ SelectRow(r)
           \/ InsertRow(r) \/ InsertConflict(r) \/ ReselectRow(r) \/ UpdateRow(r)
           \/ BumpFails(r)
    PROVE  Rest'
  <1>0. req \in [Requests -> RequestRecords] /\ req[r] \in RequestRecords
    BY DEF IInv, TypeInv, TypeOK, RequestRecords
  <1>1. CASE CommitLog(r) \/ LogFails(r)
    <2>1. /\ req'[r].pc \notin Bumping \cup {"new", "counted"} /\ req[r].pc = "new"
          /\ \A q \in Requests \ {r} : req'[q] = req[q]
          /\ UNCHANGED <<usage, seed, seeded, overlapped>>
      BY <1>0, <1>1 DEF CommitLog, LogFails, Bumping, RequestRecords
    <2>2. req'[r].logDay = req[r].logDay \/ req[r].logDay = Unlogged
      <3>1. CASE LogFails(r)
        BY <1>0, <3>1 DEF LogFails, RequestRecords
      <3>2. CASE CommitLog(r)
        BY <3>2 DEF CommitLog, IInv, NewUnlogged
      <3> QED
        BY <1>1, <3>1, <3>2
    <2> QED
      BY <2>1, <2>2, AsideStep DEF Bumping
  <1>2. CASE BeginBump(r)
    <2>1. /\ req'[r].pc = "select" /\ req[r].pc = "logged" /\ req'[r].logDay = req[r].logDay
          /\ SlotOf(r)' = <<KeyOf[r], today>>
          /\ \A q \in Requests \ {r} : req'[q] = req[q]
          /\ UNCHANGED <<usage, seed, seeded>> /\ overlapped \subseteq overlapped'
      BY <1>0, <1>2 DEF BeginBump, SlotOf, RequestRecords
    <2>2. \A q \in Requests \ {r} :
             req[q].pc \in Bumping /\ SlotOf(q) = SlotOf(r)' => SlotOf(r)' \in overlapped'
      BY <1>2, <2>1 DEF BeginBump
    <2> QED
      BY <2>1, <2>2, AsideStep
  <1>3. CASE SelectRow(r) \/ ReselectRow(r)
    <2>1. PICK p \in {"insert", "uncounted", "update"} :
             /\ req' = [req EXCEPT ![r].pc = p, ![r].seen = usage[SlotOf(r)]]
             /\ p = "update" => usage[SlotOf(r)] # 0
      BY <1>3 DEF SelectRow, ReselectRow
    <2>2. /\ req'[r].pc = p /\ req'[r].seen = usage[SlotOf(r)] /\ SlotOf(r)' = SlotOf(r)
          /\ req'[r].logDay = req[r].logDay
          /\ \A q \in Requests \ {r} : req'[q] = req[q]
      BY <1>0, <2>1 DEF SlotOf, RequestRecords
    <2>3. /\ req[r].pc \in Bumping /\ SlotOf(r) \in Slots
          /\ UNCHANGED <<usage, seed, seeded, overlapped>>
      BY <1>3, SlotType DEF SelectRow, ReselectRow, Bumping, IInv
    <2> QED
      BY <2>1, <2>2, <2>3, AsideStep DEF Bumping
  <1>4. CASE InsertConflict(r) \/ BumpFails(r)
    <2>1. PICK p \in {"reselect", "uncounted"} : req' = [req EXCEPT ![r].pc = p]
      BY <1>4 DEF InsertConflict, BumpFails
    <2>2. /\ req'[r].pc = p /\ SlotOf(r)' = SlotOf(r) /\ req'[r].logDay = req[r].logDay
          /\ \A q \in Requests \ {r} : req'[q] = req[q]
      BY <1>0, <2>1 DEF SlotOf, RequestRecords
    <2>3. req[r].pc \in Bumping /\ UNCHANGED <<usage, seed, seeded, overlapped>>
      BY <1>4 DEF InsertConflict, BumpFails, Bumping
    <2> QED
      BY <2>1, <2>2, <2>3, AsideStep DEF Bumping
  <1>5. CASE InsertRow(r)
    <2>1. SlotOf(r) \in Slots
      BY <1>5, SlotType DEF InsertRow, Bumping, IInv
    <2>2. 0 <= Cardinality(Bumped(SlotOf(r))) + seeded[SlotOf(r)]
      BY <2>1, Counts DEF IInv, TypeInv, TypeOK
    <2>3. /\ usage' = [usage EXCEPT ![SlotOf(r)] = 0 + 1] /\ 0 \in Nat
          /\ 0 = usage[SlotOf(r)] /\ UNCHANGED <<seed, seeded, overlapped>>
          /\ req' = [req EXCEPT ![r].pc = "counted"] /\ req[r].pc \in Bumping
      BY <1>5 DEF InsertRow, Bumping
    <2> QED
      BY <2>2, <2>3, CountStep
  <1>6. CASE UpdateRow(r)
    <2>1. SlotOf(r) \in Slots /\ Updating(r, SlotOf(r))
      BY <1>6, SlotType DEF UpdateRow, Bumping, Updating, IInv
    <2>2. /\ req[r].seen \in Nat
          /\ req[r].seen <= Cardinality(Bumped(SlotOf(r))) + seeded[SlotOf(r)]
          /\ SlotOf(r) \notin overlapped => req[r].seen = usage[SlotOf(r)]
      BY <1>0, <2>1 DEF IInv, ReadNotTooMuch, ReadIsCurrent, RequestRecords
    <2> QED
      BY <1>6, <2>2, CountStep DEF UpdateRow, Bumping
  <1> QED
    BY <1>1, <1>2, <1>3, <1>4, <1>5, <1>6

\* Reading for a seed, or giving it up: only what one instance has aggregated
\* changes.
LEMMA SeedAside ==
    ASSUME IInv, UNCHANGED <<usage, req, seeded, overlapped>>, RowsLogged'
    PROVE  Rest'
  <1>1. \A s : Bumped(s)' = Bumped(s) /\ LogsIn(s)' = LogsIn(s)
    BY DEF Bumped, LogsIn, Logged, SlotOf
  <1>2. \A r \in Requests : SlotOf(r)' = SlotOf(r)
    BY DEF SlotOf
  <1>3. NeverOvercounts' /\ SeededOnce' /\ SeededHasRow' /\ SerialExact' /\ NewUnlogged'
    BY <1>1 DEF IInv, NeverOvercounts, SeededOnce, SeededHasRow, SerialExact, NewUnlogged
  <1>4. ReadNotTooMuch' /\ Alone' /\ ReadIsCurrent'
    BY <1>1, <1>2 DEF IInv, ReadNotTooMuch, Alone, ReadIsCurrent, Updating
  <1> QED
    BY <1>3, <1>4 DEF Rest

\* The INSERT of a seed: where it puts something there was no row, so nothing
\* was seeded, and nobody is about to write the row back.
LEMMA SeedStep ==
    ASSUME IInv, NEW b \in Instances, InsertSeed(b)
    PROVE  Rest'
  <1> DEFINE rows == seed[b].rows
  <1>1. /\ UNCHANGED <<today, req, overlapped>> /\ seed' = [seed EXCEPT ![b].pc = "seeded"]
        /\ \A s \in Slots : rows[s] = 0 \/ usage[s] = 0
        /\ \A s \in Slots : usage'[s] = usage[s] + rows[s] /\ seeded'[s] = seeded[s] + rows[s]
    BY DEF InsertSeed, Conflicts
  <1>2. \A s \in Slots : rows[s] \in Nat /\ usage[s] \in Nat /\ seeded[s] \in Nat
    BY DEF IInv, TypeInv, TypeOK
  <1>3. \A s : /\ Bumped(s)' = Bumped(s) /\ LogsIn(s)' = LogsIn(s)
               /\ Cardinality(Bumped(s)) \in Nat /\ Cardinality(LogsIn(s)) \in Nat
    BY <1>1, Counts DEF Bumped, LogsIn, Logged, SlotOf
  <1>4. \A r \in Requests : SlotOf(r)' = SlotOf(r) /\ req[r].seen \in Nat
    BY <1>1 DEF SlotOf, IInv, TypeInv, TypeOK
  <1>5. \A s \in Slots : rows[s] <= Cardinality(LogsIn(s))
    BY DEF IInv, RowsLogged
  <1>6. \A c \in Instances : seed'[c].rows = seed[c].rows
    BY <1>1 DEF IInv, TypeInv, TypeOK
  <1> HIDE DEF rows
  <1>7. NeverOvercounts' /\ SerialExact'
    BY <1>1, <1>2, <1>3 DEF IInv, NeverOvercounts, SerialExact
  <1>8. SeededHasRow'
    BY <1>1, <1>2 DEF IInv, SeededHasRow
  <1>9. SeededOnce'
    <2> SUFFICES ASSUME NEW s \in Slots PROVE seeded'[s] <= Cardinality(LogsIn(s))
      BY <1>3 DEF SeededOnce
    <2>1. CASE rows[s] = 0
      BY <2>1, <1>1, <1>2 DEF IInv, SeededOnce
    <2>2. CASE usage[s] = 0
      BY <2>2, <1>1, <1>2, <1>5 DEF IInv, SeededHasRow
    <2> QED
      BY <2>1, <2>2, <1>1
  <1>10. RowsLogged'
    BY <1>3, <1>6 DEF IInv, RowsLogged
  <1>11. ReadNotTooMuch'
    <2> SUFFICES ASSUME NEW q \in Requests, NEW s \in Slots, Updating(q, s)'
                 PROVE  req[q].seen <= Cardinality(Bumped(s)) + seeded'[s]
      BY <1>1, <1>3 DEF ReadNotTooMuch
    <2>1. req[q].seen <= Cardinality(Bumped(s)) + seeded[s]
      BY <1>1, <1>4 DEF IInv, ReadNotTooMuch, Updating
    <2> QED
      BY <2>1, <1>1, <1>2, <1>3, <1>4
  <1>12. ReadIsCurrent'
    BY <1>1, <1>2, <1>4 DEF IInv, ReadIsCurrent, Updating
  <1>13. Alone' /\ NewUnlogged'
    BY <1>1, <1>4 DEF IInv, Alone, NewUnlogged
  <1> QED
    BY <1>7, <1>8, <1>9, <1>10, <1>11, <1>12, <1>13 DEF Rest

\* Every step of backfill_usage_daily is of one of the two kinds.
LEMMA BackfillStep ==
    ASSUME IInv, NEW b \in Instances,
           CheckEmpty(b) \/ Aggregate(b) \/ InsertSeed(b) \/ SeedFails(b)
    PROVE  Rest'
  <1>0. seed \in [Instances -> SeedRecords] /\ seed[b] \in SeedRecords
    BY DEF IInv, TypeInv, TypeOK, SeedRecords
  <1>1. CASE InsertSeed(b)
    BY <1>1, SeedStep
  <1>2. CASE CheckEmpty(b) \/ Aggregate(b) \/ SeedFails(b)
    <2>1. UNCHANGED <<usage, req, seeded, overlapped>>
      BY <1>2 DEF CheckEmpty, Aggregate, SeedFails
    <2>2. \A s : LogsIn(s)' = LogsIn(s) /\ Cardinality(LogsIn(s)) \in Nat
      BY <2>1, Counts DEF LogsIn, Logged
    <2>3. /\ \A c \in Instances \ {b} : seed'[c] = seed[c]
          /\ \A s \in Slots : seed'[b].rows[s] \in {seed[b].rows[s], Cardinality(LogsIn(s))}
      <3>1. CASE Aggregate(b)
        BY <1>0, <3>1 DEF Aggregate
      <3>2. CASE CheckEmpty(b) \/ SeedFails(b)
        BY <1>0, <3>2 DEF CheckEmpty, SeedFails, SeedRecords
      <3> QED
        BY <1>2, <3>1, <3>2
    <2>4. RowsLogged'
      BY <2>2, <2>3 DEF IInv, RowsLogged
    <2> QED
      BY <2>1, <2>4, SeedAside
  <1> QED
    BY <1>1, <1>2

\* IInv is inductive.
LEMMA InvStep == IInv /\ [Next]_vars => IInv'
  <1> SUFFICES ASSUME IInv, [Next]_vars PROVE Rest'
    BY TypeStep DEF IInv, Rest
  <1>1. CASE TimePasses \/ Midnight
    <2>1. UNCHANGED <<usage, req, seed, seeded, overlapped>>
      BY <1>1 DEF TimePasses, Midnight
    <2>2. RowsLogged'
      BY <2>1 DEF IInv, RowsLogged, LogsIn, Logged
    <2> QED
      BY <2>1, <2>2, SeedAside
  <1>2. CASE WriteLog
    BY <1>2, WriteLogStep DEF WriteLog
  <1>3. CASE Backfill
    BY <1>3, BackfillStep DEF Backfill
  <1>4. CASE UNCHANGED vars
    <2>1. UNCHANGED <<usage, req, seed, seeded, overlapped>>
      BY <1>4 DEF vars
    <2>2. RowsLogged'
      BY <2>1 DEF IInv, RowsLogged, LogsIn, Logged
    <2> QED
      BY <2>1, <2>2, SeedAside
  <1> QED
    BY <1>1, <1>2, <1>3, <1>4 DEF Next

\* The inductive invariant holds in every reachable state.
THEOREM Invariant == Spec => []IInv
  BY InvInit, InvStep, PTL DEF Spec

----------------------------------------------------------------------------
(* What follows from it *)

\* A usage row never shows more requests than _bump_usage_daily committed to
\* it and backfill_usage_daily put in it.
THEOREM NoOvercount == Spec => []NeverOvercounts
  <1>1. IInv => NeverOvercounts
    BY DEF IInv
  <1> QED
    BY <1>1, Invariant, PTL

\* backfill_usage_daily counts a logged request at most once, however many
\* instances start together and whatever is served meanwhile.
THEOREM NoDoubleSeed == Spec => []SeededOnce
  <1>1. IInv => SeededOnce
    BY DEF IInv
  <1> QED
    BY <1>1, Invariant, PTL

\* Only overlapping bumps lose counts: every other row is exact.
THEOREM ExactWithoutOverlap == Spec => []SerialExact
  <1>1. IInv => SerialExact
    BY DEF IInv
  <1> QED
    BY <1>1, Invariant, PTL

----------------------------------------------------------------------------
(* Sums over finite sets                                                    *)

LEMMA LeastOf ==
    ASSUME NEW T, T \subseteq Nat, T # {}
    PROVE  \E n \in T : \A k \in T : n <= k
  <1>1. PICK n \in T : \A k \in T : <<k, n>> \notin OpToRel(<, Nat)
    BY NatLessThanWellFounded, WFMin
  <1>2. ASSUME NEW k \in T
        PROVE  n <= k
    <2>1. ~(k < n)
      BY <1>1 DEF OpToRel
    <2> QED
      BY <2>1
  <1> QED
    BY <1>2

SumOf(g, S) == MapThenSumSet(LAMBDA e : g[e], S)

\* The sum of g over S, as a set: g[e] pairs for every e.
Pairs(g, S) == {p \in S \X Nat : p[2] \in 1..g[p[1]]}

LEMMA PairsFinite ==
    ASSUME NEW g, NEW S, IsFiniteSet(S), \A e \in S : g[e] \in Nat
    PROVE  IsFiniteSet(Pairs(g, S)) /\ Cardinality(Pairs(g, S)) \in Nat
  <1> DEFINE F == [e \in S |-> {e} \X (1..g[e])]
             R == {F[e] : e \in S}
  <1>1. IsFiniteSet(R)
    <2>1. F \in [S -> R] /\ \A T \in R : \E e \in S : F[e] = T
      OBVIOUS
    <2> HIDE DEF F, R
    <2>2. F \in Surjection(S, R)
      BY <2>1 DEF Surjection
    <2> QED
      BY <2>2, FS_Surjection
  <1>2. ASSUME NEW T \in R
        PROVE  IsFiniteSet(T)
    <2>1. PICK e \in S : T = {e} \X (1..g[e])
      OBVIOUS
    <2>2. PICK n \in Nat : n = g[e]
      OBVIOUS
    <2>3. IsFiniteSet(1..n)
      BY FS_Interval
    <2>4. IsFiniteSet({e})
      BY FS_Singleton
    <2> QED
      BY <2>1, <2>2, <2>3, <2>4, FS_Product
  <1>3. Pairs(g, S) \subseteq UNION R
    <2> SUFFICES ASSUME NEW p \in Pairs(g, S)
                 PROVE  p \in UNION R
      OBVIOUS
    <2>1. p[1] \in S /\ p = <<p[1], p[2]>> /\ p[2] \in 1..g[p[1]]
      BY DEF Pairs
    <2>2. p \in {p[1]} \X (1..g[p[1]])
      BY <2>1
    <2>3. {p[1]} \X (1..g[p[1]]) \in R
      BY <2>1
    <2> QED
      BY <2>2, <2>3
  <1> HIDE DEF R
  <1>4. IsFiniteSet(UNION R)
    BY <1>1, <1>2, FS_UNION
  <1> QED
    BY <1>3, <1>4, FS_Subset, FS_CardinalityType

LEMMA PairsPick ==
    ASSUME NEW g, NEW S, IsFiniteSet(S), \A e \in S : g[e] \in Nat, NEW x \in S
    PROVE  Cardinality(Pairs(g, S)) = g[x] + Cardinality(Pairs(g, S \ {x}))
  <1> DEFINE A == Pairs(g, S \ {x})
             B == {x} \X (1..g[x])
  <1>1. Pairs(g, S) = A \cup B /\ A \cap B = {}
    BY DEF Pairs
  <1>2. IsFiniteSet(A) /\ Cardinality(A) \in Nat
    <2>1. IsFiniteSet(S \ {x})
      BY FS_RemoveElement
    <2> QED
      BY <2>1, PairsFinite
  <1>3. IsFiniteSet(B) /\ Cardinality(B) = g[x]
    <2>1. IsFiniteSet({x}) /\ Cardinality({x}) = 1
      BY FS_Singleton
    <2>2. PICK n \in Nat : n = g[x]
      OBVIOUS
    <2>3. IsFiniteSet(1..n) /\ Cardinality(1..n) = n
      BY FS_Interval
    <2>4. /\ IsFiniteSet({x} \X (1..n))
          /\ Cardinality({x} \X (1..n)) = Cardinality({x}) * Cardinality(1..n)
      BY <2>1, <2>3, FS_Product, Zenon
    <2>5. Cardinality({x}) * Cardinality(1..n) = 1 * n /\ 1 * n = n
      BY <2>1, <2>3
    <2> QED
      BY <2>2, <2>4, <2>5
  <1> HIDE DEF A, B
  <1>4. Cardinality(A \cup B) = Cardinality(A) + Cardinality(B) - Cardinality(A \cap B)
    BY <1>2, <1>3, FS_Union
  <1>5. Cardinality(A \cap B) = 0
    BY <1>1, FS_EmptySet
  <1> QED
    BY <1>1, <1>2, <1>3, <1>4, <1>5 DEF A

Picked(s) == CHOOSE x \in s : TRUE

Adds(it, g, S) ==
    it = [s \in SUBSET S |-> IF s = {} THEN 0 ELSE g[Picked(s)] + it[s \ {Picked(s)}]]

LEMMA PairsAdd ==
    ASSUME NEW g, NEW S, IsFiniteSet(S), \A e \in S : g[e] \in Nat
    PROVE  Adds([s \in SUBSET S |-> Cardinality(Pairs(g, s))], g, S)
  <1> DEFINE it == [s \in SUBSET S |-> Cardinality(Pairs(g, s))]
  <1>1. ASSUME NEW s \in SUBSET S
        PROVE  it[s] = IF s = {} THEN 0 ELSE g[Picked(s)] + it[s \ {Picked(s)}]
    <2>1. CASE s = {}
      <3>1. Pairs(g, s) = {}
        BY <2>1 DEF Pairs
      <3> QED
        BY <2>1, <3>1, FS_EmptySet
    <2>2. CASE s # {}
      <3>1. Picked(s) \in s
        BY <2>2 DEF Picked
      <3>2. IsFiniteSet(s) /\ \A e \in s : g[e] \in Nat
        BY FS_Subset
      <3>3. Cardinality(Pairs(g, s)) = g[Picked(s)] + Cardinality(Pairs(g, s \ {Picked(s)}))
        BY <3>1, <3>2, PairsPick
      <3> QED
        BY <2>2, <3>3
    <2> QED
      BY <2>1, <2>2
  <1>2. it = [s \in SUBSET S |-> it[s]]
    OBVIOUS
  <1> HIDE DEF it
  <1>3. Adds(it, g, S)
    BY <1>1, <1>2, Zenon DEF Adds
  <1> QED
    BY <1>3 DEF it

LEMMA AddsOnce ==
    ASSUME NEW g, NEW S, IsFiniteSet(S), NEW f, NEW h, Adds(f, g, S), Adds(h, g, S)
    PROVE  f[S] = h[S]
  <1> DEFINE T == {n \in Nat : \E s \in SUBSET S : Cardinality(s) = n /\ f[s] # h[s]}
  <1>1. SUFFICES ASSUME f[S] # h[S]
                 PROVE  FALSE
    OBVIOUS
  <1>2. T \subseteq Nat
    OBVIOUS
  <1>3. T # {}
    <2>1. Cardinality(S) \in Nat
      BY FS_CardinalityType
    <2> QED
      BY <1>1, <2>1
  <1>4. PICK n \in T : \A k \in T : n <= k
    <2> HIDE DEF T
    <2> QED
      BY <1>2, <1>3, LeastOf
  <1>5. PICK s \in SUBSET S : Cardinality(s) = n /\ f[s] # h[s]
    OBVIOUS
  <1> DEFINE x == Picked(s)
  <1>6. /\ f[s] = IF s = {} THEN 0 ELSE g[x] + f[s \ {x}]
        /\ h[s] = IF s = {} THEN 0 ELSE g[x] + h[s \ {x}]
    BY Zenon DEF Adds
  <1>7. s # {} /\ f[s \ {x}] # h[s \ {x}]
    BY <1>5, <1>6
  <1>8. x \in s
    BY <1>7 DEF Picked
  <1>9. Cardinality(s \ {x}) = n - 1 /\ Cardinality(s \ {x}) \in Nat
    <2>1. IsFiniteSet(s)
      BY FS_Subset
    <2>2. IsFiniteSet(s \ {x}) /\ Cardinality(s \ {x}) = Cardinality(s) - 1
      BY <1>8, <2>1, FS_RemoveElement
    <2> QED
      BY <1>5, <2>2, FS_CardinalityType
  <1>10. PICK m \in Nat : m = Cardinality(s \ {x})
    BY <1>9
  <1>11. s \ {x} \in SUBSET S
    OBVIOUS
  <1> HIDE DEF x
  <1>12. m \in T
    BY <1>7, <1>10, <1>11
  <1> HIDE DEF T
  <1>13. n \in Nat /\ n <= m /\ m = n - 1
    BY <1>2, <1>4, <1>9, <1>10, <1>12
  <1> QED
    BY <1>13

LEMMA SumIsPairs ==
    ASSUME NEW g, NEW S, IsFiniteSet(S), \A e \in S : g[e] \in Nat
    PROVE  SumOf(g, S) = Cardinality(Pairs(g, S))
  <1> DEFINE f == [s \in SUBSET S |-> Cardinality(Pairs(g, s))]
             h == CHOOSE it : it = [s \in SUBSET S |->
                     IF s = {} THEN 0
                     ELSE LET x == CHOOSE y \in s : TRUE IN g[x] + it[s \ {x}]]
  <1>1. SumOf(g, S) = h[S]
    BY Zenon DEF SumOf, MapThenSumSet, MapThenFoldSet
  <1>2. Adds(f, g, S)
    BY PairsAdd
  <1> HIDE DEF f
  <1>3. Adds(h, g, S)
    BY <1>2, Zenon DEF Adds, Picked
  <1> HIDE DEF h
  <1>4. f[S] = h[S]
    BY <1>2, <1>3, AddsOnce
  <1> QED
    BY <1>1, <1>4 DEF f

Fibre(U, loc, e) == {u \in U : loc[u] = e}

\* The elements of a finite set, numbered.
Numbered(F) == CHOOSE b : b \in Bijection(1..Cardinality(F), F)

LEMMA NumberedIs ==
    ASSUME NEW F, IsFiniteSet(F)
    PROVE  /\ Numbered(F) \in [1..Cardinality(F) -> F] /\ Cardinality(F) \in Nat
           /\ \A i, j \in 1..Cardinality(F) : Numbered(F)[i] = Numbered(F)[j] => i = j
           /\ \A u \in F : \E i \in 1..Cardinality(F) : Numbered(F)[i] = u
  <1>1. Cardinality(F) \in Nat /\ ExistsBijection(1..Cardinality(F), F)
    BY FS_CardinalityType
  <1>2. Numbered(F) \in Bijection(1..Cardinality(F), F)
    BY <1>1, Zenon DEF ExistsBijection, Numbered
  <1> QED
    BY <1>1, <1>2 DEF Bijection, Injection, Surjection, IsInjective

\* A sum is at most the number of things there are, if no part of it is more
\* than the things that fall to it.
LEMMA SumAtMost ==
    ASSUME NEW g, NEW S, IsFiniteSet(S), \A e \in S : g[e] \in Nat,
           NEW U, IsFiniteSet(U), NEW loc, \A e \in S : g[e] <= Cardinality(Fibre(U, loc, e))
    PROVE  SumOf(g, S) <= Cardinality(U)
  <1> DEFINE P == Pairs(g, S)
             m == [p \in P |-> Numbered(Fibre(U, loc, p[1]))[p[2]]]
  <1>1. ASSUME NEW p \in P
        PROVE  LET F == Fibre(U, loc, p[1]) IN
               /\ IsFiniteSet(F) /\ p[1] \in S /\ p[2] \in 1..Cardinality(F)
               /\ m[p] = Numbered(F)[p[2]] /\ m[p] \in F /\ p = <<p[1], p[2]>>
    <2> DEFINE F == Fibre(U, loc, p[1])
    <2>1. p[1] \in S /\ p[2] \in Nat /\ p[2] \in 1..g[p[1]] /\ p = <<p[1], p[2]>>
      BY DEF Pairs
    <2>2. IsFiniteSet(F)
      <3>1. F \subseteq U
        BY DEF Fibre
      <3> QED
        BY <3>1, FS_Subset
    <2> HIDE DEF P
    <2>3. m[p] = Numbered(F)[p[2]]
      OBVIOUS
    <2> HIDE DEF F, m
    <2>4. PICK n \in Nat : n = g[p[1]]
      BY <2>1
    <2>5. PICK c \in Nat : c = Cardinality(F)
      BY <2>2, FS_CardinalityType
    <2>6. n <= c
      BY <2>1, <2>4, <2>5 DEF F
    <2>7. p[2] \in 1..c
      BY <2>1, <2>4, <2>6
    <2>8. Numbered(F)[p[2]] \in F
      BY <2>2, <2>5, <2>7, NumberedIs
    <2> QED
      BY <2>1, <2>2, <2>3, <2>5, <2>7, <2>8 DEF F
  <1>2. m \in [P -> U]
    <2>1. \A p \in P : m[p] \in U
      BY <1>1 DEF Fibre
    <2> QED
      BY <2>1
  <1>3. ASSUME NEW p \in P, NEW q \in P, m[p] = m[q]
        PROVE  p = q
    <2>1. p[1] = q[1]
      BY <1>1, <1>3 DEF Fibre
    <2>2. PICK F : F = Fibre(U, loc, p[1]) /\ F = Fibre(U, loc, q[1])
      BY <2>1
    <2>3. /\ IsFiniteSet(F) /\ p[2] \in 1..Cardinality(F) /\ q[2] \in 1..Cardinality(F)
          /\ Numbered(F)[p[2]] = Numbered(F)[q[2]]
      BY <1>1, <1>3, <2>2
    <2>4. p[2] = q[2]
      BY <2>3, NumberedIs
    <2> QED
      BY <1>1, <2>1, <2>4
  <1> HIDE DEF m, P
  <1>4. m \in Injection(P, U)
    BY <1>2, <1>3 DEF Injection, IsInjective
  <1>5. Cardinality(P) <= Cardinality(U)
    BY <1>4, FS_Injection
  <1> QED
    BY <1>5, SumIsPairs DEF P

\* There are at most as many things as a sum, if what falls to each part of it
\* is no more than that part.
LEMMA SumAtLeast ==
    ASSUME NEW g, NEW S, IsFiniteSet(S), \A e \in S : g[e] \in Nat,
           NEW U, IsFiniteSet(U), NEW loc, \A u \in U : loc[u] \in S,
           \A e \in S : Cardinality(Fibre(U, loc, e)) <= g[e]
    PROVE  Cardinality(U) <= SumOf(g, S)
  <1> DEFINE N(u) == Numbered(Fibre(U, loc, loc[u]))
             I(u) == CHOOSE i \in 1..Cardinality(Fibre(U, loc, loc[u])) : N(u)[i] = u
             P == Pairs(g, S)
             m == [u \in U |-> <<loc[u], I(u)>>]
  <1>1. ASSUME NEW u \in U
        PROVE  N(u)[I(u)] = u /\ m[u] \in P
    <2> DEFINE F == Fibre(U, loc, loc[u])
    <2>1. IsFiniteSet(F)
      <3>1. F \subseteq U
        BY DEF Fibre
      <3> QED
        BY <3>1, FS_Subset
    <2>2. u \in F
      BY DEF Fibre
    <2> HIDE DEF F
    <2>3. \E i \in 1..Cardinality(F) : Numbered(F)[i] = u
      BY <2>1, <2>2, NumberedIs
    <2>4. I(u) \in 1..Cardinality(F) /\ Numbered(F)[I(u)] = u
      BY <2>3 DEF F
    <2>5. PICK n \in Nat : n = g[loc[u]]
      OBVIOUS
    <2>6. PICK c \in Nat : c = Cardinality(F)
      BY <2>1, FS_CardinalityType
    <2>7. c <= n
      BY <2>5, <2>6 DEF F
    <2>8. m[u] = <<loc[u], I(u)>>
      OBVIOUS
    <2> HIDE DEF I, m
    <2>9. I(u) \in 1..n /\ I(u) \in Nat
      BY <2>4, <2>6, <2>7
    <2>10. m[u] \in P
      BY <2>5, <2>8, <2>9 DEF Pairs
    <2> QED
      BY <2>4, <2>10 DEF F
  <1>2. ASSUME NEW u \in U, NEW v \in U, m[u] = m[v]
        PROVE  u = v
    <2>1. m[u] = <<loc[u], I(u)>> /\ m[v] = <<loc[v], I(v)>>
      OBVIOUS
    <2> HIDE DEF I, m
    <2>2. loc[u] = loc[v] /\ I(u) = I(v)
      <3>1. PICK i : i = I(u)
        OBVIOUS
      <3>2. PICK j : j = I(v)
        OBVIOUS
      <3>3. <<loc[u], i>> = <<loc[v], j>>
        BY <1>2, <2>1, <3>1, <3>2, Zenon
      <3>4. loc[u] = loc[v] /\ i = j
        BY <3>3
      <3> QED
        BY <3>1, <3>2, <3>4, Zenon
    <2>3. N(u) = N(v)
      BY <2>2
    <2> HIDE DEF N
    <2> QED
      BY <1>1, <2>2, <2>3
  <1>3. m \in [U -> P]
    BY <1>1
  <1> HIDE DEF m, P
  <1>4. m \in Injection(U, P)
    BY <1>2, <1>3 DEF Injection, IsInjective
  <1>5. IsFiniteSet(P)
    BY PairsFinite DEF P
  <1>6. Cardinality(U) <= Cardinality(P)
    BY <1>4, <1>5, FS_Injection
  <1> QED
    BY <1>6, SumIsPairs DEF P

----------------------------------------------------------------------------
(* The reports                                                              *)

\* A log is of a day that has begun, and its bump counts it on no earlier day:
\* _bump_usage_daily asks for the date after the log was committed.
Dated ==
    \A r \in Requests :
        /\ Logged(r) => req[r].logDay \in 0..today
        /\ req[r].pc \in {"logged", "counted"} \cup Bumping => Logged(r)
        /\ req[r].pc \in {"counted"} \cup Bumping => req[r].logDay <= req[r].day

LEMMA DatedStep ==
    ASSUME TypeInv, Dated, [Next]_vars
    PROVE  Dated'
  <1> USE DEF Bumping, Unlogged, Logged
  <1>1. /\ req \in [Requests -> RequestRecords] /\ today \in Nat
        /\ \A r \in Requests : req[r].logDay \in Int /\ req[r].day \in Int
    BY DEF TypeInv, TypeOK, RequestRecords, Days
  <1>2. ASSUME NEW r \in Requests, today' = today,
               \A q \in Requests : q # r => req'[q] = req[q],
               /\ req'[r].logDay # -1 => req'[r].logDay \in 0..today
               /\ req'[r].pc \in {"logged", "counted"} \cup Bumping => req'[r].logDay # -1
               /\ req'[r].pc \in {"counted"} \cup Bumping => req'[r].logDay <= req'[r].day
        PROVE  Dated'
    BY <1>2 DEF Dated
  <1>3. CASE TimePasses \/ Midnight
    <2>1. today' \in {today, today + 1} /\ req' = req
      BY <1>3 DEF TimePasses, Midnight
    <2>2. 0..today \subseteq 0..(today + 1)
      BY <1>1
    <2> QED
      BY <2>1, <2>2 DEF Dated
  <1>4. CASE WriteLog
    <2>1. PICK r \in Requests :
             \/ CommitLog(r) \/ LogFails(r) \/ BeginBump(r) \/ SelectRow(r)
             \/ InsertRow(r) \/ InsertConflict(r) \/ ReselectRow(r) \/ UpdateRow(r)
             \/ BumpFails(r)
      BY <1>4 DEF WriteLog
    <2>2. /\ req[r] \in RequestRecords
          /\ req[r].logDay # -1 => req[r].logDay \in 0..today
          /\ req[r].pc \in {"logged", "counted"} \cup Bumping => req[r].logDay # -1
          /\ req[r].pc \in {"counted"} \cup Bumping => req[r].logDay <= req[r].day
      BY <1>1 DEF Dated
    <2>3. today' = today
      BY <2>1 DEF CommitLog, LogFails, BeginBump, SelectRow, InsertRow, InsertConflict,
                  ReselectRow, UpdateRow, BumpFails
    <2>4. CASE CommitLog(r)
      <3>1. req' = [req EXCEPT ![r] = [req[r] EXCEPT
                      !.pc = IF KeyOf[r] = Anonymous THEN "anonymous" ELSE "logged",
                      !.logDay = today, !.logHour = hour]]
        BY <1>1, <2>4 DEF CommitLog
      <3>2. /\ req'[r].pc \in {"anonymous", "logged"} /\ req'[r].logDay = today
            /\ \A q \in Requests : q # r => req'[q] = req[q]
        BY <1>1, <2>2, <3>1 DEF RequestRecords
      <3>3. today \in 0..today /\ today # -1
        BY <1>1
      <3> QED
        BY <1>2, <2>3, <3>2, <3>3
    <2>5. CASE BeginBump(r)
      <3>1. req[r].pc = "logged"
            /\ req' = [req EXCEPT ![r] = [req[r] EXCEPT !.pc = "select", !.day = today]]
        BY <1>1, <2>5 DEF BeginBump
      <3>2. /\ req'[r].pc = "select" /\ req'[r].logDay = req[r].logDay /\ req'[r].day = today
            /\ \A q \in Requests : q # r => req'[q] = req[q]
        BY <1>1, <2>2, <3>1 DEF RequestRecords
      <3>3. req[r].logDay \in 0..today /\ req[r].logDay # -1
        BY <2>2, <3>1
      <3>4. req[r].logDay <= today
        BY <1>1, <3>3
      <3> QED
        BY <1>2, <2>3, <3>2, <3>3, <3>4
    <2>6. CASE ~CommitLog(r) /\ ~BeginBump(r)
      <3>1. /\ req'[r].logDay = req[r].logDay /\ req'[r].day = req[r].day
            /\ req'[r].pc \in {"failed", "uncounted", "insert", "update", "counted", "reselect"}
            /\ req[r].pc \notin Bumping => req'[r].pc \in {"failed", "uncounted"}
            /\ \A q \in Requests : q # r => req'[q] = req[q]
        BY <1>1, <2>1, <2>2, <2>6
        DEF LogFails, SelectRow, InsertRow, InsertConflict, ReselectRow, UpdateRow, BumpFails,
            RequestRecords
      <3> QED
        BY <1>2, <2>2, <2>3, <3>1
    <2> QED
      BY <2>4, <2>5, <2>6
  <1>5. CASE Backfill
    <2>1. today' = today /\ req' = req
      BY <1>5 DEF Backfill, CheckEmpty, Aggregate, InsertSeed, SeedFails
    <2> QED
      BY <2>1 DEF Dated
  <1>6. CASE UNCHANGED vars
    BY <1>6 DEF Dated, vars
  <1> QED
    BY <1>3, <1>4, <1>5, <1>6 DEF Next

\* The requests that usage rows of these keys and days count.
Counted(K, D) == {r \in Requests : req[r].pc = "counted" /\ KeyOf[r] \in K /\ req[r].day \in D}

LEMMA CountedIs ==
    ASSUME NEW K, NEW D
    PROVE  /\ IsFiniteSet(Counted(K, D)) /\ Cardinality(Counted(K, D)) \in Nat
           /\ IsFiniteSet(Logs) /\ Cardinality(Logs) \in Nat
  <1>1. Counted(K, D) \subseteq Requests /\ Logs \subseteq Requests
    BY DEF Counted, Logs
  <1>2. IsFiniteSet(Requests)
    BY RollupAssumption DEF RollupAssumption
  <1> QED
    BY <1>1, <1>2, FS_Subset, FS_CardinalityType

LEMMA RowsAtMost ==
    ASSUME IInv, seeded = None, NEW K \in SUBSET Keys, NEW D \in SUBSET Days
    PROVE  Rows(K, D) \in Nat /\ Rows(K, D) <= Cardinality(Counted(K, D))
  <1> DEFINE S == K \X D
             U == Counted(K, D)
             loc == [r \in Requests |-> SlotOf(r)]
  <1>1. IsFiniteSet(S)
    <2>1. IsFiniteSet(K)
      BY RollupAssumption, FS_Subset DEF RollupAssumption
    <2>2. IsFiniteSet(D)
      <3>1. IsFiniteSet(Days)
        BY RollupAssumption, FS_Interval DEF RollupAssumption, Days
      <3> QED
        BY <3>1, FS_Subset
    <2> QED
      BY <2>1, <2>2, FS_Product
  <1>2. ASSUME NEW s \in S
        PROVE  /\ usage[s] \in Nat /\ usage[s] <= Cardinality(Fibre(U, loc, s))
    <2>1. s \in Slots
      BY DEF Slots
    <2>2. usage[s] \in Nat /\ seeded[s] = 0
      BY <2>1 DEF IInv, TypeInv, TypeOK, None
    <2>3. usage[s] <= Cardinality(Bumped(s)) + seeded[s]
      BY <2>1 DEF IInv, NeverOvercounts
    <2>4. Fibre(U, loc, s) = Bumped(s)
      BY DEF Fibre, Counted, Bumped, SlotOf
    <2>5. Cardinality(Bumped(s)) \in Nat
      BY Counts
    <2> QED
      BY <2>2, <2>3, <2>4, <2>5
  <1>3. Rows(K, D) = SumOf(usage, S)
    BY Zenon DEF Rows, SumOf
  <1>4. IsFiniteSet(U)
    BY CountedIs
  <1> HIDE DEF S, U, loc
  <1>5. SumOf(usage, S) <= Cardinality(U)
    BY <1>1, <1>2, <1>4, SumAtMost
  <1>6. SumOf(usage, S) \in Nat
    <2>1. \A s \in S : usage[s] \in Nat
      BY <1>2
    <2> QED
      BY <1>1, <2>1, SumIsPairs, PairsFinite
  <1> QED
    BY <1>3, <1>5, <1>6 DEF U

\* The points of a report up to a day are whole numbers, finitely many.
LEMMA ReportPoints ==
    ASSUME IInv, seeded = None, NEW K \in SUBSET Keys, NEW days \in Windows, NEW d \in Int
    PROVE  LET g == UsageDailyReport(K, days)
               S == {e \in DOMAIN g : e <= d} IN
           /\ IsFiniteSet(S) /\ UpTo(g, d) = SumOf(g, S)
           /\ \A e \in S : /\ e \in Int /\ e <= d
                           /\ g[e] \in Nat /\ g[e] <= Cardinality(Counted(K, {e} \cap Days))
  <1> DEFINE g == UsageDailyReport(K, days)
             S == {e \in DOMAIN g : e <= d}
  <1>1. Since(days) \in Int /\ today \in Int
    BY RollupAssumption DEF RollupAssumption, IInv, TypeInv, TypeOK, Days, Windows, Since
  <1>2. DOMAIN g = Since(days)..today
    BY DEF UsageDailyReport, Dates
  <1>3. IsFiniteSet(S)
    <2>1. IsFiniteSet(DOMAIN g)
      BY <1>1, <1>2, FS_Interval
    <2>2. S \subseteq DOMAIN g
      OBVIOUS
    <2> HIDE DEF S, g
    <2> QED
      BY <2>1, <2>2, FS_Subset
  <1>4. ASSUME NEW e \in S
        PROVE  /\ e \in Int /\ e <= d
               /\ g[e] \in Nat /\ g[e] <= Cardinality(Counted(K, {e} \cap Days))
    <2>1. e \in Dates(days) /\ e \in Int /\ e <= d /\ {e} \cap Days \in SUBSET Days
      BY <1>1, <1>2 DEF Dates
    <2>2. g[e] = Rows(K, {e} \cap Days)
      BY <2>1 DEF UsageDailyReport
    <2> HIDE DEF S, g
    <2> QED
      BY <2>1, <2>2, RowsAtMost
  <1>5. UpTo(g, d) = SumOf(g, S)
    BY Zenon DEF UpTo, SumOf
  <1> QED
    BY <1>3, <1>4, <1>5

LEMMA ReportAtMost ==
    ASSUME IInv, seeded = None, NEW K \in SUBSET Keys, NEW days \in Windows, NEW d \in Int
    PROVE  /\ UpTo(UsageDailyReport(K, days), d) \in Nat
           /\ UpTo(UsageDailyReport(K, days), d)
                 <= Cardinality(Counted(K, {e \in Days : e <= d}))
  <1> DEFINE g == UsageDailyReport(K, days)
             S == {e \in DOMAIN g : e <= d}
             U == Counted(K, {e \in Days : e <= d})
             loc == [r \in Requests |-> req[r].day]
  <1>1. /\ IsFiniteSet(S) /\ UpTo(g, d) = SumOf(g, S)
        /\ \A e \in S : /\ e \in Int /\ e <= d
                        /\ g[e] \in Nat /\ g[e] <= Cardinality(Counted(K, {e} \cap Days))
    BY ReportPoints, Zenon
  <1>2. IsFiniteSet(U)
    BY CountedIs
  <1>3. ASSUME NEW e \in S
        PROVE  g[e] \in Nat /\ g[e] <= Cardinality(Fibre(U, loc, e))
    <2>1. e \in Int /\ e <= d
      BY <1>1
    <2>2. Fibre(U, loc, e) = Counted(K, {e} \cap Days)
      BY <2>1 DEF Fibre, Counted
    <2> HIDE DEF S, U, g, loc
    <2> QED
      BY <1>1, <2>2
  <1> HIDE DEF S, U, g, loc
  <1>4. SumOf(g, S) <= Cardinality(U)
    BY <1>1, <1>2, <1>3, SumAtMost
  <1>5. SumOf(g, S) \in Nat
    BY <1>1, SumIsPairs, PairsFinite
  <1> QED
    BY <1>1, <1>4, <1>5 DEF g, U

\* What the chart of the logs does not show up to a day is cut off by its window.
LEMMA LogsAtLeast ==
    ASSUME IInv, Dated, NEW span \in Windows, NEW d \in Int
    PROVE  /\ Cardinality({r \in Logs : req[r].logDay <= d})
                  <= UpTo(RequestsPerDay(span), d) + Cardinality(Logs \ Recent(span))
           /\ UpTo(RequestsPerDay(span), d) \in Nat
           /\ Cardinality(Logs \ Recent(span)) \in Nat
  <1> DEFINE g == RequestsPerDay(span)
             S == {e \in DOMAIN g : e <= d}
             U == {r \in Recent(span) : req[r].logDay <= d}
             V == Logs \ Recent(span)
             loc == [r \in Requests |-> req[r].logDay]
  <1>1. /\ Since(span) \in Int /\ today \in Int
        /\ \A r \in Logs : r \in Requests /\ req[r].logDay \in Int /\ req[r].logDay <= today
    BY RollupAssumption
    DEF RollupAssumption, IInv, TypeInv, TypeOK, Days, Windows, Since, Logs, Logged, Dated, Unlogged
  <1>2. DOMAIN g = Since(span)..today
    BY DEF RequestsPerDay, Dates
  <1>3. IsFiniteSet(S)
    <2>1. IsFiniteSet(DOMAIN g)
      BY <1>1, <1>2, FS_Interval
    <2>2. S \subseteq DOMAIN g
      OBVIOUS
    <2> HIDE DEF S, g
    <2> QED
      BY <2>1, <2>2, FS_Subset
  <1>4. /\ IsFiniteSet(U) /\ Cardinality(U) \in Nat
        /\ IsFiniteSet(V) /\ Cardinality(V) \in Nat
    <2>1. U \subseteq Logs /\ V \subseteq Logs /\ IsFiniteSet(Logs)
      BY CountedIs DEF Recent
    <2> HIDE DEF U, V
    <2> QED
      BY <2>1, FS_Subset, FS_CardinalityType
  <1>5. ASSUME NEW e \in S
        PROVE  g[e] \in Nat /\ Cardinality(Fibre(U, loc, e)) <= g[e]
    <2> DEFINE F == {r \in Recent(span) : req[r].logDay = e}
    <2>1. e \in Dates(span) /\ e \in Int /\ e <= d
      BY <1>1, <1>2 DEF Dates
    <2>2. g[e] = Cardinality(F)
      BY <2>1 DEF RequestsPerDay
    <2>3. Fibre(U, loc, e) = F
      BY <1>1, <2>1 DEF Fibre, Recent
    <2>4. F \subseteq Logs /\ IsFiniteSet(Logs)
      BY CountedIs DEF Recent
    <2> HIDE DEF F, U, g, loc, S
    <2>5. PICK c \in Nat : c = Cardinality(F)
      BY <2>4, FS_Subset, FS_CardinalityType
    <2> QED
      BY <2>2, <2>3, <2>5
  <1>6. ASSUME NEW u \in U
        PROVE  loc[u] \in S
    <2>1. /\ u \in Logs /\ u \in Recent(span) /\ loc[u] = req[u].logDay
          /\ req[u].logDay <= d /\ req[u].logDay >= Since(span)
      BY <1>1 DEF Recent
    <2>2. req[u].logDay \in DOMAIN g
      BY <1>1, <1>2, <2>1
    <2> QED
      BY <2>1, <2>2
  <1>7. UpTo(g, d) = SumOf(g, S)
    BY Zenon DEF UpTo, SumOf
  <1>8. {r \in Logs : req[r].logDay <= d} \subseteq U \cup V
    OBVIOUS
  <1> HIDE DEF S, U, V, g, loc
  <1>9. Cardinality(U) <= SumOf(g, S)
    BY <1>3, <1>4, <1>5, <1>6, SumAtLeast
  <1>10. SumOf(g, S) \in Nat
    <2>1. \A e \in S : g[e] \in Nat
      BY <1>5
    <2> QED
      BY <1>3, <2>1, SumIsPairs, PairsFinite
  <1>11. PICK c \in Nat : c = Cardinality({r \in Logs : req[r].logDay <= d})
                          /\ c <= Cardinality(U) + Cardinality(V)
    <2> DEFINE L == {r \in Logs : req[r].logDay <= d}
    <2>1. IsFiniteSet(U \cup V) /\ Cardinality(U \cup V) <= Cardinality(U) + Cardinality(V)
      <3>1. /\ IsFiniteSet(U \cup V)
            /\ Cardinality(U \cup V) = Cardinality(U) + Cardinality(V) - Cardinality(U \cap V)
        BY <1>4, FS_Union
      <3>2. IsFiniteSet(U \cap V) /\ Cardinality(U \cap V) \in Nat
        BY <1>4, FS_Subset, FS_CardinalityType
      <3> QED
        BY <1>4, <3>1, <3>2
    <2>2. L \subseteq U \cup V
      BY <1>8
    <2> HIDE DEF L
    <2>3. Cardinality(L) \in Nat /\ Cardinality(L) <= Cardinality(U \cup V)
          /\ Cardinality(U \cup V) \in Nat
      BY <2>1, <2>2, FS_Subset, FS_CardinalityType
    <2>4. Cardinality(L) <= Cardinality(U) + Cardinality(V)
      BY <1>4, <2>1, <2>3
    <2> QED
      BY <2>3, <2>4 DEF L
  <1>12. c <= UpTo(g, d) + Cardinality(V) /\ UpTo(g, d) \in Nat
    BY <1>4, <1>7, <1>9, <1>10, <1>11
  <1> QED
    BY <1>4, <1>11, <1>12 DEF g, V

\* Every counted request is logged, on no later day.
LEMMA CountedLogged ==
    ASSUME IInv, Dated, NEW K, NEW D
    PROVE  \A r \in Counted(K, D) :
              /\ r \in Logs /\ KeyOf[r] \in K /\ req[r].day \in D
              /\ req[r].logDay <= req[r].day /\ req[r].logDay \in Int /\ req[r].day \in Int
  <1>1. \A r \in Requests : req[r].logDay \in Int /\ req[r].day \in Int
    BY DEF IInv, TypeInv, TypeOK, Days, Unlogged
  <1> QED
    BY <1>1 DEF Counted, Logs, Dated, Bumping

\* Some of the logs, at least as many as are counted.
LEMMA NotMore ==
    ASSUME NEW n, n \in Int, NEW K, NEW D, n <= Cardinality(Counted(K, D)),
           NEW L, L \subseteq Logs, Counted(K, D) \subseteq L
    PROVE  n <= Cardinality(L) /\ Cardinality(L) \in Nat
  <1>1. IsFiniteSet(L) /\ Cardinality(L) \in Nat
    BY CountedIs, FS_Subset, FS_CardinalityType
  <1>2. Cardinality(Counted(K, D)) <= Cardinality(L) /\ Cardinality(Counted(K, D)) \in Nat
    BY <1>1, CountedIs, FS_Subset
  <1> QED
    BY <1>1, <1>2

LEMMA ReportsNotAhead ==
    ASSUME IInv, Dated
    PROVE  NeverAheadOfLogs
  <1> SUFFICES ASSUME seeded = None, NEW days \in Windows
               PROVE  /\ \A span \in Windows, d \in Dates(days) :
                            UpTo(UsageDailyReport(Keys, days), d)
                                <= UpTo(RequestsPerDay(span), d) + Cardinality(Logs \ Recent(span))
                      /\ \A k \in Keys, d \in Dates(days) :
                            UpTo(UsageDailyReport({k}, days), d)
                                <= Cardinality({r \in ListLogs(k) : req[r].logDay <= d})
                      /\ \A k \in Keys : UsageByKey(days)[k] <= RequestsCountByKey[k]
    BY Zenon DEF NeverAheadOfLogs
  <1>1. \A d \in Dates(days) : d \in Int
    BY RollupAssumption
    DEF RollupAssumption, IInv, TypeInv, TypeOK, Days, Windows, Since, Dates
  <1>2. ASSUME NEW span \in Windows, NEW d \in Dates(days)
        PROVE  UpTo(UsageDailyReport(Keys, days), d)
                  <= UpTo(RequestsPerDay(span), d) + Cardinality(Logs \ Recent(span))
    <2> DEFINE L == {r \in Logs : req[r].logDay <= d}
               D == {e \in Days : e <= d}
               n == UpTo(UsageDailyReport(Keys, days), d)
               m == UpTo(RequestsPerDay(span), d)
               c == Cardinality(Logs \ Recent(span))
    <2>1. L \subseteq Logs /\ Counted(Keys, D) \subseteq L
      BY <1>1, CountedLogged
    <2>2. n \in Nat /\ n <= Cardinality(Counted(Keys, D))
      BY <1>1, ReportAtMost
    <2>3. Cardinality(L) <= m + c /\ m \in Nat /\ c \in Nat
      BY <1>1, LogsAtLeast
    <2> HIDE DEF n, m, c, L, D
    <2>4. n <= Cardinality(L) /\ Cardinality(L) \in Nat
      BY <2>1, <2>2, NotMore
    <2>5. n <= m + c
      BY <2>2, <2>3, <2>4
    <2> QED
      BY <2>5 DEF n, m, c
  <1>3. ASSUME NEW k \in Keys, NEW d \in Dates(days)
        PROVE  UpTo(UsageDailyReport({k}, days), d)
                  <= Cardinality({r \in ListLogs(k) : req[r].logDay <= d})
    <2> DEFINE L == {r \in ListLogs(k) : req[r].logDay <= d}
               D == {e \in Days : e <= d}
               n == UpTo(UsageDailyReport({k}, days), d)
    <2>1. L \subseteq Logs /\ Counted({k}, D) \subseteq L
      BY <1>1, CountedLogged DEF ListLogs
    <2>2. n \in Nat /\ n <= Cardinality(Counted({k}, D))
      BY <1>1, ReportAtMost
    <2> HIDE DEF n, L, D
    <2>3. n <= Cardinality(L)
      BY <2>1, <2>2, NotMore
    <2> QED
      BY <2>3 DEF n, L
  <1>4. ASSUME NEW k \in Keys
        PROVE  UsageByKey(days)[k] <= RequestsCountByKey[k]
    <2> DEFINE D == {d \in Days : d >= Since(days)}
    <2>1. UsageByKey(days)[k] = Rows({k}, D) /\ RequestsCountByKey[k] = Cardinality(ListLogs(k))
      BY DEF UsageByKey, RequestsCountByKey
    <2>2. D \in SUBSET Days
      OBVIOUS
    <2> HIDE DEF D
    <2>3. Rows({k}, D) \in Nat /\ Rows({k}, D) <= Cardinality(Counted({k}, D))
      BY <2>2, RowsAtMost
    <2>4. ListLogs(k) \subseteq Logs /\ Counted({k}, D) \subseteq ListLogs(k)
      BY CountedLogged DEF ListLogs
    <2> QED
      BY <2>1, <2>3, <2>4, NotMore
  <1> QED
    BY <1>2, <1>3, <1>4

\* While nothing was seeded, no page shows more usage than there are logs, and
\* the chart of the rollup is ahead of that of the logs by what its window cuts off.
THEOREM NotAheadOfLogs == Spec => []NeverAheadOfLogs
  <1>1. Init => Dated
    BY DEF Init, Dated, Logged, Bumping
  <1>2. IInv /\ Dated /\ [Next]_vars => Dated'
    BY DatedStep DEF IInv
  <1>3. IInv /\ Dated => NeverAheadOfLogs
    BY ReportsNotAhead
  <1> QED
    BY <1>1, <1>2, <1>3, Invariant, PTL DEF Spec
==============================================================================
