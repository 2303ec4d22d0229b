-------------------------- MODULE KeyCopies_proofs --------------------------
(***************************************************************************)
(* Proofs about KeyCopies, for any rows, deployments, secrets and runs: a  *)
(* row that no two runs were about to write at once is shown as the key it *)
(* is, and loses its key only when nobody there could show it.             *)
(***************************************************************************)
EXTENDS KeyCopies, TLAPS

\* Two runs that are about to write one row have made it an overlapped one.
OneWriter ==
    \A q, r \in Runs, k \in Rows :
        Pending(q) /\ Pending(r) /\ q # r /\ run[q].write[k] # NoValue /\ run[r].write[k] # NoValue
            => k \in overlapped

\* A row that is about to be written is there.
WritesExist ==
    \A r \in Runs, k \in Rows :
        Pending(r) /\ run[r].write[k] # NoValue => row[k].state # "unused"

\* What a run is about to write still fits the row: a row it rotates cannot be
\* shown by its deployment, another one is resealed with the value it has.
PlanFits(r, k) ==
    IF k \in run[r].lost THEN r \in Rotates /\ Shown(InstanceOf[r], row[k].copy) = NoValue
    ELSE row[k].copy # Nothing /\ row[k].copy.value = run[r].write[k]

PlansFit ==
    \A r \in Runs, k \in Rows \ overlapped :
        Pending(r) /\ run[r].write[k] # NoValue => PlanFits(r, k)

IInv == TypeOK /\ OneWriter /\ WritesExist /\ PlansFit /\ CopyIsKey

----------------------------------------------------------------------------
(* Type correctness *)

\* A run that has been read has a value for every row.
LEMMA RunTypes ==
    ASSUME TypeOK, NEW r \in Runs
    PROVE  /\ run[r].lost \subseteq Rows
           /\ run[r].write \in [Rows -> Values \cup {NoValue}]
           /\ run[r].pc \in {"idle", "read", "done", "failed"}
  BY DEF TypeOK

\* A ciphertext that can be shown is one, and shows its value.
LEMMA ShownIsCopy ==
    ASSUME NEW i \in Instances, NEW copy \in Sealed \cup {Nothing}, Shown(i, copy) # NoValue
    PROVE  copy # Nothing /\ Shown(i, copy) = copy.value
  BY DEF Shown

\* What a deployment seals is a sealed value.
LEMMA SealTypes ==
    ASSUME NEW i \in Instances, NEW v \in Values
    PROVE  Seal(i, v) \in Sealed /\ Seal(i, v).value = v /\ Seal(i, v) # Nothing
  BY CopiesAssumption DEF CopiesAssumption, Seal, Sealed

\* Rows and their columns.
LEMMA RowTypes ==
    ASSUME TypeOK, NEW k \in Rows
    PROVE  /\ row[k] \in RowStates
           /\ row[k].copy \in Sealed \cup {Nothing}
           /\ row[k].state = "unused" => row[k].copy = Nothing
           /\ row[k].state # "unused" =>
                 row[k] \in [state : {"live", "deleted"}, hash : Sealed, copy : Sealed \cup {Nothing}]
  BY DEF TypeOK, RowStates

\* A written row has the types of a row.
LEMMA WrittenTypes ==
    ASSUME TypeOK, WritesExist, NEW r \in Runs, Pending(r), NEW k \in Rows
    PROVE  Written(r, k) \in RowStates
  <1>1. CASE run[r].write[k] = NoValue
    BY <1>1, RowTypes DEF Written
  <1>2. CASE run[r].write[k] # NoValue
    <2> DEFINE sealed == Seal(InstanceOf[r], run[r].write[k])
    <2>1. run[r].write[k] \in Values /\ InstanceOf[r] \in Instances
      BY <1>2, RunTypes, CopiesAssumption DEF CopiesAssumption
    <2>2. sealed \in Sealed
      BY <2>1, SealTypes
    <2>3. row[k] \in [state : {"live", "deleted"}, hash : Sealed, copy : Sealed \cup {Nothing}]
      BY <1>2, RowTypes DEF WritesExist
    <2>4. Written(r, k) = IF k \in run[r].lost THEN [row[k] EXCEPT !.hash = sealed, !.copy = sealed]
                                               ELSE [row[k] EXCEPT !.copy = sealed]
      BY <1>2 DEF Written
    <2> HIDE DEF sealed
    <2> QED
      BY <2>2, <2>3, <2>4 DEF RowStates
  <1> QED
    BY <1>1, <1>2

\* The next states have the types, too.
LEMMA TypeStep == TypeOK /\ WritesExist /\ [Next]_vars => TypeOK'
  <1> SUFFICES ASSUME TypeOK, WritesExist, [Next]_vars PROVE TypeOK'
    OBVIOUS
  <1>1. ASSUME NEW i \in Instances, NEW k \in Rows, NEW v \in Values, Create(i, k, v) PROVE TypeOK'
    <2>1. [state |-> "live", hash |-> Seal(i, v), copy |-> Seal(i, v)] \in RowStates
      BY SealTypes DEF RowStates
    <2> QED
      BY <1>1, <2>1 DEF TypeOK, Create
  <1>2. ASSUME NEW k \in Rows, Delete(k) PROVE TypeOK'
    <2>1. [row[k] EXCEPT !.state = "deleted"] \in RowStates
      BY <1>2, RowTypes DEF Delete, RowStates
    <2>2. row' = [row EXCEPT ![k] = [row[k] EXCEPT !.state = "deleted"]]
      BY <1>2 DEF Delete
    <2>3. row' \in [Rows -> RowStates]
      BY <2>1, <2>2 DEF TypeOK
    <2> QED
      BY <1>2, <2>3 DEF TypeOK, Delete
  <1>3. ASSUME NEW r \in Runs, ReadRows(r) PROVE TypeOK'
    <2> DEFINE i == InstanceOf[r]
               lost == IF r \in Rotates THEN RowsIn(i, "unrecoverable") ELSE {}
               kept == RowsIn(i, "fallback")
    <2>1. lost \subseteq Rows /\ kept \subseteq Rows /\ i \in Instances
      BY CopiesAssumption DEF CopiesAssumption, RowsIn, Live
    <2>2. PICK new \in [lost -> Values \ issued] :
             /\ issued' = issued \cup Range(new)
             /\ run' = [run EXCEPT ![r] =
                   [pc |-> "read", lost |-> lost,
                    write |-> [k \in Rows |-> IF k \in lost THEN new[k]
                                              ELSE IF k \in kept THEN row[k].copy.value
                                              ELSE NoValue]]]
      BY <1>3 DEF ReadRows
    <2>3. \A k \in kept : row[k].copy.value \in Values
      <3> SUFFICES ASSUME NEW k \in kept PROVE row[k].copy.value \in Values
        OBVIOUS
      <3>1. k \in Rows /\ Shown(i, row[k].copy) # NoValue
        BY DEF RowsIn, Live, DecryptState
      <3>2. row[k].copy \in Sealed \cup {Nothing}
        BY <3>1, RowTypes
      <3>3. row[k].copy \in Sealed
        BY <2>1, <3>1, <3>2, ShownIsCopy
      <3> QED
        BY <3>3 DEF Sealed
    <2>4. Range(new) \subseteq Values
      BY <2>2 DEF Range
    <2> HIDE DEF lost, kept, i
    <2>5. [k \in Rows |-> IF k \in lost THEN new[k] ELSE IF k \in kept THEN row[k].copy.value
                          ELSE NoValue] \in [Rows -> Values \cup {NoValue}]
      BY <2>2, <2>3
    <2>6. run' \in [Runs -> [pc : {"idle", "read", "done", "failed"}, lost : SUBSET Rows,
                             write : [Rows -> Values \cup {NoValue}]]]
      BY <2>1, <2>2, <2>5 DEF TypeOK
    <2>7. overlapped' \subseteq Rows /\ row' = row
      <3>1. overlapped' = overlapped \cup {k \in lost \cup kept : r \in Applies /\ ToBeWritten(k)}
        BY <1>3 DEF ReadRows, lost, kept, i
      <3> QED
        BY <1>3, <2>1, <3>1 DEF TypeOK, ReadRows
    <2> QED
      BY <2>2, <2>4, <2>6, <2>7 DEF TypeOK
  <1>4. ASSUME NEW r \in Runs, Commit(r) PROVE TypeOK'
    <2>1. row' \in [Rows -> RowStates]
      BY <1>4, WrittenTypes DEF Commit
    <2> QED
      BY <1>4, <2>1 DEF TypeOK, Commit
  <1>5. ASSUME NEW r \in Runs, EndWithoutWriting(r) PROVE TypeOK'
    BY <1>5 DEF TypeOK, EndWithoutWriting
  <1>6. CASE UNCHANGED vars
    BY <1>6 DEF TypeOK, vars
  <1> QED
    BY <1>1, <1>2, <1>3, <1>4, <1>5, <1>6 DEF Next

----------------------------------------------------------------------------
(* The steps of Next *)

\* Init makes the invariant true.
LEMMA InvInit == Init => IInv
  <1> SUFFICES ASSUME Init PROVE IInv
    OBVIOUS
  <1>1. Nothing \notin Sealed
    BY CopiesAssumption DEF CopiesAssumption, Sealed
  <1>2. row \in [Rows -> RowStates]
    BY DEF Init, RowStates
  <1>3. issued \subseteq Values
    BY CopiesAssumption DEF CopiesAssumption, Init, Range
  <1>4. TypeOK
    BY <1>2, <1>3 DEF TypeOK, Init
  <1>5. \A r \in Runs : ~Pending(r)
    BY DEF Init, Pending
  <1>6. CopyIsKey
    <2> SUFFICES ASSUME NEW k \in Rows, row[k].copy # Nothing
                 PROVE  row[k].copy.value = row[k].hash.value
      BY DEF CopyIsKey
    <2>1. row[k].state = "live"
      BY DEF Init
    <2> QED
      BY <2>1 DEF Init
  <1> QED
    BY <1>4, <1>5, <1>6 DEF IInv, OneWriter, WritesExist, PlansFit

\* Creating a key touches no row that is there.
LEMMA CreateKeeps ==
    ASSUME IInv, NEW i \in Instances, NEW j \in Rows, NEW v \in Values, Create(i, j, v)
    PROVE  OneWriter' /\ WritesExist' /\ PlansFit' /\ CopyIsKey'
  <1>1. /\ run' = run /\ overlapped' = overlapped
        /\ \A k \in Rows : k # j => row'[k] = row[k]
        /\ row[j].state = "unused"
        /\ row'[j] = [state |-> "live", hash |-> Seal(i, v), copy |-> Seal(i, v)]
    BY DEF IInv, TypeOK, Create
  <1>2. \A r \in Runs : Pending(r)' <=> Pending(r)
    BY <1>1 DEF Pending
  <1>3. OneWriter'
    BY <1>1, <1>2 DEF IInv, OneWriter
  <1>4. WritesExist'
    BY <1>1, <1>2 DEF IInv, WritesExist
  <1>5. PlansFit'
    <2> SUFFICES ASSUME NEW r \in Runs, NEW k \in Rows \ overlapped,
                        Pending(r), run[r].write[k] # NoValue
                 PROVE  PlanFits(r, k)'
      BY <1>1, <1>2 DEF PlansFit
    <2>1. PlanFits(r, k) /\ row'[k] = row[k]
      BY <1>1 DEF IInv, PlansFit, WritesExist
    <2> QED
      BY <1>1, <2>1 DEF PlanFits, Shown
  <1>6. CopyIsKey'
    <2>1. row'[j].copy.value = row'[j].hash.value
      BY <1>1
    <2> QED
      BY <1>1, <2>1 DEF IInv, CopyIsKey
  <1> QED
    BY <1>3, <1>4, <1>5, <1>6

\* Deleting a key leaves its columns alone.
LEMMA DeleteKeeps ==
    ASSUME IInv, NEW j \in Rows, Delete(j)
    PROVE  OneWriter' /\ WritesExist' /\ PlansFit' /\ CopyIsKey'
  <1>1. row' = [row EXCEPT ![j] = [row[j] EXCEPT !.state = "deleted"]]
    BY DEF Delete
  <1>2. \A k \in Rows : row[k].state # "unused" => row'[k].state # "unused"
    <2> TAKE k \in Rows
    <2>1. CASE k = j
      <3>1. row[j] \in [state : {"live", "deleted"}, hash : Sealed, copy : Sealed \cup {Nothing}]
        BY RowTypes DEF IInv, Delete
      <3> QED
        BY <1>1, <2>1, <3>1 DEF IInv, TypeOK
    <2>2. CASE k # j
      BY <1>1, <2>2 DEF IInv, TypeOK
    <2> QED
      BY <2>1, <2>2
  <1>3. \A k \in Rows : row'[k].copy = row[k].copy /\ row'[k].hash = row[k].hash
    BY <1>1 DEF IInv, TypeOK
  <1>4. run' = run /\ overlapped' = overlapped /\ \A r \in Runs : Pending(r)' <=> Pending(r)
    BY DEF Delete, Pending
  <1>5. OneWriter'
    BY <1>4 DEF IInv, OneWriter
  <1>6. WritesExist'
    BY <1>2, <1>4 DEF IInv, WritesExist
  <1>7. PlansFit'
    <2> SUFFICES ASSUME NEW r \in Runs, NEW k \in Rows \ overlapped,
                        Pending(r), run[r].write[k] # NoValue
                 PROVE  PlanFits(r, k)'
      BY <1>4 DEF PlansFit
    <2>1. PlanFits(r, k)
      BY DEF IInv, PlansFit
    <2> QED
      BY <1>3, <1>4, <2>1 DEF PlanFits, Shown
  <1>8. CopyIsKey'
    BY <1>3, <1>4 DEF IInv, CopyIsKey
  <1> QED
    BY <1>5, <1>6, <1>7, <1>8

\* What a run has read fits the rows when it is read, and a row that another run
\* is about to write becomes an overlapped one.
LEMMA ReadKeeps ==
    ASSUME IInv, NEW r \in Runs, ReadRows(r)
    PROVE  OneWriter' /\ WritesExist' /\ PlansFit' /\ CopyIsKey'
  <1> DEFINE i == InstanceOf[r]
             lost == IF r \in Rotates THEN RowsIn(i, "unrecoverable") ELSE {}
             kept == RowsIn(i, "fallback")
  <1>1. PICK new \in [lost -> Values \ issued] :
           run' = [run EXCEPT ![r] =
                [pc |-> "read", lost |-> lost,
                 write |-> [k \in Rows |-> IF k \in lost THEN new[k]
                                           ELSE IF k \in kept THEN row[k].copy.value
                                           ELSE NoValue]]]
    BY DEF ReadRows
  <1>2. /\ row' = row /\ run[r].pc = "idle"
        /\ overlapped' = overlapped \cup {k \in lost \cup kept : r \in Applies /\ ToBeWritten(k)}
    BY DEF ReadRows
  <1>3. /\ i \in Instances
        /\ \A k \in lost : k \in Rows /\ row[k].state = "live" /\ r \in Rotates
                           /\ Shown(i, row[k].copy) = NoValue
        /\ \A k \in kept : k \in Rows /\ row[k].state = "live" /\ Shown(i, row[k].copy) # NoValue
    BY CopiesAssumption DEF CopiesAssumption, RowsIn, Live, DecryptState
  <1>4. \A k \in kept : row[k].copy # Nothing
    <2> TAKE k \in kept
    <2>1. row[k].copy \in Sealed \cup {Nothing}
      BY <1>3, RowTypes DEF IInv
    <2> QED
      BY <1>3, <2>1, ShownIsCopy
  <1>5. /\ run'[r].pc = "read" /\ run'[r].lost = lost
        /\ run'[r].write = [k \in Rows |-> IF k \in lost THEN new[k]
                                           ELSE IF k \in kept THEN row[k].copy.value
                                           ELSE NoValue]
        /\ \A q \in Runs : q # r => run'[q] = run[q]
    BY <1>1 DEF IInv, TypeOK
  <1> HIDE DEF lost, kept, i
  <1>6. \A k \in Rows : run'[r].write[k] # NoValue => k \in lost \cup kept
    BY <1>5
  <1>7. ~Pending(r) /\ \A q \in Runs : q # r => (Pending(q)' <=> Pending(q))
    BY <1>2, <1>5 DEF Pending
  <1>8. OneWriter'
    <2> SUFFICES ASSUME NEW p \in Runs, NEW q \in Runs, NEW k \in Rows,
                        Pending(p)', Pending(q)', p # q,
                        run'[p].write[k] # NoValue, run'[q].write[k] # NoValue
                 PROVE  k \in overlapped'
      BY DEF OneWriter
    <2>1. ASSUME NEW a \in Runs, a # r, Pending(a)', Pending(r)',
                 run'[a].write[k] # NoValue, run'[r].write[k] # NoValue
          PROVE  k \in overlapped'
      <3>1. Pending(a) /\ run[a].write[k] # NoValue
        BY <1>5, <1>7, <2>1
      <3>2. ToBeWritten(k)
        BY <3>1 DEF ToBeWritten
      <3>3. r \in Applies
        BY <2>1 DEF Pending
      <3> QED
        BY <1>2, <1>6, <2>1, <3>2, <3>3
    <2>2. CASE p = r
      BY <2>1, <2>2
    <2>3. CASE q = r
      BY <2>1, <2>3
    <2>4. CASE p # r /\ q # r
      <3>1. Pending(p) /\ Pending(q) /\ run[p].write[k] # NoValue /\ run[q].write[k] # NoValue
        BY <1>5, <1>7, <2>4
      <3> QED
        BY <1>2, <3>1 DEF IInv, OneWriter
    <2> QED
      BY <2>2, <2>3, <2>4
  <1>9. WritesExist'
    <2> SUFFICES ASSUME NEW q \in Runs, NEW k \in Rows, Pending(q)', run'[q].write[k] # NoValue
                 PROVE  row[k].state # "unused"
      BY <1>2 DEF WritesExist
    <2>1. CASE q = r
      BY <1>3, <1>6, <2>1
    <2>2. CASE q # r
      BY <1>5, <1>7, <2>2 DEF IInv, WritesExist
    <2> QED
      BY <2>1, <2>2
  <1>10. PlansFit'
    <2> SUFFICES ASSUME NEW q \in Runs, NEW k \in Rows, k \notin overlapped',
                        Pending(q)', run'[q].write[k] # NoValue
                 PROVE  PlanFits(q, k)'
      BY DEF PlansFit
    <2>1. CASE q = r
      <3>1. CASE k \in lost
        <4>1. r \in Rotates /\ Shown(InstanceOf[r], row[k].copy) = NoValue
          BY <1>3, <3>1 DEF i
        <4>2. Shown(InstanceOf[r], row'[k].copy) = NoValue
          BY <1>2, <4>1
        <4> QED
          BY <1>5, <2>1, <3>1, <4>1, <4>2 DEF PlanFits, Shown
      <3>2. CASE k \notin lost
        <4>1. k \in kept
          BY <1>6, <2>1, <3>2
        <4>2. run'[r].write[k] = row[k].copy.value
          BY <1>5, <3>2, <4>1
        <4> QED
          BY <1>2, <1>4, <1>5, <2>1, <3>2, <4>1, <4>2 DEF PlanFits
      <3> QED
        BY <3>1, <3>2
    <2>2. CASE q # r
      <3>1. Pending(q) /\ run'[q] = run[q] /\ k \notin overlapped
        BY <1>2, <1>5, <1>7, <2>2
      <3>2. PlanFits(q, k)
        BY <3>1 DEF IInv, PlansFit
      <3> QED
        BY <1>2, <3>1, <3>2 DEF PlanFits, Shown
    <2> QED
      BY <2>1, <2>2
  <1>11. CopyIsKey'
    BY <1>2 DEF IInv, CopyIsKey
  <1> QED
    BY <1>8, <1>9, <1>10, <1>11

\* What a commit makes of a row that no other run is about to write.
LEMMA CommitWrites ==
    ASSUME IInv, NEW r \in Runs, Commit(r), NEW k \in Rows
    PROVE  /\ run[r].write[k] = NoValue => row'[k] = row[k]
           /\ row[k].state # "unused" => row'[k].state # "unused"
           /\ run[r].write[k] # NoValue =>
                 row'[k].copy = Seal(InstanceOf[r], run[r].write[k])
           /\ run[r].write[k] # NoValue /\ k \in run[r].lost =>
                 row'[k].hash = Seal(InstanceOf[r], run[r].write[k])
           /\ k \notin run[r].lost => row'[k].hash = row[k].hash
  <1>1. row'[k] = Written(r, k) /\ Pending(r)
    BY DEF Commit
  <1>2. CASE run[r].write[k] = NoValue
    BY <1>1, <1>2 DEF Written
  <1>3. CASE run[r].write[k] # NoValue
    <2> DEFINE sealed == Seal(InstanceOf[r], run[r].write[k])
    <2>1. row[k] \in [state : {"live", "deleted"}, hash : Sealed, copy : Sealed \cup {Nothing}]
      BY <1>1, <1>3, RowTypes DEF IInv, WritesExist
    <2>2. row'[k] = IF k \in run[r].lost THEN [row[k] EXCEPT !.hash = sealed, !.copy = sealed]
                                         ELSE [row[k] EXCEPT !.copy = sealed]
      BY <1>1, <1>3 DEF Written
    <2> HIDE DEF sealed
    <2>3. /\ row'[k].state = row[k].state /\ row'[k].copy = sealed
          /\ k \in run[r].lost => row'[k].hash = sealed
          /\ k \notin run[r].lost => row'[k].hash = row[k].hash
      BY <2>1, <2>2
    <2> QED
      BY <1>3, <2>3 DEF sealed
  <1> QED
    BY <1>2, <1>3

\* A commit leaves rows that are shown as the key they are, and the plans of
\* the runs that are still to commit fit.
LEMMA CommitKeeps ==
    ASSUME IInv, NEW r \in Runs, Commit(r)
    PROVE  OneWriter' /\ WritesExist' /\ PlansFit' /\ CopyIsKey'
  <1>1. /\ Pending(r) /\ overlapped' = overlapped
        /\ run' = [run EXCEPT ![r] = [run[r] EXCEPT !.pc = "done"]]
    BY DEF Commit
  <1>2. run'[r].pc = "done" /\ \A q \in Runs : q # r => run'[q] = run[q]
    BY <1>1, RunTypes DEF IInv, TypeOK
  <1>3. ~Pending(r)' /\ \A q \in Runs : q # r => (Pending(q)' <=> Pending(q))
    BY <1>2 DEF Pending
  <1>4. OneWriter'
    BY <1>1, <1>2, <1>3 DEF IInv, OneWriter
  <1>5. WritesExist'
    BY <1>2, <1>3, CommitWrites DEF IInv, WritesExist
  <1>6. PlansFit'
    <2> SUFFICES ASSUME NEW q \in Runs, NEW k \in Rows, k \notin overlapped,
                        Pending(q)', run'[q].write[k] # NoValue
                 PROVE  PlanFits(q, k)'
      BY <1>1 DEF PlansFit
    <2>1. q # r /\ Pending(q) /\ run'[q] = run[q] /\ run[q].write[k] # NoValue
      BY <1>2, <1>3
    <2>2. run[r].write[k] = NoValue
      BY <1>1, <2>1 DEF IInv, OneWriter
    <2>3. row'[k] = row[k]
      BY <2>2, CommitWrites
    <2>4. PlanFits(q, k)
      BY <2>1 DEF IInv, PlansFit
    <2> QED
      BY <2>1, <2>3, <2>4 DEF PlanFits, Shown
  <1>7. CopyIsKey'
    <2> SUFFICES ASSUME NEW k \in Rows, k \notin overlapped, row'[k].copy # Nothing
                 PROVE  row'[k].copy.value = row'[k].hash.value
      BY <1>1 DEF CopyIsKey
    <2>1. CASE run[r].write[k] = NoValue
      <3>1. row'[k] = row[k]
        BY <2>1, CommitWrites
      <3> QED
        BY <3>1 DEF IInv, CopyIsKey
    <2>2. CASE run[r].write[k] # NoValue
      <3>1. row'[k].copy = Seal(InstanceOf[r], run[r].write[k])
        BY <2>2, CommitWrites
      <3>2. row'[k].copy.value = run[r].write[k]
        BY <3>1 DEF Seal
      <3>3. CASE k \in run[r].lost
        BY <2>2, <3>1, <3>3, CommitWrites
      <3>4. CASE k \notin run[r].lost
        <4>1. row[k].copy # Nothing /\ row[k].copy.value = run[r].write[k]
          BY <1>1, <2>2, <3>4 DEF IInv, PlansFit, PlanFits
        <4>2. row'[k].hash = row[k].hash
          BY <3>4, CommitWrites
        <4> QED
          BY <3>2, <4>1, <4>2 DEF IInv, CopyIsKey
      <3> QED
        BY <3>3, <3>4
    <2> QED
      BY <2>1, <2>2
  <1> QED
    BY <1>4, <1>5, <1>6, <1>7

\* A run that ends without writing only gives up what it had meant to write.
LEMMA EndKeeps ==
    ASSUME IInv, NEW r \in Runs, EndWithoutWriting(r)
    PROVE  OneWriter' /\ WritesExist' /\ PlansFit' /\ CopyIsKey'
  <1>1. row' = row /\ overlapped' = overlapped
    BY DEF EndWithoutWriting
  <1>2. run'[r].pc # "read" /\ \A q \in Runs : q # r => run'[q] = run[q]
    BY DEF IInv, TypeOK, EndWithoutWriting
  <1>3. \A q \in Runs : Pending(q)' => Pending(q) /\ run'[q] = run[q]
    BY <1>2 DEF Pending
  <1>4. OneWriter'
    BY <1>1, <1>3 DEF IInv, OneWriter
  <1>5. WritesExist'
    BY <1>1, <1>3 DEF IInv, WritesExist
  <1>6. PlansFit'
    <2> SUFFICES ASSUME NEW q \in Runs, NEW k \in Rows \ overlapped,
                        Pending(q)', run'[q].write[k] # NoValue
                 PROVE  PlanFits(q, k)'
      BY <1>1 DEF PlansFit
    <2>1. Pending(q) /\ run'[q] = run[q] /\ PlanFits(q, k)
      BY <1>3 DEF IInv, PlansFit
    <2> QED
      BY <1>1, <2>1 DEF PlanFits, Shown
  <1>7. CopyIsKey'
    BY <1>1 DEF IInv, CopyIsKey
  <1> QED
    BY <1>4, <1>5, <1>6, <1>7

\* The invariant is inductive.
LEMMA InvStep == IInv /\ [Next]_vars => IInv'
  <1> SUFFICES ASSUME IInv, [Next]_vars PROVE IInv'
    OBVIOUS
  <1>1. TypeOK'
    BY TypeStep DEF IInv
  <1>2. OneWriter' /\ WritesExist' /\ PlansFit' /\ CopyIsKey'
    <2>1. CASE Next
      BY <2>1, CreateKeeps, DeleteKeeps, ReadKeeps, CommitKeeps, EndKeeps DEF Next
    <2>2. CASE UNCHANGED vars
      <3>1. row' = row /\ run' = run /\ overlapped' = overlapped
        BY <2>2 DEF vars
      <3> QED
        BY <3>1 DEF IInv, OneWriter, WritesExist, PlansFit, PlanFits, CopyIsKey, Pending, Shown
    <2> QED
      BY <2>1, <2>2
  <1> QED
    BY <1>1, <1>2 DEF IInv

LEMMA Invariance == Spec => []IInv
  BY InvInit, InvStep, PTL DEF Spec

----------------------------------------------------------------------------
(* The theorems *)

\* Rows, runs and the values they are about to write have their types.
THEOREM TypeCorrect == Spec => []TypeOK
  <1>1. IInv => TypeOK
    BY DEF IInv
  <1> QED
    BY <1>1, Invariance, PTL

\* The console copies the key whose hash is stored, of every row that no two
\* runs were about to write at once.
THEOREM CopyStaysKey == Spec => []CopyIsKey
  <1>1. IInv => CopyIsKey
    BY DEF IInv
  <1> QED
    BY <1>1, Invariance, PTL

\* Only a rotating run whose deployment cannot show the key retires it.
THEOREM RetiresOnlyLost == Spec => OnlyLostKeysRetired
  <1> DEFINE Retired ==
        \A k \in Live \ overlapped : row'[k].hash # row[k].hash =>
            \E r \in Applies \cap Rotates :
                /\ Pending(r) /\ run'[r].pc = "done"
                /\ Shown(InstanceOf[r], row[k].copy) = NoValue
  <1>1. IInv /\ [Next]_vars => [Retired]_vars
    <2> SUFFICES ASSUME IInv, Next, NEW k \in Rows, row[k].state = "live", k \notin overlapped,
                        row'[k].hash # row[k].hash
                 PROVE  \E r \in Applies \cap Rotates :
                            /\ Pending(r) /\ run'[r].pc = "done"
                            /\ Shown(InstanceOf[r], row[k].copy) = NoValue
      BY DEF Live
    <2>1. ASSUME NEW i \in Instances, NEW j \in Rows, NEW v \in Values, Create(i, j, v) PROVE FALSE
      BY <2>1 DEF Create, IInv, TypeOK
    <2>2. ASSUME NEW j \in Rows, Delete(j) PROVE FALSE
      <3>1. row' = [row EXCEPT ![j] = [row[j] EXCEPT !.state = "deleted"]]
        BY <2>2 DEF Delete
      <3> QED
        BY <3>1 DEF IInv, TypeOK
    <2>3. ASSUME NEW r \in Runs, ReadRows(r) \/ EndWithoutWriting(r) PROVE FALSE
      BY <2>3 DEF ReadRows, EndWithoutWriting
    <2>4. ASSUME NEW r \in Runs, Commit(r)
          PROVE  r \in Applies \cap Rotates /\ Pending(r) /\ run'[r].pc = "done"
                 /\ Shown(InstanceOf[r], row[k].copy) = NoValue
      <3>1. Pending(r) /\ run'[r].pc = "done"
        BY <2>4 DEF Commit, IInv, TypeOK
      <3>2. run[r].write[k] # NoValue /\ k \in run[r].lost
        BY <2>4, CommitWrites
      <3>3. PlanFits(r, k)
        BY <3>1, <3>2 DEF IInv, PlansFit
      <3> QED
        BY <3>1, <3>2, <3>3 DEF Pending, PlanFits
    <2> QED
      BY <2>1, <2>2, <2>3, <2>4 DEF Next
  <1> QED
    BY <1>1, Invariance, PTL DEF Spec, OnlyLostKeysRetired
=============================================================================
