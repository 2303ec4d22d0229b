--------------------------- MODULE Console_proofs ---------------------------
(***************************************************************************)
(* Proofs about Console and the ModelSettings behind it, for any number of *)
(* models, callers and accounts: what a call that overlapped no other was  *)
(* answered for holds, a list only names models that somebody has enabled, *)
(* what the console does to the settings is what ModelSettings allows, and *)
(* who gets in was entitled to, so that only entitled callers open a model.*)
(***************************************************************************)
EXTENDS Console, TLAPS

Busy(c, row) == call[c].pc # "idle" /\ RowOf(call[c].op) = row
ListCall(c) == Busy(c, "models.enabled")
DefaultCall(c) == Busy(c, "models.default")

\* A call still marked lone has its row to itself, and what it has looked up
\* there is still there.
LoneIsAlone ==
    \A c, d \in Calls : call[c].lone /\ call[c].pc # "idle" /\ Busy(d, RowOf(call[c].op)) => c = d
LoneSeesRow ==
    \A c \in Calls : call[c].lone /\ call[c].pc = "update" => call[c].seen = Stored(call[c].op)

\* The list that a call is about to store has its own model right, agrees with
\* all that is settled, and names nothing that was not asked for; its own
\* model is not settled while it runs.
ListReady ==
    \A c \in Calls : ListCall(c) =>
        /\ call[c].value \in SUBSET asked
        /\ call[c].op = "enable" => call[c].name \in call[c].value
        /\ call[c].op = "disable" => call[c].name \notin call[c].value
        /\ settled[call[c].name] = Unknown
        /\ \A m \in Models : /\ settled[m] = "open" => m \in call[c].value
                             /\ settled[m] = "closed" => m \notin call[c].value

\* What is settled of a model is in the stored list, which then exists.
ListSettled ==
    \A m \in Models :
        settled[m] \in {"open", "closed"} => enabled # NoRow /\ (m \in enabled <=> settled[m] = "open")

\* A call on the default is about to store a model, and while there is one, the
\* default is not settled; if it is, it is the one stored.
DefaultReady ==
    \A c \in Calls : DefaultCall(c) =>
        /\ call[c].value \in Models
        /\ call[c].op = "default" => call[c].value = call[c].name
        /\ settledDefault \notin Models
DefaultSettled == settledDefault \in Models => default = settledDefault

Typed ==
    /\ TypeOK
    /\ \A c \in Calls : ListCall(c) => call[c].value \in SUBSET Models
    /\ \A c \in Calls : DefaultCall(c) => call[c].value \in Models

IInv ==
    /\ Typed /\ LoneIsAlone /\ LoneSeesRow /\ ListReady /\ ListSettled
    /\ DefaultReady /\ DefaultSettled /\ OpenedByEnable

----------------------------------------------------------------------------
(* Type correctness *)

\* The rows of the two settings.
LEMMA Rows == \A op : RowOf(op) \in {"models.enabled", "models.default"}
  BY DEF RowOf

\* Init gives every variable a value of its type.
LEMMA TypeInit == Init => Typed
  <1> SUFFICES ASSUME Init PROVE Typed
    OBVIOUS
  <1>1. Idle \in CallRecords
    BY SettingsAssumption DEF SettingsAssumption, Idle, CallRecords
  <1>2. call \in [Calls -> CallRecords] /\ \A c \in Calls : call[c].pc = "idle"
    BY <1>1 DEF Init, Idle
  <1>3. /\ enabled \in {NoRow} \cup SUBSET Models /\ default \in {NoRow} \cup Models
        /\ settled \in [Models -> {"open", "closed", Unknown}]
        /\ settledDefault \in {NoRow, Unknown} \cup Models
        /\ asked \subseteq Models
    BY DEF Init
  <1> QED
    BY <1>2, <1>3 DEF Typed, TypeOK, ListCall, DefaultCall, Busy

\* Beginning a call.
LEMMA BeginTypes ==
    ASSUME Typed, NEW c \in Calls, NEW op \in {"enable", "disable", "default", "seed"},
           NEW m \in Models, NEW v \in Models \cup SUBSET Models, Begin(c, op, m, v)
    PROVE  /\ call' \in [Calls -> CallRecords]
           /\ UNCHANGED <<enabled, default>>
           /\ call[c].pc = "idle"
           /\ call'[c].pc = "look" /\ call'[c].op = op /\ call'[c].name = m /\ call'[c].value = v
           /\ call'[c].lone <=> \A d \in Calls : ~Busy(d, RowOf(op))
           /\ \A d \in Calls \ {c} :
                 /\ call'[d].pc = call[d].pc /\ call'[d].op = call[d].op
                 /\ call'[d].name = call[d].name /\ call'[d].value = call[d].value
                 /\ call'[d].seen = call[d].seen
                 /\ call'[d].lone <=> call[d].lone /\ ~Busy(d, RowOf(op))
  <1> DEFINE rivals == {d \in Calls : call[d].pc # "idle" /\ RowOf(call[d].op) = RowOf(op)}
             mine == [pc |-> "look", op |-> op, name |-> m, value |-> v,
                      seen |-> NoRow, lone |-> rivals = {}]
  <1>1. /\ call[c].pc = "idle" /\ UNCHANGED <<enabled, default>>
        /\ call' = [d \in Calls |-> IF d = c THEN mine
                                    ELSE [call[d] EXCEPT !.lone = @ /\ d \notin rivals]]
    BY DEF Begin
  <1>2. \A d \in Calls : d \in rivals <=> Busy(d, RowOf(op))
    BY DEF Busy
  <1>3. mine \in CallRecords
    BY DEF CallRecords
  <1>4. \A d \in Calls : call[d] \in CallRecords
    BY DEF Typed, TypeOK
  <1> HIDE DEF rivals
  <1>5. \A d \in Calls : /\ [call[d] EXCEPT !.lone = @ /\ d \notin rivals] \in CallRecords
                         /\ [call[d] EXCEPT !.lone = @ /\ d \notin rivals].lone
                              <=> call[d].lone /\ d \notin rivals
    BY <1>4 DEF CallRecords
  <1>6. call' \in [Calls -> CallRecords]
    BY <1>1, <1>3, <1>5
  <1>7. call'[c] = mine /\ (rivals = {} <=> \A d \in Calls : d \notin rivals)
    BY <1>1 DEF rivals
  <1>8. call'[c].pc = "look" /\ call'[c].op = op /\ call'[c].name = m /\ call'[c].value = v
    BY <1>7
  <1>9. call'[c].lone <=> rivals = {}
    <2>1. CASE rivals = {}
      <3>1. mine.lone = TRUE
        BY <2>1
      <3> QED
        BY <1>7, <2>1, <3>1
    <2>2. CASE rivals # {}
      <3>1. mine.lone = FALSE
        BY <2>2
      <3> QED
        BY <1>7, <2>2, <3>1
    <2> QED
      BY <2>1, <2>2
  <1>10. ASSUME NEW d \in Calls \ {c}
        PROVE  /\ call'[d].pc = call[d].pc /\ call'[d].op = call[d].op
               /\ call'[d].name = call[d].name /\ call'[d].value = call[d].value
               /\ call'[d].seen = call[d].seen
               /\ call'[d].lone <=> call[d].lone /\ d \notin rivals
    BY <1>1, <1>4, <1>5 DEF CallRecords
  <1> QED
    BY <1>1, <1>2, <1>6, <1>7, <1>8, <1>9, <1>10

\* The values a call begins with.
LEMMA BeginValues ==
    ASSUME Typed, NEW op \in {"enable", "disable"}, NEW m \in Models
    PROVE  /\ NewList(op, m) \in SUBSET Models
           /\ NewList(op, m) \in Models \cup SUBSET Models
           /\ op = "enable" => m \in NewList(op, m)
           /\ op = "disable" => m \notin NewList(op, m)
           /\ \A k \in Models \ {m} : k \in NewList(op, m) <=> k \in Listed
           /\ Listed \in SUBSET Models
  BY DEF Typed, TypeOK, NewList, Listed

\* What the end of a call that writes does to its row.
LEMMA Ends ==
    ASSUME Typed, NEW c \in Calls, Insert(c) \/ Update(c)
    PROVE  /\ call[c].pc \in {"insert", "update"}
           /\ call' = [call EXCEPT ![c] = Idle]
           /\ \/ Store(c)
              \/ call[c].value = call[c].seen /\ call[c].pc = "update" /\ UNCHANGED <<enabled, default>>
           /\ ListCall(c) => enabled' \in {enabled, call[c].value} /\ UNCHANGED default
           /\ DefaultCall(c) => default' \in {default, call[c].value} /\ UNCHANGED enabled
           /\ ListCall(c) \/ DefaultCall(c)
           /\ UNCHANGED asked
  <1>1. call[c].pc \in {"insert", "update"} /\ Answered(c)
    BY DEF Insert, Update
  <1>2. \/ Store(c)
        \/ call[c].value = call[c].seen /\ call[c].pc = "update" /\ UNCHANGED <<enabled, default>>
    BY DEF Insert, Update
  <1>3. ListCall(c) \/ DefaultCall(c)
    BY <1>1, Rows DEF ListCall, DefaultCall, Busy
  <1> QED
    BY <1>1, <1>2, <1>3 DEF Answered, Store, ListCall, DefaultCall, Busy

\* What the end of a call makes of the history.
LEMMA EndsHistory ==
    ASSUME Typed, NEW c \in Calls, Insert(c) \/ Update(c)
    PROVE  /\ settled' \in [Models -> {"open", "closed", Unknown}]
           /\ settledDefault' \in {settledDefault} \cup Models
  <1>1. Answered(c) /\ call[c].name \in Models
    BY DEF Insert, Update, Typed, TypeOK, CallRecords
  <1>2. settled \in [Models -> {"open", "closed", Unknown}]
    BY DEF Typed, TypeOK
  <1> QED
    BY <1>1, <1>2 DEF Answered

\* Every step keeps the types.
LEMMA TypeStep == Typed /\ [Next]_vars => Typed'
  <1> SUFFICES ASSUME Typed, [Next]_vars PROVE Typed'
    OBVIOUS
  <1>0. call \in [Calls -> CallRecords] /\ Configured \in Models /\ Idle \in CallRecords
    BY SettingsAssumption DEF Typed, TypeOK, SettingsAssumption, Idle, CallRecords
  <1>1. ASSUME NEW c \in Calls, NEW m \in Models, NEW op \in {"enable", "disable"},
               BeginListed(c, op, m)
        PROVE  Typed'
    <2>1. /\ Begin(c, op, m, NewList(op, m)) /\ UNCHANGED settledDefault
          /\ settled' = [settled EXCEPT ![m] = Unknown]
          /\ asked' = IF op = "enable" THEN asked \cup {m} ELSE asked
      BY <1>1 DEF BeginListed
    <2>2. /\ call' \in [Calls -> CallRecords] /\ UNCHANGED <<enabled, default>>
          /\ call'[c].value = NewList(op, m) /\ call'[c].op = op
          /\ \A d \in Calls \ {c} : /\ call'[d].pc = call[d].pc /\ call'[d].op = call[d].op
                                     /\ call'[d].value = call[d].value
      BY <2>1, BeginTypes, BeginValues
    <2>3. \A d \in Calls : ListCall(d)' => call'[d].value \in SUBSET Models
      BY <2>2, BeginValues DEF Typed, ListCall, Busy
    <2>4. \A d \in Calls : DefaultCall(d)' => call'[d].value \in Models
      BY <2>2 DEF Typed, DefaultCall, Busy, RowOf
    <2> QED
      BY <2>1, <2>2, <2>3, <2>4 DEF Typed, TypeOK
  <1>2. ASSUME NEW c \in Calls, NEW m \in Models, NEW op \in {"default", "seed"},
               Begin(c, op, m, m), UNCHANGED <<settled, asked>>,
               settledDefault' \in {Unknown, settledDefault}
        PROVE  Typed'
    <2>1. /\ call' \in [Calls -> CallRecords] /\ UNCHANGED <<enabled, default>>
          /\ call'[c].op = op /\ call'[c].value = m
          /\ \A d \in Calls \ {c} : /\ call'[d].pc = call[d].pc /\ call'[d].op = call[d].op
                                     /\ call'[d].value = call[d].value
      BY <1>2, BeginTypes
    <2>2. \A d \in Calls : ListCall(d)' => call'[d].value \in SUBSET Models
      BY <2>1 DEF Typed, ListCall, Busy, RowOf
    <2>3. \A d \in Calls : DefaultCall(d)' => call'[d].value \in Models
      BY <2>1 DEF Typed, DefaultCall, Busy
    <2> QED
      BY <1>2, <2>1, <2>2, <2>3 DEF Typed, TypeOK
  <1>3. ASSUME NEW c \in Calls, Look(c) PROVE Typed'
    <2>1. Stored(call[c].op) \in {NoRow} \cup Models \cup SUBSET Models
      BY DEF Stored, Typed, TypeOK
    <2>2. PICK p \in {"insert", "update"} :
             call' = [call EXCEPT ![c].pc = p, ![c].seen = Stored(call[c].op)]
      BY <1>3 DEF Look
    <2>3. [call[c] EXCEPT !.pc = p, !.seen = Stored(call[c].op)] \in CallRecords
      BY <1>0, <2>1 DEF CallRecords
    <2>4. call' \in [Calls -> CallRecords]
      BY <1>0, <2>2, <2>3
    <2>5. \A d \in Calls : /\ call'[d].op = call[d].op /\ call'[d].value = call[d].value
                           /\ call'[d].pc # "idle" => call[d].pc # "idle"
      BY <1>0, <1>3, <2>2 DEF Look, CallRecords
    <2>6. \A d \in Calls : ListCall(d)' => call'[d].value \in SUBSET Models
      BY <2>5 DEF Typed, ListCall, Busy
    <2>7. \A d \in Calls : DefaultCall(d)' => call'[d].value \in Models
      BY <2>5 DEF Typed, DefaultCall, Busy
    <2> QED
      BY <1>3, <2>4, <2>6, <2>7 DEF Look, Typed, TypeOK
  <1>4. ASSUME NEW c \in Calls, call[c].pc # "idle", call' = [call EXCEPT ![c] = Idle],
               enabled' \in {NoRow} \cup SUBSET Models, default' \in {NoRow} \cup Models,
               settled' \in [Models -> {"open", "closed", Unknown}],
               settledDefault' \in {settledDefault} \cup Models, UNCHANGED asked
        PROVE  Typed'
    <2>1. call' \in [Calls -> CallRecords]
      BY <1>0, <1>4
    <2>2. \A d \in Calls : ListCall(d)' => call'[d].value \in SUBSET Models
      BY <1>0, <1>4 DEF Typed, ListCall, Busy, Idle
    <2>3. \A d \in Calls : DefaultCall(d)' => call'[d].value \in Models
      BY <1>0, <1>4 DEF Typed, DefaultCall, Busy, Idle
    <2> QED
      BY <1>4, <2>1, <2>2, <2>3 DEF Typed, TypeOK
  <1>5. ASSUME NEW c \in Calls, NEW m \in Models, BeginDefault(c, m) PROVE Typed'
    BY <1>2, <1>5 DEF BeginDefault
  <1>6. ASSUME NEW c \in Calls, BeginSeed(c) PROVE Typed'
    BY <1>0, <1>2, <1>6 DEF BeginSeed
  <1>7. ASSUME NEW c \in Calls, Insert(c) \/ Update(c) PROVE Typed'
    <2>1. /\ enabled' \in {NoRow} \cup SUBSET Models
          /\ default' \in {NoRow} \cup Models
      BY <1>7, Ends DEF Typed, TypeOK
    <2> QED
      BY <1>4, <1>7, <2>1, Ends, EndsHistory
  <1>8. ASSUME NEW c \in Calls, Fail(c) PROVE Typed'
    BY <1>4, <1>8 DEF Fail, Typed, TypeOK
  <1>9. CASE UNCHANGED vars
    BY <1>9 DEF vars, Typed, TypeOK, ListCall, DefaultCall, Busy
  <1> QED
    BY <1>1, <1>3, <1>5, <1>6, <1>7, <1>8, <1>9 DEF Next

----------------------------------------------------------------------------
(* The invariant *)

\* It holds at first: nobody calls, and the stored default is the settled one.
LEMMA InvInit == Init => IInv
  <1> SUFFICES ASSUME Init PROVE IInv
    OBVIOUS
  <1>1. \A c \in Calls : call[c].pc = "idle"
    BY DEF Init, Idle
  <1>2. LoneIsAlone /\ LoneSeesRow /\ ListReady /\ DefaultReady
    BY <1>1 DEF LoneIsAlone, LoneSeesRow, ListReady, DefaultReady, ListCall, DefaultCall, Busy
  <1>3. \A m \in Models : settled[m] = Unknown
    BY DEF Init
  <1>4. ListSettled
    BY <1>3, SettingsAssumption DEF ListSettled, SettingsAssumption
  <1>5. DefaultSettled /\ OpenedByEnable
    BY DEF Init, DefaultSettled, OpenedByEnable
  <1> QED
    BY <1>2, <1>4, <1>5, TypeInit DEF IInv

\* Whoever begins a call spoils the solitude of its rivals, and its own.
LEMMA BeginAlone ==
    ASSUME IInv, NEW c \in Calls, NEW op \in {"enable", "disable", "default", "seed"},
           NEW m \in Models, NEW v \in Models \cup SUBSET Models, Begin(c, op, m, v)
    PROVE  LoneIsAlone' /\ LoneSeesRow'
  <1>1. Typed /\ LoneIsAlone /\ LoneSeesRow
    BY DEF IInv
  <1>2. /\ UNCHANGED <<enabled, default>>
        /\ call'[c].pc = "look" /\ call'[c].op = op
        /\ call'[c].lone <=> \A d \in Calls : ~Busy(d, RowOf(op))
        /\ \A d \in Calls \ {c} :
              /\ call'[d].pc = call[d].pc /\ call'[d].op = call[d].op
              /\ call'[d].seen = call[d].seen
              /\ call'[d].lone <=> call[d].lone /\ ~Busy(d, RowOf(op))
    BY <1>1, BeginTypes
  <1>3. ASSUME NEW a \in Calls, NEW b \in Calls,
               call'[a].lone, call'[a].pc # "idle",
               call'[b].pc # "idle", RowOf(call'[b].op) = RowOf(call'[a].op)
        PROVE  a = b
    <2>1. CASE a = c /\ b # c
      BY <1>2, <1>3, <2>1 DEF Busy
    <2>2. CASE a # c /\ b = c
      BY <1>2, <1>3, <2>2 DEF Busy
    <2>3. CASE a # c /\ b # c
      <3>1. /\ call'[a].pc = call[a].pc /\ call'[a].op = call[a].op /\ call[a].lone
            /\ call'[b].pc = call[b].pc /\ call'[b].op = call[b].op
        BY <1>2, <1>3, <2>3
      <3> QED
        BY <1>1, <1>3, <3>1 DEF LoneIsAlone, Busy
    <2> QED
      BY <2>1, <2>2, <2>3
  <1>4. ASSUME NEW a \in Calls, call'[a].lone, call'[a].pc = "update"
        PROVE  call'[a].seen = Stored(call[a].op)'
    <2>1. a # c
      BY <1>2, <1>4
    <2>2. /\ call'[a].pc = call[a].pc /\ call'[a].op = call[a].op /\ call[a].lone
          /\ call'[a].seen = call[a].seen
      BY <1>2, <1>4, <2>1
    <2>3. call[a].seen = Stored(call[a].op)
      BY <1>1, <1>4, <2>2 DEF LoneSeesRow
    <2> QED
      BY <1>2, <2>2, <2>3 DEF Stored
  <1>5. LoneIsAlone'
    BY <1>3 DEF LoneIsAlone, Busy
  <1>6. LoneSeesRow'
    BY <1>4 DEF LoneSeesRow
  <1> QED
    BY <1>5, <1>6

\* enable or disable begins: the list it will store is made from one that has
\* all that is settled right, and its own model is not settled any more.
LEMMA InvBeginListed ==
    ASSUME IInv, NEW c \in Calls, NEW m \in Models, NEW op \in {"enable", "disable"},
           BeginListed(c, op, m)
    PROVE  IInv'
  <1>0. /\ Typed /\ ListReady /\ ListSettled /\ DefaultReady /\ DefaultSettled /\ OpenedByEnable
        /\ settled \in [Models -> {"open", "closed", Unknown}]
        /\ Unknown \notin {"open", "closed"}
    BY SettingsAssumption DEF IInv, Typed, TypeOK, SettingsAssumption
  <1>1. /\ Begin(c, op, m, NewList(op, m)) /\ UNCHANGED settledDefault
        /\ settled' = [settled EXCEPT ![m] = Unknown]
        /\ asked' = IF op = "enable" THEN asked \cup {m} ELSE asked
    BY DEF BeginListed
  <1>2. /\ UNCHANGED <<enabled, default>>
        /\ call'[c].op = op /\ call'[c].name = m /\ call'[c].value = NewList(op, m)
        /\ \A d \in Calls \ {c} :
              /\ call'[d].pc = call[d].pc /\ call'[d].op = call[d].op
              /\ call'[d].name = call[d].name /\ call'[d].value = call[d].value
    BY <1>0, <1>1, BeginTypes, BeginValues
  <1>3. /\ settled'[m] = Unknown
        /\ \A k \in Models : k # m => settled'[k] = settled[k]
    BY <1>0, <1>1
  <1>4. Typed'
    BY TypeStep, <1>0 DEF Next
  <1>5. LoneIsAlone' /\ LoneSeesRow'
    BY <1>0, <1>1, BeginAlone, BeginValues
  <1>6. ASSUME NEW d \in Calls, ListCall(d)'
        PROVE  /\ call'[d].value \in SUBSET asked'
               /\ call'[d].op = "enable" => call'[d].name \in call'[d].value
               /\ call'[d].op = "disable" => call'[d].name \notin call'[d].value
               /\ settled'[call'[d].name] = Unknown
               /\ \A k \in Models : /\ settled'[k] = "open" => k \in call'[d].value
                                    /\ settled'[k] = "closed" => k \notin call'[d].value
    <2>1. CASE d = c
      <3>1. Listed \in SUBSET asked
        BY <1>0 DEF Listed, OpenedByEnable
      <3>2. NewList(op, m) \in SUBSET asked'
        BY <1>1, <3>1 DEF NewList
      <3>3. ASSUME NEW k \in Models
            PROVE  /\ settled'[k] = "open" => k \in NewList(op, m)
                   /\ settled'[k] = "closed" => k \notin NewList(op, m)
        <4>1. CASE k = m
          BY <1>0, <1>3, <4>1
        <4>2. CASE k # m
          <5>1. /\ settled[k] = "open" => k \in Listed
                /\ settled[k] = "closed" => k \notin Listed
            BY <1>0 DEF ListSettled, Listed
          <5> QED
            BY <1>0, <1>3, <4>2, <5>1, BeginValues
        <4> QED
          BY <4>1, <4>2
      <3> QED
        BY <1>0, <1>2, <1>3, <2>1, <3>2, <3>3, BeginValues
    <2>2. CASE d # c
      <3>1. ListCall(d) /\ call[d].name \in Models
        BY <1>0, <1>2, <1>6, <2>2 DEF ListCall, Busy, Typed, TypeOK, CallRecords
      <3>2. asked \subseteq asked'
        BY <1>1
      <3> QED
        BY <1>0, <1>2, <1>3, <2>2, <3>1, <3>2 DEF ListReady
    <2> QED
      BY <2>1, <2>2
  <1>7. ListReady'
    BY <1>6 DEF ListReady
  <1>8. ListSettled'
    BY <1>0, <1>2, <1>3 DEF ListSettled
  <1>9. DefaultReady'
    BY <1>0, <1>1, <1>2 DEF DefaultReady, DefaultCall, Busy, RowOf
  <1>10. DefaultSettled' /\ OpenedByEnable'
    BY <1>0, <1>1, <1>2 DEF DefaultSettled, OpenedByEnable
  <1> QED
    BY <1>4, <1>5, <1>7, <1>8, <1>9, <1>10 DEF IInv

\* A call on the default begins: the seed only where nothing is stored, and so
\* nothing settled.
LEMMA InvBeginDefault ==
    ASSUME IInv, NEW c \in Calls, NEW m \in Models, NEW op \in {"default", "seed"},
           Begin(c, op, m, m), UNCHANGED <<settled, asked>>,
           settledDefault' \in {Unknown, settledDefault}, settledDefault' \notin Models, Typed'
    PROVE  IInv'
  <1>0. /\ Typed /\ ListReady /\ ListSettled /\ DefaultReady /\ DefaultSettled /\ OpenedByEnable
    BY DEF IInv
  <1>1. /\ UNCHANGED <<enabled, default>>
        /\ call'[c].op = op /\ call'[c].name = m /\ call'[c].value = m
        /\ \A d \in Calls \ {c} :
              /\ call'[d].pc = call[d].pc /\ call'[d].op = call[d].op
              /\ call'[d].name = call[d].name /\ call'[d].value = call[d].value
    BY <1>0, BeginTypes
  <1>2. LoneIsAlone' /\ LoneSeesRow'
    BY BeginAlone
  <1>3. \A d \in Calls : ListCall(d)' => d # c /\ ListCall(d)
    BY <1>1 DEF ListCall, Busy, RowOf
  <1>4. ListReady'
    BY <1>0, <1>1, <1>3 DEF ListReady
  <1>5. DefaultReady'
    BY <1>0, <1>1 DEF DefaultReady, DefaultCall, Busy
  <1>6. ListSettled' /\ DefaultSettled' /\ OpenedByEnable'
    BY <1>0, <1>1 DEF ListSettled, DefaultSettled, OpenedByEnable
  <1> QED
    BY <1>2, <1>4, <1>5, <1>6 DEF IInv

\* The look-up before the write.
LEMMA InvLook ==
    ASSUME IInv, NEW c \in Calls, Look(c)
    PROVE  IInv'
  <1>0. /\ Typed /\ LoneIsAlone /\ LoneSeesRow /\ ListReady /\ ListSettled
        /\ DefaultReady /\ DefaultSettled /\ OpenedByEnable
    BY DEF IInv
  <1>1. PICK p \in {"insert", "update"} :
           call' = [call EXCEPT ![c].pc = p, ![c].seen = Stored(call[c].op)]
    BY DEF Look
  <1>2. /\ call[c].pc = "look" /\ UNCHANGED <<enabled, default, settled, settledDefault, asked>>
    BY DEF Look
  <1>3. call \in [Calls -> CallRecords]
    BY <1>0 DEF Typed, TypeOK
  <1>4. /\ \A d \in Calls : /\ call'[d].op = call[d].op /\ call'[d].name = call[d].name
                            /\ call'[d].value = call[d].value
                            /\ call'[d].pc # "idle" <=> call[d].pc # "idle"
        /\ call'[c].seen = Stored(call[c].op)
        /\ \A d \in Calls \ {c} : call'[d] = call[d]
    BY <1>1, <1>2, <1>3 DEF CallRecords
  <1>5. call'[c].lone <=> call[c].lone
    BY <1>1, <1>3 DEF CallRecords
  <1>6. \A d \in Calls : call'[d].lone <=> call[d].lone
    BY <1>4, <1>5
  <1>7. Typed'
    BY <1>0, TypeStep DEF Next
  <1>8. LoneIsAlone'
    BY <1>0, <1>4, <1>6 DEF LoneIsAlone, Busy
  <1>9. LoneSeesRow'
    BY <1>0, <1>2, <1>4 DEF LoneSeesRow, Stored
  <1>10. ListReady'
    BY <1>0, <1>2, <1>4 DEF ListReady, ListCall, Busy
  <1>11. DefaultReady'
    BY <1>0, <1>2, <1>4 DEF DefaultReady, DefaultCall, Busy
  <1>12. ListSettled' /\ DefaultSettled' /\ OpenedByEnable'
    BY <1>0, <1>2 DEF ListSettled, DefaultSettled, OpenedByEnable
  <1> QED
    BY <1>7, <1>8, <1>9, <1>10, <1>11, <1>12 DEF IInv

\* What stays true of the calls when one of them ends, whatever it wrote.
LEMMA EndCalls ==
    ASSUME IInv, NEW c \in Calls, call' = [call EXCEPT ![c] = Idle]
    PROVE  /\ \A d \in Calls : call'[d].pc # "idle" => d # c
           /\ \A d \in Calls \ {c} : call'[d] = call[d]
           /\ LoneIsAlone'
  <1>1. call \in [Calls -> CallRecords] /\ LoneIsAlone
    BY DEF IInv, Typed, TypeOK
  <1>2. /\ \A d \in Calls : call'[d].pc # "idle" => d # c
        /\ \A d \in Calls \ {c} : call'[d] = call[d]
    BY <1>1 DEF Idle
  <1>3. ASSUME NEW a \in Calls, NEW b \in Calls, call'[a].lone, call'[a].pc # "idle",
               call'[b].pc # "idle", RowOf(call'[b].op) = RowOf(call'[a].op)
        PROVE  a = b
    BY <1>1, <1>2, <1>3 DEF LoneIsAlone, Busy
  <1> QED
    BY <1>2, <1>3 DEF LoneIsAlone, Busy

\* A call ends that has written its row, or found its value there.
LEMMA InvEnd ==
    ASSUME IInv, NEW c \in Calls, Insert(c) \/ Update(c)
    PROVE  IInv'
  <1>0. /\ Typed /\ LoneIsAlone /\ LoneSeesRow /\ ListReady /\ ListSettled
        /\ DefaultReady /\ DefaultSettled /\ OpenedByEnable
        /\ settled \in [Models -> {"open", "closed", Unknown}]
        /\ Unknown \notin {"open", "closed"} /\ Unknown \notin Models
        /\ call[c].name \in Models
    BY SettingsAssumption
    DEF IInv, Typed, TypeOK, SettingsAssumption, CallRecords
  <1>1. /\ call[c].pc \in {"insert", "update"}
        /\ call' = [call EXCEPT ![c] = Idle]
        /\ \/ Store(c)
           \/ call[c].value = call[c].seen /\ call[c].pc = "update" /\ UNCHANGED <<enabled, default>>
        /\ ListCall(c) => enabled' \in {enabled, call[c].value} /\ UNCHANGED default
        /\ DefaultCall(c) => default' \in {default, call[c].value} /\ UNCHANGED enabled
        /\ ListCall(c) \/ DefaultCall(c)
        /\ UNCHANGED asked
    BY <1>0, Ends
  <1>2. Answered(c)
    BY DEF Insert, Update
  <1>3. /\ \A d \in Calls : call'[d].pc # "idle" => d # c
        /\ \A d \in Calls \ {c} : call'[d] = call[d]
        /\ LoneIsAlone'
    BY <1>1, EndCalls
  <1>4. Typed'
    BY <1>0, TypeStep DEF Next
  <1>5. \* A lone call stores over what it has seen, so its value is what is there.
        call[c].lone => IF ListCall(c) THEN enabled' = call[c].value
                                       ELSE default' = call[c].value
    <2>1. CASE Store(c)
      BY <1>1, <2>1 DEF Store, ListCall, DefaultCall, Busy
    <2>2. CASE call[c].value = call[c].seen /\ call[c].pc = "update" /\ UNCHANGED <<enabled, default>>
      BY <1>0, <1>1, <2>2 DEF LoneSeesRow, Stored, ListCall, DefaultCall, Busy
    <2> QED
      BY <1>1, <2>1, <2>2
  <1>6. LoneSeesRow'
    <2>1. ASSUME NEW d \in Calls, call'[d].lone, call'[d].pc = "update"
          PROVE  call'[d].seen = Stored(call[d].op)'
      <3>1. d # c /\ call'[d] = call[d]
        BY <1>3, <2>1
      <3>2. ~Busy(c, RowOf(call[d].op))
        BY <1>0, <2>1, <3>1 DEF LoneIsAlone
      <3>3. UNCHANGED Stored(call[d].op)
        BY <1>1, <3>1, <3>2, Rows DEF Stored, ListCall, DefaultCall
      <3> QED
        BY <1>0, <2>1, <3>1, <3>3 DEF LoneSeesRow
    <2>2. \A d \in Calls : call'[d].pc = "update" => call'[d].op = call[d].op
      BY <1>3
    <2> QED
      BY <2>1, <2>2 DEF LoneSeesRow, Stored
  <1>7. ListReady'
    <2>1. ASSUME NEW d \in Calls, ListCall(d)'
          PROVE  d # c /\ call'[d] = call[d] /\ ListCall(d) /\ UNCHANGED settled
      <3>1. d # c /\ call'[d] = call[d] /\ ListCall(d)
        BY <1>3, <2>1 DEF ListCall, Busy
      <3>2. ~(call[c].lone /\ RowOf(call[c].op) = "models.enabled")
        BY <1>0, <1>1, <3>1 DEF LoneIsAlone, ListCall
      <3> QED
        BY <1>2, <3>1, <3>2 DEF Answered
    <2> QED
      BY <1>0, <1>1, <2>1 DEF ListReady
  <1>8. ListSettled'
    <2>1. ASSUME ListCall(c), NEW m \in Models, settled'[m] \in {"open", "closed"}
          PROVE  enabled' # NoRow /\ (m \in enabled' <=> settled'[m] = "open")
      <3>1. /\ call[c].value \in SUBSET Models /\ call[c].value # NoRow
            /\ call[c].op = "enable" => call[c].name \in call[c].value
            /\ call[c].op = "disable" => call[c].name \notin call[c].value
            /\ settled[m] = "open" => m \in call[c].value
            /\ settled[m] = "closed" => m \notin call[c].value
        BY <1>0, <2>1, SettingsAssumption DEF ListReady, Typed, SettingsAssumption
      <3>2. RowOf(call[c].op) = "models.enabled" /\ call[c].op \in {"enable", "disable"}
        BY <2>1 DEF ListCall, Busy, RowOf
      <3>3. CASE call[c].lone
        <4>1. /\ settled' = [settled EXCEPT ![call[c].name] =
                                IF call[c].op = "enable" THEN "open" ELSE "closed"]
              /\ enabled' = call[c].value
          BY <1>2, <1>5, <2>1, <3>2, <3>3 DEF Answered
        <4>2. CASE m = call[c].name
          BY <1>0, <3>1, <3>2, <4>1, <4>2
        <4>3. CASE m # call[c].name
          BY <1>0, <2>1, <3>1, <4>1, <4>3
        <4> QED
          BY <4>2, <4>3
      <3>4. CASE ~call[c].lone
        <4>1. settled' = settled
          BY <1>2, <3>4 DEF Answered
        <4> QED
          BY <1>0, <1>1, <2>1, <3>1, <4>1 DEF ListSettled
      <3> QED
        BY <3>3, <3>4
    <2>2. ASSUME ~ListCall(c) PROVE UNCHANGED <<enabled, settled>>
      BY <1>1, <1>2, <2>2 DEF Answered, ListCall, Busy
    <2> QED
      BY <1>0, <2>1, <2>2 DEF ListSettled
  <1>9. DefaultReady'
    <2>1. ASSUME NEW d \in Calls, DefaultCall(d)'
          PROVE  d # c /\ call'[d] = call[d] /\ DefaultCall(d) /\ UNCHANGED settledDefault
      <3>1. d # c /\ call'[d] = call[d] /\ DefaultCall(d)
        BY <1>3, <2>1 DEF DefaultCall, Busy
      <3>2. ~(call[c].lone /\ RowOf(call[c].op) = "models.default")
        BY <1>0, <1>1, <3>1 DEF LoneIsAlone, DefaultCall
      <3>3. ~(call[c].lone /\ call[c].op = "default")
        BY <3>2 DEF RowOf
      <3> QED
        BY <1>2, <3>1, <3>3 DEF Answered
    <2> QED
      BY <1>0, <2>1 DEF DefaultReady
  <1>10. DefaultSettled'
    <2>1. CASE DefaultCall(c) /\ settledDefault' \in Models
      <3>1. settledDefault \notin Models /\ (call[c].op = "default" => call[c].value = call[c].name)
        BY <1>0, <2>1 DEF DefaultReady
      <3>2. call[c].lone /\ call[c].op = "default" /\ settledDefault' = call[c].name
        BY <1>2, <2>1, <3>1 DEF Answered
      <3>3. ~ListCall(c)
        BY <3>2 DEF ListCall, Busy, RowOf
      <3> QED
        BY <1>5, <3>1, <3>2, <3>3 DEF DefaultSettled
    <2>2. CASE ListCall(c)
      <3>1. call[c].op # "default"
        BY <2>2 DEF ListCall, Busy, RowOf
      <3> QED
        BY <1>0, <1>1, <1>2, <2>2, <3>1 DEF Answered, DefaultSettled
    <2> QED
      BY <1>1, <2>1, <2>2 DEF DefaultSettled
  <1>11. OpenedByEnable'
    BY <1>0, <1>1 DEF OpenedByEnable, ListReady
  <1> QED
    BY <1>3, <1>4, <1>6, <1>7, <1>8, <1>9, <1>10, <1>11 DEF IInv

\* A call that fails leaves the tables and the history alone.
LEMMA InvFail ==
    ASSUME IInv, NEW c \in Calls, Fail(c)
    PROVE  IInv'
  <1>0. /\ Typed /\ LoneSeesRow /\ ListReady /\ ListSettled
        /\ DefaultReady /\ DefaultSettled /\ OpenedByEnable
    BY DEF IInv
  <1>1. /\ call' = [call EXCEPT ![c] = Idle]
        /\ UNCHANGED <<enabled, default, settled, settledDefault, asked>>
    BY DEF Fail
  <1>2. /\ \A d \in Calls : call'[d].pc # "idle" => d # c
        /\ \A d \in Calls \ {c} : call'[d] = call[d]
        /\ LoneIsAlone'
    BY <1>1, EndCalls
  <1>3. Typed'
    BY <1>0, TypeStep DEF Next
  <1>4. LoneSeesRow'
    BY <1>0, <1>1, <1>2 DEF LoneSeesRow, Stored
  <1>5. ListReady'
    BY <1>0, <1>1, <1>2 DEF ListReady, ListCall, Busy
  <1>6. DefaultReady'
    BY <1>0, <1>1, <1>2 DEF DefaultReady, DefaultCall, Busy
  <1>7. ListSettled' /\ DefaultSettled' /\ OpenedByEnable'
    BY <1>0, <1>1 DEF ListSettled, DefaultSettled, OpenedByEnable
  <1> QED
    BY <1>2, <1>3, <1>4, <1>5, <1>6, <1>7 DEF IInv

\* Every step keeps the invariant.
LEMMA InvStep == IInv /\ [Next]_vars => IInv'
  <1> SUFFICES ASSUME IInv, [Next]_vars PROVE IInv'
    OBVIOUS
  <1>0. Typed /\ Typed' /\ DefaultSettled
    BY TypeStep DEF IInv
  <1>1. ASSUME NEW c \in Calls, NEW m \in Models, BeginDefault(c, m) PROVE IInv'
    BY <1>0, <1>1, InvBeginDefault, SettingsAssumption DEF BeginDefault, SettingsAssumption
  <1>2. ASSUME NEW c \in Calls, BeginSeed(c) PROVE IInv'
    <2>1. Configured \in Models /\ settledDefault \notin Models
      BY <1>0, <1>2, SettingsAssumption DEF BeginSeed, DefaultSettled, SettingsAssumption
    <2> QED
      BY <1>0, <1>2, <2>1, InvBeginDefault DEF BeginSeed
  <1>3. CASE UNCHANGED vars
    BY <1>3 DEF vars, IInv, Typed, TypeOK, LoneIsAlone, LoneSeesRow, ListReady, ListSettled,
                DefaultReady, DefaultSettled, OpenedByEnable, ListCall, DefaultCall, Busy, Stored
  <1> QED
    BY <1>1, <1>2, <1>3, InvBeginListed, InvLook, InvEnd, InvFail DEF Next

----------------------------------------------------------------------------
(* Theorems *)

\* The invariant holds in every reachable state.
THEOREM SettingsInvariant == Spec => []IInv
  BY InvInit, InvStep, PTL DEF Spec

\* Every variable has its type: settings_service.py stores lists of models
\* under the one key and a model under the other.
THEOREM SettingsTypeCorrect == Spec => []TypeOK
  <1>1. IInv => TypeOK
    BY DEF IInv, Typed
  <1> QED
    BY <1>1, SettingsInvariant, PTL

\* What enable_model or disable_model was answered for, with no other call on
\* the list at the same time, holds until that model is called for again; so
\* does the default, which _seed_default_model does not replace.
THEOREM SettledStays == Spec => []SettledHolds
  <1>1. IInv => \A m \in Models : /\ settled[m] = "open" => Allowed(m)
                                  /\ settled[m] = "closed" => ~Allowed(m)
    BY DEF IInv, ListSettled, Allowed
  <1>2. IInv => (settledDefault \notin {NoRow, Unknown} => DefaultModel = settledDefault)
    BY SettingsAssumption
    DEF IInv, Typed, TypeOK, DefaultSettled, DefaultModel, SettingsAssumption
  <1>3. IInv => SettledHolds
    BY <1>1, <1>2 DEF SettledHolds
  <1> QED
    BY <1>3, SettingsInvariant, PTL

\* No interleaving of enable_model and disable_model opens a model that nobody
\* has asked to open.
THEOREM OnlyEnabled == Spec => []OpenedByEnable
  <1>1. IInv => OpenedByEnable
    BY DEF IInv
  <1> QED
    BY <1>1, SettingsInvariant, PTL

----------------------------------------------------------------------------
(* The console *)

consoleVars == <<vars, accounts>>

----------------------------------------------------------------------------
(* Every step of the console is a step of ModelSettings or leaves it alone *)

LEMMA SettingsStepImplements ==
    ASSUME NEW c \in Calls, SettingsStep(c)
    PROVE  Next
  BY DEF SettingsStep, Next

LEMMA StepImplements == [ConsoleNext]_consoleVars => [Next]_vars
  <1> SUFFICES ASSUME [ConsoleNext]_consoleVars PROVE [Next]_vars
    OBVIOUS
  <1>1. CASE \E u \in Users : \E row \in Edits[u] : EditUser(u, row)
    BY <1>1 DEF EditUser
  <1>2. CASE \E b \in Browsers, u \in Users, p \in Passwords : Login(b, u, p) \/ LoginFails(b, u, p)
    BY <1>2 DEF Login, LoginFails
  <1>3. CASE \E b \in Browsers : LastLogin(b) \/ LastLoginFails(b) \/ Logout(b)
    BY <1>3 DEF LastLogin, LastLoginFails, Logout
  <1>4. CASE \E c \in Calls, m \in Models :
                SetDefault(c, m) \/ \E op \in {"enable", "disable"} : Toggle(c, op, m)
    BY <1>4 DEF SetDefault, Toggle, Next
  <1>5. CASE \E c \in Seeders :
                \/ SeedUserFound(c) \/ SeedUserMissing(c) \/ CreateUser(c)
                \/ SeedFails(c) \/ SeedModel(c) \/ SeedModelFound(c)
    <2>1. PICK c \in Seeders : \/ SeedUserFound(c) \/ SeedUserMissing(c) \/ CreateUser(c)
                               \/ SeedFails(c) \/ SeedModel(c) \/ SeedModelFound(c)
      BY <1>5
    <2>2. CASE SeedModel(c)
      BY <2>2, SettingsAssumption DEF SeedModel, Next, SettingsAssumption
    <2>3. CASE ~SeedModel(c)
      BY <2>1, <2>3 DEF SeedUserFound, SeedUserMissing, CreateUser, SeedFails, SeedModelFound
    <2> QED
      BY <2>2, <2>3
  <1>6. CASE \E c \in Calls : SettingsStep(c)
    BY <1>6, SettingsStepImplements
  <1>7. CASE UNCHANGED consoleVars
    BY <1>7 DEF consoleVars
  <1> QED
    BY <1>1, <1>2, <1>3, <1>4, <1>5, <1>6, <1>7 DEF ConsoleNext

\* The console implements ModelSettings: toggle_model, set_default and
\* migrate_seed add conditions to its calls and no new ones.
THEOREM ConsoleImplementsSettings == ConsoleSpec => Spec
  <1>1. ConsoleInit => Init
    BY DEF ConsoleInit
  <1> QED
    BY <1>1, StepImplements, PTL DEF ConsoleSpec, Spec, consoleVars

----------------------------------------------------------------------------
(* Sessions *)

\* Whoever is in, or about to be, was entitled to when the row was read.
Earned ==
    /\ \A b \in Browsers : login[b].pc = "found" => login[b].worthy
    /\ \A b \in Browsers : login[b].env => login[b].worthy /\ login[b].pc # "refused"
    /\ \A b \in Browsers : login[b].pc = "in" => IsAuthed(b)
    /\ \A b \in Browsers : IsAuthed(b) => cookie[b].earned

Shapes ==
    /\ cookie \in [Browsers -> {NoCookie} \cup [user : Users, earned : BOOLEAN]]
    /\ login \in [Browsers -> [pc : {"form", "found", "in", "refused"}, user : Users,
                               env : BOOLEAN, worthy : BOOLEAN]]

CInv == Shapes /\ Earned /\ rightful = asked

LEMMA SubmittedShape ==
    ASSUME NEW u \in Users, NEW p \in Passwords
    PROVE  /\ Submitted(u, p) \in [pc : {"found"}, user : Users, env : BOOLEAN, worthy : BOOLEAN]
           /\ Submitted(u, p).env => Submitted(u, p).worthy
           /\ Authenticates(u, p) => Submitted(u, p).worthy
  BY DEF Submitted, EnvCredentialsOk, Worthy, Authenticates, VerifyPassword

LEMMA ConsoleInitInv == ConsoleInit => CInv
  BY ConsoleAssumption DEF ConsoleInit, CInv, Shapes, Earned, Form, IsAuthed, ConsoleAssumption

\* A cookie once set for an entitled user keeps the invariant.
LEMMA EnterInv ==
    ASSUME CInv, NEW b \in Browsers,
           NEW l \in [pc : {"found"}, user : Users, env : BOOLEAN, worthy : BOOLEAN],
           l.worthy, Enter(b, l.user, l.worthy),
           login' = [login EXCEPT ![b] = [l EXCEPT !.pc = "in"]],
           UNCHANGED <<rightful, asked>>
    PROVE  CInv'
  <1>1. /\ cookie' = [cookie EXCEPT ![b] = [user |-> l.user, earned |-> TRUE]]
        /\ [user |-> l.user, earned |-> TRUE] \in [user : Users, earned : BOOLEAN]
    BY DEF Enter
  <1>2. [user |-> l.user, earned |-> TRUE] # NoCookie
    BY <1>1, ConsoleAssumption DEF ConsoleAssumption
  <1>3. Shapes'
    BY <1>1 DEF CInv, Shapes
  <1>4. Earned'
    BY <1>1, <1>2 DEF CInv, Shapes, Earned, IsAuthed
  <1> QED
    BY <1>3, <1>4 DEF CInv

LEMMA FallbackInv ==
    ASSUME CInv, NEW b \in Browsers,
           NEW l \in [pc : {"found"}, user : Users, env : BOOLEAN, worthy : BOOLEAN],
           l.env => l.worthy, Fallback(b, l), UNCHANGED <<rightful, asked>>
    PROVE  CInv'
  <1>1. CASE l.env
    BY <1>1, EnterInv DEF Fallback
  <1>2. CASE ~l.env
    <2>1. /\ login' = [login EXCEPT ![b] = Refused(l)]
          /\ UNCHANGED cookie
      BY <1>2 DEF Fallback
    <2>2. Refused(l) = [pc |-> "refused", user |-> EnvUser, env |-> FALSE, worthy |-> FALSE]
      <3>1. l.env = FALSE
        BY <1>2
      <3> QED
        BY <3>1 DEF Refused
    <2>3. Shapes'
      BY <2>1, <2>2, ConsoleAssumption DEF CInv, Shapes, ConsoleAssumption
    <2>4. Earned'
      BY <2>1, <2>2 DEF CInv, Shapes, Earned, IsAuthed
    <2> QED
      BY <2>3, <2>4 DEF CInv
  <1> QED
    BY <1>1, <1>2

LEMMA ConsoleStepInv == CInv /\ [ConsoleNext]_consoleVars => CInv'
  <1> SUFFICES ASSUME CInv, [ConsoleNext]_consoleVars PROVE CInv'
    OBVIOUS
  <1> USE DEF vars
  <1>1. ASSUME UNCHANGED <<cookie, login, rightful, asked>> PROVE CInv'
    BY <1>1 DEF CInv, Shapes, Earned, IsAuthed
  <1>2. CASE \E u \in Users : \E row \in Edits[u] : EditUser(u, row)
    BY <1>1, <1>2 DEF EditUser
  <1>3. ASSUME NEW b \in Browsers, NEW u \in Users, NEW p \in Passwords, Login(b, u, p)
        PROVE  CInv'
    <2>1. CASE Authenticates(u, p)
      <3>1. /\ login' = [login EXCEPT ![b] = Submitted(u, p)]
            /\ UNCHANGED <<cookie, rightful, asked>>
        BY <1>3, <2>1 DEF Login
      <3>2. Submitted(u, p).worthy /\ Submitted(u, p).pc = "found"
        BY <2>1, SubmittedShape
      <3>3. Shapes'
        BY <3>1, SubmittedShape DEF CInv, Shapes
      <3>4. Earned'
        BY <3>1, <3>2, SubmittedShape DEF CInv, Shapes, Earned, IsAuthed
      <3> QED
        BY <3>1, <3>3, <3>4 DEF CInv
    <2>2. CASE ~Authenticates(u, p)
      BY <1>3, <2>2, FallbackInv, SubmittedShape DEF Login
    <2> QED
      BY <2>1, <2>2
  <1>4. ASSUME NEW b \in Browsers, NEW u \in Users, NEW p \in Passwords, LoginFails(b, u, p)
        PROVE  CInv'
    BY <1>4, FallbackInv, SubmittedShape DEF LoginFails
  <1>5. ASSUME NEW b \in Browsers, LastLogin(b) PROVE CInv'
    <2>1. /\ login[b] \in [pc : {"found"}, user : Users, env : BOOLEAN, worthy : BOOLEAN]
          /\ login[b].worthy
      BY <1>5 DEF LastLogin, CInv, Shapes, Earned
    <2>2. login' = [login EXCEPT ![b] = [login[b] EXCEPT !.pc = "in"]]
      BY <1>5 DEF LastLogin
    <2> QED
      BY <1>5, <2>1, <2>2, EnterInv DEF LastLogin
  <1>6. ASSUME NEW b \in Browsers, LastLoginFails(b) PROVE CInv'
    <2>1. /\ login[b] \in [pc : {"found"}, user : Users, env : BOOLEAN, worthy : BOOLEAN]
          /\ login[b].worthy
      BY <1>6 DEF LastLoginFails, CInv, Shapes, Earned
    <2> QED
      BY <1>6, <2>1, FallbackInv DEF LastLoginFails
  <1>7. ASSUME NEW b \in Browsers, Logout(b) PROVE CInv'
    <2>1. /\ cookie' = [cookie EXCEPT ![b] = NoCookie]
          /\ login' = [login EXCEPT ![b] = Form]
          /\ UNCHANGED <<rightful, asked>>
      BY <1>7 DEF Logout
    <2>2. Shapes'
      BY <2>1, ConsoleAssumption DEF CInv, Shapes, Form, ConsoleAssumption
    <2>3. Earned'
      BY <2>1 DEF CInv, Shapes, Earned, IsAuthed, Form
    <2> QED
      BY <2>1, <2>2, <2>3 DEF CInv
  <1>8. ASSUME NEW c \in Calls, NEW m \in Models, SetDefault(c, m) PROVE CInv'
    BY <1>1, <1>8 DEF SetDefault, BeginDefault, accounts
  <1>9. ASSUME NEW c \in Calls, NEW m \in Models, NEW op \in {"enable", "disable"},
               Toggle(c, op, m)
        PROVE  CInv'
    <2>1. Entitled(c)
      BY <1>9 DEF Toggle, Allows, Entitled, CInv, Earned
    <2>2. UNCHANGED <<cookie, login>> /\ rightful' = asked'
      BY <1>9, <2>1 DEF Toggle, BeginListed, CInv
    <2> QED
      BY <2>2 DEF CInv, Shapes, Earned, IsAuthed
  <1>10. ASSUME NEW c \in Seeders,
                \/ SeedUserFound(c) \/ SeedUserMissing(c) \/ CreateUser(c)
                \/ SeedFails(c) \/ SeedModel(c) \/ SeedModelFound(c)
         PROVE  CInv'
    BY <1>1, <1>10 DEF SeedUserFound, SeedUserMissing, CreateUser, SeedFails, SeedModel,
                       SeedModelFound, BeginSeed
  <1>11. ASSUME NEW c \in Calls, SettingsStep(c) PROVE CInv'
    BY <1>1, <1>11 DEF SettingsStep, Look, Insert, Update, Fail, Answered, accounts
  <1>12. CASE UNCHANGED consoleVars
    BY <1>1, <1>12 DEF consoleVars, accounts
  <1> QED
    BY <1>2, <1>3, <1>4, <1>5, <1>6, <1>7, <1>8, <1>9, <1>10, <1>11, <1>12 DEF ConsoleNext

LEMMA ConsoleInvariant == ConsoleSpec => []CInv
  BY ConsoleInitInv, ConsoleStepInv, PTL DEF ConsoleSpec, consoleVars

----------------------------------------------------------------------------
(* Theorems *)

\* No login, whatever is changed under it, and no race of the calls behind the
\* two forms and the admin key opens a model nobody entitled has asked for.
THEOREM OnlyAdminsOpen == ConsoleSpec => []OpenedByAdmins
  <1>1. CInv /\ OpenedByEnable => OpenedByAdmins
    BY DEF CInv, OpenedByEnable, OpenedByAdmins
  <1> QED
    BY <1>1, ConsoleInvariant, ConsoleImplementsSettings, OnlyEnabled, PTL

\* login() lets the .env credentials in, whichever statement fails, and
\* _is_authed accepts the cookie they get.
THEOREM EnvAlwaysIn == ConsoleSpec => []NeverLockedOut
  <1>1. CInv => NeverLockedOut
    BY DEF CInv, Earned, NeverLockedOut
  <1> QED
    BY <1>1, ConsoleInvariant, PTL

\* What ModelSettings promises of undisturbed calls holds behind the console.
THEOREM ConsoleKeepsSettled == ConsoleSpec => []SettledHolds
  BY ConsoleImplementsSettings, SettledStays, PTL
----------------------------------------------------------------------------
(* Types of the console *)

\* A seed script makes its call last; who was let in has a cookie of that name.
SeedsIdle == \A c \in Seeders : seed[c] # "user" => call[c].pc = "idle"
CookiesNamed == \A b \in Browsers : login[b].pc = "in" => cookie[b].user = login[b].user
Accounts ==
    /\ users \in [Users -> {NoUser} \cup AccountRows]
    /\ seed \in [Seeders -> {"user", "insert", "model"}]
    /\ SeedsIdle /\ CookiesNamed

\* A call that begins, goes on or ends leaves the others where they are.
LEMMA OthersStay ==
    ASSUME TypeOK, NEW c \in Calls, NEW d \in Calls, d # c,
           \/ \E op, m, value : Begin(c, op, m, value)
           \/ Look(c) \/ Insert(c) \/ Update(c) \/ Fail(c)
    PROVE  call'[d].pc = call[d].pc
  <1>1. call \in [Calls -> CallRecords]
    BY DEF TypeOK
  <1>2. CASE \E op, m, value : Begin(c, op, m, value)
    <2>1. PICK B : call' = [k \in Calls |->
                               IF k = c THEN B ELSE [call[k] EXCEPT !.lone = call'[k].lone]]
      <3>1. PICK op, m, value : Begin(c, op, m, value)
        BY <1>2
      <3> DEFINE rivals == {k \in Calls : call[k].pc # "idle" /\ RowOf(call[k].op) = RowOf(op)}
      <3>2. call' = [k \in Calls |->
                   IF k = c THEN [pc |-> "look", op |-> op, name |-> m, value |-> value,
                                  seen |-> NoRow, lone |-> rivals = {}]
                   ELSE [call[k] EXCEPT !.lone = @ /\ k \notin rivals]]
        BY <3>1 DEF Begin
      <3> QED
        BY <1>1, <3>2, SMTT(30) DEF CallRecords
    <2> QED
      BY <1>1, <2>1 DEF CallRecords
  <1>3. CASE Look(c)
    BY <1>1, <1>3 DEF Look
  <1>4. CASE Insert(c) \/ Update(c)
    BY <1>1, <1>4 DEF Insert, Update, Answered
  <1>5. CASE Fail(c)
    BY <1>1, <1>5 DEF Fail
  <1> QED
    BY <1>2, <1>3, <1>4, <1>5

LEMMA AccountsInit == ConsoleInit => Accounts
  BY DEF ConsoleInit, Accounts, SeedsIdle, CookiesNamed, Form, Init, Idle

\* The calls of the settings: only one who is not in the middle of a seed
\* script begins one, and only one who has begun goes on.
LEMMA SeedsIdleCall ==
    ASSUME TypeOK, Accounts, NEW c \in Calls, c \in Seeders => seed'[c] = "user",
           \A d \in Seeders : d # c => seed'[d] = seed[d],
           \/ \E op, m, value : Begin(c, op, m, value)
           \/ Look(c) \/ Insert(c) \/ Update(c) \/ Fail(c)
    PROVE  SeedsIdle'
  <1>1. ASSUME NEW d \in Seeders, seed'[d] # "user" PROVE call'[d].pc = "idle"
    <2>1. d # c /\ d \in Calls /\ seed[d] # "user"
      BY <1>1, SettingsAssumption DEF SettingsAssumption
    <2>2. call'[d].pc = call[d].pc
      BY <2>1, OthersStay
    <2> QED
      BY <2>1, <2>2 DEF Accounts, SeedsIdle
  <1> QED
    BY <1>1 DEF SeedsIdle

LEMMA AccountsCall ==
    ASSUME TypeOK, Accounts, NEW c \in Calls, c \in Seeders => seed[c] = "user",
           UNCHANGED <<users, cookie, login, seed>>,
           \/ \E op, m, value : Begin(c, op, m, value)
           \/ Look(c) \/ Insert(c) \/ Update(c) \/ Fail(c)
    PROVE  Accounts'
  <1>1. SeedsIdle'
    BY SeedsIdleCall
  <1> QED
    BY <1>1 DEF Accounts, CookiesNamed

\* The statements of login(): the cookie carries the name that was let in.
LEMMA NamedFallback ==
    ASSUME CInv, Accounts, NEW b \in Browsers, NEW l, Fallback(b, l)
    PROVE  CookiesNamed'
  <1>1. /\ cookie \in [Browsers -> {NoCookie} \cup [user : Users, earned : BOOLEAN]]
        /\ DOMAIN login = Browsers
    BY DEF CInv, Shapes
  <1>2. CASE l.env
    <2>1. /\ login' = [login EXCEPT ![b] = [l EXCEPT !.pc = "in"]]
          /\ cookie' = [cookie EXCEPT ![b] = [user |-> l.user, earned |-> l.worthy]]
      BY <1>2 DEF Fallback, Enter
    <2>2. cookie'[b].user = l.user
      BY <1>1, <2>1
    <2>3. login'[b].user = l.user
      BY <1>1, <2>1
    <2>4. \A d \in Browsers : d # b => cookie'[d] = cookie[d] /\ login'[d] = login[d]
      BY <1>1, <2>1
    <2> QED
      BY <2>2, <2>3, <2>4 DEF Accounts, CookiesNamed
  <1>3. CASE ~l.env
    <2>1. login' = [login EXCEPT ![b] = Refused(l)] /\ UNCHANGED cookie
      BY <1>3 DEF Fallback
    <2>2. Refused(l).pc = "refused"
      BY DEF Refused
    <2> QED
      BY <1>1, <2>1, <2>2 DEF Accounts, CookiesNamed
  <1> QED
    BY <1>2, <1>3
LEMMA AccountsStep == TypeOK /\ CInv /\ Accounts /\ [ConsoleNext]_consoleVars => Accounts'
  <1> SUFFICES ASSUME TypeOK, CInv, Accounts, [ConsoleNext]_consoleVars PROVE Accounts'
    OBVIOUS
  <1>0. /\ DOMAIN login = Browsers /\ DOMAIN cookie = Browsers
        /\ users \in [Users -> {NoUser} \cup AccountRows]
        /\ seed \in [Seeders -> {"user", "insert", "model"}]
    BY DEF CInv, Shapes, Accounts
  <1>1. CASE \E u \in Users : \E row \in Edits[u] : EditUser(u, row)
    <2>1. PICK u \in Users : \E row \in Edits[u] : EditUser(u, row)
      BY <1>1
    <2>2. PICK row \in Edits[u] : EditUser(u, row)
      BY <2>1
    <2>3. row \in {NoUser} \cup AccountRows
      BY ConsoleAssumption DEF ConsoleAssumption
    <2>4. /\ users' = [users EXCEPT ![u] = row]
          /\ UNCHANGED <<cookie, login, seed, call>>
      BY <2>2 DEF EditUser, vars
    <2> QED
      BY <1>0, <2>3, <2>4 DEF Accounts, SeedsIdle, CookiesNamed
  <1>2. ASSUME CookiesNamed', UNCHANGED <<users, seed, call>> PROVE Accounts'
    BY <1>2 DEF Accounts, SeedsIdle
  <1>3. ASSUME NEW b \in Browsers, NEW u \in Users, NEW p \in Passwords,
               Login(b, u, p) \/ LoginFails(b, u, p)
        PROVE  Accounts'
    <2>1. UNCHANGED <<users, seed, call>>
      BY <1>3 DEF Login, LoginFails, vars
    <2>2. CASE Fallback(b, Submitted(u, p))
      BY <1>2, <2>1, <2>2, NamedFallback
    <2>3. CASE login' = [login EXCEPT ![b] = Submitted(u, p)] /\ UNCHANGED cookie
      BY <1>0, <1>2, <2>1, <2>3 DEF Submitted, Accounts, CookiesNamed
    <2> QED
      BY <1>3, <2>2, <2>3 DEF Login, LoginFails
  <1>4. ASSUME NEW b \in Browsers, LastLogin(b) PROVE Accounts'
    <2>1. UNCHANGED <<users, seed, call>>
      BY <1>4 DEF LastLogin, vars
    <2>2. /\ login' = [login EXCEPT ![b].pc = "in"]
          /\ cookie' = [cookie EXCEPT ![b] = [user |-> login[b].user, earned |-> login[b].worthy]]
      BY <1>4 DEF LastLogin, Enter
    <2>3. login[b] \in [pc : {"form", "found", "in", "refused"}, user : Users,
                        env : BOOLEAN, worthy : BOOLEAN]
      BY DEF CInv, Shapes
    <2>4. cookie'[b].user = login[b].user /\ login'[b].user = login[b].user
      BY <1>0, <2>2, <2>3
    <2>5. \A d \in Browsers : d # b => cookie'[d] = cookie[d] /\ login'[d] = login[d]
      BY <1>0, <2>2
    <2>6. CookiesNamed'
      BY <2>4, <2>5 DEF Accounts, CookiesNamed
    <2> QED
      BY <1>2, <2>1, <2>6
  <1>5. ASSUME NEW b \in Browsers, LastLoginFails(b) PROVE Accounts'
    BY <1>2, <1>5, NamedFallback DEF LastLoginFails, vars
  <1>6. ASSUME NEW b \in Browsers, Logout(b) PROVE Accounts'
    <2>1. /\ UNCHANGED <<users, seed, call>>
          /\ cookie' = [cookie EXCEPT ![b] = NoCookie] /\ login' = [login EXCEPT ![b] = Form]
      BY <1>6 DEF Logout, vars
    <2>2. CookiesNamed'
      BY <1>0, <2>1 DEF Form, Accounts, CookiesNamed
    <2> QED
      BY <1>2, <2>1, <2>2
  <1>7. ASSUME NEW c \in Calls, NEW m \in Models,
               SetDefault(c, m) \/ \E op \in {"enable", "disable"} : Toggle(c, op, m)
        PROVE  Accounts'
    <2>1. /\ c \in Seeders => seed[c] = "user"
          /\ UNCHANGED <<users, cookie, login, seed>>
          /\ \E op, value : Begin(c, op, m, value)
      BY <1>7 DEF SetDefault, Toggle, Allows, BeginDefault, BeginListed, accounts
    <2> QED
      BY <2>1, AccountsCall
  <1>8. ASSUME NEW c \in Seeders,
               SeedUserFound(c) \/ SeedUserMissing(c) \/ SeedFails(c) \/ SeedModelFound(c)
        PROVE  Accounts'
    <2>1. /\ UNCHANGED <<users, cookie, login, call>>
          /\ \E s \in {"user", "insert", "model"} :
                /\ seed' = [seed EXCEPT ![c] = s]
                /\ call[c].pc = "idle" \/ s = "user"
      BY <1>8 DEF SeedUserFound, SeedUserMissing, SeedFails, SeedModelFound, vars
    <2> QED
      BY <1>0, <2>1 DEF Accounts, SeedsIdle, CookiesNamed
  <1>9. ASSUME NEW c \in Seeders, CreateUser(c) PROVE Accounts'
    <2>1. /\ UNCHANGED <<cookie, login, call>> /\ seed[c] = "insert"
          /\ seed' = [seed EXCEPT ![c] = "model"]
          /\ users' = [users EXCEPT ![EnvUser] = [password |-> EnvPassword, state |-> "active",
                                                  scheme |-> HashScheme]]
      BY <1>9 DEF CreateUser, vars
    <2>2. [password |-> EnvPassword, state |-> "active", scheme |-> HashScheme] \in AccountRows
      BY ConsoleAssumption DEF ConsoleAssumption, AccountRows, HashScheme
    <2> QED
      BY <1>0, <2>1, <2>2 DEF Accounts, SeedsIdle, CookiesNamed
  <1>10. ASSUME NEW c \in Seeders, SeedModel(c) PROVE Accounts'
    <2>1. /\ \E op, m, value : Begin(c, op, m, value)
          /\ seed' = [seed EXCEPT ![c] = "user"] /\ UNCHANGED <<users, cookie, login>>
      BY <1>10 DEF SeedModel, BeginSeed
    <2>2. c \in Calls
      BY SettingsAssumption DEF SettingsAssumption
    <2>3. seed'[c] = "user" /\ \A d \in Seeders : d # c => seed'[d] = seed[d]
      BY <1>0, <2>1
    <2>4. SeedsIdle'
      BY <2>1, <2>2, <2>3, SeedsIdleCall
    <2> QED
      BY <1>0, <2>1, <2>4 DEF Accounts, CookiesNamed
  <1>11. ASSUME NEW c \in Calls, SettingsStep(c) PROVE Accounts'
    <2>1. /\ Look(c) \/ Insert(c) \/ Update(c) \/ Fail(c)
          /\ UNCHANGED <<users, cookie, login, seed>>
      BY <1>11 DEF SettingsStep, accounts
    <2>2. c \in Seeders => seed[c] = "user"
      <3>1. call[c].pc # "idle"
        BY <2>1 DEF Look, Insert, Update, Fail
      <3> QED
        BY <1>0, <3>1 DEF Accounts, SeedsIdle
    <2> QED
      BY <2>1, <2>2, AccountsCall
  <1>12. CASE UNCHANGED consoleVars
    BY <1>12 DEF consoleVars, vars, accounts, Accounts, SeedsIdle, CookiesNamed
  <1> QED
    BY <1>1, <1>3, <1>4, <1>5, <1>6, <1>7, <1>8, <1>9, <1>10, <1>11, <1>12 DEF ConsoleNext

\* Every variable of the console has the values the program can give it; a seed
\* script is at one place at a time, and who was let in has a cookie.
THEOREM ConsoleTypeCorrect == ConsoleSpec => []ConsoleTypeOK
  <1>1. TypeOK /\ CInv /\ Accounts => ConsoleTypeOK
    BY DEF CInv, Shapes, Earned, Accounts, SeedsIdle, CookiesNamed, ConsoleTypeOK
  <1> QED
    BY <1>1, AccountsInit, AccountsStep, ConsoleInvariant, ConsoleImplementsSettings,
       SettingsTypeCorrect, PTL DEF ConsoleSpec, consoleVars
=============================================================================
