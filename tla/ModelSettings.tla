---------------------------- MODULE ModelSettings ----------------------------
(***************************************************************************)
(* settings_service.py: the allow-list of models and the default model,    *)
(* two rows of the table settings that every administrative call reads in  *)
(* one statement, looks up again in a second and writes in a third.  Calls *)
(* of several administrators, and of migrate_seed.py, interleave between   *)
(* the statements (READ COMMITTED).                                        *)
(***************************************************************************)
EXTENDS Integers, FiniteSets

CONSTANTS
    Models,
    Calls,          \* callers of the administrative endpoints, one call at a time
    Seeders,        \* those of them that run scripts/migrate_seed.py
    Configured,     \* settings.default_model of the configuration
    NoRow,          \* the row does not exist
    Unknown         \* history: nothing is known of it

ASSUME SettingsAssumption ==
    /\ Configured \in Models
    /\ Seeders \subseteq Calls
    /\ NoRow \notin Models /\ (\A S \in SUBSET Models : S # NoRow)
    /\ Unknown \notin Models \cup {"open", "closed"}

VARIABLES
    enabled,        \* row models.enabled: NoRow or the JSON list, as a set
    default,        \* row models.default: NoRow or a model
    call,           \* call[c]: the call that c is making
    settled,        \* history: what a call that overlapped no other made of a model
    settledDefault, \* history: likewise, of the default
    asked           \* history: models listed at first or that an enable was called for

vars == <<enabled, default, call, settled, settledDefault, asked>>

----------------------------------------------------------------------------

\* Fault: an empty list is no restriction either.
AllowedUnlessListed(m) == enabled = NoRow \/ enabled = {} \/ m \in enabled

\* is_model_allowed: without a row, every model is.
Allowed(m) == enabled = NoRow \/ m \in enabled

\* What enable_model and disable_model make of the list they read.
Listed == IF enabled = NoRow THEN {} ELSE enabled

NewList(op, m) == IF op = "enable" THEN Listed \cup {m} ELSE Listed \ {m}

\* get_default_model
DefaultModel == IF default = NoRow THEN Configured ELSE default

RowOf(op) == IF op \in {"enable", "disable"} THEN "models.enabled" ELSE "models.default"
Stored(op) == IF RowOf(op) = "models.enabled" THEN enabled ELSE default

Idle == [pc |-> "idle", op |-> "enable", name |-> Configured, value |-> NoRow,
         seen |-> NoRow, lone |-> FALSE]

Init ==
    /\ enabled \in {NoRow} \cup SUBSET Models
    /\ default \in {NoRow} \cup Models
    /\ call = [c \in Calls |-> Idle]
    /\ settled = [m \in Models |-> Unknown]
    /\ settledDefault = default
    /\ asked = IF enabled = NoRow THEN {} ELSE enabled

----------------------------------------------------------------------------

\* c begins a call, and has read what it changes; from here on it overlaps
\* every other call on the same row.
Begin(c, op, m, value) ==
    LET rivals == {d \in Calls : call[d].pc # "idle" /\ RowOf(call[d].op) = RowOf(op)} IN
    /\ call[c].pc = "idle"
    /\ call' = [d \in Calls |->
                   IF d = c THEN [pc |-> "look", op |-> op, name |-> m, value |-> value,
                                  seen |-> NoRow, lone |-> rivals = {}]
                   ELSE [call[d] EXCEPT !.lone = @ /\ d \notin rivals]]
    /\ UNCHANGED <<enabled, default>>

\* enable_model, disable_model: get_enabled_models, and the list to store.
BeginListed(c, op, m) ==
    /\ op \in {"enable", "disable"}
    /\ Begin(c, op, m, NewList(op, m))
    /\ settled' = [settled EXCEPT ![m] = Unknown]
    /\ asked' = IF op = "enable" THEN asked \cup {m} ELSE asked
    /\ UNCHANGED settledDefault

\* set_default_model reads nothing first.
BeginDefault(c, m) ==
    /\ Begin(c, "default", m, m)
    /\ settledDefault' = Unknown
    /\ UNCHANGED <<settled, asked>>

\* _seed_default_model leaves a default that it finds.
BeginSeed(c) ==
    /\ c \in Seeders /\ default = NoRow
    /\ Begin(c, "seed", Configured, Configured)
    /\ UNCHANGED <<settled, settledDefault, asked>>

\* set_setting: its own SELECT decides between INSERT and UPDATE.
Look(c) ==
    LET row == Stored(call[c].op) IN
    /\ call[c].pc = "look"
    /\ call' = [call EXCEPT ![c].pc = IF row = NoRow THEN "insert" ELSE "update",
                            ![c].seen = row]
    /\ UNCHANGED <<enabled, default, settled, settledDefault, asked>>

\* c's row gets the value of its call.
Store(c) ==
    IF RowOf(call[c].op) = "models.enabled"
    THEN enabled' = call[c].value /\ UNCHANGED default
    ELSE default' = call[c].value /\ UNCHANGED enabled

\* c's call is answered 200.  Having overlapped no other on its row, it holds.
Answered(c) ==
    LET op == call[c].op IN
    /\ call' = [call EXCEPT ![c] = Idle]
    /\ settled' = IF call[c].lone /\ RowOf(op) = "models.enabled"
                  THEN [settled EXCEPT ![call[c].name] = IF op = "enable" THEN "open" ELSE "closed"]
                  ELSE settled
    /\ settledDefault' = IF call[c].lone /\ op = "default"
                         THEN call[c].name ELSE settledDefault
    /\ UNCHANGED asked

Insert(c) ==
    /\ call[c].pc = "insert" /\ Stored(call[c].op) = NoRow
    /\ Store(c)
    /\ Answered(c)

\* SQLAlchemy sends no UPDATE for a value that is the one it has read.
Update(c) ==
    /\ call[c].pc = "update"
    /\ IF call[c].value = call[c].seen THEN UNCHANGED <<enabled, default>> ELSE Store(c)
    /\ Answered(c)

\* The row appeared since (uq_settings_key), or the database fails: a 500.
Fail(c) ==
    /\ call[c].pc # "idle"
    /\ call' = [call EXCEPT ![c] = Idle]
    /\ UNCHANGED <<enabled, default, settled, settledDefault, asked>>

Next ==
    \E c \in Calls :
        \/ \E m \in Models, op \in {"enable", "disable"} : BeginListed(c, op, m)
        \/ \E m \in Models : BeginDefault(c, m)
        \/ BeginSeed(c) \/ Look(c) \/ Insert(c) \/ Update(c) \/ Fail(c)

Spec == Init /\ [][Next]_vars

----------------------------------------------------------------------------
(* Properties *)

CallRecords == [pc : {"idle", "look", "insert", "update"},
                op : {"enable", "disable", "default", "seed"}, name : Models,
                value : {NoRow} \cup Models \cup SUBSET Models,
                seen : {NoRow} \cup Models \cup SUBSET Models, lone : BOOLEAN]

\* Every variable has the values the program can give it.
TypeOK ==
    /\ enabled \in {NoRow} \cup SUBSET Models
    /\ default \in {NoRow} \cup Models
    /\ call \in [Calls -> CallRecords]
    /\ settled \in [Models -> {"open", "closed", Unknown}]
    /\ settledDefault \in {NoRow, Unknown} \cup Models
    /\ asked \subseteq Models

\* What a call of enable or disable that overlapped no other was answered 200
\* for holds until that model is called for again, whatever overlapping calls
\* on other models do to each other: the last model disabled does not open the
\* gateway to all, and a lost update does not bring it back.  The default set
\* without an overlap, or there at first, is served, whenever the seed runs.
SettledHolds ==
    /\ \A m \in Models : /\ settled[m] = "open" => Allowed(m)
                         /\ settled[m] = "closed" => ~Allowed(m)
    /\ settledDefault \notin {NoRow, Unknown} => DefaultModel = settledDefault

\* Lost updates only ever restore: a list never names a model that was not in
\* it at first and that no administrator has asked to enable.
OpenedByEnable == enabled # NoRow => enabled \subseteq asked
==============================================================================
