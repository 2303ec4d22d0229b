----------------------------- MODULE KeyCopies -----------------------------
(***************************************************************************)
(* The copies of raw keys that the console shows: the columns key_hash and *)
(* key_encrypted of api_keys, written by create_key and by overlapping     *)
(* runs of scripts/backfill_key_copy.py, from deployments that share the   *)
(* database and have each its own HMAC_SECRET.  Hash and ciphertext of a   *)
(* value are the value with the secret they are made with: a hash can only *)
(* be compared, a ciphertext be opened by who knows the secret.            *)
(***************************************************************************)
EXTENDS Functions

CONSTANTS
    Rows,           \* ids of api_keys
    Values,         \* raw keys
    Old,            \* Old[k]: the value row k has if it is there at the start
    Secrets,
    Instances,      \* deployments on the one database
    Secret,         \* Secret[i]: settings.hmac_secret
    Fallbacks,      \* Fallbacks[i]: settings.hmac_secret_fallbacks
    Runs,           \* runs of the script
    InstanceOf,     \* InstanceOf[r]: the deployment whose settings r has
    Applies,        \* runs with --apply
    Rotates,        \* runs with --rotate
    Nothing,        \* NULL
    NoValue

ASSUME CopiesAssumption ==
    /\ Old \in [Rows -> Values] /\ NoValue \notin Values
    /\ Secret \in [Instances -> Secrets] /\ Fallbacks \in [Instances -> SUBSET Secrets]
    /\ InstanceOf \in [Runs -> Instances]
    /\ Nothing \notin [value : Values, secret : Secrets]

VARIABLES
    row,            \* row[k]: whether the row is live, key_hash and key_encrypted
    issued,         \* values generated so far, none twice
    run,            \* run[r]: where r is and what it means to write
    overlapped      \* history: rows that two runs were about to write at once

vars == <<row, issued, run, overlapped>>

----------------------------------------------------------------------------
(* security.py *)

Sealed == [value : Values, secret : Secrets]
Seal(i, v) == [value |-> v, secret |-> Secret[i]]

\* decrypt_secret: the current secret, then the fallbacks.
Shown(i, copy) ==
    IF copy # Nothing /\ copy.secret \in {Secret[i]} \cup Fallbacks[i]
    THEN copy.value ELSE NoValue

----------------------------------------------------------------------------

\* A row at the start was made under some secret, before or after the column
\* key_encrypted was there.
Init ==
    /\ row \in [Rows -> [state : {"unused"}, hash : {Nothing}, copy : {Nothing}]
                        \cup [state : {"live"}, hash : Sealed, copy : Sealed \cup {Nothing}]]
    /\ \A k \in Rows : row[k].state = "live" =>
          row[k].hash.value = Old[k] /\ row[k].copy \in {row[k].hash, Nothing}
    /\ issued = Range(Old)
    /\ run = [r \in Runs |-> [pc |-> "idle", write |-> [k \in Rows |-> NoValue], lost |-> {}]]
    /\ overlapped = {}

\* create_key, in either deployment.
Create(i, k, v) ==
    /\ row[k].state = "unused" /\ v \notin issued
    /\ row' = [row EXCEPT ![k] = [state |-> "live", hash |-> Seal(i, v), copy |-> Seal(i, v)]]
    /\ issued' = issued \cup {v}
    /\ UNCHANGED <<run, overlapped>>

\* Fault: the hash goes with the row.
DeleteHash(k) ==
    /\ row[k].state = "live"
    /\ row' = [row EXCEPT ![k].state = "deleted", ![k].hash = Nothing]
    /\ UNCHANGED <<issued, run, overlapped>>

\* delete_key: the row stays, and keeps its columns.
Delete(k) ==
    /\ row[k].state = "live"
    /\ row' = [row EXCEPT ![k].state = "deleted"]
    /\ UNCHANGED <<issued, run, overlapped>>

----------------------------------------------------------------------------
(* backfill_key_copy.py *)

Live == {k \in Rows : row[k].state = "live"}

\* Fault: the fallbacks are not tried.
DecryptStateCurrentOnly(i, copy) ==
    IF copy # Nothing /\ copy.secret = Secret[i] THEN "current" ELSE "unrecoverable"

\* _decrypt_state
DecryptState(i, copy) ==
    IF Shown(i, copy) = NoValue THEN "unrecoverable"
    ELSE IF copy.secret = Secret[i] THEN "current" ELSE "fallback"

RowsIn(i, state) == {k \in Live : DecryptState(i, row[k].copy) = state}

Pending(r) == r \in Applies /\ run[r].pc = "read"

\* Some run has read row k and will write it.
ToBeWritten(k) == \E q \in Runs : Pending(q) /\ run[q].write[k] # NoValue

\* One SELECT of the live rows; the loop over them decides what to write and
\* generates the new keys, and touches the database no more.
ReadRows(r) ==
    LET i == InstanceOf[r]
        lost == IF r \in Rotates THEN RowsIn(i, "unrecoverable") ELSE {}
        kept == RowsIn(i, "fallback") IN
    /\ run[r].pc = "idle"
    /\ \E new \in [lost -> Values \ issued] :
          /\ IsInjective(new)
          /\ issued' = issued \cup Range(new)
          /\ run' = [run EXCEPT ![r] =
                [pc |-> "read", lost |-> lost,
                 write |-> [k \in Rows |-> IF k \in lost THEN new[k]
                                           ELSE IF k \in kept THEN row[k].copy.value
                                           ELSE NoValue]]]
    /\ overlapped' = overlapped \cup {k \in lost \cup kept : r \in Applies /\ ToBeWritten(k)}
    /\ UNCHANGED row

\* Fault: a rotated row keeps its old ciphertext.
WrittenHashOnly(r, k) ==
    LET sealed == Seal(InstanceOf[r], run[r].write[k]) IN
    IF run[r].write[k] = NoValue THEN row[k]
    ELSE IF k \in run[r].lost /\ row[k].copy # Nothing THEN [row[k] EXCEPT !.hash = sealed]
    ELSE [row[k] EXCEPT !.copy = sealed]

\* An UPDATE by id of the columns that were assigned: hash and copy of a row
\* that is rotated, the copy of one that is re-encrypted.
Written(r, k) ==
    LET sealed == Seal(InstanceOf[r], run[r].write[k]) IN
    IF run[r].write[k] = NoValue THEN row[k]
    ELSE IF k \in run[r].lost THEN [row[k] EXCEPT !.hash = sealed, !.copy = sealed]
    ELSE [row[k] EXCEPT !.copy = sealed]

\* --apply: everything in one commit.
Commit(r) ==
    /\ Pending(r)
    /\ row' = [k \in Rows |-> Written(r, k)]
    /\ run' = [run EXCEPT ![r].pc = "done"]
    /\ UNCHANGED <<issued, overlapped>>

\* A dry run only reports, and a run may fail before or in its commit.
EndWithoutWriting(r) ==
    /\ run[r].pc = "read"
    /\ run' = [run EXCEPT ![r].pc = IF r \in Applies THEN "failed" ELSE "done"]
    /\ UNCHANGED <<row, issued, overlapped>>

Next ==
    \/ \E i \in Instances, k \in Rows, v \in Values : Create(i, k, v)
    \/ \E k \in Rows : Delete(k)
    \/ \E r \in Runs : ReadRows(r) \/ Commit(r) \/ EndWithoutWriting(r)

Spec == Init /\ [][Next]_vars

----------------------------------------------------------------------------
(* Properties *)

RowStates ==
    [state : {"unused"}, hash : {Nothing}, copy : {Nothing}]
        \cup [state : {"live", "deleted"}, hash : Sealed, copy : Sealed \cup {Nothing}]

\* Every variable has the values the program can give it.
TypeOK ==
    /\ row \in [Rows -> RowStates]
    /\ issued \subseteq Values
    /\ run \in [Runs -> [pc : {"idle", "read", "done", "failed"}, lost : SUBSET Rows,
                         write : [Rows -> Values \cup {NoValue}]]]
    /\ overlapped \subseteq Rows

\* What the console copies is the key whose hash is stored: of every row that no
\* two runs were about to write at once, whoever made, opened or resealed it.
CopyIsKey ==
    \A k \in Rows \ overlapped :
        row[k].copy # Nothing => row[k].copy.value = row[k].hash.value

\* "a row with NO recoverable plaintext" (backfill_key_copy.py): a key stops
\* working only at the hands of a --rotate --apply run whose deployment cannot
\* show it at that very moment, unless two runs were about to write the row.
OnlyLostKeysRetired ==
    [][\A k \in Live \ overlapped : row'[k].hash # row[k].hash =>
          \E r \in Applies \cap Rotates :
              /\ Pending(r) /\ run'[r].pc = "done"
              /\ Shown(InstanceOf[r], row[k].copy) = NoValue]_vars
=============================================================================
