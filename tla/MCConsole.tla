------------------------------ MODULE MCConsole ------------------------------
(* A small instance of Console for TLC: argon2 is not installed; the row of *)
(* the .env user is missing, deleted, or was hashed where argon2 was.       *)
EXTENDS Console

CONSTANTS m1, m2, c1, c2, admin, operator, good, bad

Row(state, scheme) == [password |-> good, scheme |-> scheme, state |-> state]

MCEdits == [u \in Users |->
    IF u = admin THEN {NoUser, Row("deleted", "pbkdf2"), Row("active", "argon2")}
    ELSE {Row("active", "pbkdf2"), Row("disabled", "pbkdf2")}]
==============================================================================
