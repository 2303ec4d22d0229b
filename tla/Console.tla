------------------------------ MODULE Console -------------------------------
(***************************************************************************)
(* The admin console over the model settings: accounts of the table users  *)
(* (user_service.py, core/security.py, scripts/migrate_seed.py), the login *)
(* with its .env fallback and the stateless cookie (admin_ui/router.py),   *)
(* and the two forms of the models page.  The calls that the forms make    *)
(* are those of ModelSettings; callers that are no browsers send the       *)
(* static admin key (require_admin).                                       *)
(*                                                                         *)
(* Usernames and passwords are ASCII, and no username holds a colon.       *)
(***************************************************************************)
EXTENDS ModelSettings

CONSTANTS
    Browsers,       \* the calls that a browser makes
    Users,          \* usernames
    EnvUser,        \* settings.admin_username
    Passwords,
    EnvPassword,    \* settings.admin_password
    Edits,          \* Edits[u]: what an operator may leave for u: there is no API for it
    NoUser,         \* a username without a row
    NoCookie,
    HasArgon2       \* whether argon2 can be imported: _HAS_ARGON2

AccountRows == [password : Passwords, scheme : {"argon2", "pbkdf2"},
                state : {"active", "disabled", "deleted"}]

ASSUME ConsoleAssumption ==
    /\ Browsers \subseteq Calls \ Seeders
    /\ EnvUser \in Users /\ EnvPassword \in Passwords
    /\ NoUser \notin AccountRows /\ Edits \in [Users -> SUBSET (AccountRows \cup {NoUser})]
    /\ NoCookie \notin [user : Users, earned : BOOLEAN]
    /\ HasArgon2 \in BOOLEAN

VARIABLES
    users,          \* users[u]: the row of username u (uq_users_username), or NoUser
    cookie,         \* cookie[b]: the admin_auth cookie b sends, or NoCookie
    login,          \* login[b]: the login b has submitted
    seed,           \* seed[c]: where a run of migrate_seed is
    rightful        \* history: models listed at first or called for by an entitled caller

accounts == <<users, cookie, login, seed, rightful>>

\* A browser does one thing at a time.
Free(b) == login[b].pc # "found" /\ call[b].pc = "idle"

Form == [pc |-> "form", user |-> EnvUser, env |-> FALSE, worthy |-> FALSE]

ConsoleInit ==
    /\ Init
    /\ users \in [Users -> {NoUser} \cup AccountRows] /\ \A u \in Users : users[u] \in Edits[u]
    /\ cookie = [b \in Browsers |-> NoCookie]
    /\ login = [b \in Browsers |-> Form]
    /\ seed = [c \in Seeders |-> "user"]
    /\ rightful = asked

----------------------------------------------------------------------------
(* The table users *)

\* get_by_username: a deleted row is not found.
Found(u) == users[u] # NoUser /\ users[u].state # "deleted"

\* verify_password goes by the scheme of the stored hash.
VerifyPassword(p, row) == row.password = p /\ (row.scheme = "argon2" => HasArgon2)

HashScheme == IF HasArgon2 THEN "argon2" ELSE "pbkdf2"    \* hash_password

AuthenticatesAnyStatus(u, p) ==         \* fault: is_active is not asked
    Found(u) /\ VerifyPassword(p, users[u])

\* authenticate, up to the write of last_login.
Authenticates(u, p) ==
    Found(u) /\ users[u].state = "active" /\ VerifyPassword(p, users[u])

\* An operator changes, adds or removes a row.
EditUser(u, row) ==
    /\ users' = [users EXCEPT ![u] = row]
    /\ UNCHANGED <<cookie, login, seed, rightful, vars>>

----------------------------------------------------------------------------
(* login(), from one statement to the next *)

EnvCredentialsOk(u, p) == u = EnvUser /\ p = EnvPassword

\* For the properties: who may come in, whatever hash the row has.
Worthy(u, p) == \/ EnvCredentialsOk(u, p)
                \/ Found(u) /\ users[u].state = "active" /\ users[u].password = p

\* The cookie for u is set: it holds the name and its MAC, and nothing of the row.
Enter(b, u, worthy) ==
    cookie' = [cookie EXCEPT ![b] = [user |-> u, earned |-> worthy]]

Refused(l) == [pc |-> "refused", user |-> EnvUser, env |-> l.env, worthy |-> FALSE]

\* What the users table did not settle, the .env credentials do.
Fallback(b, l) ==
    \/ /\ l.env
       /\ login' = [login EXCEPT ![b] = [l EXCEPT !.pc = "in"]]
       /\ Enter(b, l.user, l.worthy)
    \/ /\ ~l.env
       /\ login' = [login EXCEPT ![b] = Refused(l)]
       /\ UNCHANGED cookie

Submitted(u, p) == [pc |-> "found", user |-> u, env |-> EnvCredentialsOk(u, p),
                    worthy |-> Worthy(u, p)]

\* The SELECT of authenticate; a password that fits leads on to its UPDATE.
Login(b, u, p) ==
    /\ Free(b)
    /\ IF Authenticates(u, p)
       THEN login' = [login EXCEPT ![b] = Submitted(u, p)] /\ UNCHANGED cookie
       ELSE Fallback(b, Submitted(u, p))
    /\ UNCHANGED <<users, seed, rightful, vars>>

LoginRefused(b, u, p) ==                \* fault: an exception is a refusal
    /\ Free(b)
    /\ login' = [login EXCEPT ![b] = Refused(Submitted(u, p))]
    /\ UNCHANGED <<users, cookie, seed, rightful, vars>>

\* The SELECT fails: "DB down -> fall through to env recovery".
LoginFails(b, u, p) ==
    /\ Free(b)
    /\ Fallback(b, Submitted(u, p))
    /\ UNCHANGED <<users, seed, rightful, vars>>

\* last_login is written and committed.
LastLogin(b) ==
    /\ login[b].pc = "found"
    /\ login' = [login EXCEPT ![b].pc = "in"]
    /\ Enter(b, login[b].user, login[b].worthy)
    /\ UNCHANGED <<users, seed, rightful, vars>>

LastLoginFails(b) ==
    /\ login[b].pc = "found"
    /\ Fallback(b, login[b])
    /\ UNCHANGED <<users, seed, rightful, vars>>

\* logout() deletes the cookie; so does the browser after eight hours.
Logout(b) ==
    /\ Free(b)
    /\ cookie' = [cookie EXCEPT ![b] = NoCookie]
    /\ login' = [login EXCEPT ![b] = Form]
    /\ UNCHANGED <<users, seed, rightful, vars>>

----------------------------------------------------------------------------
(* The models page, and the callers with the admin key *)

\* _is_authed: the MAC is right for any name it was ever made for.
IsAuthed(b) == cookie[b] # NoCookie

\* require_admin and _is_authed; c is not in the middle of something else.
Allows(c) == /\ c \in Browsers => Free(c) /\ IsAuthed(c)
             /\ c \in Seeders => seed[c] = "user"

Entitled(c) == c \in Browsers => IsAuthed(c) /\ cookie[c].earned

\* toggle_model for browsers; enable_model and disable_model for the others.
Toggle(c, op, m) ==
    /\ Allows(c)
    /\ BeginListed(c, op, m)
    /\ rightful' = IF op = "enable" /\ Entitled(c) THEN rightful \cup {m} ELSE rightful
    /\ UNCHANGED <<users, cookie, login, seed>>

\* set_default, set_default_model
SetDefault(c, m) ==
    /\ Allows(c)
    /\ BeginDefault(c, m)
    /\ UNCHANGED accounts

----------------------------------------------------------------------------
(* migrate_seed: _seed_admin_user, then _seed_default_model *)

SeedUserFound(c) ==
    /\ seed[c] = "user" /\ call[c].pc = "idle" /\ Found(EnvUser)
    /\ seed' = [seed EXCEPT ![c] = "model"]
    /\ UNCHANGED <<users, cookie, login, rightful, vars>>

SeedUserMissing(c) ==
    /\ seed[c] = "user" /\ call[c].pc = "idle" /\ ~Found(EnvUser)
    /\ seed' = [seed EXCEPT ![c] = "insert"]
    /\ UNCHANGED <<users, cookie, login, rightful, vars>>

\* create_user: the username may have no row, not even a deleted one.
CreateUser(c) ==
    /\ seed[c] = "insert" /\ users[EnvUser] = NoUser
    /\ users' = [users EXCEPT ![EnvUser] = [password |-> EnvPassword, state |-> "active",
                                            scheme |-> HashScheme]]
    /\ seed' = [seed EXCEPT ![c] = "model"]
    /\ UNCHANGED <<cookie, login, rightful, vars>>

\* A statement fails, on uq_users_username for instance: the script ends.
SeedFails(c) ==
    /\ seed[c] # "user"
    /\ seed' = [seed EXCEPT ![c] = "user"]
    /\ UNCHANGED <<users, cookie, login, rightful, vars>>

SeedModelOn(c) ==                       \* fault: the script is not over
    /\ seed[c] = "model"
    /\ BeginSeed(c)
    /\ UNCHANGED <<users, cookie, login, seed, rightful>>

\* The rest of the script is the call of set_default_model.
SeedModel(c) ==
    /\ seed[c] = "model"
    /\ BeginSeed(c)
    /\ seed' = [seed EXCEPT ![c] = "user"]
    /\ UNCHANGED <<users, cookie, login, rightful>>

SeedModelFound(c) ==
    /\ seed[c] = "model" /\ default # NoRow
    /\ seed' = [seed EXCEPT ![c] = "user"]
    /\ UNCHANGED <<users, cookie, login, rightful, vars>>

SettingsStep(c) == (Look(c) \/ Insert(c) \/ Update(c) \/ Fail(c)) /\ UNCHANGED accounts

ConsoleNext ==
    \/ \E u \in Users : \E row \in Edits[u] : EditUser(u, row)
    \/ \E b \in Browsers, u \in Users, p \in Passwords : Login(b, u, p) \/ LoginFails(b, u, p)
    \/ \E b \in Browsers : LastLogin(b) \/ LastLoginFails(b) \/ Logout(b)
    \/ \E c \in Calls, m \in Models :
          SetDefault(c, m) \/ \E op \in {"enable", "disable"} : Toggle(c, op, m)
    \/ \E c \in Seeders : \/ SeedUserFound(c) \/ SeedUserMissing(c) \/ CreateUser(c)
                          \/ SeedFails(c) \/ SeedModel(c) \/ SeedModelFound(c)
    \/ \E c \in Calls : SettingsStep(c)

ConsoleSpec == ConsoleInit /\ [][ConsoleNext]_<<vars, accounts>>

----------------------------------------------------------------------------
(* Properties *)

\* Every variable has the values the program can give it; a run of the seed
\* script is at one place at a time, and who was let in has a cookie.
ConsoleTypeOK ==
    /\ TypeOK
    /\ users \in [Users -> {NoUser} \cup AccountRows]
    /\ cookie \in [Browsers -> {NoCookie} \cup [user : Users, earned : BOOLEAN]]
    /\ login \in [Browsers -> [pc : {"form", "found", "in", "refused"}, user : Users,
                               env : BOOLEAN, worthy : BOOLEAN]]
    /\ seed \in [Seeders -> {"user", "insert", "model"}]
    /\ rightful \subseteq asked
    /\ \A c \in Seeders : seed[c] # "user" => call[c].pc = "idle"
    /\ \A b \in Browsers : login[b].pc = "in" => IsAuthed(b) /\ cookie[b].user = login[b].user

\* A list never names a model that was not in it at first and that nobody
\* entitled has asked to enable: neither a lost update, nor a login against a
\* row that was disabled, deleted or changed under it, nor the seed opens one.
OpenedByAdmins == enabled # NoRow => enabled \subseteq rightful

\* "The console is never locked out": the .env credentials are never refused,
\* whatever the users table holds and whichever of its statements fails, and
\* the browser that gave them is let in by the pages that follow.
NeverLockedOut ==
    \A b \in Browsers : login[b].env => /\ login[b].pc # "refused"
                                        /\ login[b].pc = "in" => IsAuthed(b)
=============================================================================
