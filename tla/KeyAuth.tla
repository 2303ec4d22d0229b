------------------------------- MODULE KeyAuth -------------------------------
(***************************************************************************)
(* The life of an API key (key_service.py) and the authentication of a     *)
(* public request against it (require_api_key in api/deps.py), with the    *)
(* rate-limit checks it makes.  Every await is a boundary between two      *)
(* actions: an administrator may revoke the key, and other requests may    *)
(* run, between any two of them.                                           *)
(***************************************************************************)
EXTENDS RateLimits

CONSTANTS
    Keys,           \* raw keys a client may present; some never get a row
    Ips,            \* client addresses
    Requests,       \* requests, each answered once
    Admins,         \* administrators' delete and disable calls
    Tier,           \* Tier[k]: the tier column of k's row
    TierLimits,     \* TIER_LIMITS
    Unlimited,      \* the limit None
    Allowlist,      \* Allowlist[k]: the parsed ip_whitelist; {} = any address
    ExpiresAt,      \* ExpiresAt[k]: expires_at, or Never
    Never,
    IpLimit,        \* the 10_000 of the per-IP check
    Window,         \* _WINDOW_SECONDS
    MaxTime         \* bound: the last tick explored

ASSUME KeyAuthAssumption ==
    /\ \A k \in Keys : LimitForTier(TierLimits, Tier[k]) \in (Nat \ {0}) \cup {Unlimited}
    /\ Unlimited \notin Nat /\ Never \notin Nat
    /\ Allowlist \in [Keys -> SUBSET Ips]
    /\ ExpiresAt \in [Keys -> Nat \cup {Never}]
    /\ Keys # {} /\ IsFiniteSet(Requests)
    /\ IpLimit \in Nat \ {0} /\ Window \in Nat \ {0} /\ MaxTime \in Nat

VARIABLES
    now,            \* the clock
    row,            \* row[k]: the api_keys row of k, or NoRow
    admin,          \* admin[a]: the delete or disable call a is in, or idle
    req,            \* req[r]: where request r is
    hits            \* the limiter's deque of each identity (in-process back end)

vars == <<now, row, admin, req, hits>>

----------------------------------------------------------------------------

NoRow == [status |-> "none", is_deleted |-> FALSE, last_used |-> Never]

Exists(k) == row[k] # NoRow
Revoked(k) == row[k].is_deleted \/ row[k].status = "disabled"
Expired(k) == ExpiresAt[k] # Never /\ ExpiresAt[k] < now

Identities == ({"key"} \X Keys) \cup ({"ip"} \X Ips)

Idle == [op |-> "idle", key |-> CHOOSE k \in Keys : TRUE]

\* A request that has not arrived.
Unsent(k, ip) ==
    [pc |-> "unsent", key |-> k, ip |-> ip, seen |-> NoRow, stamp |-> 0,
     dead |-> FALSE]

Init ==
    /\ now = 0
    /\ row = [k \in Keys |-> NoRow]
    /\ admin = [a \in Admins |-> Idle]
    /\ req \in [Requests -> {Unsent(k, ip) : k \in Keys, ip \in Ips}]
    /\ hits = [i \in Identities |-> <<>>]

Tick ==
    /\ now < MaxTime
    /\ now' = now + 1
    /\ UNCHANGED <<row, admin, req, hits>>

----------------------------------------------------------------------------
(* key_service: create, disable, soft delete *)

\* The row is built and committed in one INSERT; status defaults to active.
CreateKey(k) ==
    /\ ~Exists(k)
    /\ row' = [row EXCEPT ![k] = [status |-> "active", is_deleted |-> FALSE, last_used |-> Never]]
    /\ UNCHANGED <<now, admin, req, hits>>

\* db.get: a call on an absent or deleted row ends here (None, False).
ReadForAdmin(a, k, op) ==
    /\ admin[a] = Idle
    /\ Exists(k) /\ ~row[k].is_deleted
    /\ admin' = [admin EXCEPT ![a] = [op |-> op, key |-> k]]
    /\ UNCHANGED <<now, row, req, hits>>

CommitDisable(a) ==
    /\ admin[a].op = "disable"
    /\ row' = [row EXCEPT ![admin[a].key].status = "disabled"]
    /\ admin' = [admin EXCEPT ![a] = Idle]
    /\ UNCHANGED <<now, req, hits>>

\* Fault: the status becomes one that is_active and the pages do not know.
CommitDeleteStatus(a) ==
    /\ admin[a].op = "delete"
    /\ row' = [row EXCEPT ![admin[a].key].is_deleted = TRUE,
                          ![admin[a].key].status = "deleted"]
    /\ admin' = [admin EXCEPT ![a] = Idle]
    /\ UNCHANGED <<now, req, hits>>

\* The row stays: deletion is a flag, and the status goes with it.
CommitDelete(a) ==
    /\ admin[a].op = "delete"
    /\ row' = [row EXCEPT ![admin[a].key].is_deleted = TRUE,
                          ![admin[a].key].status = "disabled"]
    /\ admin' = [admin EXCEPT ![a] = Idle]
    /\ UNCHANGED <<now, req, hits>>

Administration ==
    \/ \E k \in Keys : CreateKey(k)
    \/ \E a \in Admins : \/ \E k \in Keys : ReadForAdmin(a, k, "delete")
                         \/ \E k \in Keys : ReadForAdmin(a, k, "disable")
                         \/ CommitDisable(a)
                         \/ CommitDelete(a)

----------------------------------------------------------------------------
(* require_api_key *)

\* What was read of the key is local to the call.
Step(r, to) == req' = [req EXCEPT ![r].pc = to, ![r].seen = NoRow]

\* No X-API-KEY header: 401 before anything is read.
ArriveWithoutKey(r) ==
    /\ req[r].pc = "unsent"
    /\ Step(r, "401")
    /\ UNCHANGED <<now, row, admin, hits>>

\* dead records, for the properties, that the key was of no more use by then.
Arrive(r) ==
    LET k == req[r].key IN
    /\ req[r].pc = "unsent"
    /\ req' = [req EXCEPT ![r].pc = "select",
                          ![r].dead = Exists(k) /\ (Revoked(k) \/ Expired(k))]
    /\ UNCHANGED <<now, row, admin, hits>>

\* get_by_raw_key: the SELECT, filtered on key_hash and is_deleted = false.
Select(r) ==
    LET k == req[r].key IN
    /\ req[r].pc = "select"
    /\ req' = [req EXCEPT ![r].pc = "guard",
                          ![r].seen = IF row[k].is_deleted THEN NoRow ELSE row[k]]
    /\ UNCHANGED <<now, row, admin, hits>>

\* Fault: is_active forgets the status column.
ActiveIgnoringStatus(r) == req[r].seen # NoRow /\ ~Expired(req[r].key)

\* row is not None and row.is_active: the row as it was read, the clock as it
\* is now.
Active(r) ==
    /\ req[r].seen # NoRow
    /\ req[r].seen.status = "active"
    /\ ~Expired(req[r].key)

AddressAllowed(r) ==
    Allowlist[req[r].key] = {} \/ req[r].ip \in Allowlist[req[r].key]

KeyIdentity(r) == <<"key", req[r].key>>
IpIdentity(r) == <<"ip", req[r].ip>>
KeyLimit(r) == LimitForTier(TierLimits, Tier[req[r].key])

\* limiter.check(identity, limit) of the in-process back end: is there room,
\* and what is the deque afterwards.
Kept(identity) == Purge(hits[identity], now - Window)
HasRoom(identity, limit) == limit # Unlimited => Len(Kept(identity)) < limit
Counted(identity, limit) ==
    IF limit = Unlimited THEN hits[identity] ELSE Append(Kept(identity), now)

\* From the end of the SELECT to the UPDATE of last_used nothing awaits (the
\* in-process limiter's check() does not), so each of these five outcomes of
\* the guards is one step.
Unauthorized(r) ==
    /\ req[r].pc = "guard" /\ ~Active(r)
    /\ Step(r, "401")
    /\ UNCHANGED <<now, row, admin, hits>>

\* Fault: the key's budget is charged before the address is looked at.
ForbiddenLate(r) ==
    /\ req[r].pc = "guard" /\ Active(r) /\ ~AddressAllowed(r)
    /\ HasRoom(KeyIdentity(r), KeyLimit(r))
    /\ hits' = [hits EXCEPT ![KeyIdentity(r)] = Counted(KeyIdentity(r), KeyLimit(r))]
    /\ Step(r, "403")
    /\ UNCHANGED <<now, row, admin>>

Forbidden(r) ==
    /\ req[r].pc = "guard" /\ Active(r) /\ ~AddressAllowed(r)
    /\ Step(r, "403")
    /\ UNCHANGED <<now, row, admin, hits>>

KeyLimited(r) ==
    /\ req[r].pc = "guard" /\ Active(r) /\ AddressAllowed(r)
    /\ ~HasRoom(KeyIdentity(r), KeyLimit(r))
    /\ hits' = [hits EXCEPT ![KeyIdentity(r)] = Kept(KeyIdentity(r))]
    /\ Step(r, "429")
    /\ UNCHANGED <<now, row, admin>>

\* The key has paid by the time the address turns out to have no budget left.
IpLimited(r) ==
    /\ req[r].pc = "guard" /\ Active(r) /\ AddressAllowed(r)
    /\ HasRoom(KeyIdentity(r), KeyLimit(r))
    /\ ~HasRoom(IpIdentity(r), IpLimit)
    /\ hits' = [hits EXCEPT ![KeyIdentity(r)] = Counted(KeyIdentity(r), KeyLimit(r)),
                            ![IpIdentity(r)] = Kept(IpIdentity(r))]
    /\ Step(r, "429ip")
    /\ UNCHANGED <<now, row, admin>>

\* Fault: only the address is charged.
PassUncounted(r) ==
    /\ req[r].pc = "guard" /\ Active(r) /\ AddressAllowed(r)
    /\ HasRoom(KeyIdentity(r), KeyLimit(r)) /\ HasRoom(IpIdentity(r), IpLimit)
    /\ hits' = [hits EXCEPT ![IpIdentity(r)] = Counted(IpIdentity(r), IpLimit)]
    /\ req' = [req EXCEPT ![r].pc = "touch", ![r].stamp = now]
    /\ UNCHANGED <<now, row, admin>>

Pass(r) ==
    /\ req[r].pc = "guard" /\ Active(r) /\ AddressAllowed(r)
    /\ HasRoom(KeyIdentity(r), KeyLimit(r)) /\ HasRoom(IpIdentity(r), IpLimit)
    /\ hits' = [hits EXCEPT ![KeyIdentity(r)] = Counted(KeyIdentity(r), KeyLimit(r)),
                            ![IpIdentity(r)] = Counted(IpIdentity(r), IpLimit)]
    /\ req' = [req EXCEPT ![r].pc = "touch", ![r].stamp = now]
    /\ UNCHANGED <<now, row, admin>>

\* Fault: the whole row that was read is written back.
TouchRow(r) ==
    /\ req[r].pc = "touch"
    /\ row' = [row EXCEPT ![req[r].key] = [req[r].seen EXCEPT !.last_used = req[r].stamp]]
    /\ Step(r, "admitted")
    /\ UNCHANGED <<now, admin, hits>>

\* touch_last_used: the UPDATE names last_used alone.
Touch(r) ==
    /\ req[r].pc = "touch"
    /\ row' = [row EXCEPT ![req[r].key].last_used = req[r].stamp]
    /\ Step(r, "admitted")
    /\ UNCHANGED <<now, admin, hits>>

\* A database error in touch_last_used leaves require_api_key: 500, the
\* budgets stay charged.
TouchFails(r) ==
    /\ req[r].pc = "touch"
    /\ Step(r, "500")
    /\ UNCHANGED <<now, row, admin, hits>>

Authentication ==
    \E r \in Requests :
        \/ ArriveWithoutKey(r) \/ Arrive(r) \/ Select(r)
        \/ Unauthorized(r) \/ Forbidden(r) \/ KeyLimited(r) \/ IpLimited(r) \/ Pass(r)
        \/ Touch(r) \/ TouchFails(r)

Next == Tick \/ Administration \/ Authentication

Spec == Init /\ [][Next]_vars

----------------------------------------------------------------------------
(* Properties *)

Row == [status : {"active", "disabled"}, is_deleted : BOOLEAN,
        last_used : Nat \cup {Never}]

Stages == {"unsent", "select", "guard", "touch",
           "admitted", "401", "403", "429", "429ip", "500"}

\* Every variable has the values the program can give it.
TypeOK ==
    /\ now \in Nat
    /\ row \in [Keys -> Row \cup {NoRow}]
    /\ admin \in [Admins -> [op : {"idle", "delete", "disable"}, key : Keys]]
    /\ req \in [Requests -> [pc : Stages, key : Keys, ip : Ips,
                             seen : Row \cup {NoRow}, stamp : Nat, dead : BOOLEAN]]
    /\ hits \in [Identities -> Seq(Nat)]

\* No step brings a deleted or disabled key back, the update of last_used by
\* a request that read the row while it was active included.
RevokedForever == [][\A k \in Keys : Revoked(k) => Revoked(k)']_vars

\* A request that arrives after its key was deleted, disabled or expired is
\* never admitted, whatever runs between its arrival and its answer.
NoLateAdmission == \A r \in Requests : req[r].pc = "admitted" => ~req[r].dead

\* Whose requests hold a slot of identity i: those that passed the checks,
\* and, of the key's budget, those that the per-IP check then refused.
Holders(i) ==
    {r \in Requests : \/ /\ req[r].pc \in {"touch", "admitted", "500"}
                         /\ i = KeyIdentity(r) \/ i = IpIdentity(r)
                      \/ req[r].pc = "429ip" /\ i = KeyIdentity(r)}

\* Every slot in use has a holder: a request answered 401, 403 or 429 for the
\* key itself costs nobody anything, no request costs an identity two slots,
\* and only callers with a valid key ever use up the budget of an address.
SlotsAccountedFor == \A i \in Identities : Len(hits[i]) <= Cardinality(Holders(i))

\* However many requests race through the checks, no window holds more
\* admissions of a key than its tier allows.
TierBudgetKept ==
    \A k \in Keys :
        LET limit == LimitForTier(TierLimits, Tier[k]) IN
        limit # Unlimited =>
            Cardinality({r \in Requests : /\ req[r].pc = "admitted"
                                          /\ req[r].key = k
                                          /\ req[r].stamp > now - Window}) <= limit
==============================================================================
