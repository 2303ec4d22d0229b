---------------------------- MODULE UsageRollup ----------------------------
(***************************************************************************)
(* write_log, _bump_usage_daily and backfill_usage_daily of log_service.py *)
(* over the tables request_logs and usage_daily.  Requests of one or more  *)
(* gateway instances write their logs at the same time; every statement    *)
(* sent to SQL Server (READ COMMITTED) is one action, and anything may run *)
(* between two of them.  The token columns move with request_count and are *)
(* left out.                                                               *)
(***************************************************************************)
EXTENDS Integers, FiniteSets, FiniteSetsExt

CONSTANTS
    Requests,       \* requests that write a log, each once
    Keys,           \* api_key ids
    Anonymous,      \* the api_key_id None
    KeyOf,          \* KeyOf[r]: the key of request r, or Anonymous
    Instances,      \* gateway instances that start and seed the rollup
    MaxBumps,       \* bound: how many requests are in _bump_usage_daily at once
    MaxDay,         \* bound: the last day explored
    MaxHour         \* bound: the last time of day told apart

ASSUME RollupAssumption ==
    /\ IsFiniteSet(Requests) /\ IsFiniteSet(Keys)
    /\ Anonymous \notin Keys
    /\ KeyOf \in [Requests -> Keys \cup {Anonymous}]
    /\ MaxBumps \in Nat /\ MaxDay \in Nat /\ MaxHour \in Nat

VARIABLES
    today,          \* the UTC date
    hour,           \* the time of day
    usage,          \* usage[s]: request_count of the usage_daily row; 0 = no row
    req,            \* req[r]: where request r's bookkeeping is
    seed,           \* seed[b]: where instance b's backfill is
    seeded,         \* history: requests that seeding put in each slot
    overlapped      \* history: slots that two bumps were under way for at once

vars == <<today, hour, usage, req, seed, seeded, overlapped>>

----------------------------------------------------------------------------

Days == 0..MaxDay
Hours == 0..MaxHour
Slots == Keys \X Days           \* (api_key_id, usage_date), unique in usage_daily

Unlogged == -1
None == [s \in Slots |-> 0]

SlotOf(r) == <<KeyOf[r], req[r].day>>
Logged(r) == req[r].logDay # Unlogged
Bumping == {"select", "insert", "reselect", "update"}

\* Requests whose bump is counted in slot s.
Bumped(s) == {r \in Requests : req[r].pc = "counted" /\ SlotOf(r) = s}

\* The request_logs rows with an api_key_id and a created_date in slot s.
LogsIn(s) == {r \in Requests : Logged(r) /\ <<KeyOf[r], req[r].logDay>> = s}

Init ==
    /\ today = 0 /\ hour = 0
    /\ usage = None
    /\ req = [r \in Requests |->
                 [pc |-> "new", logDay |-> Unlogged, logHour |-> 0, day |-> 0, seen |-> 0]]
    /\ seed = [b \in Instances |-> [pc |-> "check", rows |-> None]]
    /\ seeded = None
    /\ overlapped = {}

TimePasses ==
    /\ hour < MaxHour
    /\ hour' = hour + 1
    /\ UNCHANGED <<today, usage, req, seed, seeded, overlapped>>

Midnight ==
    /\ hour = MaxHour /\ today < MaxDay
    /\ today' = today + 1
    /\ hour' = 0
    /\ UNCHANGED <<usage, req, seed, seeded, overlapped>>

----------------------------------------------------------------------------
(* write_log *)

\* The INSERT into request_logs commits; created_date is the time it is made.
\* Nothing is attributed to an anonymous request.
CommitLog(r) ==
    /\ req[r].pc = "new"
    /\ req' = [req EXCEPT ![r].pc = IF KeyOf[r] = Anonymous THEN "anonymous" ELSE "logged",
                          ![r].logDay = today, ![r].logHour = hour]
    /\ UNCHANGED <<today, hour, usage, seed, seeded, overlapped>>

\* The INSERT fails: write_log raises, the rollup is never reached.
LogFails(r) ==
    /\ req[r].pc = "new"
    /\ req' = [req EXCEPT ![r].pc = "failed"]
    /\ UNCHANGED <<today, hour, usage, seed, seeded, overlapped>>

\* day = datetime.now(timezone.utc).date(), after the log was committed.
BeginBump(r) ==
    /\ req[r].pc = "logged"
    /\ Cardinality({q \in Requests : req[q].pc \in Bumping}) < MaxBumps
    /\ req' = [req EXCEPT ![r].pc = "select", ![r].day = today]
    /\ overlapped' = IF \E q \in Requests : req[q].pc \in Bumping /\ SlotOf(q) = <<KeyOf[r], today>>
                     THEN overlapped \cup {<<KeyOf[r], today>>} ELSE overlapped
    /\ UNCHANGED <<today, hour, usage, seed, seeded>>

\* Fault: the SELECT does not filter on usage_date.
SelectAnyDay(r) ==
    /\ req[r].pc = "select"
    /\ \E d \in Days :
          LET found == usage[<<KeyOf[r], d>>] IN
          req' = [req EXCEPT ![r].pc = IF found = 0 THEN "insert" ELSE "update",
                             ![r].seen = found]
    /\ UNCHANGED <<today, hour, usage, seed, seeded, overlapped>>

\* The first SELECT: no row leads to an INSERT, a row to an UPDATE.
SelectRow(r) ==
    /\ req[r].pc = "select"
    /\ req' = [req EXCEPT ![r].pc = IF usage[SlotOf(r)] = 0 THEN "insert" ELSE "update",
                          ![r].seen = usage[SlotOf(r)]]
    /\ UNCHANGED <<today, hour, usage, seed, seeded, overlapped>>

InsertRow(r) ==
    /\ req[r].pc = "insert"
    /\ usage[SlotOf(r)] = 0
    /\ usage' = [usage EXCEPT ![SlotOf(r)] = 1]
    /\ req' = [req EXCEPT ![r].pc = "counted"]
    /\ UNCHANGED <<today, hour, seed, seeded, overlapped>>

\* Fault: the request that lost the race is counted by the INSERT and then
\* once more by the increment.
InsertAndRetry(r) ==
    /\ req[r].pc = "insert"
    /\ usage[SlotOf(r)] # 0
    /\ usage' = [usage EXCEPT ![SlotOf(r)] = @ + 1]
    /\ req' = [req EXCEPT ![r].pc = "reselect"]
    /\ UNCHANGED <<today, hour, seed, seeded, overlapped>>

\* uq_usage_daily_key_day: IntegrityError, rollback, on to the second SELECT.
InsertConflict(r) ==
    /\ req[r].pc = "insert"
    /\ usage[SlotOf(r)] # 0
    /\ req' = [req EXCEPT ![r].pc = "reselect"]
    /\ UNCHANGED <<today, hour, usage, seed, seeded, overlapped>>

ReselectRow(r) ==
    /\ req[r].pc = "reselect"
    /\ req' = [req EXCEPT ![r].pc = IF usage[SlotOf(r)] = 0 THEN "uncounted" ELSE "update",
                          ![r].seen = usage[SlotOf(r)]]
    /\ UNCHANGED <<today, hour, usage, seed, seeded, overlapped>>

\* row.request_count += 1 is a read by the SELECT and an absolute value in the
\* UPDATE: what was committed in between is overwritten.
UpdateRow(r) ==
    /\ req[r].pc = "update"
    /\ usage' = [usage EXCEPT ![SlotOf(r)] = req[r].seen + 1]
    /\ req' = [req EXCEPT ![r].pc = "counted"]
    /\ UNCHANGED <<today, hour, seed, seeded, overlapped>>

\* Fault: a bump that failed is taken back, whether or not it was committed.
BumpTakenBack(r) ==
    /\ req[r].pc \in Bumping
    /\ usage' = [usage EXCEPT ![SlotOf(r)] = @ - 1]
    /\ req' = [req EXCEPT ![r].pc = "uncounted"]
    /\ UNCHANGED <<today, hour, seed, seeded, overlapped>>

\* An exception in the bump is swallowed after a rollback; so is, by the end
\* of the request's task, a cancellation.
BumpFails(r) ==
    /\ req[r].pc \in Bumping
    /\ req' = [req EXCEPT ![r].pc = "uncounted"]
    /\ UNCHANGED <<today, hour, usage, seed, seeded, overlapped>>

WriteLog ==
    \E r \in Requests :
        \/ CommitLog(r) \/ LogFails(r) \/ BeginBump(r) \/ SelectRow(r)
        \/ InsertRow(r) \/ InsertConflict(r) \/ ReselectRow(r) \/ UpdateRow(r)
        \/ BumpFails(r)

----------------------------------------------------------------------------
(* backfill_usage_daily, in the lifespan of a starting instance *)

\* existing = count(usage_daily); a table with rows is left alone.
CheckEmpty(b) ==
    /\ seed[b].pc = "check"
    /\ seed' = [seed EXCEPT ![b].pc = IF usage = None THEN "aggregate" ELSE "skipped"]
    /\ UNCHANGED <<today, hour, usage, req, seeded, overlapped>>

\* SELECT ... GROUP BY api_key_id, day over request_logs.
Aggregate(b) ==
    /\ seed[b].pc = "aggregate"
    /\ seed' = [seed EXCEPT ![b] =
                   [pc |-> "insert", rows |-> [s \in Slots |-> Cardinality(LogsIn(s))]]]
    /\ UNCHANGED <<today, hour, usage, req, seeded, overlapped>>

Conflicts(b) == \E s \in Slots : seed[b].rows[s] # 0 /\ usage[s] # 0

\* All rows in one commit ...
InsertSeed(b) ==
    /\ seed[b].pc = "insert"
    /\ ~Conflicts(b)
    /\ usage' = [s \in Slots |-> usage[s] + seed[b].rows[s]]
    /\ seeded' = [s \in Slots |-> seeded[s] + seed[b].rows[s]]
    /\ seed' = [seed EXCEPT ![b].pc = "seeded"]
    /\ UNCHANGED <<today, hour, req, overlapped>>

\* ... or none: an IntegrityError or any other failure is logged and skipped.
SeedFails(b) ==
    /\ seed[b].pc \in {"check", "aggregate", "insert"}
    /\ seed' = [seed EXCEPT ![b].pc = "skipped"]
    /\ UNCHANGED <<today, hour, usage, req, seeded, overlapped>>

Backfill == \E b \in Instances : CheckEmpty(b) \/ Aggregate(b) \/ InsertSeed(b) \/ SeedFails(b)

----------------------------------------------------------------------------
(* The reports, which only read.  K are the keys a report is restricted to,  *)
(* days the length of its window; the sums of tokens are left out.           *)

Rows(K, dates) == MapThenSumSet(LAMBDA s : usage[s], K \X dates)

\* Every row of request_logs, and those list_logs counts for a key.
Logs == {r \in Requests : Logged(r)}
ListLogs(k) == {r \in Logs : KeyOf[r] = k}

\* The first date of a window (before the first day when it is long), and the
\* points of a chart.
Since(days) == today - (days - 1)
Dates(days) == Since(days)..today

\* The logs of this window: it begins on its first date at the present time of day.
Recent(days) ==
    {r \in Logs : \/ req[r].logDay > Since(days)
                  \/ req[r].logDay = Since(days) /\ req[r].logHour >= hour}

\* One point per day, gap-filled with zeros: all logs, anonymous ones included.
RequestsPerDay(days) ==
    [d \in Dates(days) |-> Cardinality({r \in Recent(days) : req[r].logDay = d})]

\* One point per day: the rows of that day.  This window is one of whole dates.
UsageDailyReport(K, days) == [d \in Dates(days) |-> Rows(K, {d} \cap Days)]

\* One total per key, of the rollup's window and of all logs.
UsageByKey(days) == [k \in Keys |-> Rows({k}, {d \in Days : d >= Since(days)})]
RequestsCountByKey == [k \in Keys |-> Cardinality(ListLogs(k))]

Next == TimePasses \/ Midnight \/ WriteLog \/ Backfill

Spec == Init /\ [][Next]_vars

----------------------------------------------------------------------------
(* Properties *)

RequestStages == {"new", "failed", "anonymous", "logged", "counted", "uncounted"} \cup Bumping
SeedStages == {"check", "aggregate", "insert", "skipped", "seeded"}

\* Every variable has the values the program can give it.
TypeOK ==
    /\ today \in Days /\ hour \in Hours
    /\ usage \in [Slots -> Nat]
    /\ req \in [Requests -> [pc : RequestStages, logDay : Days \cup {Unlogged},
                             logHour : Hours, day : Days, seen : Nat]]
    /\ seed \in [Instances -> [pc : SeedStages, rows : [Slots -> Nat]]]
    /\ seeded \in [Slots -> Nat]
    /\ overlapped \subseteq Slots

\* A usage row never shows more requests than bumps were committed to it and
\* seeding put in it, whatever overlaps, fails or is retried.
NeverOvercounts ==
    \A s \in Slots : usage[s] <= Cardinality(Bumped(s)) + seeded[s]

Windows == 1..MaxDay + 1
UpTo(chart, d) == MapThenSumSet(LAMBDA e : chart[e], {e \in DOMAIN chart : e <= d})

\* While nothing was seeded, no page shows more usage than there are logs,
\* whatever its window.  Up to any day, the chart of all keys is ahead of a chart
\* of the logs by no more than the logs that one cuts off (those before the
\* present time of day on its first date, and older ones); the report of one key
\* never shows more than the logs the key has up to that day (midnight between
\* the log and the bump can only move a request to a later day); nor does the
\* table by key.
NeverAheadOfLogs ==
    seeded = None =>
        \A days \in Windows :
            /\ \A span \in Windows, d \in Dates(days) :
                  UpTo(UsageDailyReport(Keys, days), d)
                      <= UpTo(RequestsPerDay(span), d) + Cardinality(Logs \ Recent(span))
            /\ \A k \in Keys, d \in Dates(days) :
                  UpTo(UsageDailyReport({k}, days), d)
                      <= Cardinality({r \in ListLogs(k) : req[r].logDay <= d})
            /\ \A k \in Keys : UsageByKey(days)[k] <= RequestsCountByKey[k]

\* Only overlap loses counts: a row whose bumps came one after the other is
\* exactly the bumps committed to it and what was seeded, whatever failed,
\* crossed midnight or raced with the seeding.
SerialExact ==
    \A s \in Slots \ overlapped : usage[s] = Cardinality(Bumped(s)) + seeded[s]

\* However many instances start together, and whatever the sibling that is
\* already serving does, a request is seeded at most once.
SeededOnce == \A s \in Slots : seeded[s] <= Cardinality(LogsIn(s))

Quiet == \A r \in Requests : req[r].pc \notin {"logged"} \cup Bumping

\* "Incremented on every logged request (see log_service.write_log)"
\* (db/models.py): when no bump is under way and none has failed, the two tables
\* by key agree over a window that holds every day.
IncrementedOnEveryLog ==
    Quiet /\ (\A r \in Requests : req[r].pc # "uncounted") =>
        UsageByKey(MaxDay + 1) = RequestsCountByKey
============================================================================
