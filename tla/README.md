# Verification of the Fab API gateway

TLA+ models of the gateway in `src/`, model-checked with TLC on small instances
and proved with TLAPS for every value of the constants: type correctness, every
safety invariant and action property of the passing runs, and the refinements.
`PROJECT.json` is the index: it lists components, runs, the lines each definition
translates, the mutants each property catches, findings, hazards and theorems.

    tlc  -workers 2 -config rag_index.cfg MCRagIndex.tla     # a run
    tlapm RagIndex_proofs.tla                                # the proofs of a module

## 1. The system

The gateway is a FastAPI process (one or more uvicorn workers) in front of a
language-model server. It has a SQL Server database, optionally a Redis, one
knowledge-base file, and a chat page that runs in the user's browser.

| Component | State | Operations |
| --- | --- | --- |
| Rate limiter (`services/ratelimit.py`) | deques `_hits` per identity in the process, or sorted sets `rl:<identity>` in Redis | `check(identity, limit)`; the loss of either store |
| API keys and authentication (`services/key_service.py`, `api/deps.py`) | rows of `api_keys` | create, disable, soft delete; `require_api_key`; `touch_last_used` |
| Request log and usage rollup (`services/log_service.py`) | tables `request_logs`, `usage_daily` | `write_log`, `_bump_usage_daily`, `backfill_usage_daily` at start |
| RAG index (`services/rag_service.py`, `routers/rag.py`) | `_chunks`, `_ready`, `_lock` in memory; the file `rag_kb_path` | `ensure_indexed`, `reindex`, `retrieve`, `route`, uploads |
| Model settings (`services/settings_service.py`, `routers/admin.py`, `admin_ui`) | two rows of `settings` | enable, disable, set default, seed of the default |
| Answering endpoints (`routers/chat.py`, `routers/rag.py`) | the generator of each stream | five endpoints, three of them streams of SSE frames; each writes a log |
| Model-server clients (`openai_service.py`, `ollama_service.py`) | none between calls | `complete`, `stream`, `embed`, `list_models` |
| Chat page (`web/templates/chat.html`) | conversations and the active id in localStorage, shared by tabs; the stream a tab reads | send, show, finish, switch, delete |
| Chunks (`_chunk_text`, `retrieve`, `route` in `rag_service.py`) | what an index holds | cut the file, rank the chunks, choose the route |
| Console and its accounts (`admin_ui`, `services/user_service.py`) | rows of `users`; a stateless cookie in the browser | login, logout, forms, pages, reports |
| Key cryptography, scripts (`core/security.py`, `scripts/`) | encrypted copies of raw keys | hash, encrypt, decrypt with fallbacks, backfill; seed of the admin user and the default model |
| Middleware, errors, config, schemas, deployment | none that requests share | see section 6 |

How they interact. A public request passes the middleware, then
`require_api_key` (a read of the key row, two calls of the limiter, a write of
`last_used`), then the handler. A chat handler asks the model settings, calls the
model server and writes the log; a RAG handler asks the index first. A stream's
body runs after the handler has returned, and its `finally` writes the log.
`write_log` commits the row and then bumps the rollup, best effort. The console
and the admin API change keys and settings while requests run. At start,
`lifespan` seeds the rollup and makes the limiter, the model-server client and an
empty index.

What is hard. Handlers are coroutines: every `await` lets every other request in,
and several workers or instances share the database and the Redis without any
coordination but constraints and one Lua script. Clients hang up, `wait_for`
cancels, the model server times out, wall clocks step, the process restarts with
its memory gone. `PROJECT.json` lists the places where this can go wrong, each
with the properties that would catch it, or the reason there is none.

What makes each part correct:

* limiter: no identity gets more than its limit in a window of real time, a lost
  store costs one budget and no more; Retry-After is long enough and not a
  second too long;
* authentication: what is revoked stays so and admits nobody who comes later;
  who is turned away by the key costs nobody a slot and nobody pays twice; the
  tier's budget holds under concurrency;
* rollup: never counts more than was committed and seeded; is exact when nothing
  overlaps; seeds once; no page shows more usage than logs, but for what the
  window of the log chart cuts off;
* index: one builder; what was acknowledged is found; nobody waits for ever;
* chunks: nothing of the file is lost between two of them; each bears a heading
  next to it; appending disturbs only the last; the best one decides the route of a query
  that is answered in time;
* settings and console: what an undisturbed call was answered for holds; only
  models that somebody entitled enabled are listed; the configured
  administrator is never locked out;
* answers: a request is logged at most once, with the right status; a row that
  does not say it was cut lacks nothing that was delivered, unless the log policy
  keeps bodies out; a stream ends once the model server's answer is over, and is
  given up when its client leaves;
* chat page: conversations keep their shape, answers land under their question;
* key copies: what the console copies is the key whose hash is stored; a key is
  retired only when nobody there can show it.

## 2. Modules

One tick, token, document or name is a number or a model value; texts are
counted or are members of a small set. Definitions keep the names of the source
where TLA+ allows; comments name the function. A definition called *fault* is a
plausible bug, used only to show that a property would notice it.

| Module | Models | Composes |
| --- | --- | --- |
| `RateLimits` | arithmetic of `ratelimit.py`: tier lookup, purge of a deque, the two roundings | |
| `SlidingWindow` | abstract: at most Limit admissions in Span ticks of real time, until the store is lost | |
| `RateLimiter` | `check` of both back ends, the Lua script included, over the choice that `build_rate_limiter` makes at start | extends `RateLimits`, implements `SlidingWindow` |
| `KeyAuth` | life of a key and `require_api_key` | extends `RateLimits` for the in-process limiter |
| `UsageRollup` | `write_log` and its bump, statement by statement; the seed at start; the reports by day and by key | |
| `RagIndex` | `RagService` and the endpoints that write the knowledge base | |
| `KnowledgeBase` | what an index holds: chunking, vectors, ranking and route | |
| `ModelSettings` | the settings rows and the calls on them | |
| `Console` | accounts, login, cookie and forms of the admin console; the seed script | extends `ModelSettings`, implements its specification |
| `Requests` | the requests that the next three modules speak of, and what a row may hold as the response | |
| `Answering` | abstract: what an answering endpoint promises its client and its operator | |
| `ChatStream` | the five answering endpoints over the model-server clients | implements `Answering` |
| `ChatPage` | the chat page in the tabs of a browser | instantiates `Answering` as its gateway |
| `KeyCopies` | hash and encrypted copy of each key, `create_key`, runs of `backfill_key_copy.py` from deployments with secrets of their own | |
| `MC*` | instances for TLC | |
| `*_proofs` | proofs about `RateLimiter` and `SlidingWindow`, `KeyAuth`, `UsageRollup`, `RagIndex`, `KnowledgeBase`, `Console` and `ModelSettings`, `ChatStream` and `ChatPage`, `KeyCopies` | |

Correspondence of state and actions to the code:

* **RateLimiter.** `backend` is what `build_rate_limiter` chose. `hits` is
  `_hits`; the in-process `check()` has no await, so a call is one action,
  `CheckMemory`. `zset` and `expireAt` are the sorted sets and their EXPIRE;
  `ReadClock` is the code before the await, `Eval` the script and its answer,
  `Fail` a connection that is lost before the script runs, `EvalUnanswered` one
  that is lost after. Scripts run in any order, up to `MaxDelay` after their
  stamp. `time.time()` is real time with an error of up to `Skew` at every
  read, so it may step back and the deque may be unsorted. A second is
  `Second` ticks, so that the two roundings of Retry-After are visible. `Lose` is a new process
  or a restart of the Redis container, which has no volume.
* **KeyAuth.** `Select` is the query, the `guard` stage everything up to the
  next await (one step because the in-process limiter does not await), `Touch`
  the update of `last_used`. `ReadForAdmin` and `CommitDelete`/`CommitDisable`
  are the two halves of an administrator's call.
* **UsageRollup.** `CommitLog`, then `BeginBump` (the date is taken again),
  `SelectRow`, `InsertRow` or `InsertConflict` and `ReselectRow`, `UpdateRow`;
  `BumpFails` is the swallowed exception. `CheckEmpty`, `Aggregate`, `InsertSeed`,
  `SeedFails` are the seed. `TimePasses` and `Midnight` move the clock: a log has
  a date and a time of day. The report queries are operators over the two tables,
  named as in `log_service.py`, each with its own window of `days`: `Recent` begins
  `days - 1` days ago at the present time of day, as `requests_per_day` does,
  `UsageDailyReport` and `UsageByKey` at the date.
* **RagIndex.** `StartWarm`/`StartCold` are the first check of `ensure_indexed`,
  `Grant*` the code behind `async with self._lock`, `EmbedOk`/`EmbedFails` the end
  of `_build`, `Rank` the rest of `retrieve`. `Timeout` is `wait_for`, `HangUp` a
  client that leaves a stream, both a `Cancel` wherever the task awaits.
* **KnowledgeBase.** A character is its place in the file and a text a sequence
  of places, so that "nothing is lost" can be said; blocks are what the split at
  blank lines leaves, and the two places between two of them are the `"\n\n"` of
  `_chunk_text`. `Rebuild` is `reindex` and `_build` up to the loop, `Join` and
  `Flush` its two branches, `Finish` its end, `EmbedOk(v)` an answer with `v`
  vectors, `EmbedFails` an UpstreamError. `AddDocument` is an upload: a heading
  and a text. `Ask` is `retrieve` up to the await of the query's own vector and
  `Route` the rest, with `route`, for a query that has scores as given: a stable
  sort, the cut to k, the comparison with `rag_min_score`. In between the index may
  be rebuilt; the query then ranks whatever chunks there are, during a rebuild
  or after a failed one the old ones. `RouteTimesOut` is the `TimeoutError`, of a
  query in `retrieve` or of one that waits in `ensure_indexed`: no hits, no
  knowledge base. `RouteFails` is a query whose own vector fails.
* **ModelSettings.** `Begin*` is the read that computes the new value, `Look`
  the select in `set_setting`, `Insert`/`Update` the write, `Fail` the unique
  constraint or the database.
* **Console.** `Login` is the SELECT of `authenticate` with what follows it
  until the next statement, `LastLogin` the UPDATE of `last_login`; `LoginFails`
  and `LastLoginFails` are the same statements failing. `Fallback` is the
  comparison with the `.env` credentials. `cookie` is what the browser sends:
  its MAC is over the name alone, so `IsAuthed` asks no row. `EditUser` is an
  operator's SQL, the only way to change an account. `Toggle` and `SetDefault`
  start the calls of `ModelSettings`, for a browser that is let in or a caller
  with the admin key. `SeedUserFound` to `SeedModelFound` are the statements of
  `migrate_seed`. `rightful` is history: what may be listed.
* **ChatStream.** `settings` are those of the process: the model-server client and
  the log policy. `Pairs` is what the parsers may yield (Ollama's also lines
  without a token, any number of them), `ChatFrames` and
  `RagFrames` what the generators make of it, `Yielded`, `YieldedLast`,
  `Exhausted`, `Fails`, `Raises` the ways through the loop, `WriteLog`/`LogFails`
  the `finally`. `Redact` is `_redact`, which `write_log` puts the answer through:
  `Row` holds nothing, all of it, or its beginning marked as truncated. `SendFrame`
  waits when `MaxWire` frames are unread. `Notice`, `LoseLog` and `KeepLog` are a hang-up: Starlette
  cancels the stream, and the cancelled `finally` may or may not get its row in.
  Non-streaming handlers are `Completed*` and `CompleteFails`/`CompleteRaises`.
* **ChatPage.** Script runs to its next await, so each handler is a step: `Send`
  is `send()` up to the fetch, `Show` a token, `Finish` the end of `send()` with
  `updateLastAssistant`, `Activate` and `Delete` the sidebar. `History` is what
  `send()` and `format_history` choose of the earlier turns.
* **KeyCopies.** A hash or a ciphertext is the value with the secret it is made
  with; `Shown` is `decrypt_secret`. `ReadRows` is the script's SELECT with the
  loop behind it, which decides and generates without touching the database again;
  `Commit` writes the columns that were assigned, `EndWithoutWriting` is a dry run
  or a failure.

External code is modelled only by what the source relies on: asyncio's FIFO lock,
the commands of the Lua script, Starlette's StreamingResponse, READ COMMITTED with
unique constraints, localStorage.

## 3. Runs

Every property of a passing run has a mutant of the model that violates it.

| Run | Instance | Shows |
| --- | --- | --- |
| `rate_limiter` | either back end, limit 2, two calls in flight, window 4, second 2, clock error 1, delay 1, one loss, 5 ticks | `ImplementsPromise` (refinement of `SlidingWindow`) over `Window + 1 - 2 * Skew` ticks in the process and `Window - MaxDelay - 2 * Skew` in Redis; `LossCostsOneBudget`, `RetryAfterSuffices`, `RetryAfterTight` |
| `keyauth` | two keys, two addresses, three requests, one administrator, two windows | `NoLateAdmission`, `SlotsAccountedFor`, `TierBudgetKept`, `RevokedForever` |
| `usage_rollup` | two requests of a key and an anonymous one, two days of two hours, windows of one and two days, two bumps at once, two starting instances | `NeverOvercounts`, `NeverAheadOfLogs`, `SerialExact` |
| `rag_index` | two queries (one timed, one a stream), an upload, a reindex, two texts, one restart, the file missing or empty at first | `AckedIndexed`, `QuerySeesAcked`, `IndexNeverShrinks`, and `EveryCallEnds` under fairness |
| `knowledge_base` | every file of up to four blocks of one or four places, size 7, overlap 3, scores below, at and above zero, one or two chunks per query | `Excerpts`, `SectionNearby`, `AppendKeeps`, `BestHits` |
| `console` | one browser, one caller with the admin key who also runs the seed, two accounts that operators change, two models, every initial table of settings | `SettledHolds`, `OpenedByAdmins`, `NeverLockedOut` |
| `chat_stream` | one request to any endpoint, both clients, bodies logged or not and cut at none or two tokens, three tokens, any number of empty lines, four frames unread | `ShownIsLogged`, `StatusMatches`, `ImplementsPromise` (refinement of `Answering`), `EveryAnswerEnds` under fairness |
| `chat_page` | two tabs, two conversations, three questions answered by up to one token each, a history of three turns | `TurnsAlternate`, `KeptIsLogged`, `AnswerLands` |
| `key_copies` | two rows, two deployments (one knows the other's secret), a lost secret, three applied runs and a dry one | `CopyIsKey`, `OnlyLostKeysRetired` |

Why the bounds are enough. The limiter runs take one tick more than a window, so
every alignment of a window's edge with a second and with the clock's error
occurs, and limit 2 makes the head of a full deque differ from its tail. In
`keyauth`, three requests are one more than two windows of one slot hold.
In `knowledge_base` a short block is shorter than the overlap with its gap and a
long one longer; a chunk of two blocks overflows at the third, and the fourth
shows what the tail of that was worth. In `console`, the browser and the other
caller are on one row at a time; a third would only repeat what either does.
In `usage_rollup` two bumps overlap or follow one another, before, across and after
midnight, while siblings seed; what a row shows depends on no more than two at a
time. Two hours are one before and one at or after the present time of day. The
theorems below cover any number of requests, keys and hours and windows of any
length up to the days there are. `rag_index` has a query, a writer and another task in the queue at once,
so the lock is handed over, given back and waited for in every order.
Exchanges of `chat_stream` share nothing but the configured client, so one is as
good as many; three tokens give a first, a middle and a last, and answers below, at
and above the length that the log policy keeps. A tab of `chat_page` replaces the
text it shows by a longer one, for which one token is enough; the theorems are
about any number. Deadlock is not
checked where clients may simply have nothing left to ask.

Symmetry is used only for interchangeable callers and only in runs without
liveness properties.

Fairness. `RagIndex!FairSpec` assumes weak fairness of each task's own progress:
the event loop resumes whatever can run, the asyncio lock is first come first
served, and every embedding call ends because the HTTP client has a timeout; no
fairness is assumed of clients, timeouts or edits. `ChatStream!FairSpec`
assumes that the loop runs what need not wait for the model server, that a write to
the database ends, that a connection which was closed is noticed some time, and
that a client which has not left reads what has arrived. Of the model server it
assumes nothing: `max_tokens` may be left out (`schemas/chat.py:20`), the httpx
timeout is for each read, and Ollama's empty lines are not tokens, so nothing in
the code bounds an answer, and `EveryAnswerEnds` promises an end only once the
answer is over or has failed, or the stream's client has left. `MaxTokens` bounds
what TLC explores of an answer, not when it ends.

### Disagreements with the source's own words

Each of these runs has one property and TLC finds it violated.

| Run | The source says | The code does |
| --- | --- | --- |
| `redis_collision` | "atomic sliding-window via a Lua script (prod / multi-worker)" (`ratelimit.py:5`) | a member of the sorted set is the printed time and `math.random()`, which Redis seeds alike for each script: two admissions at one printed time are one member |
| `usage_lost_update` | "Incremented on every logged request" (`models.py:116`) | the increment is a read and a later absolute write: overlapping bumps lose one |
| `chat_switched` | "prior turns of THIS conversation" (`chat.html:594`) | an answer is stored in the conversation that is active when it ends |

Seen while modelling, without a run of their own:

* A timed query that builds the index is cancelled together with its build
  (`rag_service.py:198`); an index that takes longer than the timeout to embed is
  never built by smart queries, and `RAG.md:21` says each chunk is embedded once.
* Requests without a usable key are answered 401 before the per-IP check, so it
  never sees them; `deps.py:54` calls it a "guard to blunt key-less abuse bursts".
* A chunk is tagged with the heading that follows it when that heading is what
  makes the buffer overflow: `section` is set before the buffer is flushed
  (`rag_service.py:56`; line 44 says "tagging each with its heading"). An upload
  can so retag the last chunk of what was there with the name of the uploaded
  document. `SectionNearby` says that it gets no worse than this.
* A hash made with argon2 never verifies where argon2 is not installed; the
  comment at `security.py:91-92` says "and vice-versa".
* `migrate_seed` "never overwrites existing rows" (`migrate_seed.py:6`), but
  `set_setting` selects the row a second time and updates a default that was set
  after the script's first read. `SettledHolds` is about calls without overlap.
* `migrate_seed` ends on `uq_users_username` for good once the admin row was
  soft-deleted, before it reaches the default model; its docstring calls
  seeding "idempotent" (`migrate_seed.py:5`).
* `hmac.compare_digest` raises on text that is not ASCII, so such credentials get
  a 500 instead of the login page; a username with a colon logs in and is
  never let in, because `_is_authed` cuts the cookie at the first one. The role
  `viewer` (`models.py:154`) is read by no check.
* With the database down the `.env` login succeeds, and the dashboard it leads
  to fails on its first query (`router.py:50`: "the console is never locked
  out"). `NeverLockedOut` is about the login and the cookie.
* Behind `docker/nginx.conf`, `request.client.host` is the proxy's address, and
  allow-lists and the per-IP budget see one address for everybody (`deps.py:46`).
* Starlette runs the middleware added last first: `main.py:65` says the
  security headers are outermost, and CORS is.
* A slow knowledge base falls back to the model, a failing one does not: only
  `TimeoutError` is caught (`rag_service.py:201`).
* `requests_per_day` begins at this time of day `days - 1` days ago
  (`log_service.py:164`), so the oldest of its "Daily request counts" (line 163)
  counts the later part of that day only, and falls while the day goes on.
  `usage_daily_report` counts whole dates, so on the oldest day the token page can
  show more requests than the dashboard. `NeverAheadOfLogs` bounds the difference
  by the logs that `requests_per_day` cuts off.
* A query that times out returns a top score of 0.0 and goes to the model even if
  `rag_min_score` is 0, which an index without hits would reach
  (`rag_service.py:206`, `208`).
* A request that a sibling's seed has counted and whose own bump comes later is
  counted twice. `NeverOvercounts` allows for it: it compares a row with the bumps
  committed and the requests seeded.
* After a deployment that knows its sibling's secret has resealed a row, the
  sibling cannot show it, and would judge it unrecoverable: a run of its own with
  `--rotate` then retires a key that works (`backfill_key_copy.py:79`, `90`).
  `OnlyLostKeysRetired` says no more than that the rotating side cannot show it.
  A dry run with `--rotate` lists keys under "hand to owners" that are not stored.
* `rate_limit` of a key is stored and shown, and no check reads it (`deps.py:56`).
* A seed that races a sibling's bump is dropped whole, and no later start repairs
  it (`log_service.py:220`, `253`).
* If the model server sends `content: null` with `finish_reason`, `chat.py`
  collects a `None`, and joining it raises in the `finally`: no row is written
  (`ChatStream` has this, `NullContent`). Without streaming, `/v1/chat` logs 200
  before `ChatResponse` rejects the null, and the client gets a 500:
  `StatusMatches` leaves this case out by name.
* A refused request (401, 403, 429), a disabled model and a non-streaming RAG call
  that fails leave no row; a RAG stream that fails and a chat stream that breaks
  off are logged with status 200.

## 4. Proofs

The theorems hold for any number of tasks, requests, keys, models or texts, under
the assumptions named in the modules (`IndexAssumption`, `RollupAssumption`,
`SettingsAssumption`, `ConsoleAssumption`, `CopiesAssumption`, `SplitAssumption`,
`StreamAssumption`, `PageAssumption`, and those of `RateLimiter`, `KeyAuth` and
`RateLimits`): types of the constants, distinct model values and, for the rollup,
finitely many requests and keys. TLC evaluates each of them in the runs.

**RateLimiter_proofs.** The promise is about real time and counts admissions in
any window; the code purges by what a clock shows and looks at an end of a deque
or at the size of a sorted set. The invariant therefore relates the history of
admissions to the store: an admission is of a time that has been (`Times`); a
script under way is no older than `MaxDelay`, and its stamp no further from that
time than a clock may be (`InTransit`); the deque holds the stamps of the latest
admissions, and what it holds no more has left every window (`DequeHolds`); each
admission of a window has an entry of its own in the sorted set, which holds
`Limit` entries at most and expires after them (`SetHolds`) -- the purge takes only
entries that are older by both clocks. `LimiterKeepsPromise` is the refinement: a
`CheckMemory` or an `Eval` that admits is an `Admit` of `SlidingWindow`, everything
else a tick, a loss or a stutter. `OneBudget` is what `SlidingWindow` promises of the window
that ends now, for every window; `OneBudgetPerLoss` adds up one budget for each
store. These three have the hypothesis
`DistinctMembers`, that in Redis each admission gets a member of its own: the code
does not guarantee it, and the run `redis_collision` shows what happens without.
`RetrySuffices` and `RetryTight` follow from `AnswerStands`, which says of what
stamp and what oldest entry a Retry-After was made, as long as the store is the
one that denied.

**RagIndex_proofs.** `TypeCorrect` includes that the queue holds waiting tasks,
each once; removing a cancelled task from its middle is what needs the lemmas on
sequences. `LockIsBuild` is inductive with the types: a task is in stage `build`
exactly while it holds the lock, so no cancellation can leave it held.
`AckedStaysIndexed` needs more: what is indexed or answered
for is in the file (`InFile`), what a builder has read covers all of that
(`BuildCovers`: a later answer would have needed the lock), and what a writer
will answer for is in the file when it asks and in its reading when it builds
(`WriterAnswers`). With `QueryFinds`, which says where a query's texts are at each
of its stages, these are the inductive invariant. `QueriesSeeAcked` follows for queries that build, wait, or are overtaken;
`NoOlderReading` is the action property from the same invariant.

**UsageRollup_proofs.** `NeverOvercounts` is not inductive: between the select
and the update a request carries the count it read. The invariant adds that this
count never exceeds what is committed and seeded (`ReadNotTooMuch`), that a slot
once seeded keeps a row (`SeededHasRow`), which is why a second seed
conflicts, that rows to be seeded were logged (`RowsLogged`), and, for
`ExactWithoutOverlap`, that in a slot without overlap only one bump is under way
(`Alone`) and what it read is still current (`ReadIsCurrent`). `NotAheadOfLogs` is
about the sums the reports make. A sum over a finite set is the size of a set
(`SumIsPairs`), whichever order it is made in; so it is compared with what is
logged by numbering what falls to each of its parts (`SumAtMost`, `SumAtLeast`).
What is left is that a bump counts a request on no earlier day than its log is
of (`Dated`), so that every row of the oldest date on has a log of its own up to
the same day, which the window of the log chart shows or cuts off.

**KeyCopies_proofs.** A run writes by a plan it made when it read the rows. The
invariant says that every pending plan still fits its row unless the row is
overlapped (`PlansFit`), which survives another run's commit because two pending
plans for one row make it overlapped (`OneWriter`), and that planned rows exist
(`WritesExist`). `CopyStaysKey` and `RetiresOnlyLost` follow.

**KeyAuth_proofs.** `NoLateAdmission` needs to know of a request under way what
it will find: one that was late has read a row that was dead, or has yet to
read one that is (`DeadStays`), and a row once read stays in the table
(`Present`), for nothing deletes it. `SlotsAccountedFor` is inductive with these:
only `Pass` and `IpLimited` add to a deque, and each adds one holder
(`ChargeStep`). `BudgetOfTierKept` is about the deque as a record: every admission
of the last window still stands in it (`BudgetHeld`), because the purge pops
nothing that young (`PurgeKeepsYoung`), and the check kept it no longer than the
limit.

**KnowledgeBase_proofs.** The induction follows the build block by block. Its
invariant says what a file is (`File`: blocks in order with two places before
each), that every chunk put down so far is a `Piece` with a tag next to it
(`Cut`), that every block read is whole in a chunk or in the buffer
(`Complete`), and where the buffer stands (`Splitting`): it is empty only before
the first block, ends with the last block read, and begins less than `Overlap`
before the end of the chunk before it. What makes this inductive is about
`strip()`: it takes off the gap that a text begins with and never more
(`StripRun`), because no three places in a row are outside every block
(`ThreePlaces`). A block added to the file afterwards changes nothing of
what was cut (`CutStays`), and so a build may go on while the file grows.
`NothingLost` and `HeadingNearby` follow, for every size, overlap and file; a
chunk longer than `Size` is a tail, a gap and one block. `AppendedOnly` needs to
compare a build with the one before it, which ran over a shorter file: both are
on one pass over the blocks (`OnePass`), a relation that fixes the chunks put down
after each block, so two builds that have read as many blocks hold the same
chunks but for the buffer. `BestAreServed` is about the stable sort: the rank of a
chunk counts those that come before it by score and place, ranks are a bijection
with the places (`RankIsBijection`), so the first k are k chunks, no other
scores more, and the first one decides the route (`FirstDecides`). A query that
timed out has no hits and is not routed to the knowledge base (`Answered`).

**Console_proofs.** First the calls on the settings, whoever makes them
(`ModelSettings`). A call that overlaps no other is alone on its row
(`LoneIsAlone`), so what it read is what it replaces (`LoneSeesRow`); the value it
is about to write agrees with every settled model but its own (`ListReady`,
`ListSettled`). For the default, the seed begins only without a default, and a
default that appears later makes its insert fail (`DefaultReady`,
`DefaultSettled`). `OnlyEnabled` says that lost updates restore but never invent.
Then the console: every step of it is one of `ModelSettings` or leaves
its variables alone, so `ConsoleImplementsSettings` brings these theorems along
(`ConsoleKeepsSettled`). `OnlyAdminsOpen` adds that a cookie was earned by
credentials that were right when the row was read, and that a value about to
be written names rightful models only.

**ChatStream_proofs.** Exchanges share nothing, so the invariant speaks of one:
of its generator, the frames on the wire, what its client has read and its rows.
`Accounts`: a token collected is on hand, on the wire or read, or lost with a
client that went away; `Streamed`: a chat stream has status 502 exactly if an
error frame is on hand, under way or read; `Logged`: there is one row at most, and
it holds what the log policy keeps of what was collected; `AtEnd`: what a client
that reads an end was told.
`WireIsLogged` and `StatusIsTold` follow, and `EndpointsAnswer`, the
refinement of `Answering`: a token that is read is a `Deliver`, a row a `Record`, an
end that was read a `Complete`, and a hang-up or an error a `CutOff`.

The page (`ChatPage`, in the same module) sees of the gateway what `Answering` says, which takes nothing back (`Further`). Its
conversations are turns in pairs with no more text than was received of their
answers (`Talk`): `updateLastAssistant` finds a message of the assistant at the
end of whatever conversation is active by then (`TalkAnswered`), so
`TurnsGoOn` and `KeptWithinLog` hold although tabs interfere; the latter speaks of
rows that are whole, for the browser keeps all of an answer that a row cuts. `AnswersLand` adds
that the question of an undisturbed exchange waits at the end of the active
conversation (`QuietWaits`); that its answer, or else the question, is what the
next question takes along last is a fact about the recursion of `History`
(`HistoryEnds`).

Induction over data is done without an operator as its parameter: the set of
numbers for which a statement fails has a least one (`LeastOf`), which the
recursion then refutes.

Only model-checked: `EveryCallEnds` and `EveryAnswerEnds`. They are liveness
properties, which are out of the prover's reach.

## 5. Order of work and what is planned

Built in the order of importance to the gateway: limiter and its promise, keys,
rollup, index, settings, answering endpoints, chat page, key copies, chunks and
console, with the proofs of the modules whose invariants are least obvious.
Planned, in this order:

1. `RagIndex` with one index per worker over one file.
2. `ChatPage` over `ChatStream` itself: the two meet in `Answering`, which is
   proved to be implemented by the one and is what the other assumes.

## 6. Not modelled

Pages only read and format; of the reports, those by model and by status are
left out. The middleware gives each request an id and headers, and the error
handlers map exceptions to responses: no state is shared. Schemas are
declarative bounds, `core/config.py` is a table of defaults. HTTP, SQL and Redis
transport are I/O: what they may return or lose is in the actions that use
them. Prompts, latencies and token counts (the token columns of both tables and
the cards of the dashboard that sum them) are data no property here depends on. Of
a response body its length is modelled, and what `_redact` leaves of it. The field
`remaining` of a limiter's answer is a function of the count. In the chat page, upload, images, voice and themes change nothing that
the conversations depend on. Health checks, the model list and the static pages
are reads.

What the properties do not say: `EveryCallEnds` would not notice that cold queries
build the index twice, only that one of them never ends; the refinement of the
Redis limiter rests on distinct members, as the run says (`RandomFresh`), and
`redis_collision` is the run without that.

Abstractions to keep in mind: in `RagIndex` the knowledge base is a set of texts
and one process has one index; in `KnowledgeBase` blank places inside a block are
not told apart from others, and a cosine is a number from a small set; requests
of `KeyAuth` use the in-process limiter, whose check is one step; in `Console` a
session does not end by itself but may end at any time; the chat page's gateway
is the abstract `Answering`, not the endpoints themselves.
