------------------------------ MODULE RagIndex ------------------------------
(***************************************************************************)
(* RagService of rag_service.py and the endpoints of routers/rag.py that   *)
(* write the knowledge base: one in-memory index, one asyncio.Lock, tasks  *)
(* that interleave at their awaits.  A text of the knowledge base is a     *)
(* member of Docs; chunking, vectors and ranking are left out, and what a  *)
(* query finds is the set of texts it ranks.                               *)
(***************************************************************************)
EXTENDS Integers, Sequences, FiniteSets

CONSTANTS
    Queries,        \* calls of retrieve()
    Timed,          \* those under wait_for(rag_timeout_seconds): route()
    Streams,        \* those whose client can hang up: the SSE endpoints
    Writers,        \* calls of reindex()
    Docs,           \* texts the knowledge base may hold
    Upload,         \* Upload[w]: the text add_document appends first, or NoDoc
    NoDoc,
    Missing,        \* the knowledge-base file does not exist
    InitialKbs,     \* what the file may be at the start: Missing or a set of texts
    Free,           \* nobody holds the lock
    MaxRestarts     \* bound: how often the process restarts

Tasks == Queries \cup Writers

ASSUME IndexAssumption ==
    /\ Queries \cap Writers = {} /\ Free \notin Tasks
    /\ Timed \subseteq Queries /\ Streams \subseteq Queries
    /\ NoDoc \notin Docs /\ Upload \in [Writers -> Docs \cup {NoDoc}]
    /\ (\A S \in SUBSET Docs : S # Missing) /\ InitialKbs \subseteq {Missing} \cup SUBSET Docs
    /\ MaxRestarts \in Nat

VARIABLES
    kb,             \* the file rag_kb_path
    index,          \* _chunks: the texts they come from
    ready,          \* _ready
    lock,           \* _lock: the task that holds it, or Free
    queue,          \* the tasks waiting for it, first come first served
    task,           \* task[t]: where t is
    restarts        \* restarts so far

vars == <<kb, index, ready, lock, queue, task, restarts>>

----------------------------------------------------------------------------

KbTexts == IF kb = Missing THEN {} ELSE kb

\* What the writers that have answered 200 had put before the service.
Acked == UNION {task[w].must : w \in {v \in Writers : task[v].pc = "done"}}

Waiting == {"wait", "build", "rank"}
Finished == {"done", "error", "model", "gone", "killed"}

\* For the properties, must is what a query has to find (all that was answered
\* for when it began) or what a writer answers for (the file when it began).
Init ==
    /\ kb \in InitialKbs
    /\ index = {}
    /\ ready = FALSE
    /\ lock = Free
    /\ queue = <<>>
    /\ task = [t \in Tasks |-> [pc |-> "idle", must |-> {}, text |-> {}]]
    /\ restarts = 0

\* The file may be edited by hand at any time (RAG.md): a text is added.
EditKb(d) ==
    /\ kb' = KbTexts \cup {d}
    /\ UNCHANGED <<index, ready, lock, queue, task, restarts>>

----------------------------------------------------------------------------
(* retrieve() and reindex(), from one await to the next *)

Move(t, to) == task' = [task EXCEPT ![t].pc = to]

\* The rest of retrieve() up to its own embed: nothing indexed, no hits.
AfterEnsure(q, chunks) ==
    task' = [task EXCEPT ![q].pc = IF chunks = {} THEN "done" ELSE "rank",
                         ![q].text = {}]

\* ensure_indexed: ready, nothing to wait for.
StartWarm(q) ==
    /\ task[q].pc = "idle" /\ ready
    /\ task' = [task EXCEPT ![q] = [pc |-> IF index = {} THEN "done" ELSE "rank",
                                    must |-> Acked, text |-> {}]]
    /\ UNCHANGED <<kb, index, ready, lock, queue, restarts>>

\* ensure_indexed: not ready, async with self._lock.
StartCold(q) ==
    /\ task[q].pc = "idle" /\ ~ready
    /\ task' = [task EXCEPT ![q] = [pc |-> "wait", must |-> Acked, text |-> {}]]
    /\ queue' = Append(queue, q)
    /\ UNCHANGED <<kb, index, ready, lock, restarts>>

\* add_document appends its text to the file, then reindex() asks for the lock;
\* /reindex only does the latter.
StartWriter(w) ==
    LET texts == IF Upload[w] = NoDoc THEN KbTexts ELSE KbTexts \cup {Upload[w]} IN
    /\ task[w].pc = "idle"
    /\ kb' = IF Upload[w] = NoDoc THEN kb ELSE texts
    /\ task' = [task EXCEPT ![w] = [pc |-> "wait", must |-> texts, text |-> {}]]
    /\ queue' = Append(queue, w)
    /\ UNCHANGED <<index, ready, lock, restarts>>

\* t is the next to hold the lock.
NextToHold(t) == lock = Free /\ queue # <<>> /\ Head(queue) = t

\* The second check of ensure_indexed: another task built the index meanwhile.
GrantReady(q) ==
    /\ NextToHold(q) /\ q \in Queries /\ ready
    /\ queue' = Tail(queue)
    /\ AfterEnsure(q, index)
    /\ UNCHANGED <<kb, index, ready, lock, restarts>>

MustBuild(t) == NextToHold(t) /\ (t \in Writers \/ ~ready)

\* _build: the file is missing, APIError; reindex() has cleared _ready.
GrantMissing(t) ==
    /\ MustBuild(t) /\ kb = Missing
    /\ queue' = Tail(queue)
    /\ ready' = FALSE
    /\ Move(t, "error")
    /\ UNCHANGED <<kb, index, lock, restarts>>

\* _build: nothing to embed, the empty index is ready.
GrantEmpty(t) ==
    /\ MustBuild(t) /\ kb = {}
    /\ queue' = Tail(queue)
    /\ index' = {}
    /\ ready' = TRUE
    /\ Move(t, "done")
    /\ UNCHANGED <<kb, lock, restarts>>

\* Fault: a writer builds from the file as it was when it asked for the lock.
GrantStale(t) ==
    /\ MustBuild(t) /\ kb \notin {Missing, {}}
    /\ queue' = Tail(queue)
    /\ lock' = t
    /\ ready' = FALSE
    /\ task' = [task EXCEPT ![t].pc = "build",
                            ![t].text = IF t \in Writers THEN task[t].must ELSE kb]
    /\ UNCHANGED <<kb, index, restarts>>

\* _build: the file is read and the embedding of its chunks awaited, with the
\* lock held.
GrantBuild(t) ==
    /\ MustBuild(t) /\ kb \notin {Missing, {}}
    /\ queue' = Tail(queue)
    /\ lock' = t
    /\ ready' = FALSE
    /\ task' = [task EXCEPT ![t].pc = "build", ![t].text = kb]
    /\ UNCHANGED <<kb, index, restarts>>

\* The vectors are here: the chunks are swapped in, the lock is released, and
\* the task runs on.
EmbedOk(t) ==
    /\ task[t].pc = "build"
    /\ index' = task[t].text
    /\ ready' = TRUE
    /\ lock' = Free
    /\ IF t \in Writers THEN Move(t, "done") ELSE AfterEnsure(t, index')
    /\ UNCHANGED <<kb, queue, restarts>>

\* Fault: a failed build counts as done.
EmbedFailsReady(t) ==
    /\ task[t].pc = "build"
    /\ lock' = Free
    /\ ready' = TRUE
    /\ Move(t, "error")
    /\ UNCHANGED <<kb, index, queue, restarts>>

\* UpstreamError: the lock is released, the old chunks stay, not ready.
EmbedFails(t) ==
    /\ task[t].pc = "build"
    /\ lock' = Free
    /\ Move(t, "error")
    /\ UNCHANGED <<kb, index, ready, queue, restarts>>

\* The query's own vector is here: whatever is indexed now is ranked.
Rank(q) ==
    /\ task[q].pc = "rank"
    /\ task' = [task EXCEPT ![q].pc = "done", ![q].text = index]
    /\ UNCHANGED <<kb, index, ready, lock, queue, restarts>>

RankFails(q) ==
    /\ task[q].pc = "rank"
    /\ Move(q, "error")
    /\ UNCHANGED <<kb, index, ready, lock, queue, restarts>>

\* A task that waits no longer leaves the queue, wherever it stands in it.
Leave(t) ==
    \/ (\A k \in 1..Len(queue) : queue[k] # t) /\ UNCHANGED queue
    \/ \E k \in 1..Len(queue) :
          queue[k] = t /\ queue' = SubSeq(queue, 1, k - 1) \o SubSeq(queue, k + 1, Len(queue))

\* Fault: the cancelled task keeps its place in the queue.
CancelQueued(q, to) ==
    /\ task[q].pc \in Waiting
    /\ lock' = IF lock = q THEN Free ELSE lock
    /\ Move(q, to)
    /\ UNCHANGED <<kb, index, ready, queue, restarts>>

\* Fault: the lock stays with the cancelled task.
CancelHolding(q, to) ==
    /\ task[q].pc \in Waiting
    /\ Leave(q)
    /\ Move(q, to)
    /\ UNCHANGED <<kb, index, ready, lock, restarts>>

\* Cancellation, wherever the task awaits: it leaves the queue, and "async
\* with" gives the lock back.  What it had embedded is lost.
Cancel(q, to) ==
    /\ task[q].pc \in Waiting
    /\ Leave(q)
    /\ lock' = IF lock = q THEN Free ELSE lock
    /\ Move(q, to)
    /\ UNCHANGED <<kb, index, ready, restarts>>

\* wait_for gives up: the answer comes from the model alone.
Timeout(q) == q \in Timed /\ Cancel(q, "model")

\* The client of a stream hangs up.
HangUp(q) == q \in Streams /\ Cancel(q, "gone")

\* The process restarts: the file is kept, the index and the tasks are not.
Restart ==
    /\ restarts < MaxRestarts
    /\ restarts' = restarts + 1
    /\ index' = {}
    /\ ready' = FALSE
    /\ lock' = Free
    /\ queue' = <<>>
    /\ task' = [t \in Tasks |-> IF task[t].pc \in Waiting
                                THEN [task[t] EXCEPT !.pc = "killed"] ELSE task[t]]
    /\ UNCHANGED kb

Progress(t) ==
    \/ GrantReady(t) \/ GrantMissing(t) \/ GrantEmpty(t) \/ GrantBuild(t)
    \/ EmbedOk(t) \/ EmbedFails(t) \/ Rank(t) \/ RankFails(t)

Next ==
    \/ \E d \in Docs : EditKb(d)
    \/ \E q \in Queries : StartWarm(q) \/ StartCold(q) \/ Timeout(q) \/ HangUp(q)
    \/ \E w \in Writers : StartWriter(w)
    \/ \E t \in Tasks : Progress(t)
    \/ Restart

Spec == Init /\ [][Next]_vars

\* The event loop resumes every task that can run, and every embedding call
\* ends, with vectors or with an error: the HTTP client has a timeout.
FairSpec == Spec /\ \A t \in Tasks : WF_vars(Progress(t))

----------------------------------------------------------------------------
(* Properties *)

Stages == {"idle"} \cup Waiting \cup Finished

\* Every variable has the values the program can give it; in the queue stand
\* tasks that wait, each once.
TypeOK ==
    /\ kb \in {Missing} \cup SUBSET Docs
    /\ index \in SUBSET Docs
    /\ ready \in BOOLEAN
    /\ lock \in Tasks \cup {Free}
    /\ queue \in Seq(Tasks)
    /\ \A k \in 1..Len(queue) : task[queue[k]].pc = "wait"
    /\ \A j, k \in 1..Len(queue) : queue[j] = queue[k] => j = k
    /\ task \in [Tasks -> [pc : Stages, must : SUBSET Docs, text : SUBSET Docs]]
    /\ restarts \in 0..MaxRestarts

\* At most one build is under way, it holds the lock, and the lock is held by
\* nothing else: not by a task that was cancelled, failed or killed.
OneBuilder == \A t \in Tasks : lock = t <=> task[t].pc = "build"

\* An upload or reindex that was answered 200 stays in force: whenever the
\* index is ready it holds everything the call answered for, whatever builds,
\* failures, cancellations and restarts came since.
AckedIndexed == ready => Acked \subseteq index

\* A query that runs to its end ranks every text answered for before it began,
\* also when it waited for another task's build, built the index itself, or was
\* overtaken by a rebuild while its own vector was computed.
QuerySeesAcked ==
    \A q \in Queries : task[q].pc = "done" => task[q].must \subseteq task[q].text

\* Builds never put an older reading of the file over a newer one.
IndexNeverShrinks == [][restarts' = restarts => index \subseteq index']_vars

\* No caller is left waiting: not for a lock that was never given back, not in
\* a queue nobody serves.
EveryCallEnds == \A t \in Tasks : task[t].pc \in Waiting ~> task[t].pc \in Finished
==============================================================================
