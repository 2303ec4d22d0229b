-------------------------- MODULE RagIndex_proofs ---------------------------
(***************************************************************************)
(* Proofs about RagIndex: the lock has one holder, an acknowledged upload  *)
(* stays indexed, later queries find it, and builds never put an older     *)
(* reading of the file over a newer one -- for any number of queries,      *)
(* writers, texts and restarts.                                            *)
(***************************************************************************)
EXTENDS RagIndex, SequenceTheorems, TLAPS

----------------------------------------------------------------------------
(* Type correctness *)

\* Appending a task that is not in the queue keeps its entries distinct.
LEMMA AppendQueue ==
    ASSUME NEW S, NEW s \in Seq(S), NEW x \in S
    PROVE  /\ Append(s, x) \in Seq(S)
           /\ Len(Append(s, x)) = Len(s) + 1
           /\ \A k \in 1..Len(s) : Append(s, x)[k] = s[k]
           /\ Append(s, x)[Len(s) + 1] = x
  OBVIOUS

\* The tail of a queue is its entries but the first.
LEMMA TailQueue ==
    ASSUME NEW S, NEW s \in Seq(S), s # <<>>
    PROVE  /\ Tail(s) \in Seq(S)
           /\ Head(s) = s[1]
           /\ 1 \in 1..Len(s)
           /\ Len(Tail(s)) = Len(s) - 1
           /\ \A k \in 1..Len(Tail(s)) : k + 1 \in 1..Len(s) /\ Tail(s)[k] = s[k + 1]
  BY HeadTailProperties

\* What remains when the entry at position n leaves.
LEMMA QueueWithout ==
    ASSUME NEW S, NEW s \in Seq(S), NEW n \in 1..Len(s)
    PROVE  LET r == SubSeq(s, 1, n - 1) \o SubSeq(s, n + 1, Len(s)) IN
           /\ r \in Seq(S)
           /\ Len(r) = Len(s) - 1
           /\ \A k \in 1..Len(r) :
                 \/ k < n /\ k \in 1..Len(s) /\ r[k] = s[k]
                 \/ k >= n /\ k + 1 \in 1..Len(s) /\ r[k] = s[k + 1]
  <1> DEFINE a == SubSeq(s, 1, n - 1)
             b == SubSeq(s, n + 1, Len(s))
             r == a \o b
  <1>1. Len(s) \in Nat /\ n \in Nat /\ 1 <= n /\ n <= Len(s)
    BY LenProperties
  <1>2. a \in Seq(S) /\ Len(a) = n - 1 /\ \A k \in 1..(n - 1) : a[k] = s[k]
    <2>1. \A k \in 1..(n - 1) : s[k] \in S
      BY <1>1, ElementOfSeq
    <2> QED
      BY <1>1, <2>1, SubSeqProperties
  <1>3. b \in Seq(S) /\ Len(b) = Len(s) - n
        /\ \A k \in 1..(Len(s) - n) : b[k] = s[n + k]
    <2>1. \A k \in (n + 1)..Len(s) : s[k] \in S
      BY <1>1, ElementOfSeq
    <2> QED
      BY <1>1, <2>1, SubSeqProperties
  <1>4. r \in Seq(S) /\ Len(r) = Len(s) - 1
    BY <1>1, <1>2, <1>3, ConcatProperties
  <1>5. ASSUME NEW k \in 1..Len(r)
        PROVE  \/ k < n /\ k \in 1..Len(s) /\ r[k] = s[k]
               \/ k >= n /\ k + 1 \in 1..Len(s) /\ r[k] = s[k + 1]
    <2> HIDE DEF a, b
    <2>0. k \in Nat /\ k >= 1 /\ k <= Len(s) - 1
      BY <1>1, <1>4
    <2>c. r[k] = IF k <= Len(a) THEN a[k] ELSE b[k - Len(a)]
      BY <2>0, <1>1, <1>2, <1>3, ConcatProperties
    <2>1. CASE k < n
      BY <2>0, <2>1, <2>c, <1>1, <1>2
    <2>2. CASE k >= n
      <3>1. k - Len(a) \in 1..(Len(s) - n) /\ r[k] = b[k - Len(a)]
        BY <2>0, <2>2, <2>c, <1>1, <1>2
      <3>2. b[k - Len(a)] = s[n + (k - Len(a))] /\ n + (k - Len(a)) = k + 1
        BY <2>0, <2>2, <3>1, <1>1, <1>2, <1>3
      <3> QED
        BY <2>0, <2>2, <3>1, <3>2, <1>1
    <2> QED
      BY <2>0, <2>1, <2>2, <1>1
  <1> QED
    BY <1>4, <1>5

QueueOK ==
    /\ queue \in Seq(Tasks)
    /\ \A k \in 1..Len(queue) : task[queue[k]].pc = "wait"
    /\ \A j, k \in 1..Len(queue) : queue[j] = queue[k] => j = k

\* A task that was idle and waits now may join the queue.
LEMMA JoinQueue ==
    ASSUME QueueOK, NEW t \in Tasks, task[t].pc = "idle", task'[t].pc = "wait",
           \A u \in Tasks \ {t} : task'[u] = task[u],
           queue' = Append(queue, t)
    PROVE  QueueOK'
  <1>1. Len(queue) \in Nat /\ \A k \in 1..Len(queue) : queue[k] \in Tasks /\ queue[k] # t
    BY LenProperties, ElementOfSeq DEF QueueOK
  <1>2. /\ queue' \in Seq(Tasks) /\ Len(queue') = Len(queue) + 1
        /\ \A k \in 1..Len(queue) : queue'[k] = queue[k]
        /\ queue'[Len(queue) + 1] = t
    BY AppendQueue DEF QueueOK
  <1> QED
    BY <1>1, <1>2 DEF QueueOK

\* The head of the queue may leave it and stop waiting.
LEMMA LeaveAsHead ==
    ASSUME QueueOK, NEW t \in Tasks, queue # <<>>, Head(queue) = t,
           \A u \in Tasks \ {t} : task'[u].pc = task[u].pc,
           queue' = Tail(queue)
    PROVE  QueueOK'
  <1>1. /\ queue' \in Seq(Tasks) /\ Len(queue') = Len(queue) - 1 /\ queue[1] = t
        /\ 1 \in 1..Len(queue)
        /\ \A k \in 1..Len(queue') : k + 1 \in 1..Len(queue) /\ queue'[k] = queue[k + 1]
    BY TailQueue DEF QueueOK
  <1>2. Len(queue) \in Nat /\ Len(queue') \in Nat
    BY <1>1, LenProperties DEF QueueOK
  <1>3. \A k \in 1..Len(queue') : queue'[k] \in Tasks \ {t}
    BY <1>1, <1>2, ElementOfSeq DEF QueueOK
  <1> QED
    BY <1>1, <1>2, <1>3 DEF QueueOK

\* A task that stops waiting leaves the queue, wherever it stands.
LEMMA LeaveAnywhere ==
    ASSUME QueueOK, NEW t \in Tasks, Leave(t),
           \A u \in Tasks \ {t} : task'[u].pc = task[u].pc
    PROVE  QueueOK'
  <1>0. Len(queue) \in Nat /\ \A k \in 1..Len(queue) : queue[k] \in Tasks
    BY LenProperties, ElementOfSeq DEF QueueOK
  <1>1. CASE (\A k \in 1..Len(queue) : queue[k] # t) /\ UNCHANGED queue
    BY <1>0, <1>1 DEF QueueOK
  <1>2. ASSUME NEW n \in 1..Len(queue), queue[n] = t,
               queue' = SubSeq(queue, 1, n - 1) \o SubSeq(queue, n + 1, Len(queue))
        PROVE  QueueOK'
    <2>1. /\ queue' \in Seq(Tasks)
          /\ Len(queue') = Len(queue) - 1
          /\ \A k \in 1..Len(queue') :
                \/ k < n /\ k \in 1..Len(queue) /\ queue'[k] = queue[k]
                \/ k >= n /\ k + 1 \in 1..Len(queue) /\ queue'[k] = queue[k + 1]
      BY <1>2, QueueWithout DEF QueueOK
    <2>2. Len(queue') \in Nat
      BY <2>1, LenProperties
    <2>3. \A k \in 1..Len(queue') : queue'[k] \in Tasks \ {t} /\ task'[queue'[k]].pc = "wait"
      <3> TAKE k \in 1..Len(queue')
      <3>1. PICK m \in 1..Len(queue) : queue'[k] = queue[m] /\ m # n
        BY <1>0, <2>1, <2>2
      <3>2. queue[m] # queue[n]
        BY <3>1 DEF QueueOK
      <3> QED
        BY <1>0, <1>2, <3>1, <3>2 DEF QueueOK
    <2>4. ASSUME NEW j \in 1..Len(queue'), NEW k \in 1..Len(queue'), queue'[j] = queue'[k]
          PROVE  j = k
      BY <1>0, <2>1, <2>2, <2>4 DEF QueueOK
    <2> QED
      BY <2>1, <2>3, <2>4 DEF QueueOK
  <1> QED
    BY <1>1, <1>2 DEF Leave

\* A task that does not wait may move on without touching the queue.
LEMMA StayInQueue ==
    ASSUME QueueOK, NEW t \in Tasks, task[t].pc # "wait", UNCHANGED queue,
           \A u \in Tasks \ {t} : task'[u].pc = task[u].pc
    PROVE  QueueOK'
  <1>1. \A k \in 1..Len(queue) : queue[k] \in Tasks \ {t}
    BY ElementOfSeq DEF QueueOK
  <1> QED
    BY <1>1 DEF QueueOK

TaskRecords == [pc : Stages, must : SUBSET Docs, text : SUBSET Docs]

\* Moving a task gives task records again.
LEMMA MovedTask ==
    ASSUME NEW f \in [Tasks -> TaskRecords], NEW t \in Tasks, NEW p \in Stages
    PROVE  [f EXCEPT ![t].pc = p] \in [Tasks -> TaskRecords]
  <1>1. f[t] \in TaskRecords
    OBVIOUS
  <1>2. [f[t] EXCEPT !.pc = p] \in TaskRecords
    BY <1>1 DEF TaskRecords
  <1> QED
    BY <1>2

\* So does moving it and replacing what it has read.
LEMMA MovedTaskText ==
    ASSUME NEW f \in [Tasks -> TaskRecords], NEW t \in Tasks,
           NEW p \in Stages, NEW x \in SUBSET Docs
    PROVE  [f EXCEPT ![t].pc = p, ![t].text = x] \in [Tasks -> TaskRecords]
  <1>1. f[t] \in TaskRecords
    OBVIOUS
  <1>2. [f[t] EXCEPT !.pc = p, !.text = x] \in TaskRecords
    BY <1>1 DEF TaskRecords
  <1> QED
    BY <1>2

\* Init gives every variable a value of its type.
LEMMA TypeInit == Init => TypeOK
  <1> SUFFICES ASSUME Init PROVE TypeOK
    OBVIOUS
  <1>1. kb \in {Missing} \cup SUBSET Docs /\ restarts \in 0..MaxRestarts
    BY IndexAssumption DEF Init, IndexAssumption
  <1>2. task \in [Tasks -> [pc : Stages, must : SUBSET Docs, text : SUBSET Docs]]
    BY DEF Init, Stages
  <1>3. queue \in Seq(Tasks) /\ Len(queue) = 0
    BY EmptySeq DEF Init
  <1>4. /\ \A k \in 1..Len(queue) : task[queue[k]].pc = "wait"
        /\ \A j, k \in 1..Len(queue) : queue[j] = queue[k] => j = k
    BY <1>3
  <1>5. index \in SUBSET Docs /\ ready \in BOOLEAN /\ lock \in Tasks \cup {Free}
    BY DEF Init
  <1> QED
    BY <1>1, <1>2, <1>3, <1>4, <1>5 DEF TypeOK

\* Every step keeps the types.
LEMMA TypeStep == TypeOK /\ [Next]_vars => TypeOK'
  <1> SUFFICES ASSUME TypeOK, [Next]_vars PROVE TypeOK'
    OBVIOUS
  <1> USE IndexAssumption DEF IndexAssumption
  <1>0. QueueOK /\ KbTexts \in SUBSET Docs /\ Acked \in SUBSET Docs
    BY DEF TypeOK, QueueOK, KbTexts, Acked, Tasks
  <1> DEFINE Rest == /\ kb' \in {Missing} \cup SUBSET Docs
                     /\ index' \in SUBSET Docs
                     /\ ready' \in BOOLEAN
                     /\ lock' \in Tasks \cup {Free}
                     /\ task' \in [Tasks -> TaskRecords]
                     /\ restarts' \in 0..MaxRestarts
  <1>q. QueueOK' /\ Rest => TypeOK'
    BY DEF TypeOK, QueueOK, TaskRecords
  <1> USE DEF TaskRecords, Stages, Waiting, Finished
  <1>1. ASSUME NEW d \in Docs, EditKb(d) PROVE TypeOK'
    BY <1>0, <1>1, <1>q DEF TypeOK, EditKb, QueueOK
  <1>2. ASSUME NEW q \in Queries, StartWarm(q) PROVE TypeOK'
    <2>1. q \in Tasks
      BY DEF Tasks
    <2>2. Rest /\ \A u \in Tasks \ {q} : task'[u].pc = task[u].pc
      BY <1>0, <1>2, <2>1 DEF TypeOK, StartWarm
    <2> QED
      BY <1>0, <1>2, <1>q, <2>1, <2>2, StayInQueue DEF StartWarm
  <1>3. ASSUME NEW q \in Queries, StartCold(q) PROVE TypeOK'
    <2>1. q \in Tasks
      BY DEF Tasks
    <2>2. /\ Rest /\ task[q].pc = "idle" /\ task'[q].pc = "wait"
          /\ queue' = Append(queue, q) /\ \A u \in Tasks \ {q} : task'[u] = task[u]
      BY <1>0, <1>3, <2>1 DEF TypeOK, StartCold
    <2> QED
      BY <1>0, <1>q, <2>1, <2>2, JoinQueue
  <1>4. ASSUME NEW w \in Writers, StartWriter(w) PROVE TypeOK'
    <2>1. w \in Tasks
      BY DEF Tasks
    <2>2. /\ Rest /\ task[w].pc = "idle" /\ task'[w].pc = "wait"
          /\ queue' = Append(queue, w) /\ \A u \in Tasks \ {w} : task'[u] = task[u]
      BY <1>0, <1>4, <2>1 DEF TypeOK, StartWriter
    <2> QED
      BY <1>0, <1>q, <2>1, <2>2, JoinQueue
  <1>5. ASSUME NEW t \in Tasks, \/ GrantReady(t) \/ GrantMissing(t)
                                \/ GrantEmpty(t) \/ GrantBuild(t)
        PROVE  TypeOK'
    <2>0. task \in [Tasks -> TaskRecords] /\ {"done", "rank", "error", "build"} \subseteq Stages
      BY DEF TypeOK
    <2>a. ASSUME GrantReady(t) PROVE Rest
      <3>1. task' \in [Tasks -> TaskRecords]
        <4>1. (IF index = {} THEN "done" ELSE "rank") \in Stages
          OBVIOUS
        <4> HIDE DEF TaskRecords, Stages
        <4> QED
          BY <2>a, <2>0, <4>1, MovedTaskText DEF GrantReady, AfterEnsure
      <3> QED
        BY <2>a, <3>1 DEF TypeOK, GrantReady
    <2>b. ASSUME GrantMissing(t) \/ GrantEmpty(t) PROVE Rest
      <3>1. task' \in [Tasks -> TaskRecords]
        <4> HIDE DEF TaskRecords, Stages
        <4> QED
          BY <2>b, <2>0, MovedTask DEF GrantMissing, GrantEmpty, Move
      <3> QED
        BY <2>b, <3>1 DEF TypeOK, GrantMissing, GrantEmpty
    <2>c. ASSUME GrantBuild(t) PROVE Rest
      <3>1. kb \in SUBSET Docs
        BY <2>c DEF TypeOK, GrantBuild
      <3>2. task' \in [Tasks -> TaskRecords]
        <4> HIDE DEF TaskRecords, Stages
        <4> QED
          BY <2>c, <2>0, <3>1, MovedTaskText DEF GrantBuild
      <3> QED
        BY <2>c, <3>1, <3>2 DEF TypeOK, GrantBuild
    <2>1. Rest
      BY <1>5, <2>a, <2>b, <2>c
    <2>2. /\ queue # <<>> /\ Head(queue) = t /\ queue' = Tail(queue)
          /\ \A u \in Tasks \ {t} : task'[u].pc = task[u].pc
      BY <1>5 DEF TypeOK, GrantReady, GrantMissing, GrantEmpty, GrantBuild, AfterEnsure,
                  Move, MustBuild, NextToHold
    <2> QED
      BY <1>0, <1>q, <2>1, <2>2, LeaveAsHead
  <1>6. ASSUME NEW t \in Tasks, EmbedOk(t) \/ EmbedFails(t) \/ Rank(t) \/ RankFails(t)
        PROVE  TypeOK'
    <2>a. ASSUME EmbedOk(t) PROVE Rest
      <3>1. task[t].text \in SUBSET Docs
        BY DEF TypeOK
      <3> QED
        BY <2>a, <3>1 DEF TypeOK, EmbedOk, AfterEnsure, Move
    <2>b. ASSUME EmbedFails(t) \/ Rank(t) \/ RankFails(t) PROVE Rest
      BY <2>b DEF TypeOK, EmbedFails, Rank, RankFails, Move
    <2>1. Rest
      BY <1>6, <2>a, <2>b
    <2>2. /\ task[t].pc # "wait" /\ UNCHANGED queue
          /\ \A u \in Tasks \ {t} : task'[u].pc = task[u].pc
      BY <1>6 DEF TypeOK, EmbedOk, EmbedFails, Rank, RankFails, AfterEnsure, Move
    <2> QED
      BY <1>0, <1>q, <2>1, <2>2, StayInQueue
  <1>7. ASSUME NEW q \in Queries, Timeout(q) \/ HangUp(q) PROVE TypeOK'
    <2>1. q \in Tasks
      BY DEF Tasks
    <2>2. PICK to \in {"model", "gone"} : Cancel(q, to)
      BY <1>7 DEF Timeout, HangUp
    <2>3. /\ Rest /\ Leave(q)
          /\ \A u \in Tasks \ {q} : task'[u].pc = task[u].pc
      BY <2>1, <2>2 DEF TypeOK, Cancel, Move
    <2> QED
      BY <1>0, <1>q, <2>1, <2>3, LeaveAnywhere
  <1>8. CASE Restart
    <2>a. restarts' \in 0..MaxRestarts
      BY <1>8 DEF TypeOK, Restart
    <2>b. task' \in [Tasks -> TaskRecords]
      <3>1. \A t \in Tasks : task[t] \in TaskRecords /\ [task[t] EXCEPT !.pc = "killed"] \in TaskRecords
        BY DEF TypeOK
      <3> QED
        BY <1>8, <3>1 DEF Restart
    <2>1. Rest
      BY <1>8, <2>a, <2>b DEF TypeOK, Restart
    <2>2. QueueOK'
      BY <1>8, EmptySeq DEF QueueOK, Restart
    <2> QED
      BY <1>q, <2>1, <2>2
  <1>9. CASE UNCHANGED vars
    BY <1>9 DEF TypeOK, vars
  <1> QED
    BY <1>1, <1>2, <1>3, <1>4, <1>5, <1>6, <1>7, <1>8, <1>9 DEF Next, Progress

\* Every variable keeps the values the program can give it, and the queue of
\* the lock holds waiting tasks, each once.
THEOREM TypeCorrect == Spec => []TypeOK
  BY TypeInit, TypeStep, PTL DEF Spec

----------------------------------------------------------------------------
(* The inductive invariant *)

\* Nothing is indexed or answered for that the file does not hold.
InFile == index \subseteq KbTexts /\ Acked \subseteq KbTexts

\* What a build has read is in the file, and covers all that is indexed and
\* all that is answered for: no step but its own end can change either.
BuildCovers ==
    \A t \in Tasks : task[t].pc = "build" =>
        /\ task[t].text \subseteq KbTexts
        /\ index \subseteq task[t].text
        /\ Acked \subseteq task[t].text

\* What a writer answers for was in the file when it asked for the lock, and
\* is in what it reads when it has the lock.  It ranks nothing.
WriterAnswers ==
    \A w \in Writers :
        /\ task[w].pc \in {"wait", "build"} => task[w].must \subseteq KbTexts
        /\ task[w].pc = "build" => task[w].must \subseteq task[w].text
        /\ task[w].pc # "rank"

\* What a query has to find is answered for while it waits or builds, and in
\* the index once it waits only for its own vector.
QueryFinds ==
    \A q \in Queries :
        /\ task[q].pc \in {"wait", "build"} => task[q].must \subseteq Acked
        /\ task[q].pc = "rank" => task[q].must \subseteq index
        /\ task[q].pc = "done" => task[q].must \subseteq task[q].text

IInv ==
    /\ TypeOK /\ OneBuilder /\ InFile /\ AckedIndexed
    /\ BuildCovers /\ WriterAnswers /\ QueryFinds

\* Acked changes only when a writer ends.
LEMMA AckedSame ==
    ASSUME \A w \in Writers : /\ task'[w].pc = "done" <=> task[w].pc = "done"
                              /\ task[w].pc = "done" => task'[w].must = task[w].must
    PROVE  Acked' = Acked
  BY DEF Acked

\* A writer that ends adds what it answers for, and nothing else.
LEMMA AckedGrows ==
    ASSUME NEW w \in Writers, task[w].pc # "done", task'[w].pc = "done",
           \A v \in Writers \ {w} : task'[v] = task[v]
    PROVE  Acked' = Acked \cup task'[w].must
  <1>1. ASSUME NEW x \in Acked' PROVE x \in Acked \cup task'[w].must
    <2>1. PICK v \in Writers : task'[v].pc = "done" /\ x \in task'[v].must
      BY <1>1 DEF Acked
    <2> QED
      BY <2>1 DEF Acked
  <1>2. ASSUME NEW x \in Acked PROVE x \in Acked'
    <2>1. PICK v \in Writers : task[v].pc = "done" /\ x \in task[v].must
      BY <1>2 DEF Acked
    <2> QED
      BY <2>1 DEF Acked
  <1>3. task'[w].must \subseteq Acked'
    BY DEF Acked
  <1> QED
    BY <1>1, <1>2, <1>3

\* Nothing runs, so nothing is answered for, when the process starts.
LEMMA InvInit == Init => IInv
  <1> SUFFICES ASSUME Init PROVE IInv
    OBVIOUS
  <1>1. Acked = {}
    BY DEF Init, Acked, Tasks
  <1>2. \A t \in Tasks : task[t].pc = "idle" /\ lock # t
    BY IndexAssumption DEF Init, IndexAssumption
  <1> QED
    BY <1>1, <1>2, TypeInit DEF Init, IInv, OneBuilder, InFile, AckedIndexed, BuildCovers,
                              WriterAnswers, QueryFinds, Tasks

Parts == OneBuilder /\ InFile /\ AckedIndexed /\ BuildCovers /\ WriterAnswers /\ QueryFinds

\* A query's steps outside the build touch neither the file, the index nor
\* what is answered for: only the query's own clauses are at stake.
LEMMA QueryMoves ==
    ASSUME IInv, NEW q \in Queries, UNCHANGED <<kb, index, ready>>,
           \A u \in Tasks \ {q} : task'[u] = task[u],
           lock' = IF lock = q THEN Free ELSE lock,
           task'[q].pc # "build",
           task'[q].pc = "wait" => task'[q].must \subseteq Acked,
           task'[q].pc = "rank" => task'[q].must \subseteq index,
           task'[q].pc = "done" => task'[q].must \subseteq task'[q].text
    PROVE  Parts'
  <1>1. q \in Tasks /\ q \notin Writers /\ Free \notin Tasks
    BY IndexAssumption DEF IndexAssumption, Tasks
  <1>2. Acked' = Acked
    BY <1>1, AckedSame DEF Tasks
  <1>3. KbTexts' = KbTexts
    BY DEF KbTexts
  <1>4. OneBuilder' /\ InFile' /\ AckedIndexed'
    BY <1>1, <1>2, <1>3 DEF IInv, OneBuilder, InFile, AckedIndexed
  <1>5. BuildCovers' /\ WriterAnswers'
    BY <1>1, <1>2, <1>3 DEF IInv, BuildCovers, WriterAnswers, Tasks
  <1>6. QueryFinds'
    BY <1>1, <1>2 DEF IInv, QueryFinds, Tasks
  <1> QED
    BY <1>4, <1>5, <1>6 DEF Parts

\* Starting, finding the index ready, ranking, failing to rank, timing out and
\* hanging up are such steps.
LEMMA QuerySteps ==
    ASSUME IInv, NEW q \in Queries,
           \/ StartWarm(q) \/ StartCold(q) \/ GrantReady(q) \/ Rank(q) \/ RankFails(q)
           \/ Timeout(q) \/ HangUp(q)
    PROVE  Parts'
  <1>1. /\ q \in Tasks /\ Free \notin Tasks /\ Acked \subseteq Acked
        /\ task \in [Tasks -> TaskRecords] /\ task[q] \in TaskRecords
    BY IndexAssumption DEF IndexAssumption, Tasks, IInv, TypeOK, TaskRecords
  <1>2. lock = q <=> task[q].pc = "build"
    BY <1>1 DEF IInv, OneBuilder
  <1> USE DEF TaskRecords
  <1>3. CASE StartWarm(q)
    <2>1. /\ task'[q].must = Acked /\ Acked \subseteq index
          /\ task'[q].pc = IF index = {} THEN "done" ELSE "rank"
          /\ \A u \in Tasks \ {q} : task'[u] = task[u]
          /\ task[q].pc = "idle" /\ UNCHANGED <<kb, index, ready, lock>>
      BY <1>1, <1>3 DEF StartWarm, IInv, AckedIndexed
    <2> QED
      BY <1>2, <2>1, QueryMoves
  <1>4. CASE StartCold(q)
    <2>1. /\ task'[q].must = Acked /\ task'[q].pc = "wait"
          /\ \A u \in Tasks \ {q} : task'[u] = task[u]
          /\ task[q].pc = "idle" /\ UNCHANGED <<kb, index, ready, lock>>
      BY <1>1, <1>4 DEF StartCold
    <2> QED
      BY <1>2, <2>1, QueryMoves
  <1>5. CASE GrantReady(q)
    <2>0. task[q].pc = "wait"
      <3>1. queue # <<>> /\ queue \in Seq(Tasks) /\ Head(queue) = q
        BY <1>5 DEF GrantReady, NextToHold, IInv, TypeOK
      <3>2. 1 \in 1..Len(queue) /\ queue[1] = q
        BY <3>1, TailQueue
      <3> QED
        BY <3>2 DEF IInv, TypeOK
    <2>1. /\ task'[q].must = task[q].must /\ task[q].must \subseteq Acked /\ Acked \subseteq index
          /\ task'[q].pc = IF index = {} THEN "done" ELSE "rank"
          /\ \A u \in Tasks \ {q} : task'[u] = task[u]
          /\ UNCHANGED <<kb, index, ready, lock>>
      BY <1>1, <1>5, <2>0 DEF GrantReady, AfterEnsure, IInv, AckedIndexed, QueryFinds
    <2> QED
      BY <1>2, <2>0, <2>1, QueryMoves
  <1>6. CASE Rank(q)
    <2>1. /\ task'[q].must \subseteq task'[q].text /\ task'[q].pc = "done"
          /\ \A u \in Tasks \ {q} : task'[u] = task[u]
          /\ task[q].pc = "rank" /\ UNCHANGED <<kb, index, ready, lock>>
      BY <1>1, <1>6 DEF Rank, IInv, QueryFinds
    <2> QED
      BY <1>2, <2>1, QueryMoves
  <1>7. CASE RankFails(q)
    <2>1. /\ task'[q].pc = "error"
          /\ \A u \in Tasks \ {q} : task'[u] = task[u]
          /\ task[q].pc = "rank" /\ UNCHANGED <<kb, index, ready, lock>>
      BY <1>1, <1>7 DEF RankFails, Move
    <2> QED
      BY <1>2, <2>1, QueryMoves
  <1>8. CASE Timeout(q) \/ HangUp(q)
    <2>1. PICK to \in {"model", "gone"} : Cancel(q, to)
      BY <1>8 DEF Timeout, HangUp
    <2>2. /\ task'[q].pc = to
          /\ \A u \in Tasks \ {q} : task'[u] = task[u]
          /\ lock' = IF lock = q THEN Free ELSE lock
          /\ UNCHANGED <<kb, index, ready>>
      BY <1>1, <2>1 DEF Cancel, Move
    <2> QED
      BY <2>2, QueryMoves
  <1> QED
    BY <1>3, <1>4, <1>5, <1>6, <1>7, <1>8

\* The file may grow: what was in it still is.
LEMMA FileGrows ==
    ASSUME IInv, NEW d \in Docs, EditKb(d)
    PROVE  Parts'
  <1>1. KbTexts \subseteq KbTexts'
    BY IndexAssumption DEF EditKb, KbTexts, IndexAssumption, IInv, TypeOK
  <1>2. Acked' = Acked
    BY AckedSame DEF EditKb
  <1> QED
    BY <1>1, <1>2 DEF Parts, EditKb, IInv, OneBuilder, InFile, AckedIndexed, BuildCovers,
                      WriterAnswers, QueryFinds

\* A writer that asks for the lock answers for the file as it is then.
LEMMA WriterStarts ==
    ASSUME IInv, NEW w \in Writers, StartWriter(w)
    PROVE  Parts'
  <1>1. /\ w \in Tasks /\ w \notin Queries
        /\ \A d \in Docs : \A S \in SUBSET Docs : S \cup {d} # Missing
        /\ Upload[w] # NoDoc => Upload[w] \in Docs
    BY IndexAssumption DEF IndexAssumption, Tasks
  <1>2. KbTexts \subseteq KbTexts' /\ task'[w].must = KbTexts'
    BY <1>1 DEF StartWriter, KbTexts, IInv, TypeOK
  <1>3. /\ task'[w].pc = "wait" /\ task[w].pc = "idle"
        /\ \A u \in Tasks \ {w} : task'[u] = task[u]
        /\ UNCHANGED <<index, ready, lock>>
    BY <1>1 DEF StartWriter, IInv, TypeOK
  <1>4. Acked' = Acked
    BY <1>1, <1>3, AckedSame DEF Tasks
  <1>5. OneBuilder' /\ InFile' /\ AckedIndexed'
    BY <1>1, <1>2, <1>3, <1>4 DEF IInv, OneBuilder, InFile, AckedIndexed
  <1>6. BuildCovers' /\ WriterAnswers' /\ QueryFinds'
    BY <1>1, <1>2, <1>3, <1>4 DEF IInv, BuildCovers, WriterAnswers, QueryFinds, Tasks
  <1> QED
    BY <1>5, <1>6 DEF Parts

\* The next to hold the lock waits, and nobody builds.
LEMMA NextWaits ==
    ASSUME IInv, NEW t \in Tasks, NextToHold(t)
    PROVE  /\ task[t].pc = "wait" /\ lock = Free
           /\ \A u \in Tasks : task[u].pc # "build"
           /\ t \in Writers => task[t].must \subseteq KbTexts
           /\ t \in Queries => task[t].must \subseteq Acked
           /\ task \in [Tasks -> TaskRecords] /\ task[t] \in TaskRecords
  <1>1. queue # <<>> /\ queue \in Seq(Tasks) /\ Head(queue) = t /\ lock = Free
    BY DEF NextToHold, IInv, TypeOK
  <1>2. 1 \in 1..Len(queue) /\ queue[1] = t
    BY <1>1, TailQueue
  <1>3. task[t].pc = "wait"
    BY <1>2 DEF IInv, TypeOK
  <1>4. \A u \in Tasks : task[u].pc # "build"
    BY <1>1, IndexAssumption DEF IndexAssumption, IInv, OneBuilder
  <1>5. task \in [Tasks -> TaskRecords] /\ task[t] \in TaskRecords
    BY DEF IInv, TypeOK, TaskRecords
  <1> QED
    BY <1>1, <1>3, <1>4, <1>5 DEF IInv, WriterAnswers, QueryFinds

\* Without a file nothing was indexed or answered for, and nothing changes.
LEMMA MissingFails ==
    ASSUME IInv, NEW t \in Tasks, GrantMissing(t)
    PROVE  Parts'
  <1>1. NextToHold(t) /\ UNCHANGED <<kb, index, lock>> /\ ready' = FALSE
    BY DEF GrantMissing, MustBuild
  <1>2. /\ task'[t].pc = "error" /\ task'[t].must = task[t].must
        /\ \A u \in Tasks \ {t} : task'[u] = task[u]
    BY <1>1, NextWaits DEF GrantMissing, Move, TaskRecords
  <1>3. Acked' = Acked
    BY <1>1, <1>2, NextWaits, AckedSame DEF Tasks
  <1>4. OneBuilder' /\ InFile' /\ AckedIndexed'
    BY <1>1, <1>2, <1>3, NextWaits, IndexAssumption
       DEF IInv, OneBuilder, InFile, AckedIndexed, KbTexts, IndexAssumption
  <1>5. BuildCovers' /\ WriterAnswers' /\ QueryFinds'
    BY <1>1, <1>2, <1>3 DEF IInv, BuildCovers, WriterAnswers, QueryFinds, Tasks, KbTexts
  <1> QED
    BY <1>4, <1>5 DEF Parts

\* An empty file is indexed at once; nothing was answered for.
LEMMA EmptyBuilds ==
    ASSUME IInv, NEW t \in Tasks, GrantEmpty(t)
    PROVE  Parts'
  <1>1. /\ NextToHold(t) /\ UNCHANGED <<kb, lock>> /\ ready' = TRUE /\ index' = {}
        /\ KbTexts = {} /\ KbTexts' = {}
    BY DEF GrantEmpty, MustBuild, KbTexts
  <1>2. /\ task'[t].pc = "done" /\ task'[t].must = task[t].must
        /\ task'[t].text = task[t].text /\ task[t].pc = "wait"
        /\ \A u \in Tasks \ {t} : task'[u] = task[u]
    BY <1>1, NextWaits DEF GrantEmpty, Move, TaskRecords
  <1>3. index = {} /\ Acked = {}
    BY <1>1 DEF IInv, InFile
  <1>4. task[t].must = {}
    BY <1>1, <1>3, NextWaits DEF Tasks
  <1>5. Acked' = {}
    <2>1. CASE t \in Writers
      BY <1>2, <1>3, <1>4, <2>1, AckedGrows DEF Tasks
    <2>2. CASE t \notin Writers
      BY <1>2, <1>3, <2>2, AckedSame DEF Tasks
    <2> QED
      BY <2>1, <2>2
  <1>6. OneBuilder' /\ InFile' /\ AckedIndexed'
    BY <1>1, <1>2, <1>5, NextWaits, IndexAssumption
       DEF IInv, OneBuilder, InFile, AckedIndexed, IndexAssumption
  <1>7. BuildCovers' /\ WriterAnswers'
    BY <1>1, <1>2, NextWaits DEF IInv, BuildCovers, WriterAnswers, Tasks
  <1>8. QueryFinds'
    BY <1>1, <1>2, <1>3, <1>4, <1>5 DEF IInv, QueryFinds, Tasks
  <1> QED
    BY <1>6, <1>7, <1>8 DEF Parts

\* A build reads the whole file, and so all that is indexed or answered for.
LEMMA BuildBegins ==
    ASSUME IInv, NEW t \in Tasks, GrantBuild(t)
    PROVE  Parts'
  <1>1. /\ NextToHold(t) /\ UNCHANGED <<kb, index>> /\ lock' = t /\ ready' = FALSE
        /\ KbTexts = kb /\ KbTexts' = kb
    BY DEF GrantBuild, MustBuild, KbTexts
  <1>2. /\ task'[t].pc = "build" /\ task'[t].must = task[t].must
        /\ task'[t].text = kb /\ task[t].pc = "wait"
        /\ \A u \in Tasks \ {t} : task'[u] = task[u]
    BY <1>1, NextWaits DEF GrantBuild, TaskRecords
  <1>3. Acked' = Acked
    BY <1>2, AckedSame DEF Tasks
  <1>4. OneBuilder' /\ InFile' /\ AckedIndexed'
    BY <1>1, <1>2, <1>3, NextWaits DEF IInv, OneBuilder, InFile, AckedIndexed
  <1>5. BuildCovers' /\ WriterAnswers'
    BY <1>1, <1>2, <1>3, NextWaits DEF IInv, BuildCovers, WriterAnswers, InFile, Tasks
  <1>6. QueryFinds'
    BY <1>1, <1>2, <1>3, NextWaits DEF IInv, QueryFinds, Tasks
  <1> QED
    BY <1>4, <1>5, <1>6 DEF Parts

\* The new index covers the old one and all that is answered for, now also by
\* the writer that built it.
LEMMA BuildEnds ==
    ASSUME IInv, NEW t \in Tasks, EmbedOk(t)
    PROVE  Parts'
  <1> DEFINE new == task[t].text
  <1>1. /\ task[t].pc = "build" /\ index' = new /\ ready' = TRUE /\ lock' = Free /\ kb' = kb
        /\ KbTexts' = KbTexts
    BY DEF EmbedOk, KbTexts
  <1>2. /\ new \subseteq KbTexts /\ index \subseteq new /\ Acked \subseteq new
        /\ t \in Writers => task[t].must \subseteq new
        /\ t \in Queries => task[t].must \subseteq Acked
    BY <1>1 DEF IInv, BuildCovers, WriterAnswers, QueryFinds
  <1>3. \A u \in Tasks \ {t} : task[u].pc # "build"
    BY <1>1 DEF IInv, OneBuilder
  <1>4. task \in [Tasks -> TaskRecords] /\ task[t] \in TaskRecords /\ Free \notin Tasks
    BY IndexAssumption DEF IndexAssumption, IInv, TypeOK, TaskRecords
  <1>5. CASE t \in Writers
    <2>1. t \notin Queries
      BY <1>5, IndexAssumption DEF IndexAssumption
    <2>2. /\ task'[t].pc = "done" /\ task'[t].must = task[t].must
          /\ \A u \in Tasks \ {t} : task'[u] = task[u]
      BY <1>4, <1>5 DEF EmbedOk, Move, TaskRecords
    <2>3. Acked' = Acked \cup task[t].must
      BY <1>1, <1>5, <2>2, AckedGrows DEF Tasks
    <2>4. OneBuilder' /\ InFile' /\ AckedIndexed'
      BY <1>1, <1>2, <1>3, <1>4, <1>5, <2>2, <2>3 DEF IInv, OneBuilder, InFile, AckedIndexed
    <2>5. BuildCovers' /\ WriterAnswers' /\ QueryFinds'
      BY <1>1, <1>2, <1>3, <2>1, <2>2, <2>3 DEF IInv, BuildCovers, WriterAnswers, QueryFinds, Tasks
    <2> QED
      BY <2>4, <2>5 DEF Parts
  <1>6. CASE t \notin Writers
    <2>1. t \in Queries
      BY <1>6 DEF Tasks
    <2>2. /\ task'[t].pc = IF new = {} THEN "done" ELSE "rank"
          /\ task'[t].must = task[t].must
          /\ \A u \in Tasks \ {t} : task'[u] = task[u]
      BY <1>1, <1>4, <1>6 DEF EmbedOk, AfterEnsure, TaskRecords
    <2>3. Acked' = Acked
      BY <1>6, <2>2, AckedSame DEF Tasks
    <2>4. OneBuilder' /\ InFile' /\ AckedIndexed'
      BY <1>1, <1>2, <1>3, <1>4, <2>2, <2>3 DEF IInv, OneBuilder, InFile, AckedIndexed
    <2>5. BuildCovers' /\ WriterAnswers' /\ QueryFinds'
      BY <1>1, <1>2, <1>3, <1>6, <2>1, <2>2, <2>3
         DEF IInv, BuildCovers, WriterAnswers, QueryFinds, Tasks
    <2> QED
      BY <2>4, <2>5 DEF Parts
  <1> QED
    BY <1>5, <1>6

\* A failed build gives the lock back and changes nothing else.
LEMMA BuildFails ==
    ASSUME IInv, NEW t \in Tasks, EmbedFails(t)
    PROVE  Parts'
  <1>1. task[t].pc = "build" /\ UNCHANGED <<kb, index, ready>> /\ lock' = Free /\ lock = t
    BY DEF EmbedFails, IInv, OneBuilder
  <1>2. task'[t].pc = "error" /\ \A u \in Tasks \ {t} : task'[u] = task[u]
    BY DEF EmbedFails, Move, IInv, TypeOK
  <1>3. Acked' = Acked /\ KbTexts' = KbTexts
    BY <1>1, <1>2, AckedSame DEF Tasks, KbTexts
  <1>4. OneBuilder' /\ InFile' /\ AckedIndexed'
    BY <1>1, <1>2, <1>3, IndexAssumption DEF IInv, OneBuilder, InFile, AckedIndexed, IndexAssumption
  <1>5. BuildCovers' /\ WriterAnswers' /\ QueryFinds'
    BY <1>1, <1>2, <1>3 DEF IInv, BuildCovers, WriterAnswers, QueryFinds, Tasks
  <1> QED
    BY <1>4, <1>5 DEF Parts

\* A restart leaves no task that waits, and an index that is not ready.
LEMMA RestartForgets ==
    ASSUME IInv, Restart
    PROVE  Parts'
  <1>1. kb' = kb /\ index' = {} /\ ready' = FALSE /\ lock' = Free /\ KbTexts' = KbTexts
    BY DEF Restart, KbTexts
  <1>2. \A u \in Tasks : \/ task[u].pc \in Waiting /\ task'[u].pc = "killed"
                         \/ task[u].pc \notin Waiting /\ task'[u] = task[u]
    BY DEF Restart, IInv, TypeOK
  <1>3. Acked' = Acked
    BY <1>2, AckedSame DEF Tasks, Waiting
  <1>4. OneBuilder' /\ InFile' /\ AckedIndexed'
    BY <1>1, <1>2, <1>3, IndexAssumption
       DEF IInv, OneBuilder, InFile, AckedIndexed, IndexAssumption, Waiting
  <1>5. BuildCovers' /\ WriterAnswers' /\ QueryFinds'
    BY <1>1, <1>2, <1>3 DEF IInv, BuildCovers, WriterAnswers, QueryFinds, Tasks, Waiting
  <1> QED
    BY <1>4, <1>5 DEF Parts

\* IInv is inductive.
LEMMA InvStep == IInv /\ [Next]_vars => IInv'
  <1> SUFFICES ASSUME IInv, [Next]_vars PROVE Parts'
    BY TypeStep DEF IInv, Parts
  <1>1. CASE \E d \in Docs : EditKb(d)
    BY <1>1, FileGrows
  <1>2. CASE \E q \in Queries : StartWarm(q) \/ StartCold(q) \/ Timeout(q) \/ HangUp(q)
    BY <1>2, QuerySteps
  <1>3. CASE \E w \in Writers : StartWriter(w)
    BY <1>3, WriterStarts
  <1>4. ASSUME NEW t \in Tasks, Progress(t) PROVE Parts'
    <2>1. CASE GrantReady(t)
      BY <2>1, QuerySteps DEF GrantReady
    <2>2. CASE Rank(t) \/ RankFails(t)
      <3>1. t \in Queries
        BY <2>2 DEF Rank, RankFails, IInv, WriterAnswers, Tasks
      <3> QED
        BY <2>2, <3>1, QuerySteps
    <2>3. CASE GrantMissing(t) \/ GrantEmpty(t) \/ GrantBuild(t)
      BY <2>3, MissingFails, EmptyBuilds, BuildBegins
    <2>4. CASE EmbedOk(t) \/ EmbedFails(t)
      BY <2>4, BuildEnds, BuildFails
    <2> QED
      BY <1>4, <2>1, <2>2, <2>3, <2>4 DEF Progress
  <1>5. CASE Restart
    BY <1>5, RestartForgets
  <1>6. CASE UNCHANGED vars
    <2>1. Acked' = Acked /\ KbTexts' = KbTexts
      BY <1>6 DEF vars, Acked, KbTexts
    <2> QED
      BY <1>6, <2>1 DEF vars, IInv, Parts, OneBuilder, InFile, AckedIndexed, BuildCovers,
                        WriterAnswers, QueryFinds
  <1> QED
    BY <1>1, <1>2, <1>3, <1>4, <1>5, <1>6 DEF Next

\* The inductive invariant holds in every reachable state.
THEOREM Invariant == Spec => []IInv
  BY InvInit, InvStep, PTL DEF Spec

----------------------------------------------------------------------------
(* What follows from it *)

\* The lock is held by the one task that builds, and by nothing else, whatever
\* is cancelled, fails or is killed (async with self._lock).
THEOREM LockIsBuild == Spec => []OneBuilder
  <1>1. IInv => OneBuilder
    BY DEF IInv
  <1> QED
    BY <1>1, Invariant, PTL

\* Whatever a call of add_document or reindex answered 200 for is in every
\* index that is ready, for good.
THEOREM AckedStaysIndexed == Spec => []AckedIndexed
  <1>1. IInv => AckedIndexed
    BY DEF IInv
  <1> QED
    BY <1>1, Invariant, PTL

\* A query that runs to its end has ranked everything answered for before it
\* began, whoever built the index it ranked.
THEOREM QueriesSeeAcked == Spec => []QuerySeesAcked
  <1>1. IInv => QuerySeesAcked
    BY DEF IInv, QueryFinds, QuerySeesAcked
  <1> QED
    BY <1>1, Invariant, PTL

\* While the process lives, no build takes a text out of the index: none puts
\* an older reading of the file over a newer one.
THEOREM NoOlderReading == Spec => IndexNeverShrinks
  <1>1. IInv /\ [Next]_vars => [restarts' = restarts => index \subseteq index']_vars
    <2> SUFFICES ASSUME IInv, Next, restarts' = restarts PROVE index \subseteq index'
      BY DEF vars
    <2>1. ASSUME NEW t \in Tasks, Progress(t) PROVE index \subseteq index'
      <3>1. CASE EmbedOk(t)
        BY <3>1 DEF EmbedOk, IInv, BuildCovers
      <3>2. CASE GrantEmpty(t)
        BY <3>2 DEF GrantEmpty, KbTexts, IInv, InFile
      <3>3. CASE ~EmbedOk(t) /\ ~GrantEmpty(t)
        BY <2>1, <3>3 DEF Progress, GrantReady, GrantMissing, GrantBuild, EmbedFails, Rank, RankFails
      <3> QED
        BY <3>1, <3>2, <3>3
    <2>2. ~Restart
      BY IndexAssumption DEF Restart, IndexAssumption, IInv, TypeOK
    <2> QED
      BY <2>1, <2>2 DEF Next, EditKb, StartWarm, StartCold, Timeout, HangUp, Cancel, StartWriter
  <1> QED
    BY <1>1, Invariant, PTL DEF Spec, IndexNeverShrinks
=============================================================================
