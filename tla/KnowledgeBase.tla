--------------------------- MODULE KnowledgeBase ----------------------------
(***************************************************************************)
(* What an index of rag_service.py is made of: _chunk_text cuts the        *)
(* knowledge-base file into overlapping chunks, embed() gives them         *)
(* vectors, retrieve() ranks them and route() decides whether they are     *)
(* used.  Who rebuilds the index, and when, is module RagIndex.            *)
(*                                                                         *)
(* A character is its place in the file, a text a sequence of places.      *)
(* Blocks are what re.split(blank lines) and strip() leave; between two    *)
(* of them stand the two places of the "\n\n" that _chunk_text writes      *)
(* there.  Blank places inside a block are not told apart.                 *)
(***************************************************************************)
EXTENDS Integers, Sequences, FiniteSets

CONSTANTS
    Size,           \* rag_chunk_chars
    Overlap,        \* rag_chunk_overlap
    Lengths,        \* lengths a block may have
    MaxBlocks,      \* bound: blocks of the file
    Scores,         \* values of the cosine of a query and a chunk
    Zero,           \* the one _cosine gives for a chunk without a vector
    MinScore,       \* rag_min_score
    TopKs           \* numbers of chunks a query may ask for

ASSUME SplitAssumption ==
    /\ Size \in Nat /\ Overlap \in Nat /\ MaxBlocks \in Nat
    /\ Lengths \subseteq Nat \ {0}
    /\ Scores \subseteq Int /\ Zero \in Scores /\ MinScore \in Int
    /\ TopKs \subseteq Nat \ {0}

VARIABLES
    doc,            \* the blocks of the file: [first, last, heading]
    pc,             \* what the build is doing: "idle", "split" or "embed"
    split,          \* the locals of _chunk_text
    index,          \* _chunks: chunks, how many have a vector, blocks covered
    ready,          \* _ready
    asked,          \* a query of retrieve() awaits its embedding
    reply           \* the last answer of route()

vars == <<doc, pc, split, index, ready, asked, reply>>

General == 0        \* the section before the first heading
NoSplit == [read |-> 0, next |-> 1, section |-> General, buf |-> <<>>, chunks |-> <<>>]
NoReply == [hits |-> {}, k |-> 0, scores |-> <<>>, useRag |-> FALSE, timedOut |-> FALSE]

Init ==
    /\ doc = <<>>
    /\ pc = "idle"
    /\ split = NoSplit
    /\ index = [chunks |-> <<>>, vectors |-> 0, blocks |-> 0]
    /\ ready = FALSE
    /\ asked = FALSE
    /\ reply = NoReply

----------------------------------------------------------------------------
(* The file *)

End == IF doc = <<>> THEN 0 ELSE doc[Len(doc)].last

Block(after, length, heading) ==
    [first |-> after + 3, last |-> after + 2 + length, heading |-> heading]

\* An operator adds a block at the end of the file.
Paste(length, heading) ==
    /\ Len(doc) < MaxBlocks
    /\ doc' = Append(doc, Block(End, length, heading))
    /\ reply' = NoReply
    /\ UNCHANGED <<pc, split, index, ready, asked>>

\* add_document: a heading "Uploaded document" and the text, kept apart from
\* what is there by blank lines.  A client whose upload ended in an error may
\* send it again, and the file has it twice.
AddDocument(title, length) ==
    LET head == Block(End, title, TRUE) IN
    /\ Len(doc) + 2 <= MaxBlocks
    /\ doc' = doc \o <<head, Block(head.last, length, FALSE)>>
    /\ reply' = NoReply
    /\ UNCHANGED <<pc, split, index, ready, asked>>

----------------------------------------------------------------------------
(* _build and _chunk_text: one step for each block *)

Places(b) == [i \in 1..(b.last - b.first + 1) |-> b.first + i - 1]
Gap(b) == <<b.first - 2, b.first - 1>>      \* the "\n\n" before b

Blank(p) == \A i \in 1..Len(doc) : ~(doc[i].first <= p /\ p <= doc[i].last)

\* strip(), of a text that ends in a block: at most one gap begins it.
Strip(s) ==
    LET n == CHOOSE k \in 0..2 : /\ \A i \in 1..k : Blank(s[i])
                                 /\ ~Blank(s[k + 1])
    IN SubSeq(s, n + 1, Len(s))

\* buf[-overlap:] if overlap and buf else "".
Carried(s) == IF Len(s) <= Overlap THEN s ELSE SubSeq(s, Len(s) - Overlap + 1, Len(s))

FitsWithoutGap(s, b) == Len(s) + Len(Places(b)) <= Size     \* fault: no + 2

Fits(s, b) == Len(s) + Len(Places(b)) + 2 <= Size

FirstHeading(section, k) ==             \* fault: the first heading stays
    IF doc[k].heading /\ section = General THEN k ELSE section

\* A block that begins with #'s is a heading, and names the section from now on.
SectionAt(section, k) == IF doc[k].heading THEN k ELSE section

\* The chunk so far, unless there is none, is put down under this section.
PutDown(s, section) == IF s = <<>> THEN <<>> ELSE <<[text |-> s, section |-> section]>>

RebuildReady ==                         \* fault: _ready is not cleared
    /\ pc = "idle"
    /\ pc' = "split"
    /\ split' = [NoSplit EXCEPT !.read = Len(doc)]
    /\ reply' = NoReply
    /\ UNCHANGED <<doc, index, ready, asked>>

Rebuild ==
    /\ pc = "idle"
    /\ pc' = "split"
    /\ split' = [NoSplit EXCEPT !.read = Len(doc)]
    /\ ready' = FALSE
    /\ reply' = NoReply
    /\ UNCHANGED <<doc, index, asked>>

\* The block fits, with the gap before it.
Join ==
    LET b == doc[split.next] IN
    /\ pc = "split" /\ split.next <= split.read
    /\ Fits(split.buf, b)
    /\ split' = [split EXCEPT !.next = @ + 1,
                              !.section = SectionAt(@, split.next),
                              !.buf = Strip(@ \o Gap(b) \o Places(b))]
    /\ UNCHANGED <<doc, pc, index, ready, asked, reply>>

\* It does not: the chunk so far is put down, under the heading of the block
\* that comes next if it is one, and its tail begins the next chunk.
Flush ==
    LET b == doc[split.next]
        tail == Carried(split.buf)
        section == SectionAt(split.section, split.next)
    IN
    /\ pc = "split" /\ split.next <= split.read
    /\ ~Fits(split.buf, b)
    /\ split' = [split EXCEPT !.next = @ + 1,
                              !.section = section,
                              !.chunks = @ \o PutDown(split.buf, section),
                              !.buf = IF tail = <<>> THEN Places(b)
                                      ELSE Strip(tail \o Gap(b) \o Places(b))]
    /\ UNCHANGED <<doc, pc, index, ready, asked, reply>>

\* The end of the text; an empty file is an empty index, without embed().
Finish ==
    LET chunks == split.chunks \o PutDown(split.buf, split.section) IN
    /\ pc = "split" /\ split.next > split.read
    /\ IF chunks = <<>>
       THEN /\ pc' = "idle"
            /\ split' = NoSplit
            /\ index' = [chunks |-> <<>>, vectors |-> 0, blocks |-> split.read]
            /\ ready' = TRUE
       ELSE /\ pc' = "embed"
            /\ split' = [split EXCEPT !.chunks = chunks, !.buf = <<>>]
            /\ UNCHANGED <<index, ready>>
    /\ reply' = NoReply
    /\ UNCHANGED <<doc, asked>>

EmbedOkOnly(vectors) ==                 \* fault: chunks without a vector are lost
    /\ pc = "embed"
    /\ vectors \in 0..Len(split.chunks)
    /\ index' = [chunks |-> SubSeq(split.chunks, 1, vectors), vectors |-> vectors,
                 blocks |-> split.read]
    /\ pc' = "idle"
    /\ split' = NoSplit
    /\ ready' = TRUE
    /\ reply' = NoReply
    /\ UNCHANGED <<doc, asked>>

\* The vectors come back in the order of the chunks; zip() stops at the last.
EmbedOk(vectors) ==
    /\ pc = "embed"
    /\ vectors \in 0..Len(split.chunks)
    /\ index' = [chunks |-> split.chunks, vectors |-> vectors, blocks |-> split.read]
    /\ pc' = "idle"
    /\ split' = NoSplit
    /\ ready' = TRUE
    /\ reply' = NoReply
    /\ UNCHANGED <<doc, asked>>

\* UpstreamError, or the query that builds runs out of time: the old chunks stay,
\* for the queries that are past ensure_indexed.
EmbedFails ==
    /\ pc = "embed"
    /\ pc' = "idle"
    /\ split' = NoSplit
    /\ UNCHANGED <<doc, index, ready, asked, reply>>

----------------------------------------------------------------------------
(* retrieve() and route() *)

Chunks == 1..Len(index.chunks)

BeforeRising(scores, i, j) ==           \* fault: reverse=True forgotten
    scores[i] < scores[j] \/ (scores[i] = scores[j] /\ i < j)

\* The order of a stable sort by falling score.
Before(scores, i, j) == scores[i] > scores[j] \/ (scores[i] = scores[j] /\ i < j)

\* scored[:k]: the chunks that fewer than k others come before.
TopK(scores, k) == {i \in Chunks : Cardinality({j \in Chunks : Before(scores, j, i)}) < k}

\* What is compared with rag_min_score: where nothing was found, 0.0.
Tops(hits, scores) == IF hits = {} THEN {Zero} ELSE {scores[i] : i \in hits}

\* retrieve() finds an index and awaits the embedding of its query.
Ask ==
    /\ ready /\ index.chunks # <<>>
    /\ ~asked
    /\ asked' = TRUE
    /\ UNCHANGED <<doc, pc, split, index, ready, reply>>

\* The chunks there are by then are ranked, be it during a rebuild or after one
\* that failed.  Where there were none, nothing is awaited.
Route(k, scores) ==
    LET hits == TopK(scores, k) IN
    /\ pc # "split"                \* which awaits nothing
    /\ asked \/ (ready /\ index.chunks = <<>>)
    /\ \A i \in Chunks : i > index.vectors => scores[i] = Zero
    /\ asked' = FALSE
    /\ reply' = [hits |-> hits, k |-> k, scores |-> scores,
                 useRag |-> \E s \in Tops(hits, scores) : s >= MinScore, timedOut |-> FALSE]
    /\ UNCHANGED <<doc, pc, split, index, ready>>

\* rag_timeout_seconds pass in retrieve(), of this query or of one that waits for
\* the index: the model answers without the knowledge base.
RouteTimesOut(k) ==
    /\ pc # "split"
    /\ asked' \in {asked, FALSE}
    /\ reply' = [NoReply EXCEPT !.k = k, !.timedOut = TRUE]
    /\ UNCHANGED <<doc, pc, split, index, ready>>

\* The query's embedding fails: no answer.
RouteFails ==
    /\ pc # "split" /\ asked
    /\ asked' = FALSE
    /\ UNCHANGED <<doc, pc, split, index, ready, reply>>

Next ==
    \/ \E n \in Lengths, h \in BOOLEAN : Paste(n, h)
    \/ \E t, n \in Lengths : AddDocument(t, n)
    \/ Rebuild \/ Join \/ Flush \/ Finish \/ EmbedFails
    \/ Ask \/ RouteFails
    \/ \E v \in 0..Len(split.chunks) : EmbedOk(v)
    \/ \E k \in TopKs : \/ \E s \in [Chunks -> Scores] : Route(k, s)
                       \/ RouteTimesOut(k)

Spec == Init /\ [][Next]_vars

----------------------------------------------------------------------------
(* Properties *)

LastOf(t) == t[Len(t)]
SizeOf(b) == b.last - b.first + 1
ChunkType == [text : Seq(Nat), section : Nat]

\* Every variable has the values the program can give it, nothing is embedded
\* that is empty, and _ready is off while an index is being built.
TypeOK ==
    /\ doc \in Seq([first : Nat, last : Nat, heading : BOOLEAN])
    /\ pc \in {"idle", "split", "embed"}
    /\ split \in [read : Nat, next : Nat \ {0}, section : Nat, buf : Seq(Nat),
                  chunks : Seq(ChunkType)]
    /\ index \in [chunks : Seq(ChunkType), vectors : Nat, blocks : Nat]
    /\ ready \in BOOLEAN /\ asked \in BOOLEAN
    /\ split.read <= Len(doc) /\ index.blocks <= Len(doc)
    /\ split.next <= split.read + 1
    /\ index.vectors <= Len(index.chunks)
    /\ pc = "embed" => split.chunks # <<>>
    /\ pc # "idle" => ~ready

\* t is an unbroken excerpt of the first n blocks, from within a block to the
\* end of one, no longer than Size, or than a tail, a gap and one block.
Excerpt(t, n) ==
    /\ t # <<>> /\ ~Blank(t[1])
    /\ \A i \in 1..(Len(t) - 1) : t[i + 1] = t[i] + 1
    /\ \E b \in 1..n :
          /\ LastOf(t) = doc[b].last
          /\ Len(t) <= Size \/ Len(t) <= Overlap + 2 + SizeOf(doc[b])

\* The first n blocks are each whole in one of the texts.
Whole(texts, n) ==
    \A b \in 1..n : \E t \in texts : t[1] <= doc[b].first /\ doc[b].last <= LastOf(t)

TextsOf(chunks) == {chunks[i].text : i \in 1..Len(chunks)}
BufTexts == {split.buf} \ {<<>>}

\* Chunking loses nothing and invents nothing: every chunk, served or in the
\* making, is an unbroken excerpt within the size bound, a chunk shares no more
\* than Overlap places with the one before, and no block that was read is cut
\* in two without being whole in a chunk.
Excerpts ==
    /\ \A t \in TextsOf(index.chunks) : Excerpt(t, index.blocks)
    /\ \A t \in TextsOf(split.chunks) \cup BufTexts : Excerpt(t, split.next - 1)
    /\ Whole(TextsOf(index.chunks), index.blocks)
    /\ Whole(TextsOf(split.chunks) \cup BufTexts, split.next - 1)
    /\ \A i \in 1..(Len(index.chunks) - 1) :
          LastOf(index.chunks[i].text) - index.chunks[i + 1].text[1] < Overlap

\* s is the section in force after the first n blocks.
IsSection(s, n) ==
    /\ s = General \/ (s \in 1..n /\ doc[s].heading)
    /\ \A b \in 1..n : doc[b].heading => b <= s

\* A served chunk is tagged with the heading it ends under, or with the one
\* that begins right after it: never with an earlier or a farther one.
SectionNearby ==
    \A i \in 1..Len(index.chunks) : \E b \in 1..index.blocks :
        /\ LastOf(index.chunks[i].text) = doc[b].last
        /\ \/ IsSection(index.chunks[i].section, b)
           \/ b < index.blocks /\ doc[b + 1].heading /\ index.chunks[i].section = b + 1

\* What is appended to the file, an upload sent twice included, changes no
\* chunk that is served but the last, which may go on where it ended.
AppendKeeps ==
    [][index' # index => \A i \in Chunks :
          /\ i <= Len(index'.chunks)
          /\ i < Len(index.chunks) => index'.chunks[i] = index.chunks[i]
          /\ index.chunks[i].text = SubSeq(index'.chunks[i].text, 1, Len(index.chunks[i].text))
      ]_vars

\* A query that is answered in time gets as many chunks as it may, and no chunk
\* left out scores more than one it gets; and the knowledge base is used if and
\* only if the query was in time and some chunk, found or not, scores MinScore:
\* the cut to k does not decide the route, nor does a rebuild under the query.
BestHits ==
    reply # NoReply =>
        /\ ~reply.timedOut =>
              /\ Cardinality(reply.hits) = IF reply.k < Len(index.chunks)
                                           THEN reply.k ELSE Len(index.chunks)
              /\ \A i \in reply.hits, j \in Chunks \ reply.hits :
                    reply.scores[j] <= reply.scores[i]
        /\ reply.useRag <=> /\ ~reply.timedOut
                            /\ \E s \in Tops(Chunks, reply.scores) : s >= MinScore
=============================================================================
