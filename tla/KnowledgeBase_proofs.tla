------------------------ MODULE KnowledgeBase_proofs ------------------------
(***************************************************************************)
(* KnowledgeBase for every chunk size, overlap and file: chunking loses    *)
(* and invents nothing, and a chunk bears a heading next to it; a build    *)
(* only appends to the index it takes over; what a query is served is the  *)
(* best the index has, in order.                                           *)
(***************************************************************************)
EXTENDS KnowledgeBase, FiniteSetTheorems, SequenceTheorems, TLAPS

BlockType == [first : Nat, last : Nat, heading : BOOLEAN]

EndOf(d) == IF d = <<>> THEN 0 ELSE d[Len(d)].last

\* p is in a block of d.
In(d, p) == \E i \in 1..Len(d) : d[i].first <= p /\ p <= d[i].last

\* A file: blocks in order, the two places of a gap before each.
File(d) ==
    /\ d \in Seq(BlockType)
    /\ \A i \in 1..Len(d) : 3 <= d[i].first /\ d[i].first <= d[i].last
    /\ \A i, j \in 1..Len(d) : i < j => d[i].last + 2 < d[j].first
    /\ Len(d) > 0 => d[1].first = 3
    /\ \A i, j \in 1..Len(d) : j = i + 1 => d[j].first = d[i].last + 3
    /\ \A p \in Nat : 1 <= p /\ p <= EndOf(d) =>
          \E i \in 1..Len(d) : d[i].first - 2 <= p /\ p <= d[i].last

\* The places from the first of t on, one after the other.
Run(t) ==
    /\ t \in Seq(Nat) /\ Len(t) > 0 /\ t[1] > 0
    /\ \A i \in 1..Len(t) : t[i] = t[1] + i - 1

\* A text that may be a chunk: from within a block to the end of block b.
Piece(d, t, b) ==
    /\ Run(t) /\ In(d, t[1])
    /\ b \in 1..Len(d) /\ t[Len(t)] = d[b].last
    /\ Len(t) <= Size \/ Len(t) <= Overlap + 2 + (d[b].last - d[b].first + 1)

\* s is the heading in force after block n of d.
Under(d, s, n) ==
    /\ s = 0 \/ (s \in 1..n /\ d[s].heading)
    /\ \A b \in 1..n : d[b].heading => b <= s

Tagged(d, c, n) ==
    \E b \in 1..n : /\ Piece(d, c.text, b)
                    /\ \/ Under(d, c.section, b)
                       \/ b + 1 <= n /\ d[b + 1].heading /\ c.section = b + 1

\* Chunks of the first n blocks.
Cut(d, s, n) ==
    /\ s \in Seq(ChunkType)
    /\ \A i \in 1..Len(s) : Tagged(d, s[i], n)
    /\ \A i, j \in 1..Len(s) : j = i + 1 => s[i].text[Len(s[i].text)] - s[j].text[1] < Overlap

\* Block b is whole in t.
Holds(d, t, b) == t[1] <= d[b].first /\ d[b].last <= t[Len(t)]

Complete(d, s, buf, n) ==
    \A b \in 1..n : \/ \E i \in 1..Len(s) : Holds(d, s[i].text, b)
                    \/ buf # <<>> /\ Holds(d, buf, b)

\* Where _chunk_text is after n blocks.
Splitting(d, s, buf, section, n) ==
    /\ n \in 0..Len(d)
    /\ Cut(d, s, n) /\ Under(d, section, n) /\ Complete(d, s, buf, n)
    /\ buf \in Seq(Nat) /\ section \in Nat
    /\ buf # <<>> => n > 0 /\ Piece(d, buf, n)
    /\ n > 0 => buf # <<>>
    /\ s # <<>> /\ buf # <<>> => s[Len(s)].text[Len(s[Len(s)].text)] - buf[1] < Overlap

SplitInv ==
    /\ split \in [read : Nat, next : Nat \ {0}, section : Nat, buf : Seq(Nat),
                  chunks : Seq(ChunkType)]
    /\ split.read <= Len(doc) /\ split.next <= split.read + 1
    /\ pc = "idle" => split = NoSplit
    /\ pc = "split" => Splitting(doc, split.chunks, split.buf, split.section, split.next - 1)
    /\ pc = "embed" => /\ split.chunks # <<>> /\ split.buf = <<>>
                       /\ split.next = split.read + 1
                       /\ Cut(doc, split.chunks, split.read)
                       /\ Complete(doc, split.chunks, <<>>, split.read)

IndexInv ==
    /\ index \in [chunks : Seq(ChunkType), vectors : Nat, blocks : Nat]
    /\ index.vectors <= Len(index.chunks) /\ index.blocks <= Len(doc)
    /\ Cut(doc, index.chunks, index.blocks)
    /\ Complete(doc, index.chunks, <<>>, index.blocks)

KInv ==
    /\ File(doc) /\ SplitInv /\ IndexInv
    /\ pc \in {"idle", "split", "embed"} /\ ready \in BOOLEAN
    /\ pc # "idle" => ~ready

----------------------------------------------------------------------------
(* Sequences *)

LEMMA AppendFacts ==
    ASSUME NEW T, NEW s \in Seq(T), NEW x \in T
    PROVE  /\ Append(s, x) \in Seq(T) /\ Len(Append(s, x)) = Len(s) + 1
           /\ Append(s, x)[Len(s) + 1] = x
           /\ \A i \in 1..Len(s) : Append(s, x)[i] = s[i]
           /\ Len(s) \in Nat /\ Append(s, x) # <<>>
  OBVIOUS

LEMMA LengthZero ==
    ASSUME NEW T, NEW s \in Seq(T)
    PROVE  Len(s) \in Nat /\ (s = <<>> <=> Len(s) = 0)
  OBVIOUS

----------------------------------------------------------------------------
(* The file *)

\* A block after the last one of a file.
LEMMA FileGrows ==
    ASSUME NEW d, File(d), NEW n \in Nat \ {0}, NEW h \in BOOLEAN
    PROVE  /\ File(Append(d, Block(EndOf(d), n, h)))
           /\ EndOf(Append(d, Block(EndOf(d), n, h))) = Block(EndOf(d), n, h).last
           /\ EndOf(d) \in Nat
  <1> DEFINE b == Block(EndOf(d), n, h)
             e == Append(d, b)
             l == Len(d)
             z == EndOf(d)
  <1>1. d \in Seq(BlockType) /\ l \in Nat /\ (d = <<>> <=> l = 0)
    <2>1. d \in Seq(BlockType)
      BY DEF File
    <2> QED
      BY <2>1, LengthZero
  <1>2. \A i \in 1..l : d[i].first \in Nat /\ d[i].last \in Nat
    <2>1. \A i \in 1..l : d[i] \in BlockType
      BY <1>1
    <2> QED
      BY <2>1 DEF BlockType
  <1>3. z \in Nat /\ (l > 0 => z = d[l].last) /\ (l = 0 => z = 0)
    BY <1>1, <1>2 DEF EndOf
  <1> HIDE DEF z
  <1>4. b = [first |-> z + 3, last |-> z + 2 + n, heading |-> h]
    BY DEF Block, z
  <1>5. b \in BlockType /\ b.first = z + 3 /\ b.last = z + 2 + n
    BY <1>3, <1>4 DEF BlockType
  <1> HIDE DEF b
  <1>6. /\ e \in Seq(BlockType) /\ Len(e) = l + 1 /\ e[l + 1] = b /\ e # <<>>
        /\ \A i \in 1..l : e[i] = d[i]
    BY <1>1, <1>5, AppendFacts
  <1> HIDE DEF e
  <1>7. EndOf(e) = b.last
    BY <1>6 DEF EndOf
  <1>8. \A i \in 1..l : d[i].first <= d[i].last /\ 3 <= d[i].first /\ d[i].last <= z
    <2>1. ASSUME NEW i \in 1..l PROVE d[i].last <= z
      <3>1. CASE i = l
        BY <1>2, <1>3, <3>1
      <3>2. CASE i < l
        <4>1. d[i].last + 2 < d[l].first /\ d[l].first <= d[l].last
          BY <1>1, <3>2 DEF File
        <4> QED
          BY <1>1, <1>2, <1>3, <4>1
      <3> QED
        BY <1>1, <3>1, <3>2
    <2> QED
      BY <2>1 DEF File
  <1>9. \A i \in 1..Len(e) : 3 <= e[i].first /\ e[i].first <= e[i].last
    <2>1. ASSUME NEW i \in 1..(l + 1) PROVE 3 <= e[i].first /\ e[i].first <= e[i].last
      BY <1>1, <1>3, <1>5, <1>6, <1>8
    <2> QED
      BY <1>6, <2>1
  <1>10. \A i, j \in 1..Len(e) : i < j => e[i].last + 2 < e[j].first
    <2>1. ASSUME NEW i \in 1..(l + 1), NEW j \in 1..(l + 1), i < j
          PROVE  e[i].last + 2 < e[j].first
      <3>1. i \in 1..l /\ e[i] = d[i]
        BY <1>1, <1>6, <2>1
      <3>2. CASE j = l + 1
        BY <1>2, <1>3, <1>5, <1>6, <1>8, <3>1, <3>2
      <3>3. CASE j \in 1..l
        BY <1>6, <2>1, <3>1, <3>3 DEF File
      <3> QED
        BY <1>1, <3>2, <3>3
    <2> QED
      BY <1>6, <2>1
  <1>11. \A i, j \in 1..Len(e) : j = i + 1 => e[j].first = e[i].last + 3
    <2>1. ASSUME NEW i \in 1..(l + 1), NEW j \in 1..(l + 1), j = i + 1
          PROVE  e[j].first = e[i].last + 3
      <3>1. i \in 1..l /\ e[i] = d[i]
        BY <1>1, <1>6, <2>1
      <3>2. CASE j = l + 1
        BY <1>1, <1>3, <1>5, <1>6, <2>1, <3>1, <3>2
      <3>3. CASE j \in 1..l
        BY <1>6, <2>1, <3>1, <3>3 DEF File
      <3> QED
        BY <1>1, <3>2, <3>3
    <2> QED
      BY <1>6, <2>1
  <1>12. e[1].first = 3
    <2>1. CASE l = 0
      BY <1>3, <1>5, <1>6, <2>1
    <2>2. CASE l > 0
      BY <1>1, <1>6, <2>2 DEF File
    <2> QED
      BY <1>1, <2>1, <2>2
  <1>13. ASSUME NEW p \in Nat, 1 <= p, p <= EndOf(e)
         PROVE  \E i \in 1..Len(e) : e[i].first - 2 <= p /\ p <= e[i].last
    <2>1. CASE p <= z
      <3>1. PICK i \in 1..l : d[i].first - 2 <= p /\ p <= d[i].last
        BY <1>13, <2>1 DEF File, z
      <3> QED
        BY <1>1, <1>6, <3>1
    <2>2. CASE ~(p <= z)
      <3>1. b.first - 2 <= p /\ p <= b.last
        BY <1>3, <1>5, <1>7, <1>13, <2>2
      <3>2. l + 1 \in 1..Len(e)
        BY <1>1, <1>6
      <3> QED
        BY <1>6, <3>1, <3>2
    <2> QED
      BY <2>1, <2>2
  <1>14. File(e)
    BY <1>6, <1>9, <1>10, <1>11, <1>12, <1>13 DEF File
  <1> QED
    BY <1>3, <1>7, <1>14 DEF e, b, z

LEMMA FileFacts ==
    ASSUME NEW d, File(d)
    PROVE  /\ d \in Seq(BlockType) /\ Len(d) \in Nat
           /\ \A i \in 1..Len(d) : /\ d[i].first \in Nat /\ d[i].last \in Nat
                                   /\ d[i].heading \in BOOLEAN
                                   /\ 3 <= d[i].first /\ d[i].first <= d[i].last
  <1>1. d \in Seq(BlockType)
    BY DEF File
  <1>2. Len(d) \in Nat /\ \A i \in 1..Len(d) : d[i] \in BlockType
    BY <1>1
  <1> QED
    BY <1>1, <1>2 DEF BlockType, File

\* e is d, with blocks added at the end.
Extends(d, e) == Len(d) <= Len(e) /\ \A i \in 1..Len(d) : e[i] = d[i]

\* What was cut stays what it is while the file grows.
LEMMA CutStays ==
    ASSUME NEW d, NEW e, File(d), File(e), Extends(d, e), NEW n \in 0..Len(d)
    PROVE  /\ \A s : Under(d, s, n) => Under(e, s, n)
           /\ \A t, b : Piece(d, t, b) => Piece(e, t, b)
           /\ \A s : Cut(d, s, n) => Cut(e, s, n)
           /\ \A s, buf : Complete(d, s, buf, n) => Complete(e, s, buf, n)
  <1>1. /\ Len(d) \in Nat /\ Len(e) \in Nat /\ Len(d) <= Len(e)
        /\ \A i \in 1..Len(d) : i \in 1..Len(e) /\ e[i] = d[i]
    BY FileFacts DEF Extends
  <1>2. ASSUME NEW s, NEW m \in 0..Len(d), Under(d, s, m) PROVE Under(e, s, m)
    BY <1>1, <1>2 DEF Under
  <1>3. ASSUME NEW t, NEW b, Piece(d, t, b) PROVE Piece(e, t, b)
    <2>1. Run(t) /\ In(d, t[1]) /\ b \in 1..Len(d) /\ t[Len(t)] = d[b].last
          /\ (Len(t) <= Size \/ Len(t) <= Overlap + 2 + (d[b].last - d[b].first + 1))
      BY <1>3 DEF Piece
    <2>2. In(e, t[1])
      BY <1>1, <2>1 DEF In
    <2>3. b \in 1..Len(e) /\ e[b] = d[b]
      BY <1>1, <2>1
    <2> QED
      BY <2>1, <2>2, <2>3 DEF Piece
  <1>4. ASSUME NEW c, Tagged(d, c, n) PROVE Tagged(e, c, n)
    <2>1. PICK b \in 1..n : /\ Piece(d, c.text, b)
                            /\ \/ Under(d, c.section, b)
                               \/ b + 1 <= n /\ d[b + 1].heading /\ c.section = b + 1
      BY <1>4 DEF Tagged
    <2>2. Piece(e, c.text, b) /\ b \in 0..Len(d)
      BY <1>1, <1>3, <2>1
    <2>3. Under(d, c.section, b) => Under(e, c.section, b)
      BY <1>2, <2>2
    <2>4. b + 1 <= n => e[b + 1] = d[b + 1]
      BY <1>1, <2>1
    <2> QED
      BY <2>1, <2>2, <2>3, <2>4 DEF Tagged
  <1>5. \A s : Cut(d, s, n) => Cut(e, s, n)
    BY <1>4 DEF Cut
  <1>6. \A s, buf : Complete(d, s, buf, n) => Complete(e, s, buf, n)
    <2>1. \A b \in 1..n : e[b] = d[b]
      BY <1>1
    <2> QED
      BY <2>1 DEF Complete, Holds
  <1> QED
    BY <1>2, <1>3, <1>5, <1>6

----------------------------------------------------------------------------
(* Runs of places *)

\* The m places from a on.
RunOf(t, a, m) ==
    /\ t \in Seq(Nat) /\ Len(t) = m /\ m > 0 /\ a > 0
    /\ \A i \in 1..m : t[i] = a + i - 1

LEMMA RunEnds ==
    ASSUME NEW a \in Nat, NEW m \in Nat, NEW t, RunOf(t, a, m)
    PROVE  /\ Run(t) /\ t \in Seq(Nat) /\ Len(t) = m /\ t # <<>>
           /\ t[1] = a /\ t[Len(t)] = a + m - 1 /\ t[m] = a + m - 1
           /\ m > 0 /\ a > 0 /\ \A i \in 1..m : t[i] = a + i - 1
  <1>1. t \in Seq(Nat) /\ Len(t) = m /\ m > 0 /\ a > 0 /\ \A i \in 1..m : t[i] = a + i - 1
    BY DEF RunOf
  <1>2. 1 \in 1..m /\ m \in 1..m
    BY <1>1
  <1>3. t[1] = a /\ t[m] = a + m - 1
    BY <1>1, <1>2
  <1> QED
    BY <1>1, <1>3 DEF Run

LEMMA RunIs ==
    ASSUME NEW t, Run(t)
    PROVE  t[1] \in Nat /\ Len(t) \in Nat /\ RunOf(t, t[1], Len(t))
  <1>1. t \in Seq(Nat) /\ Len(t) > 0 /\ t[1] > 0 /\ \A i \in 1..Len(t) : t[i] = t[1] + i - 1
    BY DEF Run
  <1>2. Len(t) \in Nat /\ 1 \in 1..Len(t)
    BY <1>1
  <1>3. t[1] \in Nat
    BY <1>1, <1>2
  <1> QED
    BY <1>1, <1>2, <1>3 DEF RunOf

\* Two texts one of which goes on where the other ends.
LEMMA TwoRuns ==
    ASSUME NEW a \in Nat, NEW m \in Nat, NEW n \in Nat, NEW s, NEW q,
           RunOf(s, a, m), RunOf(q, a + m, n)
    PROVE  RunOf(s \o q, a, m + n)
  <1>1. s \in Seq(Nat) /\ Len(s) = m /\ m > 0 /\ a > 0 /\ \A i \in 1..m : s[i] = a + i - 1
    BY DEF RunOf
  <1>2. q \in Seq(Nat) /\ Len(q) = n /\ n > 0 /\ \A i \in 1..n : q[i] = a + m + i - 1
    BY DEF RunOf
  <1>3. /\ s \o q \in Seq(Nat) /\ Len(s \o q) = Len(s) + Len(q)
        /\ \A i \in 1..(Len(s) + Len(q)) :
              (s \o q)[i] = IF i <= Len(s) THEN s[i] ELSE q[i - Len(s)]
    BY <1>1, <1>2, ConcatProperties
  <1>4. ASSUME NEW i \in 1..(m + n) PROVE (s \o q)[i] = a + i - 1
    <2>1. CASE i <= m
      <3>1. (s \o q)[i] = s[i] /\ i \in 1..m
        BY <1>1, <1>2, <1>3, <2>1
      <3> QED
        BY <1>1, <3>1
    <2>2. CASE ~(i <= m)
      <3>1. PICK j \in 1..n : j = i - m
        BY <2>2
      <3>2. (s \o q)[i] = q[j]
        BY <1>1, <1>2, <1>3, <2>2, <3>1
      <3>3. q[j] = a + m + j - 1
        BY <1>2, <3>1
      <3> QED
        BY <3>1, <3>2, <3>3
    <2> QED
      BY <2>1, <2>2
  <1>5. Len(s \o q) = m + n /\ m + n > 0
    BY <1>1, <1>2, <1>3
  <1> QED
    BY <1>1, <1>3, <1>4, <1>5 DEF RunOf

LEMMA PlacesRun ==
    ASSUME NEW f \in Nat, NEW l \in Nat, NEW b, b.first = f, b.last = l, 3 <= f, f <= l
    PROVE  RunOf(Places(b), f, l - f + 1) /\ l - f + 1 \in Nat
  <1> DEFINE z == l - f + 1
  <1>1. z \in Nat /\ z > 0
    OBVIOUS
  <1>2. Places(b) = [i \in 1..z |-> f + i - 1]
    BY DEF Places
  <1> HIDE DEF z
  <1>3. \A i \in 1..z : f + i - 1 \in Nat
    BY <1>1
  <1>4. Places(b) \in Seq(Nat) /\ Len(Places(b)) = z /\ \A i \in 1..z : Places(b)[i] = f + i - 1
    BY <1>1, <1>2, <1>3
  <1>5. RunOf(Places(b), f, z)
    BY <1>1, <1>4 DEF RunOf
  <1> QED
    BY <1>1, <1>5 DEF z

LEMMA GapRun ==
    ASSUME NEW f \in Nat, NEW b, b.first = f, 3 <= f
    PROVE  RunOf(Gap(b), f - 2, 2) /\ f - 2 \in Nat
  <1> DEFINE x == f - 2
             y == f - 1
  <1>1. x \in Nat /\ y \in Nat /\ x > 0 /\ y = x + 1
    OBVIOUS
  <1>2. Gap(b) = <<x, y>>
    BY DEF Gap
  <1> HIDE DEF x, y
  <1>3. Gap(b) \in Seq(Nat) /\ Len(Gap(b)) = 2 /\ Gap(b)[1] = x /\ Gap(b)[2] = y
    BY <1>1, <1>2
  <1>4. RunOf(Gap(b), x, 2)
    BY <1>1, <1>3 DEF RunOf
  <1> QED
    BY <1>1, <1>4 DEF x

\* A gap and a block, after a text that ends where the gap begins.
LEMMA JoinRun ==
    ASSUME NEW a \in Nat, NEW m \in Nat, NEW s, RunOf(s, a, m),
           NEW f \in Nat, NEW l \in Nat, NEW b, b.first = f, b.last = l, f = a + m + 2, f <= l
    PROVE  RunOf(s \o Gap(b) \o Places(b), a, m + 2 + (l - f + 1))
  <1>1. m > 0 /\ a > 0
    BY DEF RunOf
  <1>2. 3 <= f /\ f - 2 = a + m /\ m + 2 \in Nat /\ a + (m + 2) = f
    BY <1>1
  <1>3. RunOf(Gap(b), a + m, 2)
    BY <1>2, GapRun
  <1>4. RunOf(s \o Gap(b), a, m + 2)
    BY <1>3, TwoRuns
  <1>5. RunOf(Places(b), a + (m + 2), l - f + 1) /\ l - f + 1 \in Nat
    BY <1>2, PlacesRun
  <1> QED
    BY <1>2, <1>4, <1>5, TwoRuns

\* A gap and a block.
LEMMA FirstRun ==
    ASSUME NEW f \in Nat, NEW l \in Nat, NEW b, b.first = f, b.last = l, 3 <= f, f <= l
    PROVE  RunOf(<<>> \o Gap(b) \o Places(b), f - 2, 2 + (l - f + 1)) /\ f - 2 \in Nat
  <1>1. RunOf(Gap(b), f - 2, 2) /\ f - 2 \in Nat
    BY GapRun
  <1>2. <<>> \o Gap(b) = Gap(b)
    BY <1>1, RunEnds, ConcatEmptySeq
  <1>3. RunOf(Places(b), f, l - f + 1) /\ l - f + 1 \in Nat /\ (f - 2) + 2 = f
    BY PlacesRun
  <1> QED
    BY <1>1, <1>2, <1>3, TwoRuns

\* The end of a text.
LEMMA EndRun ==
    ASSUME NEW a \in Nat, NEW m \in Nat, NEW s, RunOf(s, a, m), NEW k \in Nat, k < m
    PROVE  RunOf(SubSeq(s, k + 1, Len(s)), a + k, m - k)
  <1> DEFINE t == SubSeq(s, k + 1, Len(s))
             z == m - k
  <1>1. s \in Seq(Nat) /\ Len(s) = m /\ m > 0 /\ a > 0 /\ \A i \in 1..m : s[i] = a + i - 1
    BY DEF RunOf
  <1>2. z \in Nat /\ z > 0 /\ z = m - k /\ a + k > 0
    BY <1>1
  <1>3. t \in Seq(Nat) /\ Len(t) = z /\ \A i \in 1..z : t[i] = s[k + i]
    BY <1>1, <1>2
  <1> HIDE DEF t, z
  <1>4. ASSUME NEW i \in 1..z PROVE t[i] = (a + k) + i - 1
    <2>1. PICK j \in 1..m : j = k + i
      BY <1>2
    <2>2. t[i] = s[j] /\ s[j] = a + j - 1
      BY <1>1, <1>3, <2>1
    <2> QED
      BY <2>1, <2>2
  <1>5. RunOf(t, a + k, z)
    BY <1>2, <1>3, <1>4 DEF RunOf
  <1> QED
    BY <1>5 DEF t, z

----------------------------------------------------------------------------
(* strip() and the overlap *)

LEMMA BlankIn == \A p : Blank(p) <=> ~In(doc, p)
  BY DEF Blank, In

\* No three places in a row are outside every block.
LEMMA ThreePlaces ==
    ASSUME NEW d, File(d), NEW p \in Nat, 1 <= p, p <= EndOf(d)
    PROVE  In(d, p) \/ In(d, p + 1) \/ In(d, p + 2)
  <1>1. PICK i \in 1..Len(d) : d[i].first - 2 <= p /\ p <= d[i].last
    BY DEF File
  <1>2. d[i].first \in Nat /\ d[i].last \in Nat /\ d[i].first <= d[i].last
    BY FileFacts
  <1>3. CASE d[i].first <= p
    BY <1>1, <1>3 DEF In
  <1>4. CASE d[i].first = p + 1 \/ d[i].first = p + 2
    BY <1>2, <1>4 DEF In
  <1> QED
    BY <1>1, <1>2, <1>3, <1>4

\* strip() takes off the blank places a text begins with, and no others.
LEMMA StripRun ==
    ASSUME File(doc), NEW a \in Nat, NEW m \in Nat, NEW s, RunOf(s, a, m), 3 <= m,
           a <= EndOf(doc)
    PROVE  \E k \in 0..2 : /\ RunOf(Strip(s), a + k, m - k)
                           /\ In(doc, a + k)
                           /\ \A i \in 1..k : ~In(doc, a + i - 1)
  <1> DEFINE P(k) == (\A i \in 1..k : Blank(s[i])) /\ ~Blank(s[k + 1])
             n == CHOOSE k \in 0..2 : P(k)
  <1>1. s[1] = a /\ s[2] = a + 1 /\ s[3] = a + 2 /\ 1 <= a
    <2>1. a > 0 /\ \A i \in 1..m : s[i] = a + i - 1
      BY RunEnds
    <2>2. 1 \in 1..m /\ 2 \in 1..m /\ 3 \in 1..m
      OBVIOUS
    <2> QED
      BY <2>1, <2>2
  <1>2. \E k \in 0..2 : P(k)
    <2>1. In(doc, a) \/ In(doc, a + 1) \/ In(doc, a + 2)
      BY <1>1, ThreePlaces
    <2>2. CASE In(doc, a)
      <3>1. P(0)
        BY <1>1, <2>2, BlankIn
      <3> QED
        BY <3>1
    <2>3. CASE ~In(doc, a) /\ In(doc, a + 1)
      <3>1. P(1)
        BY <1>1, <2>3, BlankIn
      <3> QED
        BY <3>1
    <2>4. CASE ~In(doc, a) /\ ~In(doc, a + 1) /\ In(doc, a + 2)
      <3>1. P(2)
        BY <1>1, <2>4, BlankIn
      <3> QED
        BY <3>1
    <2> QED
      BY <2>1, <2>2, <2>3, <2>4
  <1>3. n \in 0..2 /\ P(n)
    BY <1>2
  <1>4. Strip(s) = SubSeq(s, n + 1, Len(s))
    BY DEF Strip
  <1> HIDE DEF n
  <1>5. n \in Nat /\ n < m /\ (n = 0 \/ n = 1 \/ n = 2)
    BY <1>3
  <1>6. RunOf(Strip(s), a + n, m - n)
    BY <1>4, <1>5, EndRun
  <1>7. s[n + 1] = a + n /\ \A i \in 1..n : s[i] = a + i - 1
    BY <1>1, <1>5
  <1>8. In(doc, a + n) /\ \A i \in 1..n : ~In(doc, a + i - 1)
    BY <1>3, <1>7, BlankIn
  <1> QED
    BY <1>3, <1>6, <1>8

\* buf[-overlap:], for an overlap that is not 0.
LEMMA CarriedRun ==
    ASSUME NEW a \in Nat, NEW m \in Nat, NEW s, RunOf(s, a, m)
    PROVE  /\ Overlap = 0 => Carried(s) = <<>>
           /\ Overlap > 0 => \E k \in Nat : /\ k < m /\ m - k <= Overlap
                                            /\ RunOf(Carried(s), a + k, m - k)
  <1>1. s \in Seq(Nat) /\ Len(s) = m /\ m > 0
    BY DEF RunOf
  <1>2. Overlap \in Nat
    BY SplitAssumption DEF SplitAssumption
  <1>3. ASSUME Overlap = 0 PROVE Carried(s) = <<>>
    <2>1. Carried(s) = SubSeq(s, m + 1, m)
      BY <1>1, <1>3 DEF Carried
    <2> QED
      BY <1>1, <2>1, SubSeqEmpty
  <1>4. ASSUME Overlap > 0
        PROVE  \E k \in Nat : k < m /\ m - k <= Overlap /\ RunOf(Carried(s), a + k, m - k)
    <2>1. CASE m <= Overlap
      <3>1. Carried(s) = s /\ a + 0 = a /\ m - 0 = m
        BY <1>1, <2>1 DEF Carried
      <3>2. 0 \in Nat /\ 0 < m /\ m - 0 <= Overlap /\ RunOf(Carried(s), a + 0, m - 0)
        BY <1>1, <2>1, <3>1
      <3> QED
        BY <3>2
    <2>2. CASE ~(m <= Overlap)
      <3> DEFINE k == m - Overlap
      <3>1. k \in Nat /\ k < m /\ m - k <= Overlap
        BY <1>1, <1>2, <1>4, <2>2
      <3>2. Carried(s) = SubSeq(s, k + 1, Len(s))
        BY <1>1, <2>2 DEF Carried
      <3> HIDE DEF k
      <3>3. RunOf(Carried(s), a + k, m - k)
        BY <3>1, <3>2, EndRun
      <3> QED
        BY <3>1, <3>3
    <2> QED
      BY <2>1, <2>2
  <1> QED
    BY <1>3, <1>4
----------------------------------------------------------------------------
(* The chunk in the making *)

LEMMA LastEnd ==
    ASSUME NEW d, File(d), NEW i \in 1..Len(d)
    PROVE  d[i].last <= EndOf(d) /\ EndOf(d) \in Nat
  <1>1. /\ Len(d) \in Nat /\ d # <<>> /\ Len(d) \in 1..Len(d)
        /\ \A j \in 1..Len(d) : d[j].first \in Nat /\ d[j].last \in Nat /\ d[j].first <= d[j].last
    BY FileFacts
  <1>2. EndOf(d) = d[Len(d)].last
    BY <1>1 DEF EndOf
  <1>3. CASE i = Len(d)
    BY <1>1, <1>2, <1>3
  <1>4. CASE i < Len(d)
    <2>1. d[i].last + 2 < d[Len(d)].first
      BY <1>1, <1>4 DEF File
    <2> QED
      BY <1>1, <1>2, <2>1
  <1> QED
    BY <1>1, <1>3, <1>4

\* s has m places from a on, to the end l of block i, that begins at f.
Untrimmed(s, i, a, m, f, l) ==
    /\ doc[i].first = f /\ doc[i].last = l
    /\ RunOf(s, a, m) /\ a <= f /\ a + m = l + 1 /\ 3 <= m
    /\ m <= Size \/ m <= Overlap + 2 + (l - f + 1)

\* t is a piece of doc that ends with block i, and begins from a to f.
PieceFrom(t, i, a, f) ==
    /\ Piece(doc, t, i) /\ t[1] \in Nat /\ a <= t[1] /\ t[1] <= f
    /\ In(doc, a) => t[1] = a

\* A text that ends in block i and begins no later, once stripped.
LEMMA Trimmed ==
    ASSUME File(doc), NEW i \in 1..Len(doc), NEW f \in Nat, NEW l \in Nat,
           NEW a \in Nat, NEW m \in Nat, NEW s, Untrimmed(s, i, a, m, f, l)
    PROVE  PieceFrom(Strip(s), i, a, f)
  <1>0. /\ doc[i].first = f /\ doc[i].last = l
        /\ RunOf(s, a, m) /\ a <= f /\ a + m = l + 1 /\ 3 <= m
        /\ m <= Size \/ m <= Overlap + 2 + (l - f + 1)
    BY DEF Untrimmed
  <1>1. 3 <= f /\ f <= l
    BY <1>0, FileFacts
  <1>2. a <= EndOf(doc)
    BY <1>0, <1>1, LastEnd
  <1>3. PICK k \in 0..2 : /\ RunOf(Strip(s), a + k, m - k)
                          /\ In(doc, a + k)
                          /\ \A j \in 1..k : ~In(doc, a + j - 1)
    BY <1>0, <1>2, StripRun
  <1>4. PICK c \in Nat, z \in Nat : c = a + k /\ z = m - k
    BY <1>0, <1>3, RunEnds
  <1>5. /\ Run(Strip(s)) /\ Len(Strip(s)) = z /\ Strip(s)[1] = c
        /\ Strip(s)[Len(Strip(s))] = c + z - 1
    BY <1>3, <1>4, RunEnds
  <1>6. In(doc, c) /\ c + z - 1 = l /\ z <= m
    <2>1. In(doc, c)
      BY <1>3, <1>4
    <2>2. k \in Int /\ 0 <= k /\ c = a + k /\ z = m - k
      BY <1>3, <1>4
    <2>3. c + z - 1 = l /\ z <= m
      BY <1>0, <2>2
    <2> QED
      BY <2>1, <2>3
  <1>7. Overlap \in Nat /\ Size \in Nat
    BY SplitAssumption DEF SplitAssumption
  <1>8. z <= Size \/ z <= Overlap + 2 + (l - f + 1)
    BY <1>0, <1>6, <1>7
  <1>9. Piece(doc, Strip(s), i)
    BY <1>0, <1>5, <1>6, <1>8 DEF Piece
  <1>10. c <= f
    <2>1. In(doc, f)
      BY <1>0, <1>1 DEF In
    <2> SUFFICES ASSUME f < c PROVE FALSE
      OBVIOUS
    <2>2. PICK j \in 1..k : a + j - 1 = f
      <3>1. f - a + 1 \in 1..k /\ a + (f - a + 1) - 1 = f
        BY <1>0, <1>3, <1>4
      <3> QED
        BY <3>1
    <2> QED
      BY <1>3, <2>1, <2>2
  <1>11. In(doc, a) => c = a
    <2> SUFFICES ASSUME In(doc, a), c # a PROVE FALSE
      OBVIOUS
    <2>1. 1 \in 1..k /\ a + 1 - 1 = a
      BY <1>3, <1>4
    <2> QED
      BY <1>3, <2>1
  <1>12. a <= c
    BY <1>3, <1>4
  <1> QED
    BY <1>5, <1>9, <1>10, <1>11, <1>12 DEF PieceFrom

\* t has m places, from a to e.
Spans(t, a, m, e) ==
    /\ RunOf(t, a, m) /\ t[1] = a /\ Len(t) = m /\ a > 0 /\ m > 0
    /\ t[Len(t)] = e /\ a + m = e + 1

LEMMA PieceFacts ==
    ASSUME NEW d, File(d), NEW t, NEW i, Piece(d, t, i)
    PROVE  /\ i \in 1..Len(d) /\ In(d, t[1]) /\ t \in Seq(Nat) /\ t # <<>>
           /\ \E a \in Nat, m \in Nat, l \in Nat : Spans(t, a, m, l) /\ d[i].last = l
  <1>1. Run(t) /\ In(d, t[1]) /\ i \in 1..Len(d) /\ t[Len(t)] = d[i].last
    BY DEF Piece
  <1>2. PICK a \in Nat, m \in Nat : RunOf(t, a, m) /\ a = t[1] /\ m = Len(t)
    BY <1>1, RunIs
  <1>3. RunOf(t, a, m)
    BY <1>2
  <1>4. t \in Seq(Nat) /\ t # <<>> /\ t[Len(t)] = a + m - 1 /\ m > 0 /\ a > 0
    BY <1>3, RunEnds
  <1>5. PICK l \in Nat : l = d[i].last
    BY <1>1, FileFacts
  <1>6. a + m = l + 1
    <2>1. l = a + m - 1
      BY <1>1, <1>4, <1>5
    <2> QED
      BY <2>1
  <1>7. Spans(t, a, m, l)
    BY <1>1, <1>2, <1>4, <1>5, <1>6 DEF Spans
  <1> QED
    BY <1>1, <1>4, <1>5, <1>7

\* A block that fits is added to the text there is, or begins one.
LEMMA Joined ==
    ASSUME File(doc), NEW n \in Nat, n < Len(doc), NEW buf \in Seq(Nat),
           buf = <<>> => n = 0, buf # <<>> => n > 0 /\ Piece(doc, buf, n),
           Fits(buf, doc[n + 1]),
           NEW t, t = Strip(buf \o Gap(doc[n + 1]) \o Places(doc[n + 1]))
    PROVE  /\ Piece(doc, t, n + 1) /\ t[1] \in Nat /\ t[1] <= doc[n + 1].first
           /\ buf # <<>> => t[1] = buf[1]
  <1>1. PICK i \in 1..Len(doc) : i = n + 1
    BY FileFacts
  <1>2. PICK f \in Nat, l \in Nat : doc[i].first = f /\ doc[i].last = l /\ 3 <= f /\ f <= l
    BY FileFacts
  <1> DEFINE b == doc[i]
             w == l - f + 1
  <1>3. w \in Nat /\ w > 0 /\ w = l - f + 1
    BY <1>2
  <1>4. Len(Places(b)) = w
    <2>1. RunOf(Places(b), f, w)
      BY <1>2, PlacesRun
    <2> QED
      BY <2>1 DEF RunOf
  <1>5. Overlap \in Nat /\ Size \in Nat
    BY SplitAssumption DEF SplitAssumption
  <1>6. t = Strip(buf \o Gap(b) \o Places(b))
    BY <1>1
  <1>7. Len(buf) + w + 2 <= Size /\ Len(buf) \in Nat
    <2>1. Len(buf) + Len(Places(b)) + 2 <= Size
      BY <1>1 DEF Fits
    <2> QED
      BY <1>4, <2>1
  <1>8. CASE buf = <<>>
    <2>1. PICK a \in Nat : a = f - 2
      BY <1>2
    <2>2. RunOf(<<>> \o Gap(b) \o Places(b), f - 2, 2 + w)
      BY <1>2, FirstRun
    <2> HIDE DEF b, w
    <2>3. PICK m \in Nat : m = 2 + w
      BY <1>3
    <2>4. RunOf(buf \o Gap(b) \o Places(b), a, m)
      BY <1>8, <2>1, <2>2, <2>3
    <2>5. a <= f /\ a + m = l + 1 /\ 3 <= m /\ m <= Overlap + 2 + (l - f + 1)
      BY <1>2, <1>3, <1>5, <2>1, <2>3
    <2>6. Piece(doc, t, i) /\ t[1] \in Nat /\ t[1] <= f
      <3> DEFINE u == buf \o Gap(b) \o Places(b)
      <3>1. RunOf(u, a, m) /\ t = Strip(u)
        BY <1>6, <2>4
      <3> HIDE DEF u
      <3>2. Untrimmed(u, i, a, m, f, l)
        BY <1>2, <2>5, <3>1 DEF Untrimmed
      <3>3. PieceFrom(t, i, a, f)
        BY <3>1, <3>2, Trimmed
      <3> QED
        BY <3>3 DEF PieceFrom
    <2> QED
      BY <1>1, <1>2, <1>8, <2>6
  <1>9. CASE buf # <<>>
    <2>1. Piece(doc, buf, n) /\ n \in 1..Len(doc)
      BY <1>9, FileFacts
    <2>2. In(doc, buf[1])
      BY <2>1, PieceFacts
    <2>13. PICK a \in Nat, m \in Nat, e \in Nat : Spans(buf, a, m, e) /\ doc[n].last = e
      BY <2>1, PieceFacts
    <2>3. /\ RunOf(buf, a, m) /\ buf[1] = a /\ Len(buf) = m /\ a > 0 /\ m > 0
          /\ buf[Len(buf)] = e /\ a + m = e + 1
      BY <2>13 DEF Spans
    <2>4. doc[i].first = doc[n].last + 3
      BY <1>1, <2>1 DEF File
    <2>5. f = e + 3
      BY <1>2, <2>13, <2>4
    <2>6. f = a + m + 2
      BY <2>3, <2>5
    <2>7. RunOf(buf \o Gap(b) \o Places(b), a, m + 2 + w)
      BY <1>2, <2>3, <2>6, JoinRun
    <2> HIDE DEF b, w
    <2>8. PICK z \in Nat : z = m + 2 + w
      BY <1>3
    <2>9. RunOf(buf \o Gap(b) \o Places(b), a, z)
      BY <2>7, <2>8
    <2>10. a <= f /\ a + z = l + 1 /\ 3 <= z /\ z <= Size
      <3>1. m + w + 2 <= Size
        BY <1>7, <2>3
      <3>2. w \in Nat /\ w = l - f + 1 /\ f <= l
        BY <1>2, <1>3
      <3>3. z <= Size
        BY <1>5, <2>8, <3>1, <3>2
      <3>4. a <= f /\ a + z = l + 1 /\ 3 <= z
        <4>1. m > 0
          BY <2>3
        <4> QED
          BY <2>6, <2>8, <3>2, <4>1
      <3> QED
        BY <3>3, <3>4
    <2>11. Piece(doc, t, i) /\ t[1] \in Nat /\ t[1] <= f /\ (In(doc, a) => t[1] = a)
      <3> DEFINE u == buf \o Gap(b) \o Places(b)
      <3>1. RunOf(u, a, z) /\ t = Strip(u)
        BY <1>6, <2>9
      <3> HIDE DEF u
      <3>2. Untrimmed(u, i, a, z, f, l)
        BY <1>2, <2>10, <3>1 DEF Untrimmed
      <3>3. PieceFrom(t, i, a, f)
        BY <3>1, <3>2, Trimmed
      <3> QED
        BY <3>3 DEF PieceFrom
    <2> QED
      BY <1>1, <1>2, <2>2, <2>3, <2>11
  <1> QED
    BY <1>8, <1>9

\* One that does not fit comes after the tail of the text there is.
LEMMA Tailed ==
    ASSUME File(doc), NEW n \in Nat, n < Len(doc), NEW buf \in Seq(Nat),
           buf = <<>> => n = 0, buf # <<>> => n > 0 /\ Piece(doc, buf, n),
           NEW t, t = IF Carried(buf) = <<>> THEN Places(doc[n + 1])
                      ELSE Strip(Carried(buf) \o Gap(doc[n + 1]) \o Places(doc[n + 1]))
    PROVE  /\ Piece(doc, t, n + 1) /\ t[1] \in Nat /\ t[1] <= doc[n + 1].first
           /\ buf # <<>> => buf[Len(buf)] - t[1] < Overlap
  <1>1. PICK i \in 1..Len(doc) : i = n + 1
    BY FileFacts
  <1>2. PICK f \in Nat, l \in Nat : doc[i].first = f /\ doc[i].last = l /\ 3 <= f /\ f <= l
    BY FileFacts
  <1> DEFINE b == doc[i]
             w == l - f + 1
  <1>3. w \in Nat /\ w > 0 /\ w = l - f + 1
    BY <1>2
  <1>4. Overlap \in Nat /\ Size \in Nat
    BY SplitAssumption DEF SplitAssumption
  <1>5. t = IF Carried(buf) = <<>> THEN Places(b) ELSE Strip(Carried(buf) \o Gap(b) \o Places(b))
    BY <1>1
  <1>6. Piece(doc, Places(b), i) /\ Places(b)[1] = f
    <2>1. RunOf(Places(b), f, w)
      BY <1>2, PlacesRun
    <2> HIDE DEF w
    <2>2. PICK z \in Nat : z = w
      BY <1>3
    <2>3. RunOf(Places(b), f, z)
      BY <2>1, <2>2
    <2>4. /\ Run(Places(b)) /\ Len(Places(b)) = z /\ Places(b)[1] = f
          /\ Places(b)[Len(Places(b))] = f + z - 1
      BY <2>3, RunEnds
    <2>5. In(doc, f)
      BY <1>2 DEF In
    <2>6. f + z - 1 = l /\ z <= Overlap + 2 + (l - f + 1)
      BY <1>2, <1>3, <1>4, <2>2
    <2> QED
      BY <1>2, <2>4, <2>5, <2>6 DEF Piece
  <1>7. CASE buf = <<>>
    <2>1. Carried(buf) = <<>>
      BY <1>4, <1>7 DEF Carried
    <2> QED
      BY <1>1, <1>2, <1>5, <1>6, <1>7, <2>1
  <1>8. CASE buf # <<>>
    <2>1. Piece(doc, buf, n) /\ n \in 1..Len(doc)
      BY <1>8, FileFacts
    <2>13. PICK a \in Nat, m \in Nat, e \in Nat : Spans(buf, a, m, e) /\ doc[n].last = e
      BY <2>1, PieceFacts
    <2>2. /\ RunOf(buf, a, m) /\ buf[1] = a /\ Len(buf) = m /\ a > 0 /\ m > 0
          /\ buf[Len(buf)] = e /\ a + m = e + 1
      BY <2>13 DEF Spans
    <2>3. doc[i].first = doc[n].last + 3
      BY <1>1, <2>1 DEF File
    <2>4. f = e + 3 /\ f = a + m + 2
      <3>1. f = e + 3
        BY <1>2, <2>13, <2>3
      <3> QED
        BY <2>2, <3>1
    <2>5. CASE Overlap = 0
      <3>1. t = Places(b)
        BY <1>5, <2>2, <2>5, CarriedRun
      <3>2. buf[Len(buf)] - f < Overlap
        BY <2>2, <2>4, <2>5
      <3> QED
        BY <1>1, <1>2, <1>6, <3>1, <3>2
    <2>6. CASE Overlap > 0
      <3>1. PICK k \in Nat : k < m /\ m - k <= Overlap /\ RunOf(Carried(buf), a + k, m - k)
        BY <2>2, <2>6, CarriedRun
      <3>2. PICK c \in Nat, z \in Nat : c = a + k /\ z = m - k /\ z > 0
        BY <3>1
      <3>3. RunOf(Carried(buf), c, z) /\ f = c + z + 2
        BY <2>4, <3>1, <3>2
      <3>4. Carried(buf) # <<>>
        BY <3>3, RunEnds
      <3>5. t = Strip(Carried(buf) \o Gap(b) \o Places(b))
        BY <1>5, <3>4
      <3>6. RunOf(Carried(buf) \o Gap(b) \o Places(b), c, z + 2 + w)
        BY <1>2, <3>3, JoinRun
      <3> HIDE DEF b, w
      <3>7. PICK q \in Nat : q = z + 2 + w
        BY <1>3
      <3>8. RunOf(Carried(buf) \o Gap(b) \o Places(b), c, q)
        BY <3>6, <3>7
      <3>9. c <= f /\ c + q = l + 1 /\ 3 <= q /\ q <= Overlap + 2 + (l - f + 1)
        <4>1. z <= Overlap
          BY <3>1, <3>2
        <4> QED
          BY <1>2, <1>3, <1>4, <3>2, <3>3, <3>7, <4>1
      <3>10. Piece(doc, t, i) /\ t[1] \in Nat /\ c <= t[1] /\ t[1] <= f
        <4> DEFINE u == Carried(buf) \o Gap(doc[i]) \o Places(doc[i])
        <4>1. RunOf(u, c, q) /\ t = Strip(u)
          BY <3>5, <3>8 DEF b
        <4> HIDE DEF u
        <4>2. Untrimmed(u, i, c, q, f, l)
          BY <1>2, <3>9, <4>1 DEF Untrimmed
        <4>3. PieceFrom(t, i, c, f)
          BY <4>1, <4>2, Trimmed
        <4> QED
          BY <4>3 DEF PieceFrom
      <3>11. buf[Len(buf)] - t[1] < Overlap
        <4>1. e - c < Overlap
          BY <1>4, <2>2, <3>1, <3>2
        <4> QED
          BY <1>4, <2>2, <3>10, <4>1
      <3> QED
        BY <1>1, <1>2, <3>10, <3>11
    <2> QED
      BY <1>4, <2>5, <2>6
  <1> QED
    BY <1>7, <1>8
----------------------------------------------------------------------------
(* One block *)

LEMMA ConcatOne ==
    ASSUME NEW T, NEW s \in Seq(T), NEW x \in T
    PROVE  s \o <<x>> = Append(s, x)
  OBVIOUS

LEMMA ConcatTwo ==
    ASSUME NEW T, NEW s \in Seq(T), NEW x \in T, NEW y \in T
    PROVE  s \o <<x, y>> = Append(Append(s, x), y)
  OBVIOUS

LEMMA ConcatNone ==
    ASSUME NEW T, NEW s \in Seq(T)
    PROVE  s \o <<>> = s
  OBVIOUS

\* A tag that was right stays right when more blocks are read.
LEMMA TaggedOn ==
    ASSUME NEW d, NEW n \in Nat, NEW c, Tagged(d, c, n)
    PROVE  Tagged(d, c, n + 1)
  <1>1. PICK b \in 1..n : /\ Piece(d, c.text, b)
                          /\ \/ Under(d, c.section, b)
                             \/ b + 1 <= n /\ d[b + 1].heading /\ c.section = b + 1
    BY DEF Tagged
  <1>2. b \in 1..(n + 1) /\ (b + 1 <= n => b + 1 <= n + 1)
    OBVIOUS
  <1> QED
    BY <1>1, <1>2 DEF Tagged

LEMMA CutOn ==
    ASSUME NEW d, NEW n \in Nat, NEW s, Cut(d, s, n)
    PROVE  Cut(d, s, n + 1)
  BY TaggedOn DEF Cut

\* The section in force after one more block.
LEMMA SectionNext ==
    ASSUME File(doc), NEW n \in Nat, n < Len(doc), NEW s \in Nat, Under(doc, s, n)
    PROVE  /\ SectionAt(s, n + 1) \in Nat /\ Under(doc, SectionAt(s, n + 1), n + 1)
           /\ \/ SectionAt(s, n + 1) = s /\ Under(doc, SectionAt(s, n + 1), n)
              \/ doc[n + 1].heading /\ SectionAt(s, n + 1) = n + 1
  <1>1. PICK k \in 1..Len(doc) : k = n + 1
    BY FileFacts
  <1>2. doc[k].heading \in BOOLEAN
    BY FileFacts
  <1>3. CASE doc[k].heading
    <2>1. SectionAt(s, k) = k
      BY <1>3 DEF SectionAt
    <2>2. Under(doc, k, k)
      BY <1>3 DEF Under
    <2> QED
      BY <1>1, <1>3, <2>1, <2>2
  <1>4. CASE ~doc[k].heading
    <2>1. SectionAt(s, k) = s
      BY <1>4 DEF SectionAt
    <2>2. Under(doc, s, k)
      <3>1. s = 0 \/ (s \in 1..k /\ doc[s].heading)
        BY <1>1 DEF Under
      <3>2. \A b \in 1..k : doc[b].heading => b <= s
        BY <1>1, <1>4 DEF Under
      <3> QED
        BY <3>1, <3>2 DEF Under
    <2> QED
      BY <1>1, <2>1, <2>2
  <1> QED
    BY <1>2, <1>3, <1>4

\* The text so far becomes a chunk.
LEMMA PutDownCut ==
    ASSUME NEW d, NEW n \in Nat, NEW s, NEW buf, NEW k \in Nat, NEW q \in Nat,
           Cut(d, s, k), Complete(d, s, buf, n), buf \in Seq(Nat), buf # <<>>,
           s # <<>> => s[Len(s)].text[Len(s[Len(s)].text)] - buf[1] < Overlap,
           NEW c, c = [text |-> buf, section |-> q], Tagged(d, c, k)
    PROVE  /\ Cut(d, Append(s, c), k) /\ Append(s, c) # <<>>
           /\ Len(Append(s, c)) \in 1..Len(Append(s, c))
           /\ Append(s, c)[Len(Append(s, c))].text = buf
           /\ \A b \in 1..n : \E i \in 1..Len(Append(s, c)) : Holds(d, Append(s, c)[i].text, b)
  <1> DEFINE e == Append(s, c)
             l == Len(s)
  <1>1. s \in Seq(ChunkType) /\ c \in ChunkType /\ c.text = buf
    BY DEF Cut, ChunkType
  <1>2. /\ e \in Seq(ChunkType) /\ Len(e) = l + 1 /\ e[l + 1] = c /\ e # <<>>
        /\ \A i \in 1..l : e[i] = s[i]
        /\ l \in Nat
    BY <1>1, AppendFacts
  <1>3. s # <<>> <=> l > 0
    BY <1>1, LengthZero
  <1> HIDE DEF e
  <1>4. \A i \in 1..(l + 1) : Tagged(d, e[i], k)
    <2>1. \A i \in 1..l : Tagged(d, e[i], k)
      BY <1>2 DEF Cut
    <2>2. Tagged(d, e[l + 1], k)
      BY <1>2
    <2> QED
      BY <1>2, <2>1, <2>2, SMTT(30)
  <1>5. ASSUME NEW i \in 1..(l + 1), NEW j \in 1..(l + 1), j = i + 1
        PROVE  e[i].text[Len(e[i].text)] - e[j].text[1] < Overlap
    <2>1. i \in 1..l /\ e[i] = s[i]
      BY <1>2, <1>5, SMTT(30)
    <2>2. CASE j \in 1..l
      <3>1. e[j] = s[j]
        BY <1>2, <2>2
      <3> QED
        BY <1>5, <2>1, <2>2, <3>1 DEF Cut
    <2>3. CASE j = l + 1
      <3>1. i = l /\ s # <<>> /\ e[j].text = buf
        BY <1>1, <1>2, <1>3, <1>5, <2>1, <2>3
      <3> QED
        BY <2>1, <3>1
    <2> QED
      BY <1>2, <2>2, <2>3
  <1>6. Cut(d, e, k)
    BY <1>2, <1>4, <1>5 DEF Cut
  <1>7. ASSUME NEW b \in 1..n PROVE \E i \in 1..Len(e) : Holds(d, e[i].text, b)
    <2>1. CASE \E i \in 1..l : Holds(d, s[i].text, b)
      BY <1>2, <2>1
    <2>2. CASE Holds(d, buf, b)
      <3>1. l + 1 \in 1..Len(e) /\ Holds(d, e[l + 1].text, b)
        BY <1>1, <1>2, <2>2
      <3> QED
        BY <3>1
    <2> QED
      BY <2>1, <2>2 DEF Complete
  <1>8. Len(e) \in 1..Len(e) /\ e[Len(e)].text = buf
    BY <1>1, <1>2
  <1> QED
    BY <1>2, <1>6, <1>7, <1>8 DEF e

\* Where _chunk_text is after one more block, whose text ends in t.
LEMMA OneMore ==
    ASSUME File(doc), NEW n \in Nat, n < Len(doc), NEW s, NEW t, NEW section \in Nat,
           Cut(doc, s, n + 1), Under(doc, section, n + 1), Piece(doc, t, n + 1),
           t[1] <= doc[n + 1].first,
           \A b \in 1..n : (\E i \in 1..Len(s) : Holds(doc, s[i].text, b)) \/ Holds(doc, t, b),
           s # <<>> => s[Len(s)].text[Len(s[Len(s)].text)] - t[1] < Overlap
    PROVE  Splitting(doc, s, t, section, n + 1)
  <1>1. t \in Seq(Nat) /\ t # <<>> /\ t[Len(t)] = doc[n + 1].last
    <2>1. t \in Seq(Nat) /\ t # <<>>
      BY PieceFacts
    <2> QED
      BY <2>1 DEF Piece
  <1>2. PICK k \in 1..Len(doc) : k = n + 1
    BY FileFacts
  <1>3. doc[k].last \in Nat
    BY FileFacts
  <1>4. Holds(doc, t, k)
    BY <1>1, <1>2, <1>3 DEF Holds
  <1>5. \A b \in 1..k : b \in 1..n \/ b = k
    BY <1>2
  <1>6. Complete(doc, s, t, n + 1)
    BY <1>1, <1>2, <1>4, <1>5 DEF Complete
  <1>7. n + 1 \in 0..Len(doc)
    BY <1>2, FileFacts
  <1> QED
    BY <1>1, <1>6, <1>7 DEF Splitting

\* Before the first block there is no chunk.
LEMMA NoneYet ==
    ASSUME NEW d, NEW s, Cut(d, s, 0)
    PROVE  s = <<>>
  <1>1. s \in Seq(ChunkType) /\ \A i \in 1..Len(s) : FALSE
    BY DEF Cut, Tagged
  <1> QED
    BY <1>1, LengthZero

\* A block that lies whole in a text lies in one that begins where it does and
\* ends later.
LEMMA HoldsOn ==
    ASSUME File(doc), NEW n \in Nat, n < Len(doc), NEW buf, NEW t,
           Piece(doc, buf, n), Piece(doc, t, n + 1), t[1] = buf[1],
           NEW b \in 1..n, Holds(doc, buf, b)
    PROVE  Holds(doc, t, b)
  <1>1. PICK k \in 1..Len(doc) : k = n + 1
    BY FileFacts
  <1>2. n \in 1..Len(doc) /\ b \in 1..Len(doc)
    BY FileFacts DEF Piece
  <1>3. buf[Len(buf)] = doc[n].last /\ t[Len(t)] = doc[k].last
    BY <1>1 DEF Piece
  <1>4. doc[b].last \in Nat /\ doc[n].last \in Nat /\ doc[k].last \in Nat
        /\ doc[k].first \in Nat /\ doc[k].first <= doc[k].last
    BY <1>2, FileFacts
  <1>5. doc[n].last + 2 < doc[k].first
    BY <1>1, <1>2 DEF File
  <1>6. buf[1] <= doc[b].first /\ doc[b].last <= doc[n].last
    BY <1>3 DEF Holds
  <1>7. PICK x \in Nat, y \in Nat, z \in Nat, w \in Nat :
           x = doc[b].last /\ y = doc[n].last /\ z = doc[k].first /\ w = doc[k].last
    BY <1>4
  <1>8. x <= w
    <2>1. x <= y
      BY <1>6, <1>7
    <2>2. y + 2 < z
      BY <1>5, <1>7
    <2>3. z <= w
      BY <1>4, <1>7
    <2> QED
      BY <2>1, <2>2, <2>3
  <1>9. doc[b].last <= t[Len(t)] /\ t[1] <= doc[b].first
    BY <1>3, <1>6, <1>7, <1>8
  <1> QED
    BY <1>9 DEF Holds

LEMMA JoinKeeps ==
    ASSUME File(doc), NEW n \in Nat, n < Len(doc), NEW s, NEW buf, NEW section,
           Splitting(doc, s, buf, section, n), Fits(buf, doc[n + 1])
    PROVE  Splitting(doc, s, Strip(buf \o Gap(doc[n + 1]) \o Places(doc[n + 1])),
                     SectionAt(section, n + 1), n + 1)
  <1> DEFINE t == Strip(buf \o Gap(doc[n + 1]) \o Places(doc[n + 1]))
             q == SectionAt(section, n + 1)
  <1>1. /\ Cut(doc, s, n) /\ Under(doc, section, n) /\ Complete(doc, s, buf, n)
        /\ buf \in Seq(Nat) /\ section \in Nat
        /\ buf # <<>> => n > 0 /\ Piece(doc, buf, n)
        /\ n > 0 => buf # <<>>
        /\ s # <<>> /\ buf # <<>> => s[Len(s)].text[Len(s[Len(s)].text)] - buf[1] < Overlap
    BY DEF Splitting
  <1>2. buf = <<>> => n = 0
    BY <1>1
  <1>3. /\ Piece(doc, t, n + 1) /\ t[1] \in Nat /\ t[1] <= doc[n + 1].first
        /\ buf # <<>> => t[1] = buf[1]
    BY <1>1, <1>2, Joined
  <1>4. q \in Nat /\ Under(doc, q, n + 1)
    BY <1>1, SectionNext
  <1> HIDE DEF t, q
  <1>5. Cut(doc, s, n + 1)
    BY <1>1, CutOn
  <1>6. ASSUME NEW b \in 1..n
        PROVE  (\E i \in 1..Len(s) : Holds(doc, s[i].text, b)) \/ Holds(doc, t, b)
    <2>1. CASE \E i \in 1..Len(s) : Holds(doc, s[i].text, b)
      BY <2>1
    <2>2. CASE buf # <<>> /\ Holds(doc, buf, b)
      BY <1>1, <1>3, <2>2, HoldsOn
    <2> QED
      BY <1>1, <2>1, <2>2 DEF Complete
  <1>7. s # <<>> => s[Len(s)].text[Len(s[Len(s)].text)] - t[1] < Overlap
    <2>1. CASE buf = <<>>
      BY <1>1, <1>2, <2>1, NoneYet
    <2>2. CASE buf # <<>>
      BY <1>1, <1>3, <2>2
    <2> QED
      BY <2>1, <2>2
  <1>8. Splitting(doc, s, t, q, n + 1)
    BY <1>3, <1>4, <1>5, <1>6, <1>7, OneMore
  <1> QED
    BY <1>8 DEF t, q

LEMMA FlushKeeps ==
    ASSUME File(doc), NEW n \in Nat, n < Len(doc), NEW s, NEW buf, NEW section,
           Splitting(doc, s, buf, section, n),
           NEW t, t = IF Carried(buf) = <<>> THEN Places(doc[n + 1])
                      ELSE Strip(Carried(buf) \o Gap(doc[n + 1]) \o Places(doc[n + 1]))
    PROVE  Splitting(doc, s \o PutDown(buf, SectionAt(section, n + 1)), t,
                     SectionAt(section, n + 1), n + 1)
  <1> DEFINE q == SectionAt(section, n + 1)
  <1>1. /\ Cut(doc, s, n) /\ Under(doc, section, n) /\ Complete(doc, s, buf, n)
        /\ buf \in Seq(Nat) /\ section \in Nat
        /\ buf # <<>> => n > 0 /\ Piece(doc, buf, n)
        /\ n > 0 => buf # <<>>
        /\ s # <<>> /\ buf # <<>> => s[Len(s)].text[Len(s[Len(s)].text)] - buf[1] < Overlap
    BY DEF Splitting
  <1>2. buf = <<>> => n = 0
    BY <1>1
  <1>3. /\ Piece(doc, t, n + 1) /\ t[1] \in Nat /\ t[1] <= doc[n + 1].first
        /\ buf # <<>> => buf[Len(buf)] - t[1] < Overlap
    BY <1>1, <1>2, Tailed
  <1>4. /\ q \in Nat /\ Under(doc, q, n + 1)
        /\ (q = section /\ Under(doc, q, n)) \/ (doc[n + 1].heading /\ q = n + 1)
    BY <1>1, SectionNext
  <1> HIDE DEF q
  <1>5. Cut(doc, s, n + 1) /\ s \in Seq(ChunkType)
    BY <1>1, CutOn DEF Cut
  <1>6. CASE buf = <<>>
    <2>1. s = <<>> /\ n = 0
      BY <1>1, <1>2, <1>6, NoneYet
    <2>2. s \o PutDown(buf, q) = s
      BY <1>5, <1>6, ConcatNone DEF PutDown
    <2>3. Splitting(doc, s, t, q, n + 1)
      <3>1. \A b \in 1..n : (\E i \in 1..Len(s) : Holds(doc, s[i].text, b)) \/ Holds(doc, t, b)
        BY <2>1
      <3>2. ~(s # <<>>)
        BY <2>1
      <3> QED
        BY <1>3, <1>4, <1>5, <3>1, <3>2, OneMore
    <2> QED
      BY <2>2, <2>3 DEF q
  <1>7. CASE buf # <<>>
    <2> DEFINE c == [text |-> buf, section |-> q]
               e == Append(s, c)
    <2>1. c \in ChunkType /\ c.text = buf /\ c.section = q
      BY <1>1, <1>4 DEF ChunkType
    <2>2. n \in 1..(n + 1) /\ Piece(doc, buf, n)
      BY <1>1, <1>7
    <2>3. Tagged(doc, c, n + 1)
      BY <1>4, <2>1, <2>2 DEF Tagged
    <2>4. c = [text |-> buf, section |-> q]
      OBVIOUS
    <2> HIDE DEF c
    <2>5. s \o PutDown(buf, q) = e
      <3>1. PutDown(buf, q) = <<c>>
        BY <1>7, <2>4 DEF PutDown
      <3> QED
        BY <1>5, <2>1, <3>1, ConcatOne
    <2>6. n + 1 \in Nat
      OBVIOUS
    <2>7. s # <<>> => s[Len(s)].text[Len(s[Len(s)].text)] - buf[1] < Overlap
      BY <1>1, <1>7
    <2>8. /\ Cut(doc, e, n + 1) /\ e[Len(e)].text = buf
          /\ \A b \in 1..n : \E i \in 1..Len(e) : Holds(doc, e[i].text, b)
      BY <1>1, <1>4, <1>5, <1>7, <2>3, <2>4, <2>6, <2>7, PutDownCut, SMTT(30)
    <2> HIDE DEF e
    <2>9. e[Len(e)].text[Len(e[Len(e)].text)] - t[1] < Overlap
      BY <1>3, <1>7, <2>8
    <2>10. Splitting(doc, e, t, q, n + 1)
      BY <1>3, <1>4, <2>8, <2>9, OneMore
    <2> QED
      BY <2>5, <2>10 DEF q
  <1> QED
    BY <1>6, <1>7

\* What the last text leaves is a whole cut.
LEMMA LastPutDown ==
    ASSUME File(doc), NEW n \in Nat, NEW s, NEW buf, NEW section,
           Splitting(doc, s, buf, section, n)
    PROVE  /\ Cut(doc, s \o PutDown(buf, section), n)
           /\ Complete(doc, s \o PutDown(buf, section), <<>>, n)
  <1>1. /\ Cut(doc, s, n) /\ Under(doc, section, n) /\ Complete(doc, s, buf, n)
        /\ buf \in Seq(Nat) /\ section \in Nat
        /\ buf # <<>> => n > 0 /\ Piece(doc, buf, n)
        /\ n > 0 => buf # <<>>
        /\ s # <<>> /\ buf # <<>> => s[Len(s)].text[Len(s[Len(s)].text)] - buf[1] < Overlap
    BY DEF Splitting
  <1>2. s \in Seq(ChunkType)
    BY <1>1 DEF Cut
  <1>3. CASE buf = <<>>
    <2>1. s \o PutDown(buf, section) = s
      BY <1>2, <1>3, ConcatNone DEF PutDown
    <2> QED
      BY <1>1, <1>3, <2>1 DEF Complete
  <1>4. CASE buf # <<>>
    <2> DEFINE c == [text |-> buf, section |-> section]
               e == Append(s, c)
    <2>1. c \in ChunkType /\ c.text = buf /\ c.section = section
      BY <1>1 DEF ChunkType
    <2>2. n \in 1..n /\ Piece(doc, buf, n)
      BY <1>1, <1>4
    <2>3. Tagged(doc, c, n)
      BY <1>1, <2>1, <2>2 DEF Tagged
    <2>4. c = [text |-> buf, section |-> section]
      OBVIOUS
    <2> HIDE DEF c
    <2>5. s \o PutDown(buf, section) = e
      <3>1. PutDown(buf, section) = <<c>>
        BY <1>4, <2>4 DEF PutDown
      <3> QED
        BY <1>2, <2>1, <3>1, ConcatOne
    <2>6. s # <<>> => s[Len(s)].text[Len(s[Len(s)].text)] - buf[1] < Overlap
      BY <1>1, <1>4
    <2>7. /\ Cut(doc, e, n)
          /\ \A b \in 1..n : \E i \in 1..Len(e) : Holds(doc, e[i].text, b)
      BY <1>1, <1>4, <2>3, <2>4, <2>6, PutDownCut
    <2> QED
      BY <2>5, <2>7 DEF Complete
  <1> QED
    BY <1>3, <1>4
----------------------------------------------------------------------------
(* The invariant *)

SplitType == [read : Nat, next : Nat \ {0}, section : Nat, buf : Seq(Nat), chunks : Seq(ChunkType)]
IndexType == [chunks : Seq(ChunkType), vectors : Nat, blocks : Nat]

\* Nothing was cut out of nothing.
LEMMA NothingCut ==
    ASSUME NEW d
    PROVE  /\ Cut(d, <<>>, 0) /\ Under(d, 0, 0) /\ \A buf : Complete(d, <<>>, buf, 0)
           /\ d \in Seq(BlockType) => Splitting(d, <<>>, <<>>, 0, 0)
  <1>1. <<>> \in Seq(ChunkType) /\ Len(<<>>) = 0 /\ 1..0 = {} /\ <<>> \in Seq(Nat)
    OBVIOUS
  <1>2. Cut(d, <<>>, 0)
    BY <1>1 DEF Cut
  <1>3. Under(d, 0, 0) /\ \A buf : Complete(d, <<>>, buf, 0)
    BY <1>1 DEF Under, Complete
  <1>4. d \in Seq(BlockType) => 0 \in 0..Len(d)
    OBVIOUS
  <1> QED
    BY <1>1, <1>2, <1>3, <1>4 DEF Splitting

LEMMA NoSplitType == NoSplit \in SplitType /\ NoSplit.read = 0 /\ NoSplit.next = 1
  BY DEF NoSplit, SplitType, General

LEMMA InitInv == Init => KInv
  <1> SUFFICES ASSUME Init PROVE KInv
    OBVIOUS
  <1>1. doc = <<>> /\ doc \in Seq(BlockType) /\ Len(doc) = 0 /\ EndOf(doc) = 0
    BY DEF Init, EndOf
  <1>2. File(doc)
    BY <1>1 DEF File
  <1>3. SplitInv
    BY <1>1, NoSplitType DEF Init, SplitInv, SplitType
  <1>4. /\ index = [chunks |-> <<>>, vectors |-> 0, blocks |-> 0]
        /\ <<>> \in Seq(ChunkType) /\ Len(<<>>) = 0
    BY DEF Init
  <1>5. IndexInv
    BY <1>1, <1>4, NothingCut DEF IndexInv
  <1> QED
    BY <1>2, <1>3, <1>5 DEF Init, KInv

\* A file that grows changes nothing of what was cut.
LEMMA GrowKeeps ==
    ASSUME KInv, File(doc'), Extends(doc, doc'), UNCHANGED <<pc, split, index, ready>>
    PROVE  KInv'
  <1>1. /\ File(doc) /\ SplitInv /\ IndexInv
        /\ pc' = pc /\ split' = split /\ index' = index /\ ready' = ready
    BY DEF KInv
  <1>2. Len(doc) \in Nat /\ Len(doc') \in Nat /\ Len(doc) <= Len(doc')
    BY <1>1, FileFacts DEF Extends
  <1>3. split \in SplitType /\ split.read <= Len(doc) /\ split.next <= split.read + 1
    BY <1>1 DEF SplitInv, SplitType
  <1>4. split.read \in 0..Len(doc) /\ split.next - 1 \in 0..Len(doc)
    BY <1>2, <1>3 DEF SplitType
  <1>5. /\ \A s, n : n \in 0..Len(doc) /\ Under(doc, s, n) => Under(doc', s, n)
        /\ \A t, b : Piece(doc, t, b) => Piece(doc', t, b)
        /\ \A s, n : n \in 0..Len(doc) /\ Cut(doc, s, n) => Cut(doc', s, n)
        /\ \A s, buf, n : n \in 0..Len(doc) /\ Complete(doc, s, buf, n)
                             => Complete(doc', s, buf, n)
    <2>1. 0 \in 0..Len(doc)
      BY <1>2
    <2> QED
      BY <1>1, <2>1, CutStays
  <1>6. SplitInv'
    <2>1. ASSUME pc = "split"
          PROVE  Splitting(doc', split.chunks, split.buf, split.section, split.next - 1)
      <3>1. Splitting(doc, split.chunks, split.buf, split.section, split.next - 1)
        BY <1>1, <2>1 DEF SplitInv
      <3>2. split.next - 1 \in 0..Len(doc')
        BY <1>2, <1>4
      <3> QED
        BY <1>4, <1>5, <3>1, <3>2 DEF Splitting
    <2>2. ASSUME pc = "embed"
          PROVE  Cut(doc', split.chunks, split.read) /\ Complete(doc', split.chunks, <<>>, split.read)
      BY <1>1, <1>4, <1>5, <2>2 DEF SplitInv
    <2>3. split.read <= Len(doc')
      BY <1>2, <1>3 DEF SplitType
    <2> QED
      BY <1>1, <2>1, <2>2, <2>3 DEF SplitInv
  <1>7. IndexInv'
    <2>1. index \in IndexType /\ index.blocks <= Len(doc)
      BY <1>1 DEF IndexInv, IndexType
    <2>2. index.blocks \in 0..Len(doc) /\ index.blocks <= Len(doc')
      BY <1>2, <2>1 DEF IndexType
    <2> QED
      BY <1>1, <1>5, <2>2 DEF IndexInv
  <1> QED
    BY <1>1, <1>6, <1>7 DEF KInv

LEMMA ExtendsAppend ==
    ASSUME NEW d \in Seq(BlockType), NEW x
    PROVE  Extends(d, Append(d, x))
  BY DEF Extends

LEMMA ExtendsTwice ==
    ASSUME NEW d, NEW e, NEW g, Extends(d, e), Extends(e, g),
           Len(d) \in Nat, Len(e) \in Nat, Len(g) \in Nat
    PROVE  Extends(d, g)
  <1>1. \A i \in 1..Len(d) : i \in 1..Len(e)
    BY DEF Extends
  <1> QED
    BY <1>1 DEF Extends

LEMMA EndIs == End = EndOf(doc)
  BY DEF End, EndOf

LEMMA PasteGrows ==
    ASSUME KInv, NEW n \in Lengths, NEW h \in BOOLEAN, Paste(n, h)
    PROVE  File(doc') /\ Extends(doc, doc')
  <1>1. n \in Nat \ {0} /\ File(doc)
    BY SplitAssumption DEF SplitAssumption, KInv
  <1>2. doc' = Append(doc, Block(EndOf(doc), n, h)) /\ UNCHANGED <<pc, split, index, ready>>
    BY EndIs DEF Paste
  <1>3. File(doc')
    BY <1>1, <1>2, FileGrows
  <1>4. Extends(doc, doc')
    BY <1>1, <1>2, FileFacts, ExtendsAppend
  <1> QED
    BY <1>3, <1>4

LEMMA AddDocumentGrows ==
    ASSUME KInv, NEW t \in Lengths, NEW n \in Lengths, AddDocument(t, n)
    PROVE  File(doc') /\ Extends(doc, doc')
  <1> DEFINE head == Block(EndOf(doc), t, TRUE)
             d == Append(doc, head)
             text == Block(EndOf(d), n, FALSE)
             e == Append(d, text)
  <1>1. t \in Nat \ {0} /\ n \in Nat \ {0} /\ File(doc) /\ TRUE \in BOOLEAN /\ FALSE \in BOOLEAN
    BY SplitAssumption DEF SplitAssumption, KInv
  <1>2. File(d) /\ EndOf(d) = head.last /\ EndOf(doc) \in Nat
    BY <1>1, FileGrows
  <1>3. File(e) /\ EndOf(d) \in Nat
    BY <1>1, <1>2, FileGrows
  <1>4. head \in BlockType /\ text \in BlockType
    BY <1>1, <1>2, <1>3 DEF Block, BlockType
  <1>5. doc' = doc \o <<head, text>> /\ UNCHANGED <<pc, split, index, ready>>
    BY <1>2, EndIs DEF AddDocument
  <1>6. doc \in Seq(BlockType) /\ d \in Seq(BlockType)
    BY <1>1, <1>2, FileFacts
  <1> HIDE DEF head, text
  <1>7. doc' = e
    <2>1. doc \o <<head, text>> = Append(Append(doc, head), text)
      BY <1>4, <1>6, ConcatTwo
    <2> QED
      BY <1>5, <2>1
  <1>8. Extends(doc, d) /\ Extends(d, e)
    BY <1>6, ExtendsAppend
  <1>9. Len(doc) \in Nat /\ Len(d) \in Nat /\ Len(e) \in Nat
    BY <1>1, <1>2, <1>3, FileFacts
  <1> HIDE DEF d, e
  <1>10. Extends(doc, doc') /\ File(doc')
    BY <1>3, <1>7, <1>8, <1>9, ExtendsTwice
  <1> QED
    BY <1>10

LEMMA RebuildKeeps ==
    ASSUME KInv, Rebuild
    PROVE  KInv'
  <1>1. /\ File(doc) /\ SplitInv /\ IndexInv
        /\ pc' = "split" /\ split' = [NoSplit EXCEPT !.read = Len(doc)] /\ ready' = FALSE
        /\ doc' = doc /\ index' = index
    BY DEF KInv, Rebuild
  <1>2. Len(doc) \in Nat /\ doc \in Seq(BlockType)
    BY <1>1, FileFacts
  <1>3. /\ split' \in SplitType /\ split'.read = Len(doc) /\ split'.next = 1
        /\ split'.section = 0 /\ split'.buf = <<>> /\ split'.chunks = <<>>
    <2>1. <<>> \in Seq(Nat) /\ <<>> \in Seq(ChunkType)
      OBVIOUS
    <2>2. split' = [read |-> Len(doc), next |-> 1, section |-> 0, buf |-> <<>>, chunks |-> <<>>]
      BY <1>1 DEF NoSplit, General
    <2> QED
      BY <1>2, <2>1, <2>2 DEF SplitType
  <1>4. SplitInv'
    <2>1. Splitting(doc, <<>>, <<>>, 0, 0)
      BY <1>2, NothingCut
    <2>2. Splitting(doc', split'.chunks, split'.buf, split'.section, split'.next - 1)
      BY <1>1, <1>3, <2>1
    <2>3. split'.read <= Len(doc') /\ split'.next <= split'.read + 1
      BY <1>1, <1>2, <1>3
    <2> QED
      BY <1>1, <1>3, <2>2, <2>3 DEF SplitInv, SplitType
  <1>5. IndexInv'
    BY <1>1 DEF IndexInv
  <1> QED
    BY <1>1, <1>4, <1>5 DEF KInv

\* Where the build stands when it reads its next block.
LEMMA AtBlock ==
    ASSUME KInv, pc = "split", split.next <= split.read
    PROVE  \E n \in Nat : /\ n + 1 = split.next /\ n = split.next - 1 /\ n < Len(doc)
                          /\ n + 2 <= split.read + 1 /\ n + 2 \in Nat \ {0}
                          /\ Splitting(doc, split.chunks, split.buf, split.section, n)
  <1>1. /\ split \in SplitType /\ split.read <= Len(doc) /\ File(doc)
        /\ Splitting(doc, split.chunks, split.buf, split.section, split.next - 1)
    BY DEF KInv, SplitInv, SplitType
  <1>2. split.next \in Nat \ {0} /\ split.read \in Nat /\ Len(doc) \in Nat
    BY <1>1, FileFacts DEF SplitType
  <1>3. PICK n \in Nat : n = split.next - 1
    BY <1>2
  <1>4. n + 1 = split.next /\ n < Len(doc) /\ n + 2 <= split.read + 1 /\ n + 2 \in Nat \ {0}
    BY <1>1, <1>2, <1>3
  <1> QED
    BY <1>1, <1>3, <1>4

\* A step of the build that reads one block.
LEMMA ReadOne ==
    ASSUME KInv, pc = "split", NEW n \in Nat, n + 1 = split.next, n < Len(doc),
           n + 2 <= split.read + 1, n + 2 \in Nat \ {0},
           UNCHANGED <<doc, pc, index, ready>>,
           NEW s, NEW t, NEW q, Splitting(doc, s, t, q, n + 1),
           split' = [split EXCEPT !.next = n + 2, !.section = q, !.buf = t, !.chunks = s]
    PROVE  KInv'
  <1>1. /\ File(doc) /\ split \in SplitType /\ IndexInv /\ split.read <= Len(doc)
        /\ ready \in BOOLEAN /\ ~ready
        /\ doc' = doc /\ pc' = pc /\ index' = index /\ ready' = ready
    BY DEF KInv, SplitInv, SplitType
  <1>2. s \in Seq(ChunkType) /\ t \in Seq(Nat) /\ q \in Nat
    BY DEF Splitting, Cut
  <1>3. /\ split' \in SplitType /\ split'.next = n + 2 /\ split'.read = split.read
        /\ split'.section = q /\ split'.buf = t /\ split'.chunks = s
    BY <1>1, <1>2 DEF SplitType
  <1>4. split'.next - 1 = n + 1
    BY <1>3
  <1>5. SplitInv'
    <2>1. Splitting(doc', split'.chunks, split'.buf, split'.section, split'.next - 1)
      BY <1>1, <1>3, <1>4
    <2>2. split'.read <= Len(doc') /\ split'.next <= split'.read + 1
      BY <1>1, <1>3
    <2> QED
      BY <1>1, <1>3, <2>1, <2>2 DEF SplitInv, SplitType
  <1>6. IndexInv'
    BY <1>1 DEF IndexInv
  <1> QED
    BY <1>1, <1>5, <1>6 DEF KInv

LEMMA JoinStep ==
    ASSUME KInv, Join
    PROVE  KInv'
  <1>1. /\ pc = "split" /\ split.next <= split.read /\ Fits(split.buf, doc[split.next])
        /\ UNCHANGED <<doc, pc, index, ready>>
    BY DEF Join
  <1>2. PICK n \in Nat : /\ n + 1 = split.next /\ n = split.next - 1 /\ n < Len(doc)
                         /\ n + 2 <= split.read + 1 /\ n + 2 \in Nat \ {0}
                         /\ Splitting(doc, split.chunks, split.buf, split.section, n)
    BY <1>1, AtBlock
  <1> DEFINE t == Strip(split.buf \o Gap(doc[n + 1]) \o Places(doc[n + 1]))
             q == SectionAt(split.section, n + 1)
             s == split.chunks
  <1>3. Fits(split.buf, doc[n + 1]) /\ File(doc)
    BY <1>1, <1>2 DEF KInv
  <1>4. Splitting(doc, s, t, q, n + 1)
    BY <1>2, <1>3, JoinKeeps
  <1>5. split \in SplitType
    BY DEF KInv, SplitInv, SplitType
  <1>6. split' = [split EXCEPT !.next = n + 2, !.section = q, !.buf = t, !.chunks = s]
    <2>1. split' = [split EXCEPT !.next = @ + 1, !.section = SectionAt(@, n + 1),
                                 !.buf = Strip(@ \o Gap(doc[n + 1]) \o Places(doc[n + 1]))]
      BY <1>2 DEF Join
    <2>2. split.next + 1 = n + 2
      BY <1>2
    <2> QED
      BY <1>5, <2>1, <2>2 DEF SplitType
  <1> HIDE DEF t, q, s
  <1> QED
    BY <1>1, <1>2, <1>4, <1>6, ReadOne

LEMMA FlushStep ==
    ASSUME KInv, Flush
    PROVE  KInv'
  <1>1. /\ pc = "split" /\ split.next <= split.read
        /\ UNCHANGED <<doc, pc, index, ready>>
    BY DEF Flush
  <1>2. PICK n \in Nat : /\ n + 1 = split.next /\ n = split.next - 1 /\ n < Len(doc)
                         /\ n + 2 <= split.read + 1 /\ n + 2 \in Nat \ {0}
                         /\ Splitting(doc, split.chunks, split.buf, split.section, n)
    BY <1>1, AtBlock
  <1> DEFINE t == IF Carried(split.buf) = <<>> THEN Places(doc[n + 1])
                  ELSE Strip(Carried(split.buf) \o Gap(doc[n + 1]) \o Places(doc[n + 1]))
             q == SectionAt(split.section, n + 1)
             s == split.chunks \o PutDown(split.buf, q)
  <1>3. Splitting(doc, s, t, q, n + 1)
    BY <1>2, FlushKeeps DEF KInv
  <1>4. split \in SplitType
    BY DEF KInv, SplitInv, SplitType
  <1>5. split' = [split EXCEPT !.next = n + 2, !.section = q, !.buf = t, !.chunks = s]
    <2>1. split' = [split EXCEPT !.next = @ + 1, !.section = q, !.chunks = s, !.buf = t]
      BY <1>2, <1>4 DEF Flush, SplitType
    <2>2. split.next + 1 = n + 2
      BY <1>2
    <2> HIDE DEF t, q, s
    <2> QED
      BY <1>4, <2>1, <2>2 DEF SplitType
  <1> HIDE DEF t, q, s
  <1> QED
    BY <1>1, <1>2, <1>3, <1>5, ReadOne

LEMMA FinishStep ==
    ASSUME KInv, Finish
    PROVE  KInv'
  <1> DEFINE s == split.chunks \o PutDown(split.buf, split.section)
  <1>1. /\ File(doc) /\ SplitInv /\ IndexInv /\ ready \in BOOLEAN /\ doc' = doc
        /\ pc = "split" /\ split.next > split.read /\ ~ready
    BY DEF KInv, Finish
  <1>2. /\ split \in SplitType /\ split.read <= Len(doc) /\ split.next <= split.read + 1
        /\ Splitting(doc, split.chunks, split.buf, split.section, split.next - 1)
    BY <1>1 DEF SplitInv, SplitType
  <1>3. PICK n \in Nat : n = split.read
    BY <1>2 DEF SplitType
  <1>4. split.next = n + 1 /\ split.next - 1 = n
    BY <1>1, <1>2, <1>3 DEF SplitType
  <1>5. Cut(doc, s, n) /\ Complete(doc, s, <<>>, n)
    BY <1>1, <1>2, <1>4, LastPutDown
  <1>6. n <= Len(doc)
    BY <1>2, <1>3
  <1>7. /\ IF s = <<>>
           THEN /\ pc' = "idle" /\ split' = NoSplit /\ ready' = TRUE
                /\ index' = [chunks |-> <<>>, vectors |-> 0, blocks |-> n]
           ELSE /\ pc' = "embed" /\ split' = [split EXCEPT !.chunks = s, !.buf = <<>>]
                /\ index' = index /\ ready' = ready
    BY <1>3 DEF Finish
  <1> HIDE DEF s
  <1>8. CASE s = <<>>
    <2>1. SplitInv'
      <3>1. NoSplit.read <= Len(doc') /\ NoSplit.next <= NoSplit.read + 1
        BY <1>1, NoSplitType, FileFacts
      <3> QED
        BY <1>7, <1>8, <3>1, NoSplitType DEF SplitInv, SplitType
    <2>2. IndexInv'
      <3>1. /\ index' = [chunks |-> s, vectors |-> 0, blocks |-> n]
            /\ s \in Seq(ChunkType) /\ Len(s) = 0
        BY <1>7, <1>8
      <3> QED
        BY <1>1, <1>5, <1>6, <3>1 DEF IndexInv
    <2> QED
      BY <1>1, <1>7, <1>8, <2>1, <2>2 DEF KInv
  <1>9. CASE s # <<>>
    <2>1. split' = [split EXCEPT !.chunks = s, !.buf = <<>>] /\ pc' = "embed"
          /\ index' = index /\ ready' = ready
      BY <1>7, <1>9
    <2>2. s \in Seq(ChunkType) /\ <<>> \in Seq(Nat)
      BY <1>5 DEF Cut
    <2>3. /\ split' \in SplitType /\ split'.read = n /\ split'.next = n + 1
          /\ split'.buf = <<>> /\ split'.chunks = s
      BY <1>2, <1>3, <1>4, <2>1, <2>2 DEF SplitType
    <2>4. SplitInv'
      <3>1. split'.read <= Len(doc') /\ split'.next <= split'.read + 1
        BY <1>1, <1>6, <2>3
      <3>2. split'.next = split'.read + 1 /\ split'.chunks # <<>>
        BY <1>9, <2>3
      <3>3. Cut(doc', split'.chunks, split'.read) /\ Complete(doc', split'.chunks, <<>>, split'.read)
        BY <1>1, <1>5, <2>3
      <3> QED
        BY <2>1, <2>3, <3>1, <3>2, <3>3 DEF SplitInv, SplitType
    <2>5. IndexInv'
      BY <1>1, <2>1 DEF IndexInv
    <2> QED
      BY <1>1, <2>1, <2>4, <2>5 DEF KInv
  <1> QED
    BY <1>8, <1>9

LEMMA EmbedOkKeeps ==
    ASSUME KInv, NEW v \in 0..Len(split.chunks), EmbedOk(v)
    PROVE  KInv'
  <1>1. /\ File(doc) /\ SplitInv /\ pc = "embed" /\ doc' = doc /\ pc' = "idle"
        /\ split' = NoSplit /\ ready' = TRUE
        /\ index' = [chunks |-> split.chunks, vectors |-> v, blocks |-> split.read]
    BY DEF KInv, EmbedOk
  <1>2. /\ split \in SplitType /\ split.read <= Len(doc)
        /\ Cut(doc, split.chunks, split.read) /\ Complete(doc, split.chunks, <<>>, split.read)
    BY <1>1 DEF SplitInv, SplitType
  <1>3. /\ split.chunks \in Seq(ChunkType) /\ split.read \in Nat
        /\ v \in Nat /\ v <= Len(split.chunks)
    BY <1>2 DEF SplitType
  <1>4. SplitInv'
    <2>1. NoSplit.read <= Len(doc') /\ NoSplit.next <= NoSplit.read + 1
      BY <1>1, NoSplitType, FileFacts
    <2> QED
      BY <1>1, <2>1, NoSplitType DEF SplitInv, SplitType
  <1>5. IndexInv'
    BY <1>1, <1>2, <1>3 DEF IndexInv
  <1> QED
    BY <1>1, <1>4, <1>5 DEF KInv

LEMMA EmbedFailsKeeps ==
    ASSUME KInv, EmbedFails
    PROVE  KInv'
  <1>1. /\ File(doc) /\ IndexInv /\ ready \in BOOLEAN /\ doc' = doc /\ pc' = "idle"
        /\ split' = NoSplit /\ ready' = ready /\ index' = index
    BY DEF KInv, EmbedFails
  <1>2. SplitInv'
    <2>1. NoSplit.read <= Len(doc') /\ NoSplit.next <= NoSplit.read + 1
      BY <1>1, NoSplitType, FileFacts
    <2> QED
      BY <1>1, <2>1, NoSplitType DEF SplitInv, SplitType
  <1>3. IndexInv'
    BY <1>1 DEF IndexInv
  <1> QED
    BY <1>1, <1>2, <1>3 DEF KInv

LEMMA SameKeeps ==
    ASSUME KInv, UNCHANGED <<doc, pc, split, index, ready>>
    PROVE  KInv'
  BY DEF KInv, SplitInv, IndexInv

LEMMA KInvStep == KInv /\ [Next]_vars => KInv'
  <1> SUFFICES ASSUME KInv, [Next]_vars PROVE KInv'
    OBVIOUS
  <1>1. ASSUME NEW n \in Lengths, NEW h \in BOOLEAN, Paste(n, h) PROVE KInv'
    BY <1>1, PasteGrows, GrowKeeps DEF Paste
  <1>2. ASSUME NEW t \in Lengths, NEW n \in Lengths, AddDocument(t, n) PROVE KInv'
    BY <1>2, AddDocumentGrows, GrowKeeps DEF AddDocument
  <1>3. CASE Rebuild
    BY <1>3, RebuildKeeps
  <1>4. CASE Join
    BY <1>4, JoinStep
  <1>5. CASE Flush
    BY <1>5, FlushStep
  <1>6. CASE Finish
    BY <1>6, FinishStep
  <1>7. CASE EmbedFails
    BY <1>7, EmbedFailsKeeps
  <1>8. ASSUME NEW v \in 0..Len(split.chunks), EmbedOk(v) PROVE KInv'
    BY <1>8, EmbedOkKeeps
  <1>9. ASSUME NEW k \in TopKs, NEW s \in [Chunks -> Scores], Route(k, s) PROVE KInv'
    BY <1>9, SameKeeps DEF Route
  <1>10. ASSUME NEW k \in TopKs, RouteTimesOut(k) PROVE KInv'
    BY <1>10, SameKeeps DEF RouteTimesOut
  <1>11. CASE Ask \/ RouteFails \/ UNCHANGED vars
    BY <1>11, SameKeeps DEF Ask, RouteFails, vars
  <1> QED
    BY <1>1, <1>2, <1>3, <1>4, <1>5, <1>6, <1>7, <1>8, <1>9, <1>10, <1>11 DEF Next

\* The invariant all of the following rests on: what was cut so far is a whole
\* cut of the blocks that were read, and no longer changes with the file.
THEOREM KInvHolds == Spec => []KInv
  <1>1. Init => KInv
    BY InitInv
  <1>2. KInv /\ [Next]_vars => KInv'
    BY KInvStep
  <1> QED
    BY <1>1, <1>2, PTL DEF Spec

----------------------------------------------------------------------------
(* What follows from it *)

AskedType == asked \in BOOLEAN

LEMMA KInvTypes == KInv /\ AskedType => TypeOK
  <1> SUFFICES ASSUME KInv, AskedType PROVE TypeOK
    OBVIOUS
  <1>1. doc \in Seq([first : Nat, last : Nat, heading : BOOLEAN])
    BY FileFacts DEF KInv, BlockType
  <1> QED
    BY <1>1 DEF KInv, SplitInv, IndexInv, AskedType, TypeOK

LEMMA AskedStep == AskedType /\ [Next]_vars => AskedType'
  BY DEF AskedType, Next, Paste, AddDocument, Rebuild, Join, Flush, Finish, EmbedFails, EmbedOk, Ask, Route,
         RouteTimesOut, RouteFails, vars

\* The variables have the values the program can give them, and _ready is off
\* while an index is being built.
THEOREM TypeCorrect == Spec => []TypeOK
  <1>1. Init => AskedType
    BY DEF Init, AskedType
  <1> QED
    BY <1>1, AskedStep, KInvHolds, KInvTypes, PTL DEF Spec

LEMMA PieceExcerpt ==
    ASSUME NEW t, NEW n, NEW b \in 1..n, Piece(doc, t, b)
    PROVE  Excerpt(t, n)
  <1>1. /\ Run(t) /\ In(doc, t[1]) /\ t[Len(t)] = doc[b].last
        /\ Len(t) <= Size \/ Len(t) <= Overlap + 2 + (doc[b].last - doc[b].first + 1)
    BY DEF Piece
  <1>2. PICK a \in Nat, m \in Nat : RunOf(t, a, m) /\ m = Len(t)
    BY <1>1, RunIs
  <1>3. t # <<>> /\ m > 0 /\ \A i \in 1..m : t[i] = a + i - 1
    <2>1. RunOf(t, a, m)
      BY <1>2
    <2> QED
      BY <2>1, RunEnds
  <1>4. ASSUME NEW i \in 1..(Len(t) - 1) PROVE t[i + 1] = t[i] + 1
    <2>1. PICK j \in 1..m : j = i + 1
      BY <1>2, <1>4
    <2>2. i \in 1..m
      BY <1>2, <1>4
    <2>3. t[j] = a + j - 1 /\ t[i] = a + i - 1
      BY <1>3, <2>1, <2>2
    <2> QED
      BY <2>1, <2>3
  <1>5. ~Blank(t[1])
    BY <1>1, BlankIn
  <1>6. LastOf(t) = doc[b].last /\ (Len(t) <= Size \/ Len(t) <= Overlap + 2 + SizeOf(doc[b]))
    BY <1>1 DEF LastOf, SizeOf
  <1> QED
    BY <1>3, <1>4, <1>5, <1>6 DEF Excerpt

LEMMA CutExcerpts ==
    ASSUME NEW s, NEW n, Cut(doc, s, n)
    PROVE  /\ \A t \in TextsOf(s) : Excerpt(t, n)
           /\ \A i \in 1..(Len(s) - 1) : LastOf(s[i].text) - s[i + 1].text[1] < Overlap
  <1>1. /\ s \in Seq(ChunkType)
        /\ \A i \in 1..Len(s) : Tagged(doc, s[i], n)
        /\ \A i, j \in 1..Len(s) : j = i + 1 => s[i].text[Len(s[i].text)] - s[j].text[1] < Overlap
    BY DEF Cut
  <1>2. ASSUME NEW i \in 1..Len(s) PROVE Excerpt(s[i].text, n)
    <2>1. PICK b \in 1..n : Piece(doc, s[i].text, b)
      BY <1>1 DEF Tagged
    <2> QED
      BY <2>1, PieceExcerpt
  <1>3. ASSUME NEW i \in 1..(Len(s) - 1)
        PROVE  s[i].text[Len(s[i].text)] - s[i + 1].text[1] < Overlap
    <2>1. i \in 1..Len(s) /\ i + 1 \in 1..Len(s)
      BY <1>1, LengthZero
    <2> QED
      BY <1>1, <2>1
  <1> QED
    BY <1>2, <1>3 DEF TextsOf, LastOf

LEMMA CompleteWhole ==
    ASSUME NEW s, NEW buf, NEW n, Complete(doc, s, buf, n)
    PROVE  Whole(TextsOf(s) \cup ({buf} \ {<<>>}), n)
  <1> SUFFICES ASSUME NEW b \in 1..n
               PROVE  \E t \in TextsOf(s) \cup ({buf} \ {<<>>}) :
                         t[1] <= doc[b].first /\ doc[b].last <= LastOf(t)
    BY DEF Whole
  <1>1. CASE \E i \in 1..Len(s) : Holds(doc, s[i].text, b)
    BY <1>1 DEF Holds, TextsOf, LastOf
  <1>2. CASE buf # <<>> /\ Holds(doc, buf, b)
    BY <1>2 DEF Holds, LastOf
  <1> QED
    BY <1>1, <1>2 DEF Complete

LEMMA KInvExcerpts == KInv => Excerpts
  <1> SUFFICES ASSUME KInv PROVE Excerpts
    OBVIOUS
  <1>1. /\ Cut(doc, index.chunks, index.blocks) /\ Complete(doc, index.chunks, <<>>, index.blocks)
        /\ File(doc) /\ SplitInv
    BY DEF KInv, IndexInv
  <1>2. /\ \A t \in TextsOf(index.chunks) : Excerpt(t, index.blocks)
        /\ Whole(TextsOf(index.chunks), index.blocks)
        /\ \A i \in 1..(Len(index.chunks) - 1) :
              LastOf(index.chunks[i].text) - index.chunks[i + 1].text[1] < Overlap
    <2>1. TextsOf(index.chunks) \cup ({<<>>} \ {<<>>}) = TextsOf(index.chunks)
      OBVIOUS
    <2>2. Whole(TextsOf(index.chunks) \cup ({<<>>} \ {<<>>}), index.blocks)
      BY <1>1, CompleteWhole
    <2> QED
      BY <1>1, <2>1, <2>2, CutExcerpts
  <1>3. /\ Cut(doc, split.chunks, split.next - 1)
        /\ Complete(doc, split.chunks, split.buf, split.next - 1)
        /\ split.buf # <<>> => split.next - 1 \in 1..(split.next - 1)
                               /\ Piece(doc, split.buf, split.next - 1)
    <2>1. CASE pc = "idle"
      <3>1. split.chunks = <<>> /\ split.buf = <<>> /\ split.next - 1 = 0
        BY <1>1, <2>1 DEF SplitInv, NoSplit
      <3> QED
        BY <3>1, NothingCut
    <2>2. CASE pc = "split"
      <3>1. Splitting(doc, split.chunks, split.buf, split.section, split.next - 1)
        BY <1>1, <2>2 DEF SplitInv
      <3>2. split.next - 1 \in Nat
        BY <1>1 DEF SplitInv
      <3> QED
        BY <3>1, <3>2 DEF Splitting
    <2>3. CASE pc = "embed"
      <3>1. /\ split.next - 1 = split.read /\ split.buf = <<>>
            /\ Cut(doc, split.chunks, split.read)
            /\ Complete(doc, split.chunks, <<>>, split.read)
        BY <1>1, <2>3 DEF SplitInv
      <3> QED
        BY <3>1
    <2> QED
      BY <2>1, <2>2, <2>3 DEF KInv
  <1>4. \A t \in TextsOf(split.chunks) \cup BufTexts : Excerpt(t, split.next - 1)
    <2>1. \A t \in TextsOf(split.chunks) : Excerpt(t, split.next - 1)
      BY <1>3, CutExcerpts
    <2>2. \A t \in BufTexts : Excerpt(t, split.next - 1)
      BY <1>3, PieceExcerpt DEF BufTexts
    <2> QED
      BY <2>1, <2>2
  <1>5. Whole(TextsOf(split.chunks) \cup BufTexts, split.next - 1)
    BY <1>3, CompleteWhole DEF BufTexts
  <1> QED
    BY <1>2, <1>4, <1>5 DEF Excerpts

\* _chunk_text loses nothing: every chunk is an unbroken excerpt of the file,
\* within its size bound, and every block is whole in one, whatever the sizes.
THEOREM NothingLost == Spec => []Excerpts
  BY KInvHolds, KInvExcerpts, PTL

LEMMA KInvSections == KInv => SectionNearby
  <1> SUFFICES ASSUME KInv, NEW i \in 1..Len(index.chunks)
               PROVE  \E b \in 1..index.blocks :
                        /\ LastOf(index.chunks[i].text) = doc[b].last
                        /\ \/ IsSection(index.chunks[i].section, b)
                           \/ b < index.blocks /\ doc[b + 1].heading
                              /\ index.chunks[i].section = b + 1
    BY DEF SectionNearby
  <1> DEFINE c == index.chunks[i]
  <1>1. Tagged(doc, c, index.blocks) /\ index.blocks \in Nat
    BY DEF KInv, IndexInv, Cut
  <1>2. PICK b \in 1..index.blocks :
           /\ Piece(doc, c.text, b)
           /\ \/ Under(doc, c.section, b)
              \/ b + 1 <= index.blocks /\ doc[b + 1].heading /\ c.section = b + 1
    BY <1>1 DEF Tagged
  <1>3. LastOf(c.text) = doc[b].last
    BY <1>2 DEF Piece, LastOf
  <1>4. Under(doc, c.section, b) => IsSection(c.section, b)
    BY DEF Under, IsSection, General
  <1>5. b + 1 <= index.blocks => b < index.blocks
    BY <1>1
  <1> QED
    BY <1>2, <1>3, <1>4, <1>5

\* A served chunk bears the heading it ends under or the one right after it.
THEOREM HeadingNearby == Spec => []SectionNearby
  BY KInvHolds, KInvSections, PTL
----------------------------------------------------------------------------
(* The ranking: the chunks that fewer than k others come before are the    *)
(* first k of them, whatever the scores.                                   *)

\* The chunks that come before chunk i, when there are n of them.
Ahead(n, s, i) == {j \in 1..n : Before(s, j, i)}

Rank(n, s) == [i \in 1..n |-> Cardinality(Ahead(n, s, i))]

First(n, s, k) == {i \in 1..n : Cardinality(Ahead(n, s, i)) < k}

Fewer(k, n) == IF k < n THEN k ELSE n

\* Equal scores keep the order of the file, so no two chunks tie.
LEMMA BeforeOrders ==
    ASSUME NEW n \in Nat, NEW s \in [1..n -> Int],
           NEW i \in 1..n, NEW j \in 1..n, NEW m \in 1..n
    PROVE  /\ ~Before(s, i, i)
           /\ i # j => Before(s, i, j) \/ Before(s, j, i)
           /\ Before(s, i, j) /\ Before(s, j, m) => Before(s, i, m)
           /\ ~Before(s, i, j) => s[i] <= s[j]
  <1>1. s[i] \in Int /\ s[j] \in Int /\ s[m] \in Int /\ i \in Int /\ j \in Int /\ m \in Int
    OBVIOUS
  <1> QED
    BY <1>1 DEF Before

LEMMA AheadFinite ==
    ASSUME NEW n \in Nat, NEW s \in [1..n -> Int], NEW i \in 1..n
    PROVE  /\ IsFiniteSet(Ahead(n, s, i))
           /\ Cardinality(Ahead(n, s, i)) \in 0..(n - 1)
  <1>1. IsFiniteSet(1..n) /\ Cardinality(1..n) = n
    BY FS_Interval
  <1>2. i \notin Ahead(n, s, i)
    BY BeforeOrders DEF Ahead
  <1>3. Ahead(n, s, i) \in SUBSET (1..n)
    BY DEF Ahead
  <1>4. IsFiniteSet(Ahead(n, s, i)) /\ Cardinality(Ahead(n, s, i)) <= Cardinality(1..n)
    BY <1>1, <1>3, FS_Subset
  <1>5. Cardinality(Ahead(n, s, i)) # Cardinality(1..n)
    BY <1>1, <1>2, <1>3, FS_Subset
  <1>6. Cardinality(Ahead(n, s, i)) \in Nat
    BY <1>4, FS_CardinalityType
  <1> QED
    BY <1>1, <1>4, <1>5, <1>6

\* A chunk that comes before another has fewer before it.
LEMMA AheadGrows ==
    ASSUME NEW n \in Nat, NEW s \in [1..n -> Int], NEW i \in 1..n, NEW j \in 1..n,
           Before(s, j, i)
    PROVE  Cardinality(Ahead(n, s, j)) < Cardinality(Ahead(n, s, i))
  <1>1. Ahead(n, s, j) \in SUBSET Ahead(n, s, i)
    BY BeforeOrders DEF Ahead
  <1>2. j \in Ahead(n, s, i) /\ j \notin Ahead(n, s, j)
    BY BeforeOrders DEF Ahead
  <1>3. IsFiniteSet(Ahead(n, s, i)) /\ Cardinality(Ahead(n, s, i)) \in Nat
    BY AheadFinite
  <1>4. Cardinality(Ahead(n, s, j)) \in Nat
    BY AheadFinite
  <1>5. Cardinality(Ahead(n, s, j)) <= Cardinality(Ahead(n, s, i))
    BY <1>1, <1>3, FS_Subset
  <1>6. Cardinality(Ahead(n, s, j)) # Cardinality(Ahead(n, s, i))
    BY <1>1, <1>2, <1>3, FS_Subset
  <1> QED
    BY <1>3, <1>4, <1>5, <1>6

\* Every rank from 0 on is that of one chunk.
LEMMA RankIsBijection ==
    ASSUME NEW n \in Nat, NEW s \in [1..n -> Int]
    PROVE  Rank(n, s) \in Bijection(1..n, 0..(n - 1))
  <1> DEFINE r == Rank(n, s)
  <1>1. r \in [1..n -> 0..(n - 1)]
    BY AheadFinite DEF Rank
  <1>2. ASSUME NEW i \in 1..n, NEW j \in 1..n, i # j PROVE r[i] # r[j]
    <2>1. r[i] \in Int /\ r[j] \in Int
      BY <1>1
    <2>2. CASE Before(s, i, j)
      BY <2>1, <2>2, AheadGrows DEF Rank
    <2>3. CASE Before(s, j, i)
      BY <2>1, <2>3, AheadGrows DEF Rank
    <2> QED
      BY <1>2, <2>2, <2>3, BeforeOrders
  <1>3. r \in Injection(1..n, 0..(n - 1))
    BY <1>1, <1>2 DEF Injection, IsInjective
  <1>4. IsFiniteSet(0..(n - 1)) /\ Cardinality(1..n) = Cardinality(0..(n - 1))
    <2>1. IsFiniteSet(0..(n - 1)) /\ Cardinality(0..(n - 1)) = n
      <3>1. n - 1 \in Int /\ 0 \in Int
        OBVIOUS
      <3>2. IsFiniteSet(0..(n - 1))
            /\ Cardinality(0..(n - 1)) = IF 0 > n - 1 THEN 0 ELSE (n - 1) - 0 + 1
        BY <3>1, FS_Interval
      <3> QED
        BY <3>2
    <2>2. Cardinality(1..n) = n
      BY FS_Interval
    <2> QED
      BY <2>1, <2>2
  <1>5. r \in Surjection(1..n, 0..(n - 1))
    BY <1>3, <1>4, FS_Injection
  <1> QED
    BY <1>3, <1>5 DEF Bijection

\* scored[:k] is as long as it can be.
LEMMA FirstCount ==
    ASSUME NEW n \in Nat, NEW s \in [1..n -> Int], NEW k \in Nat
    PROVE  /\ IsFiniteSet(First(n, s, k))
           /\ Cardinality(First(n, s, k)) = Fewer(k, n)
  <1> DEFINE hits == First(n, s, k)
             top == 0..(Fewer(k, n) - 1)
             r == Rank(n, s)
             f == [i \in hits |-> r[i]]
  <1>1. /\ r \in [1..n -> 0..(n - 1)]
        /\ \A i, j \in 1..n : r[i] = r[j] => i = j
        /\ \A t \in 0..(n - 1) : \E i \in 1..n : r[i] = t
    <2>1. r \in Injection(1..n, 0..(n - 1)) /\ r \in Surjection(1..n, 0..(n - 1))
      BY RankIsBijection DEF Bijection
    <2> HIDE DEF r
    <2>2. r \in [1..n -> 0..(n - 1)] /\ \A i, j \in 1..n : r[i] = r[j] => i = j
      BY <2>1 DEF Injection, IsInjective
    <2>3. \A t \in 0..(n - 1) : \E i \in 1..n : r[i] = t
      BY <2>1 DEF Surjection
    <2> QED
      BY <2>2, <2>3
  <1>2. hits \subseteq 1..n /\ \A i \in 1..n : i \in hits <=> r[i] < k
    BY DEF First, Rank
  <1>3. Fewer(k, n) \in Nat /\ \A t \in Int : t \in top <=> t \in 0..(n - 1) /\ t < k
    BY DEF Fewer
  <1> HIDE DEF hits, top, r
  <1>4. f \in [hits -> top]
    <2>1. ASSUME NEW i \in hits PROVE r[i] \in top
      <3>1. i \in 1..n /\ r[i] < k
        BY <1>2
      <3>2. r[i] \in 0..(n - 1)
        BY <1>1, <3>1
      <3> QED
        BY <1>3, <3>1, <3>2
    <2> QED
      BY <2>1
  <1>5. f \in Injection(hits, top)
    BY <1>1, <1>2, <1>4 DEF Injection, IsInjective
  <1>6. ASSUME NEW t \in top PROVE \E i \in hits : f[i] = t
    <2>1. t \in 0..(n - 1) /\ t < k
      BY <1>3 DEF top
    <2>2. PICK i \in 1..n : r[i] = t
      BY <1>1, <2>1
    <2>3. i \in hits
      BY <1>2, <2>1, <2>2
    <2> QED
      BY <2>2, <2>3
  <1>7. f \in Surjection(hits, top)
    BY <1>4, <1>6 DEF Surjection
  <1>8. IsFiniteSet(top) /\ Cardinality(top) = Fewer(k, n)
    <2> DEFINE m == Fewer(k, n)
    <2>1. m \in Nat
      BY <1>3
    <2> HIDE DEF m
    <2>2. m - 1 \in Int /\ 0 \in Int
      BY <2>1
    <2>3. IsFiniteSet(0..(m - 1))
          /\ Cardinality(0..(m - 1)) = IF 0 > m - 1 THEN 0 ELSE (m - 1) - 0 + 1
      BY <2>2, FS_Interval
    <2> QED
      BY <2>1, <2>3 DEF top, m
  <1>9. IsFiniteSet(hits) /\ Cardinality(hits) = Cardinality(top)
    BY <1>5, <1>7, <1>8, FS_Injection
  <1> QED
    BY <1>8, <1>9 DEF hits

\* A chunk that is left out comes after each one that is not.
LEMMA FirstIsBest ==
    ASSUME NEW n \in Nat, NEW s \in [1..n -> Int], NEW k \in Nat,
           NEW i \in First(n, s, k), NEW j \in (1..n) \ First(n, s, k)
    PROVE  s[j] <= s[i]
  <1>1. i \in 1..n /\ Cardinality(Ahead(n, s, i)) < k
    BY DEF First
  <1>2. j \in 1..n /\ ~(Cardinality(Ahead(n, s, j)) < k)
    BY DEF First
  <1>3. Cardinality(Ahead(n, s, i)) \in Int /\ Cardinality(Ahead(n, s, j)) \in Int
    BY <1>1, <1>2, AheadFinite
  <1>4. ~Before(s, j, i)
    BY <1>1, <1>2, <1>3, AheadGrows
  <1> QED
    BY <1>1, <1>2, <1>4, BeforeOrders

\* The best chunk is among the first, so the cut does not decide the route.
LEMMA FirstDecides ==
    ASSUME NEW n \in Nat, NEW s \in [1..n -> Int], NEW k \in Nat \ {0}
    PROVE  (\E v \in Tops(First(n, s, k), s) : v >= MinScore)
             <=> (\E v \in Tops(1..n, s) : v >= MinScore)
  <1> DEFINE hits == First(n, s, k)
  <1>1. hits \subseteq 1..n
    BY DEF First
  <1>2. hits = {} <=> 1..n = {}
    <2>1. IsFiniteSet(hits) /\ Cardinality(hits) = Fewer(k, n)
      BY FirstCount
    <2>2. hits = {} <=> Fewer(k, n) = 0
      BY <2>1, FS_EmptySet
    <2>3. Fewer(k, n) = 0 <=> n = 0
      BY DEF Fewer
    <2>4. n = 0 <=> 1..n = {}
      BY SMT
    <2> QED
      BY <2>2, <2>3, <2>4
  <1>3. ASSUME NEW i \in hits, NEW j \in (1..n) \ hits PROVE s[j] <= s[i]
    BY <1>3, FirstIsBest
  <1> HIDE DEF hits
  <1>4. CASE hits = {}
    BY <1>2, <1>4 DEF hits
  <1>5. CASE hits # {}
    <2>1. Tops(hits, s) = {s[i] : i \in hits} /\ Tops(1..n, s) = {s[i] : i \in 1..n}
      BY <1>2, <1>5 DEF Tops
    <2>2. ASSUME NEW j \in 1..n, s[j] >= MinScore PROVE \E i \in hits : s[i] >= MinScore
      <3>1. CASE j \in hits
        BY <2>2, <3>1
      <3>2. CASE j \notin hits
        <4>1. PICK i \in hits : TRUE
          BY <1>5
        <4>2. s[j] <= s[i]
          BY <1>3, <3>2
        <4>3. s[i] \in Int /\ s[j] \in Int /\ MinScore \in Int
          BY <1>1, SplitAssumption
        <4>4. s[i] >= MinScore
          BY <2>2, <4>2, <4>3
        <4> QED
          BY <4>4
      <3> QED
        BY <3>1, <3>2
    <2> QED
      BY <1>1, <2>1, <2>2 DEF hits
  <1> QED
    BY <1>4, <1>5

\* The last answer is that of a query that ran out of time, or of one to the
\* index that is there.
InTime(k, s) ==
    [hits |-> TopK(s, k), k |-> k, scores |-> s,
     useRag |-> \E v \in Tops(TopK(s, k), s) : v >= MinScore, timedOut |-> FALSE]
Answered ==
    \/ reply = NoReply
    \/ reply.timedOut = TRUE /\ reply.useRag = FALSE
    \/ \E k \in TopKs : \E s \in [Chunks -> Scores] : reply = InTime(k, s)

LEMMA AnsweredStep == Answered /\ [Next]_vars => Answered'
  <1> SUFFICES ASSUME Answered, [Next]_vars PROVE Answered'
    OBVIOUS
  <1>1. ASSUME reply' = NoReply PROVE Answered'
    BY <1>1 DEF Answered
  <1>2. ASSUME index' = index, reply' = reply PROVE Answered'
    BY <1>2 DEF Answered, InTime, TopK, Chunks
  <1>3. ASSUME NEW n \in Lengths, NEW h \in BOOLEAN, Paste(n, h) PROVE Answered'
    BY <1>1, <1>3 DEF Paste
  <1>4. ASSUME NEW t \in Lengths, NEW n \in Lengths, AddDocument(t, n) PROVE Answered'
    BY <1>1, <1>4 DEF AddDocument
  <1>5. CASE Rebuild \/ Finish
    BY <1>1, <1>5 DEF Rebuild, Finish
  <1>6. CASE Join \/ Flush \/ EmbedFails \/ Ask \/ RouteFails \/ UNCHANGED vars
    BY <1>2, <1>6 DEF Join, Flush, EmbedFails, Ask, RouteFails, vars
  <1>7. ASSUME NEW v \in 0..Len(split.chunks), EmbedOk(v) PROVE Answered'
    BY <1>1, <1>7 DEF EmbedOk
  <1>8. ASSUME NEW k \in TopKs, NEW s \in [Chunks -> Scores], Route(k, s) PROVE Answered'
    <2>1. index' = index /\ reply' = InTime(k, s)
      BY <1>8 DEF Route, InTime
    <2>2. InTime(k, s)' = InTime(k, s) /\ Chunks' = Chunks
      BY <2>1 DEF InTime, TopK, Chunks
    <2> QED
      BY <2>1, <2>2 DEF Answered
  <1>9. ASSUME NEW k \in TopKs, RouteTimesOut(k) PROVE Answered'
    <2>1. reply'.timedOut = TRUE /\ reply'.useRag = FALSE
      BY <1>9 DEF RouteTimesOut, NoReply
    <2> QED
      BY <2>1 DEF Answered
  <1> QED
    BY <1>3, <1>4, <1>5, <1>6, <1>7, <1>8, <1>9 DEF Next

LEMMA AnsweredBest == TypeOK /\ Answered => BestHits
  <1> SUFFICES ASSUME TypeOK, Answered, reply # NoReply PROVE BestHits
    BY DEF BestHits
  <1>0. CASE reply.timedOut = TRUE /\ reply.useRag = FALSE
    BY <1>0 DEF BestHits
  <1> SUFFICES ASSUME \E k \in TopKs : \E s \in [Chunks -> Scores] : reply = InTime(k, s)
               PROVE  BestHits
    BY <1>0 DEF Answered
  <1>1. PICK k \in TopKs : \E s \in [Chunks -> Scores] : reply = InTime(k, s)
    OBVIOUS
  <1>2. PICK s \in [Chunks -> Scores] : reply = InTime(k, s)
    BY <1>1
  <1> DEFINE n == Len(index.chunks)
  <1>3. n \in Nat /\ Chunks = 1..n
    BY DEF TypeOK, Chunks
  <1>4. k \in Nat \ {0} /\ s \in [1..n -> Int]
    BY <1>3, SplitAssumption
  <1>5. TopK(s, k) = First(n, s, k)
    BY <1>3 DEF TopK, First, Ahead
  <1> HIDE DEF n
  <1>6. /\ reply.hits = First(n, s, k) /\ reply.k = k /\ reply.scores = s
        /\ reply.useRag <=> \E v \in Tops(First(n, s, k), s) : v >= MinScore
        /\ reply.timedOut = FALSE
    BY <1>2, <1>5 DEF InTime
  <1>7. Cardinality(reply.hits) = IF reply.k < n THEN reply.k ELSE n
    BY <1>3, <1>4, <1>6, FirstCount DEF Fewer
  <1>8. \A i \in reply.hits, j \in Chunks \ reply.hits : reply.scores[j] <= reply.scores[i]
    BY <1>3, <1>4, <1>6, FirstIsBest
  <1>9. reply.useRag <=> \E v \in Tops(Chunks, reply.scores) : v >= MinScore
    BY <1>3, <1>4, <1>6, FirstDecides
  <1> QED
    BY <1>6, <1>7, <1>8, <1>9 DEF BestHits, n

\* A query that is answered in time gets as many chunks as it may, the best ones,
\* and the knowledge base is used if and only if its best chunk scores MinScore;
\* one that is not goes without.
THEOREM BestAreServed == Spec => []BestHits
  <1>1. Init => Answered
    BY DEF Init, Answered
  <1>2. Spec => []Answered
    BY <1>1, AnsweredStep, PTL DEF Spec
  <1> QED
    BY <1>2, TypeCorrect, AnsweredBest, PTL

----------------------------------------------------------------------------
(* What is appended changes no chunk but the last: the index and the build *)
(* are both on one and the same pass over the blocks of the file.          *)

Outside(d, p) == \A i \in 1..Len(d) : ~(d[i].first <= p /\ p <= d[i].last)

\* Strip, and below one block of _chunk_text, for a file d.
StripIn(d, s) ==
    LET n == CHOOSE k \in 0..2 : /\ \A i \in 1..k : Outside(d, s[i])
                                 /\ ~Outside(d, s[k + 1])
    IN SubSeq(s, n + 1, Len(s))

SectionIn(d, section, k) == IF d[k].heading THEN k ELSE section

BufIn(d, buf, k) ==
    IF Fits(buf, d[k]) THEN StripIn(d, buf \o Gap(d[k]) \o Places(d[k]))
    ELSE IF Carried(buf) = <<>> THEN Places(d[k])
    ELSE StripIn(d, Carried(buf) \o Gap(d[k]) \o Places(d[k]))

OneBlock(d, l, k) ==
    [section |-> SectionIn(d, l.section, k),
     buf     |-> BufIn(d, l.buf, k),
     chunks  |-> IF Fits(l.buf, d[k]) THEN l.chunks
                 ELSE l.chunks \o PutDown(l.buf, SectionIn(d, l.section, k))]

NoLocals == [section |-> General, buf |-> <<>>, chunks |-> <<>>]

SplitAt(d, l, n) == Splitting(d, l.chunks, l.buf, l.section, n)

\* The chunks, should the text end here.
AllOf(l) == l.chunks \o PutDown(l.buf, l.section)

StartOf(t, u) == Len(t) <= Len(u) /\ \A p \in 1..Len(t) : t[p] = u[p]

\* new has the chunks of old, the last of which may be longer.
GoesOn(old, new) ==
    /\ Len(old) <= Len(new)
    /\ \A i \in 1..Len(old) : /\ StartOf(old[i].text, new[i].text)
                              /\ i < Len(old) => new[i] = old[i]

\* r[k] is what _chunk_text has after the first k blocks of d.
Pass(d, r, n) ==
    /\ n \in 0..Len(d) /\ r[0] = NoLocals
    /\ \A k \in 0..n : SplitAt(d, r[k], k)
    /\ \A k \in 1..n : r[k] = OneBlock(d, r[k - 1], k)
    /\ \A j, k \in 0..n : j <= k => GoesOn(AllOf(r[j]), AllOf(r[k]))

Locals == [section |-> split.section, buf |-> split.buf, chunks |-> split.chunks]

OnPass(r, n) ==
    /\ Pass(doc, r, n)
    /\ index.blocks <= n /\ index.chunks = AllOf(r[index.blocks])
    /\ pc # "idle" => index.blocks <= split.read
    /\ pc = "split" => split.next - 1 <= n /\ Locals = r[split.next - 1]
    /\ pc = "embed" => split.read <= n /\ split.chunks = AllOf(r[split.read])

OnePass == \E n \in Nat : \E r : OnPass(r, n)

LEMMA StartTwice ==
    ASSUME NEW t \in Seq(Nat), NEW u \in Seq(Nat), NEW v \in Seq(Nat),
           StartOf(t, u), StartOf(u, v)
    PROVE  StartOf(t, v)
  <1>1. Len(t) \in Nat /\ Len(u) \in Nat /\ Len(v) \in Nat
    OBVIOUS
  <1>2. /\ Len(t) <= Len(u) /\ Len(u) <= Len(v)
        /\ \A p \in 1..Len(t) : t[p] = u[p]
        /\ \A p \in 1..Len(u) : u[p] = v[p]
    BY DEF StartOf
  <1>3. Len(t) <= Len(v)
    BY <1>1, <1>2
  <1>4. ASSUME NEW p \in 1..Len(t) PROVE t[p] = v[p]
    <2>1. p \in 1..Len(u)
      BY <1>1, <1>2
    <2> QED
      BY <1>2, <2>1
  <1> QED
    BY <1>3, <1>4 DEF StartOf

LEMMA StartIsExcerpt ==
    ASSUME NEW t \in Seq(Nat), NEW u \in Seq(Nat), StartOf(t, u)
    PROVE  t = SubSeq(u, 1, Len(t))
  <1> DEFINE z == Len(t)
             w == SubSeq(u, 1, z)
  <1>1. z \in Nat /\ Len(u) \in Nat /\ z <= Len(u) /\ \A p \in 1..z : t[p] = u[p]
    BY DEF StartOf
  <1>2. w \in Seq(Nat) /\ Len(w) = z /\ \A p \in 1..z : w[p] = u[p]
    BY <1>1
  <1> HIDE DEF w
  <1>3. t = w
    BY <1>1, <1>2, SeqEqual
  <1> QED
    BY <1>3 DEF w

LEMMA GoesOnSame ==
    ASSUME NEW s \in Seq(ChunkType)
    PROVE  GoesOn(s, s)
  <1>1. Len(s) \in Nat /\ \A i \in 1..Len(s) : s[i] \in ChunkType
    OBVIOUS
  <1>2. \A i \in 1..Len(s) : Len(s[i].text) \in Nat
    BY <1>1 DEF ChunkType
  <1> QED
    BY <1>1, <1>2 DEF GoesOn, StartOf

LEMMA GoesOnTwice ==
    ASSUME NEW a \in Seq(ChunkType), NEW b \in Seq(ChunkType), NEW c \in Seq(ChunkType),
           GoesOn(a, b), GoesOn(b, c)
    PROVE  GoesOn(a, c)
  <1>1. Len(a) \in Nat /\ Len(b) \in Nat /\ Len(c) \in Nat /\ Len(a) <= Len(b) /\ Len(b) <= Len(c)
    BY DEF GoesOn
  <1>2. ASSUME NEW i \in 1..Len(a)
        PROVE  StartOf(a[i].text, c[i].text) /\ (i < Len(a) => c[i] = a[i])
    <2>1. i \in 1..Len(b) /\ i \in 1..Len(c)
      BY <1>1
    <2>2. a[i] \in ChunkType /\ b[i] \in ChunkType /\ c[i] \in ChunkType
      BY <2>1
    <2>3. a[i].text \in Seq(Nat) /\ b[i].text \in Seq(Nat) /\ c[i].text \in Seq(Nat)
      BY <2>2 DEF ChunkType
    <2>4. StartOf(a[i].text, b[i].text) /\ (i < Len(a) => b[i] = a[i])
      BY DEF GoesOn
    <2>5. StartOf(b[i].text, c[i].text) /\ (i < Len(b) => c[i] = b[i])
      BY <2>1 DEF GoesOn
    <2>6. StartOf(a[i].text, c[i].text)
      BY <2>3, <2>4, <2>5, StartTwice
    <2>7. i < Len(a) => i < Len(b)
      BY <1>1
    <2> QED
      BY <2>4, <2>5, <2>6, <2>7
  <1>3. Len(a) <= Len(c)
    BY <1>1
  <1> QED
    BY <1>2, <1>3 DEF GoesOn

\* A chunk more, after the last one was put down as it is or went on.
LEMMA GoesOnNext ==
    ASSUME NEW s \in Seq(ChunkType), NEW c \in ChunkType, NEW e \in ChunkType,
           NEW new \in Seq(ChunkType), StartOf(c.text, e.text), Len(s) < Len(new),
           \A i \in 1..Len(s) : new[i] = s[i], new[Len(s) + 1] = e
    PROVE  GoesOn(Append(s, c), new)
  <1> DEFINE old == Append(s, c)
             l == Len(s)
  <1>1. /\ old \in Seq(ChunkType) /\ Len(old) = l + 1 /\ old[l + 1] = c
        /\ \A i \in 1..l : old[i] = s[i]
        /\ l \in Nat
    BY AppendFacts
  <1> HIDE DEF old
  <1>2. Len(new) \in Nat /\ Len(old) <= Len(new)
    BY <1>1
  <1>3. ASSUME NEW i \in 1..(l + 1)
        PROVE  StartOf(old[i].text, new[i].text) /\ (i < l + 1 => new[i] = old[i])
    <2>1. CASE i \in 1..l
      <3>1. new[i] = s[i] /\ old[i] = s[i] /\ s[i] \in ChunkType
        BY <1>1, <2>1
      <3>2. s[i].text \in Seq(Nat)
        BY <3>1 DEF ChunkType
      <3>3. StartOf(s[i].text, s[i].text)
        BY <3>2 DEF StartOf
      <3> QED
        BY <3>1, <3>3
    <2>2. CASE i = l + 1
      BY <1>1, <2>2
    <2> QED
      BY <1>1, <2>1, <2>2
  <1>4. GoesOn(old, new)
    BY <1>1, <1>2, <1>3 DEF GoesOn
  <1> QED
    BY <1>4 DEF old

\* Two runs from the same place on.
LEMMA RunStarts ==
    ASSUME NEW t, NEW u, Run(t), Run(u), t[1] = u[1], Len(t) <= Len(u)
    PROVE  StartOf(t, u)
  <1>1. Len(t) \in Nat /\ Len(u) \in Nat
    BY RunIs
  <1>2. \A p \in 1..Len(t) : t[p] = t[1] + p - 1 /\ u[p] = u[1] + p - 1
    BY <1>1 DEF Run
  <1> QED
    BY <1>2 DEF StartOf

\* The text so far, when the next block is joined to it, starts the longer one.
LEMMA JoinStarts ==
    ASSUME File(doc), NEW n \in Nat, n < Len(doc), NEW buf, NEW t,
           Piece(doc, buf, n), Piece(doc, t, n + 1), t[1] = buf[1]
    PROVE  StartOf(buf, t)
  <1>1. PICK k \in 1..Len(doc) : k = n + 1
    BY FileFacts
  <1>2. PICK a \in Nat, m \in Nat, e \in Nat : Spans(buf, a, m, e) /\ doc[n].last = e
    BY PieceFacts
  <1>3. PICK b \in Nat, z \in Nat, g \in Nat : Spans(t, b, z, g) /\ doc[k].last = g
    BY <1>1, PieceFacts
  <1>4. n \in 1..Len(doc)
    BY DEF Piece
  <1>5. doc[k].first = doc[n].last + 3 /\ doc[k].first \in Nat /\ doc[k].first <= doc[k].last
    BY <1>1, <1>4, FileFacts DEF File
  <1>6. e < g
    BY <1>2, <1>3, <1>5
  <1>7. /\ buf[1] = a /\ Len(buf) = m /\ a + m = e + 1
        /\ t[1] = b /\ Len(t) = z /\ b + z = g + 1
    BY <1>2, <1>3 DEF Spans
  <1>8. Len(buf) <= Len(t)
    <2>1. a = b
      BY <1>7
    <2> QED
      BY <1>6, <1>7, <2>1
  <1>9. Run(buf) /\ Run(t)
    BY DEF Piece
  <1> QED
    BY <1>8, <1>9, RunStarts

LEMMA StripIs == \A s : Strip(s) = StripIn(doc, s)
  BY DEF Strip, StripIn, Blank, Outside

\* Where _chunk_text is after one more block, on the same pass.
LEMMA BlockSplits ==
    ASSUME File(doc), NEW n \in Nat, n < Len(doc), NEW l, SplitAt(doc, l, n)
    PROVE  SplitAt(doc, OneBlock(doc, l, n + 1), n + 1)
  <1> DEFINE b == doc[n + 1]
             q == SectionAt(l.section, n + 1)
  <1>1. SectionIn(doc, l.section, n + 1) = q
    BY DEF SectionIn, SectionAt
  <1>2. Splitting(doc, l.chunks, l.buf, l.section, n)
    BY DEF SplitAt
  <1>3. CASE Fits(l.buf, b)
    <2>1. Splitting(doc, l.chunks, Strip(l.buf \o Gap(b) \o Places(b)), q, n + 1)
      BY <1>2, <1>3, JoinKeeps
    <2>2. /\ OneBlock(doc, l, n + 1).section = q
          /\ OneBlock(doc, l, n + 1).chunks = l.chunks
          /\ OneBlock(doc, l, n + 1).buf = Strip(l.buf \o Gap(b) \o Places(b))
      BY <1>1, <1>3, StripIs DEF OneBlock, BufIn
    <2> QED
      BY <2>1, <2>2 DEF SplitAt
  <1>4. CASE ~Fits(l.buf, b)
    <2> DEFINE t == IF Carried(l.buf) = <<>> THEN Places(b)
                    ELSE Strip(Carried(l.buf) \o Gap(b) \o Places(b))
    <2>1. Splitting(doc, l.chunks \o PutDown(l.buf, q), t, q, n + 1)
      BY <1>2, FlushKeeps
    <2>2. /\ OneBlock(doc, l, n + 1).section = q
          /\ OneBlock(doc, l, n + 1).chunks = l.chunks \o PutDown(l.buf, q)
          /\ OneBlock(doc, l, n + 1).buf = t
      BY <1>1, <1>4, StripIs DEF OneBlock, BufIn
    <2> QED
      BY <2>1, <2>2 DEF SplitAt
  <1> QED
    BY <1>3, <1>4

LEMMA AllType ==
    ASSUME File(doc), NEW n \in Nat, NEW l, SplitAt(doc, l, n)
    PROVE  AllOf(l) \in Seq(ChunkType)
  <1>1. Cut(doc, l.chunks \o PutDown(l.buf, l.section), n)
    BY LastPutDown DEF SplitAt
  <1> QED
    BY <1>1 DEF Cut, AllOf

\* No block takes back what the ones before it gave.
LEMMA BlockGoesOn ==
    ASSUME File(doc), NEW n \in Nat, n < Len(doc), NEW l, SplitAt(doc, l, n)
    PROVE  GoesOn(AllOf(l), AllOf(OneBlock(doc, l, n + 1)))
  <1> DEFINE e == OneBlock(doc, l, n + 1)
             q == SectionAt(l.section, n + 1)
             b == doc[n + 1]
  <1> SUFFICES GoesOn(AllOf(l), AllOf(e))
    OBVIOUS
  <1>1. SplitAt(doc, e, n + 1) /\ n + 1 \in Nat /\ n + 1 > 0
    BY BlockSplits
  <1>2. AllOf(l) \in Seq(ChunkType) /\ AllOf(e) \in Seq(ChunkType)
    BY <1>1, AllType
  <1>3. /\ Cut(doc, l.chunks, n) /\ l.buf \in Seq(Nat) /\ l.section \in Nat
        /\ l.buf # <<>> => n > 0 /\ Piece(doc, l.buf, n)
        /\ n > 0 => l.buf # <<>>
    BY DEF SplitAt, Splitting
  <1>4. l.chunks \in Seq(ChunkType)
    BY <1>3 DEF Cut
  <1>5. /\ e.buf \in Seq(Nat) /\ e.section \in Nat /\ e.buf # <<>> /\ Piece(doc, e.buf, n + 1)
        /\ Cut(doc, e.chunks, n + 1)
    BY <1>1 DEF SplitAt, Splitting
  <1>6. e.chunks \in Seq(ChunkType)
    BY <1>5 DEF Cut
  <1>7. e.section = q
    BY DEF OneBlock, SectionIn, SectionAt
  <1>8. Fits(l.buf, b) => /\ e.chunks = l.chunks
                          /\ e.buf = Strip(l.buf \o Gap(b) \o Places(b))
    BY StripIs DEF OneBlock, BufIn
  <1>9. ~Fits(l.buf, b) => e.chunks = l.chunks \o PutDown(l.buf, q)
    BY DEF OneBlock, SectionIn, SectionAt
  <1> HIDE DEF e, q, b
  <1> DEFINE tail == [text |-> e.buf, section |-> e.section]
  <1>10. tail \in ChunkType /\ tail.text = e.buf
    BY <1>5 DEF ChunkType
  <1>11. AllOf(e) = Append(e.chunks, tail)
    <2>1. PutDown(e.buf, e.section) = <<tail>>
      BY <1>5 DEF PutDown
    <2> QED
      BY <1>6, <1>10, <2>1, ConcatOne DEF AllOf
  <1> HIDE DEF tail
  <1>12. /\ Len(AllOf(e)) = Len(e.chunks) + 1 /\ AllOf(e)[Len(e.chunks) + 1] = tail
         /\ \A i \in 1..Len(e.chunks) : AllOf(e)[i] = e.chunks[i]
         /\ Len(e.chunks) \in Nat
    BY <1>6, <1>10, <1>11, AppendFacts
  <1>13. CASE l.buf = <<>>
    <2>1. n = 0
      BY <1>3, <1>13
    <2>2. l.chunks = <<>>
      BY <1>3, <2>1, NoneYet
    <2>3. AllOf(l) = <<>>
      BY <1>13, <2>2 DEF AllOf, PutDown
    <2>4. Len(AllOf(l)) = 0 /\ Len(AllOf(e)) \in Nat
      BY <1>2, <2>3
    <2> QED
      BY <2>4 DEF GoesOn
  <1>14. CASE l.buf # <<>>
    <2> DEFINE head == [text |-> l.buf, section |-> l.section]
               z == Len(l.chunks)
    <2>1. head \in ChunkType /\ head.text = l.buf
      BY <1>3 DEF ChunkType
    <2>2. AllOf(l) = Append(l.chunks, head)
      <3>1. PutDown(l.buf, l.section) = <<head>>
        BY <1>14 DEF PutDown
      <3> QED
        BY <1>4, <2>1, <3>1, ConcatOne DEF AllOf
    <2> HIDE DEF head
    <2>3. CASE Fits(l.buf, b)
      <3>1. e.chunks = l.chunks
        BY <1>8, <2>3
      <3>2. e.buf[1] = l.buf[1]
        BY <1>3, <1>8, <1>14, <2>3, Joined DEF b
      <3>3. StartOf(head.text, tail.text)
        BY <1>3, <1>5, <1>10, <1>14, <2>1, <3>2, JoinStarts
      <3>4. z < Len(AllOf(e)) /\ AllOf(e)[z + 1] = tail
            /\ \A i \in 1..z : AllOf(e)[i] = l.chunks[i]
        BY <1>12, <3>1
      <3> HIDE DEF z
      <3>5. GoesOn(Append(l.chunks, head), AllOf(e))
        BY <1>2, <1>4, <1>10, <2>1, <3>3, <3>4, GoesOnNext DEF z
      <3> QED
        BY <2>2, <3>5
    <2>4. CASE ~Fits(l.buf, b)
      <3> DEFINE down == [text |-> l.buf, section |-> q]
      <3>1. down \in ChunkType /\ down.text = l.buf
        BY <1>3, <1>5, <1>7 DEF ChunkType
      <3>2. e.chunks = Append(l.chunks, down)
        <4>1. PutDown(l.buf, q) = <<down>>
          BY <1>14 DEF PutDown
        <4> QED
          BY <1>4, <1>9, <2>4, <3>1, <4>1, ConcatOne
      <3> HIDE DEF down
      <3>3. /\ Len(e.chunks) = z + 1 /\ e.chunks[z + 1] = down /\ z \in Nat
            /\ \A i \in 1..z : e.chunks[i] = l.chunks[i]
        BY <1>4, <3>1, <3>2, AppendFacts
      <3>4. StartOf(head.text, down.text)
        <4>1. Len(l.buf) \in Nat
          BY <1>3
        <4> QED
          BY <2>1, <3>1, <4>1 DEF StartOf
      <3> HIDE DEF z
      <3>5. z + 1 \in 1..(z + 1) /\ \A i \in 1..z : i \in 1..(z + 1)
        BY <3>3
      <3>6. Len(AllOf(e)) = (z + 1) + 1 /\ \A i \in 1..(z + 1) : AllOf(e)[i] = e.chunks[i]
        BY <1>12, <3>3
      <3>7. z < Len(AllOf(e))
        BY <3>3, <3>6
      <3>8. AllOf(e)[z + 1] = down /\ \A i \in 1..z : AllOf(e)[i] = l.chunks[i]
        BY <3>3, <3>5, <3>6
      <3>9. GoesOn(Append(l.chunks, head), AllOf(e))
        BY <1>2, <1>4, <2>1, <3>1, <3>4, <3>7, <3>8, GoesOnNext DEF z
      <3> QED
        BY <2>2, <3>9
    <2> QED
      BY <2>3, <2>4
  <1> QED
    BY <1>13, <1>14

\* A pass that has not come to the end of the file can be carried on.
LEMMA PassLonger ==
    ASSUME File(doc), NEW n \in Nat, NEW r, Pass(doc, r, n), n < Len(doc)
    PROVE  \E s : Pass(doc, s, n + 1) /\ \A k \in 0..n : s[k] = r[k]
  <1> DEFINE last == OneBlock(doc, r[n], n + 1)
             s == [k \in 0..(n + 1) |-> IF k <= n THEN r[k] ELSE last]
  <1>1. SplitAt(doc, r[n], n)
    BY DEF Pass
  <1>2. SplitAt(doc, last, n + 1) /\ GoesOn(AllOf(r[n]), AllOf(last))
    BY <1>1, BlockSplits, BlockGoesOn
  <1>3. last = OneBlock(doc, r[n], n + 1)
    OBVIOUS
  <1> HIDE DEF last
  <1>4. /\ \A k \in 0..n : s[k] = r[k]
        /\ s[n + 1] = last
    OBVIOUS
  <1> HIDE DEF s
  <1>5. \A k \in 0..(n + 1) : k \in 0..n \/ k = n + 1
    OBVIOUS
  <1>6. n + 1 \in 0..Len(doc) /\ s[0] = NoLocals
    <2>1. n + 1 \in 0..Len(doc)
      BY FileFacts
    <2>2. r[0] = NoLocals /\ 0 \in 0..n
      BY DEF Pass
    <2> QED
      BY <1>4, <2>1, <2>2
  <1>7. \A k \in 0..(n + 1) : SplitAt(doc, s[k], k)
    <2>1. \A k \in 0..n : SplitAt(doc, r[k], k)
      BY DEF Pass
    <2> QED
      BY <1>2, <1>4, <1>5, <2>1
  <1>8. ASSUME NEW k \in 1..(n + 1) PROVE s[k] = OneBlock(doc, s[k - 1], k)
    <2>1. CASE k = n + 1
      <3>1. k - 1 = n /\ n \in 0..n
        BY <2>1
      <3> QED
        BY <1>3, <1>4, <2>1, <3>1
    <2>2. CASE k # n + 1
      <3>1. k \in 1..n /\ k \in 0..n /\ k - 1 \in 0..n
        BY <2>2
      <3>2. r[k] = OneBlock(doc, r[k - 1], k)
        BY <3>1 DEF Pass
      <3> QED
        BY <1>4, <3>1, <3>2
    <2> QED
      BY <2>1, <2>2
  <1>9. ASSUME NEW j \in 0..(n + 1), NEW k \in 0..(n + 1), j <= k
        PROVE  GoesOn(AllOf(s[j]), AllOf(s[k]))
    <2>1. CASE k \in 0..n
      <3>1. j \in 0..n
        BY <1>9, <2>1
      <3>2. GoesOn(AllOf(r[j]), AllOf(r[k]))
        BY <1>9, <2>1, <3>1 DEF Pass
      <3> QED
        BY <1>4, <2>1, <3>1, <3>2
    <2>2. CASE j = n + 1
      <3>1. k = n + 1 /\ n + 1 \in Nat
        BY <1>9, <2>2
      <3>2. AllOf(last) \in Seq(ChunkType)
        BY <1>2, <3>1, AllType
      <3> QED
        BY <1>4, <2>2, <3>1, <3>2, GoesOnSame
    <2>3. CASE j \in 0..n /\ k = n + 1
      <3>1. j <= n /\ n \in 0..n /\ n + 1 \in Nat /\ j \in Nat
        BY <2>3
      <3>2. GoesOn(AllOf(r[j]), AllOf(r[n])) /\ SplitAt(doc, r[j], j)
        BY <2>3, <3>1 DEF Pass
      <3>3. AllOf(r[j]) \in Seq(ChunkType) /\ AllOf(r[n]) \in Seq(ChunkType)
        BY <1>1, <3>1, <3>2, AllType
      <3>4. AllOf(last) \in Seq(ChunkType)
        BY <1>2, <3>1, AllType
      <3>5. GoesOn(AllOf(r[j]), AllOf(last))
        BY <1>2, <3>2, <3>3, <3>4, GoesOnTwice
      <3> QED
        BY <1>4, <2>3, <3>5
    <2> QED
      BY <1>5, <2>1, <2>2, <2>3
  <1>10. Pass(doc, s, n + 1)
    BY <1>6, <1>7, <1>8, <1>9 DEF Pass
  <1> QED
    BY <1>4, <1>10

\* A place of the file is in a block of it, or is not, however the file grows.
LEMMA OutsideStays ==
    ASSUME NEW d, NEW e, File(d), File(e), Extends(d, e), NEW p \in Nat, p <= EndOf(d)
    PROVE  Outside(d, p) <=> Outside(e, p)
  <1>1. /\ Len(d) \in Nat /\ Len(e) \in Nat /\ Len(d) <= Len(e)
        /\ \A i \in 1..Len(d) : i \in 1..Len(e) /\ e[i] = d[i]
    BY FileFacts DEF Extends
  <1>2. Outside(e, p) => Outside(d, p)
    BY <1>1 DEF Outside
  <1>3. ASSUME Outside(d, p), NEW i \in 1..Len(e), e[i].first <= p, p <= e[i].last PROVE FALSE
    <2>1. i \notin 1..Len(d)
      BY <1>1, <1>3 DEF Outside
    <2>2. CASE Len(d) = 0
      <3>1. EndOf(d) = 0
        <4>1. d = <<>>
          BY <2>2, FileFacts, LengthZero
        <4> QED
          BY <4>1 DEF EndOf
      <3>2. 3 <= e[i].first /\ e[i].first \in Nat
        BY FileFacts
      <3> QED
        BY <1>3, <3>1, <3>2
    <2>3. CASE Len(d) > 0
      <3>1. PICK z \in 1..Len(d) : z = Len(d)
        BY <1>1, <2>3
      <3>2. d # <<>> /\ EndOf(d) = d[z].last
        <4>1. d # <<>>
          BY <2>3, FileFacts, LengthZero
        <4> QED
          BY <3>1, <4>1 DEF EndOf
      <3>3. z \in 1..Len(e) /\ e[z] = d[z] /\ z < i
        BY <1>1, <2>1, <3>1
      <3>4. e[z].last + 2 < e[i].first
        BY <3>3 DEF File
      <3>5. PICK x \in Nat, y \in Nat : x = d[z].last /\ y = e[i].first
        BY FileFacts
      <3>6. x + 2 < y
        BY <3>3, <3>4, <3>5
      <3>7. y <= p /\ p <= x
        BY <1>3, <3>2, <3>5
      <3> QED
        BY <3>6, <3>7
    <2> QED
      BY <1>1, <2>2, <2>3
  <1> QED
    BY <1>2, <1>3 DEF Outside

LEMMA OutsideIn == \A d, p : Outside(d, p) <=> ~In(d, p)
  BY DEF Outside, In

\* strip() of a text that ends in the file does not see what is added to it.
LEMMA StripStays ==
    ASSUME NEW d, NEW e, File(d), File(e), Extends(d, e),
           NEW a \in Nat, NEW m \in Nat, NEW s, RunOf(s, a, m), 3 <= m, a + m <= EndOf(d) + 1
    PROVE  StripIn(e, s) = StripIn(d, s)
  <1> DEFINE P(f, k) == (\A i \in 1..k : Outside(f, s[i])) /\ ~Outside(f, s[k + 1])
             n == CHOOSE k \in 0..2 : P(d, k)
             o == CHOOSE k \in 0..2 : P(e, k)
  <1>0. EndOf(d) \in Nat
    <2>1. 1 \in Nat \ {0} /\ TRUE \in BOOLEAN
      OBVIOUS
    <2> QED
      BY <2>1, FileGrows
  <1>1. s[1] = a /\ s[2] = a + 1 /\ s[3] = a + 2 /\ 1 <= a
    <2>1. a > 0 /\ \A i \in 1..m : s[i] = a + i - 1
      BY RunEnds
    <2>2. 1 \in 1..m /\ 2 \in 1..m /\ 3 \in 1..m
      OBVIOUS
    <2> QED
      BY <2>1, <2>2
  <1>2. /\ Outside(d, s[1]) <=> Outside(e, s[1])
        /\ Outside(d, s[2]) <=> Outside(e, s[2])
        /\ Outside(d, s[3]) <=> Outside(e, s[3])
    <2>1. a <= EndOf(d) /\ a + 1 <= EndOf(d) /\ a + 2 <= EndOf(d) /\ a + 1 \in Nat /\ a + 2 \in Nat
      BY <1>0
    <2> QED
      BY <1>1, <2>1, OutsideStays
  <1>3. ~Outside(d, s[1]) \/ ~Outside(d, s[2]) \/ ~Outside(d, s[3])
    <2>1. a <= EndOf(d)
      BY <1>0
    <2> QED
      BY <1>1, <2>1, ThreePlaces, OutsideIn
  <1>4. \A f : /\ P(f, 0) <=> ~Outside(f, s[1])
               /\ P(f, 1) <=> Outside(f, s[1]) /\ ~Outside(f, s[2])
               /\ P(f, 2) <=> Outside(f, s[1]) /\ Outside(f, s[2]) /\ ~Outside(f, s[3])
    <2>1. 1..0 = {} /\ 1..1 = {1} /\ 1..2 = {1, 2} /\ 0 + 1 = 1 /\ 1 + 1 = 2 /\ 2 + 1 = 3
      OBVIOUS
    <2> QED
      BY <2>1
  <1>5. 0..2 = {0, 1, 2}
    OBVIOUS
  <1> HIDE DEF P
  <1>6. n \in 0..2 /\ P(d, n) /\ o \in 0..2 /\ P(e, o)
    <2>1. (\E k \in 0..2 : P(d, k)) /\ (\E k \in 0..2 : P(e, k))
      BY <1>2, <1>3, <1>4, <1>5
    <2> QED
      BY <2>1
  <1>7. StripIn(d, s) = SubSeq(s, n + 1, Len(s)) /\ StripIn(e, s) = SubSeq(s, o + 1, Len(s))
    BY DEF StripIn, P
  <1> HIDE DEF n, o
  <1>8. n = o
    BY <1>2, <1>4, <1>5, <1>6
  <1> QED
    BY <1>7, <1>8

\* With the next block joined to it, a text of the first n blocks ends in the file.
LEMMA JoinedRun ==
    ASSUME NEW d, File(d), NEW n \in Nat, n < Len(d), NEW u,
           \/ u = <<>> /\ n = 0
           \/ \E a \in Nat, m \in Nat, e \in Nat : n > 0 /\ Spans(u, a, m, e) /\ d[n].last = e
    PROVE  \E a \in Nat, m \in Nat : /\ RunOf(u \o Gap(d[n + 1]) \o Places(d[n + 1]), a, m)
                                     /\ 3 <= m /\ a + m <= EndOf(d) + 1
  <1>1. PICK i \in 1..Len(d) : i = n + 1
    BY FileFacts
  <1>2. PICK f \in Nat, l \in Nat : d[i].first = f /\ d[i].last = l /\ 3 <= f /\ f <= l
    BY FileFacts
  <1>3. PICK z \in Nat : z = EndOf(d) /\ l <= z
    BY <1>2, LastEnd
  <1> DEFINE w == l - f + 1
  <1>4. w \in Nat /\ w > 0 /\ f + w = l + 1
    BY <1>2
  <1> HIDE DEF w
  <1>5. CASE u = <<>>
    <2>1. RunOf(u \o Gap(d[i]) \o Places(d[i]), f - 2, 2 + w) /\ f - 2 \in Nat
      BY <1>2, <1>5, FirstRun DEF w
    <2>2. PICK a \in Nat, m \in Nat : a = f - 2 /\ m = 2 + w
      BY <1>4, <2>1
    <2>3. 3 <= m /\ a + m <= z + 1
      BY <1>2, <1>3, <1>4, <2>2
    <2>4. RunOf(u \o Gap(d[i]) \o Places(d[i]), a, m)
      BY <2>1, <2>2
    <2> QED
      BY <1>1, <1>3, <2>3, <2>4
  <1>6. CASE u # <<>>
    <2>1. PICK a \in Nat, m \in Nat, e \in Nat : n > 0 /\ Spans(u, a, m, e) /\ d[n].last = e
      BY <1>6
    <2>2. RunOf(u, a, m) /\ a + m = e + 1 /\ a > 0 /\ m > 0
      BY <2>1 DEF Spans
    <2>3. d[i].first = d[n].last + 3
      <3>1. n \in 1..Len(d)
        BY <2>1, FileFacts
      <3> QED
        BY <1>1, <3>1 DEF File
    <2>4. f = a + m + 2
      <3>1. f = e + 3
        BY <1>2, <2>1, <2>3
      <3> QED
        BY <2>2, <3>1
    <2>5. RunOf(u \o Gap(d[i]) \o Places(d[i]), a, m + 2 + w)
      BY <1>2, <2>2, <2>4, JoinRun DEF w
    <2>6. PICK q \in Nat : q = m + 2 + w
      BY <1>4
    <2>7. 3 <= q /\ a + q <= z + 1
      BY <1>3, <1>4, <2>2, <2>4, <2>6
    <2>8. RunOf(u \o Gap(d[i]) \o Places(d[i]), a, q)
      BY <2>5, <2>6
    <2> QED
      BY <1>1, <1>3, <2>7, <2>8
  <1> QED
    BY <1>5, <1>6

\* One block of a file is cut as it is in the file that has grown.
LEMMA BlockStays ==
    ASSUME NEW d, NEW e, File(d), File(e), Extends(d, e),
           NEW n \in Nat, n < Len(d), NEW l, SplitAt(d, l, n)
    PROVE  OneBlock(e, l, n + 1) = OneBlock(d, l, n + 1)
  <1> DEFINE b == d[n + 1]
  <1>1. e[n + 1] = b
    <2>1. n + 1 \in 1..Len(d)
      BY FileFacts
    <2> QED
      BY <2>1 DEF Extends
  <1>2. /\ l.buf \in Seq(Nat)
        /\ l.buf # <<>> => n > 0 /\ Piece(d, l.buf, n)
        /\ n > 0 => l.buf # <<>>
    BY DEF SplitAt, Splitting
  <1>3. ASSUME NEW u, \/ u = <<>> /\ n = 0
                      \/ \E a \in Nat, m \in Nat, z \in Nat :
                            n > 0 /\ Spans(u, a, m, z) /\ d[n].last = z
        PROVE  StripIn(e, u \o Gap(b) \o Places(b)) = StripIn(d, u \o Gap(b) \o Places(b))
    <2> DEFINE t == u \o Gap(b) \o Places(b)
    <2>1. PICK a \in Nat, m \in Nat : RunOf(t, a, m) /\ 3 <= m /\ a + m <= EndOf(d) + 1
      BY <1>3, JoinedRun
    <2> HIDE DEF t
    <2>2. StripIn(e, t) = StripIn(d, t)
      BY <2>1, StripStays
    <2> QED
      BY <2>2 DEF t
  <1>4. StripIn(e, l.buf \o Gap(b) \o Places(b)) = StripIn(d, l.buf \o Gap(b) \o Places(b))
    <2>1. CASE l.buf = <<>>
      <3>1. n = 0
        BY <1>2, <2>1
      <3> QED
        BY <1>3, <2>1, <3>1
    <2>2. CASE l.buf # <<>>
      <3>1. n > 0 /\ \E a \in Nat, m \in Nat, z \in Nat : Spans(l.buf, a, m, z) /\ d[n].last = z
        BY <1>2, <2>2, PieceFacts
      <3> QED
        BY <1>3, <3>1
    <2> QED
      BY <2>1, <2>2
  <1>5. ASSUME Carried(l.buf) # <<>>
        PROVE  StripIn(e, Carried(l.buf) \o Gap(b) \o Places(b))
                 = StripIn(d, Carried(l.buf) \o Gap(b) \o Places(b))
    <2>1. l.buf # <<>>
      <3> SUFFICES ASSUME l.buf = <<>> PROVE Carried(l.buf) = <<>>
        BY <1>5
      <3>1. Len(<<>>) = 0 /\ 0 <= Overlap
        BY SplitAssumption DEF SplitAssumption
      <3> QED
        BY <3>1 DEF Carried
    <2>2. PICK a \in Nat, m \in Nat, z \in Nat : Spans(l.buf, a, m, z) /\ d[n].last = z
      BY <1>2, <2>1, PieceFacts
    <2>3. RunOf(l.buf, a, m) /\ a + m = z + 1
      BY <2>2 DEF Spans
    <2>4. Overlap > 0
      <3>1. Overlap \in Nat
        BY SplitAssumption DEF SplitAssumption
      <3> QED
        BY <1>5, <2>2, <2>3, <3>1, CarriedRun
    <2>5. PICK k \in Nat : k < m /\ m - k <= Overlap /\ RunOf(Carried(l.buf), a + k, m - k)
      BY <2>2, <2>3, <2>4, CarriedRun
    <2>6. PICK c \in Nat, y \in Nat : c = a + k /\ y = m - k /\ c + y = z + 1 /\ c + y - 1 = z
      BY <2>3, <2>5
    <2>7. RunOf(Carried(l.buf), c, y)
      BY <2>5, <2>6
    <2>8. Spans(Carried(l.buf), c, y, z)
      <3> DEFINE t == Carried(l.buf)
      <3>1. RunOf(t, c, y)
        BY <2>7
      <3> HIDE DEF t
      <3>2. c \in Nat /\ y \in Nat /\ c + y = z + 1 /\ c + y - 1 = z
        BY <2>6
      <3>3. t[1] = c /\ Len(t) = y /\ c > 0 /\ y > 0 /\ t[Len(t)] = c + y - 1
        BY <3>1, <3>2, RunEnds
      <3>4. Spans(t, c, y, z)
        BY <3>1, <3>2, <3>3 DEF Spans
      <3> QED
        BY <3>4 DEF t
    <2>9. n > 0
      BY <1>2, <2>1
    <2> QED
      BY <1>3, <2>2, <2>8, <2>9
  <1>6. SectionIn(e, l.section, n + 1) = SectionIn(d, l.section, n + 1)
    BY <1>1 DEF SectionIn
  <1>7. BufIn(e, l.buf, n + 1) = BufIn(d, l.buf, n + 1)
    BY <1>1, <1>4, <1>5 DEF BufIn
  <1> QED
    BY <1>1, <1>6, <1>7 DEF OneBlock

LEMMA PassStays ==
    ASSUME NEW d, NEW e, File(d), File(e), Extends(d, e), NEW n \in Nat, NEW r, Pass(d, r, n)
    PROVE  Pass(e, r, n)
  <1>1. n \in 0..Len(d) /\ n \in 0..Len(e)
    <2>1. n \in 0..Len(d) /\ Len(d) <= Len(e) /\ Len(d) \in Nat /\ Len(e) \in Nat
      BY FileFacts DEF Pass, Extends
    <2> QED
      BY <2>1
  <1>2. ASSUME NEW k \in 0..n PROVE SplitAt(e, r[k], k)
    <2>1. Splitting(d, r[k].chunks, r[k].buf, r[k].section, k)
      BY DEF Pass, SplitAt
    <2>2. k \in 0..Len(d) /\ k \in 0..Len(e)
      BY <1>1
    <2>3. Splitting(e, r[k].chunks, r[k].buf, r[k].section, k)
      BY <2>1, <2>2, CutStays DEF Splitting
    <2> QED
      BY <2>3 DEF SplitAt
  <1>3. ASSUME NEW k \in 1..n PROVE r[k] = OneBlock(e, r[k - 1], k)
    <2>1. PICK j \in Nat : j = k - 1
      BY <1>1
    <2>2. j \in 0..n /\ j < Len(d) /\ k = j + 1
      BY <1>1, <2>1
    <2>3. SplitAt(d, r[j], j) /\ r[k] = OneBlock(d, r[j], j + 1)
      BY <2>1, <2>2 DEF Pass
    <2>4. OneBlock(e, r[j], j + 1) = OneBlock(d, r[j], j + 1)
      BY <2>2, <2>3, BlockStays
    <2> QED
      BY <2>1, <2>2, <2>3, <2>4
  <1>4. r[0] = NoLocals /\ \A j, k \in 0..n : j <= k => GoesOn(AllOf(r[j]), AllOf(r[k]))
    BY DEF Pass
  <1> QED
    BY <1>1, <1>2, <1>3, <1>4 DEF Pass

\* What the build has and what is served are on one pass over the file.
LEMMA OnePassGrows ==
    ASSUME KInv, OnePass, File(doc'), Extends(doc, doc'), UNCHANGED <<pc, split, index>>
    PROVE  OnePass'
  <1>0. PICK n \in Nat : \E r : OnPass(r, n)
    BY DEF OnePass
  <1>1. PICK r : OnPass(r, n)
    BY <1>0
  <1>2. Pass(doc', r, n)
    BY <1>1, PassStays DEF KInv, OnPass
  <1>3. OnPass(r, n)'
    BY <1>1, <1>2 DEF OnPass, Locals
  <1> QED
    BY <1>3 DEF OnePass

LEMMA OnePassRebuild ==
    ASSUME KInv, OnePass, Rebuild
    PROVE  OnePass'
  <1>0. PICK n \in Nat : \E r : OnPass(r, n)
    BY DEF OnePass
  <1>1. PICK r : OnPass(r, n)
    BY <1>0
  <1>2. doc' = doc /\ index' = index /\ pc' = "split" /\ split' = [NoSplit EXCEPT !.read = Len(doc)]
    BY DEF Rebuild
  <1>3. /\ split'.read = Len(doc) /\ split'.next = 1 /\ split'.section = General
        /\ split'.buf = <<>> /\ split'.chunks = <<>>
    BY <1>2 DEF NoSplit
  <1>4. index.blocks \in Nat /\ index.blocks <= Len(doc)
    BY DEF KInv, IndexInv
  <1>5. Locals' = NoLocals
    BY <1>3 DEF Locals, NoLocals
  <1>6. r[0] = NoLocals /\ split'.next - 1 = 0 /\ 0 <= n
    BY <1>1, <1>3 DEF OnPass, Pass
  <1>7. OnPass(r, n)'
    <2>1. Pass(doc', r, n) /\ index'.blocks <= n /\ index'.chunks = AllOf(r[index'.blocks])
      BY <1>1, <1>2 DEF OnPass
    <2>2. index'.blocks <= split'.read
      BY <1>2, <1>3, <1>4
    <2>3. split'.next - 1 <= n /\ Locals' = r[split'.next - 1]
      BY <1>5, <1>6
    <2> QED
      BY <1>2, <2>1, <2>2, <2>3 DEF OnPass
  <1> QED
    BY <1>7 DEF OnePass

\* Join and Flush are the next block of the pass.
LEMMA OnePassBlock ==
    ASSUME KInv, OnePass, Join \/ Flush
    PROVE  OnePass'
  <1>0. PICK n \in Nat : \E r : OnPass(r, n)
    BY DEF OnePass
  <1>1. PICK r : OnPass(r, n)
    BY <1>0
  <1> DEFINE m == split.next - 1
  <1>2. /\ File(doc) /\ split \in SplitType /\ Len(doc) \in Nat
        /\ split.read <= Len(doc)
    BY FileFacts DEF KInv, SplitInv, SplitType
  <1>3. /\ pc = "split" /\ split.next <= split.read
        /\ UNCHANGED <<doc, pc, index>>
    BY DEF Join, Flush
  <1>4. /\ m \in Nat /\ m + 1 = split.next /\ m < Len(doc)
        /\ split.next \in Nat /\ split.read \in Nat
    BY <1>2, <1>3 DEF SplitType
  <1>5. split'.next = split.next + 1 /\ split'.read = split.read
    BY <1>2 DEF Join, Flush, SplitType
  <1>6. Locals' = OneBlock(doc, Locals, split.next)
    <2> DEFINE b == doc[split.next]
               q == SectionAt(split.section, split.next)
    <2>1. SectionIn(doc, split.section, split.next) = q
      BY DEF SectionIn, SectionAt
    <2>2. CASE Join
      <3>1. Fits(split.buf, b)
        BY <2>2 DEF Join
      <3>2. /\ split'.section = q /\ split'.chunks = split.chunks
            /\ split'.buf = Strip(split.buf \o Gap(b) \o Places(b))
        BY <1>2, <2>2 DEF Join, SplitType
      <3> QED
        BY <2>1, <3>1, <3>2, StripIs DEF Locals, OneBlock, BufIn
    <2>3. CASE Flush
      <3>1. ~Fits(split.buf, b)
        BY <2>3 DEF Flush
      <3>2. /\ split'.section = q /\ split'.chunks = split.chunks \o PutDown(split.buf, q)
            /\ split'.buf = IF Carried(split.buf) = <<>> THEN Places(b)
                            ELSE Strip(Carried(split.buf) \o Gap(b) \o Places(b))
        BY <1>2, <2>3 DEF Flush, SplitType
      <3> QED
        BY <2>1, <3>1, <3>2, StripIs DEF Locals, OneBlock, BufIn
    <2> QED
      BY <2>2, <2>3
  <1> HIDE DEF m
  <1>7. Pass(doc, r, n) /\ m <= n /\ Locals = r[m] /\ index.blocks <= n
        /\ index.chunks = AllOf(r[index.blocks]) /\ index.blocks <= split.read
    BY <1>1, <1>3 DEF OnPass, m
  <1>8. index.blocks \in Nat
    BY DEF KInv, IndexInv
  <1>9. \E z \in Nat : \E s : /\ Pass(doc, s, z) /\ m + 1 <= z /\ n <= z
                                /\ \A k \in 0..n : s[k] = r[k]
    <2>1. CASE m < n
      BY <1>4, <1>7, <2>1
    <2>2. CASE m = n
      <3>1. n < Len(doc)
        BY <1>4, <2>2
      <3>2. PICK s : Pass(doc, s, n + 1) /\ \A k \in 0..n : s[k] = r[k]
        BY <1>2, <1>7, <3>1, PassLonger
      <3>3. n + 1 \in Nat /\ m + 1 <= n + 1 /\ n <= n + 1
        BY <2>2
      <3> QED
        BY <3>2, <3>3
    <2> QED
      BY <1>4, <1>7, <2>1, <2>2
  <1>10. PICK z \in Nat : \E s : /\ Pass(doc, s, z) /\ m + 1 <= z /\ n <= z
                                 /\ \A k \in 0..n : s[k] = r[k]
    BY <1>9
  <1>11. PICK s : /\ Pass(doc, s, z) /\ m + 1 <= z /\ n <= z
                  /\ \A k \in 0..n : s[k] = r[k]
    BY <1>10
  <1>12. s[m] = r[m] /\ s[index.blocks] = r[index.blocks] /\ index.blocks <= z
    <2>1. m \in 0..n /\ index.blocks \in 0..n
      BY <1>4, <1>7, <1>8
    <2>2. index.blocks <= z
      BY <1>7, <1>8, <1>11
    <2> QED
      BY <1>11, <2>1, <2>2
  <1>13. s[m + 1] = OneBlock(doc, s[m], m + 1)
    <2>1. m + 1 \in 1..z /\ (m + 1) - 1 = m
      BY <1>4, <1>11
    <2> QED
      BY <1>11, <2>1 DEF Pass
  <1>14. Locals' = s[m + 1] /\ split'.next - 1 = m + 1
    <2>1. Locals' = OneBlock(doc, s[m], m + 1)
      BY <1>4, <1>6, <1>7, <1>12
    <2>2. split'.next - 1 = m + 1
      BY <1>4, <1>5
    <2> QED
      BY <1>13, <2>1, <2>2
  <1>15. OnPass(s, z)'
    <2>1. /\ Pass(doc', s, z) /\ index'.blocks <= z /\ index'.chunks = AllOf(s[index'.blocks])
          /\ index'.blocks <= split'.read
      BY <1>3, <1>5, <1>7, <1>11, <1>12
    <2>2. split'.next - 1 <= z /\ Locals' = s[split'.next - 1]
      BY <1>11, <1>14
    <2>3. pc' = "split"
      BY <1>3
    <2> QED
      BY <2>1, <2>2, <2>3 DEF OnPass
  <1> QED
    BY <1>15 DEF OnePass

\* The end of the text, and what becomes of it.
LEMMA OnePassEnd ==
    ASSUME KInv, OnePass, Finish
    PROVE  OnePass' /\ (index' # index => GoesOn(index.chunks, index'.chunks))
  <1>0. PICK n \in Nat : \E r : OnPass(r, n)
    BY DEF OnePass
  <1>1. PICK r : OnPass(r, n)
    BY <1>0
  <1> DEFINE chunks == split.chunks \o PutDown(split.buf, split.section)
  <1>2. /\ split \in SplitType /\ split.read \in Nat /\ split.next \in Nat
        /\ split.next <= split.read + 1
    BY DEF KInv, SplitInv, SplitType
  <1>3. /\ pc = "split" /\ split.next > split.read /\ doc' = doc
        /\ \/ /\ chunks = <<>> /\ pc' = "idle"
              /\ index' = [chunks |-> <<>>, vectors |-> 0, blocks |-> split.read]
           \/ /\ pc' = "embed" /\ index' = index
              /\ split' = [split EXCEPT !.chunks = chunks, !.buf = <<>>]
    BY DEF Finish
  <1>4. split.next - 1 = split.read
    BY <1>2, <1>3
  <1>5. /\ Pass(doc, r, n) /\ index.blocks <= n /\ index.chunks = AllOf(r[index.blocks])
        /\ index.blocks <= split.read /\ split.read <= n /\ Locals = r[split.read]
    BY <1>1, <1>3, <1>4 DEF OnPass
  <1>6. chunks = AllOf(r[split.read])
    <2>1. chunks = AllOf(Locals)
      BY DEF AllOf, Locals
    <2> QED
      BY <1>5, <2>1
  <1>7. GoesOn(index.chunks, chunks)
    <2>1. index.blocks \in Nat
      BY DEF KInv, IndexInv
    <2>2. index.blocks \in 0..n /\ split.read \in 0..n
      BY <1>2, <1>5, <2>1
    <2> QED
      BY <1>5, <1>6, <2>2 DEF Pass
  <1> HIDE DEF chunks
  <1>8. CASE pc' = "embed" /\ index' = index /\ split' = [split EXCEPT !.chunks = chunks, !.buf = <<>>]
    <2>1. split'.read = split.read /\ split'.chunks = chunks
      BY <1>2, <1>8 DEF SplitType
    <2>2. OnPass(r, n)'
      BY <1>3, <1>5, <1>6, <1>8, <2>1 DEF OnPass
    <2> QED
      BY <1>8, <2>2 DEF OnePass
  <1>9. CASE /\ chunks = <<>> /\ pc' = "idle"
             /\ index' = [chunks |-> <<>>, vectors |-> 0, blocks |-> split.read]
    <2>1. index'.chunks = chunks /\ index'.blocks = split.read
      BY <1>9
    <2>2. OnPass(r, n)'
      BY <1>3, <1>5, <1>6, <1>9, <2>1 DEF OnPass
    <2> QED
      BY <1>7, <2>1, <2>2 DEF OnePass
  <1> QED
    BY <1>3, <1>8, <1>9

LEMMA OnePassEmbedded ==
    ASSUME KInv, OnePass, NEW v \in 0..Len(split.chunks), EmbedOk(v)
    PROVE  OnePass' /\ GoesOn(index.chunks, index'.chunks)
  <1>0. PICK n \in Nat : \E r : OnPass(r, n)
    BY DEF OnePass
  <1>1. PICK r : OnPass(r, n)
    BY <1>0
  <1>2. /\ pc = "embed" /\ pc' = "idle" /\ doc' = doc
        /\ index'.chunks = split.chunks /\ index'.blocks = split.read
    BY DEF EmbedOk
  <1>3. /\ Pass(doc, r, n) /\ index.blocks <= n /\ index.chunks = AllOf(r[index.blocks])
        /\ index.blocks <= split.read /\ split.read <= n
        /\ split.chunks = AllOf(r[split.read])
    BY <1>1, <1>2 DEF OnPass
  <1>4. index.blocks \in Nat /\ split.read \in Nat
    BY DEF KInv, IndexInv, SplitInv
  <1>5. GoesOn(index.chunks, index'.chunks)
    <2>1. index.blocks \in 0..n /\ split.read \in 0..n
      BY <1>3, <1>4
    <2> QED
      BY <1>2, <1>3, <2>1 DEF Pass
  <1>6. OnPass(r, n)'
    BY <1>2, <1>3 DEF OnPass
  <1> QED
    BY <1>5, <1>6 DEF OnePass

LEMMA OnePassSame ==
    ASSUME OnePass, doc' = doc, index' = index, split' = split \/ pc' = "idle",
           pc' = pc \/ pc' = "idle"
    PROVE  OnePass'
  <1>0. PICK n \in Nat : \E r : OnPass(r, n)
    BY DEF OnePass
  <1>1. PICK r : OnPass(r, n)
    BY <1>0
  <1>2. OnPass(r, n)'
    BY <1>1 DEF OnPass, Locals
  <1> QED
    BY <1>2 DEF OnePass

LEMMA OnePassInit == Init => OnePass
  <1> SUFFICES ASSUME Init PROVE OnePass
    OBVIOUS
  <1> DEFINE r == [k \in {0} |-> NoLocals]
  <1>1. r[0] = NoLocals
    OBVIOUS
  <1> HIDE DEF r
  <1>2. doc = <<>> /\ Len(doc) = 0 /\ doc \in Seq(BlockType)
        /\ index.chunks = <<>> /\ index.blocks = 0 /\ pc = "idle"
    BY DEF Init
  <1>3. 0..0 = {0} /\ 1..0 = {} /\ 0 \in 0..Len(doc)
    BY <1>2
  <1>4. NoLocals.section = 0 /\ NoLocals.buf = <<>> /\ NoLocals.chunks = <<>>
    BY DEF NoLocals, General
  <1>5. SplitAt(doc, r[0], 0)
    BY <1>1, <1>2, <1>4, NothingCut DEF SplitAt
  <1>6. AllOf(r[0]) = <<>>
    BY <1>1, <1>4 DEF AllOf, PutDown
  <1>7. GoesOn(<<>>, <<>>)
    BY DEF GoesOn
  <1>8. Pass(doc, r, 0)
    BY <1>1, <1>3, <1>5, <1>6, <1>7 DEF Pass
  <1>9. OnPass(r, 0)
    BY <1>2, <1>6, <1>8 DEF OnPass
  <1> QED
    BY <1>9 DEF OnePass

LEMMA OnePassStep == KInv /\ OnePass /\ [Next]_vars => OnePass'
  <1> SUFFICES ASSUME KInv, OnePass, [Next]_vars PROVE OnePass'
    OBVIOUS
  <1>1. ASSUME NEW n \in Lengths, NEW h \in BOOLEAN, Paste(n, h) PROVE OnePass'
    <2>1. File(doc') /\ Extends(doc, doc')
      BY <1>1, PasteGrows DEF KInv
    <2> QED
      BY <1>1, <2>1, OnePassGrows DEF Paste
  <1>2. ASSUME NEW t \in Lengths, NEW n \in Lengths, AddDocument(t, n) PROVE OnePass'
    <2>1. File(doc') /\ Extends(doc, doc')
      BY <1>2, AddDocumentGrows DEF KInv
    <2> QED
      BY <1>2, <2>1, OnePassGrows DEF AddDocument
  <1>3. CASE Rebuild
    BY <1>3, OnePassRebuild
  <1>4. CASE Join \/ Flush
    BY <1>4, OnePassBlock
  <1>5. CASE Finish
    BY <1>5, OnePassEnd
  <1>6. CASE EmbedFails
    BY <1>6, OnePassSame DEF EmbedFails
  <1>7. ASSUME NEW v \in 0..Len(split.chunks), EmbedOk(v) PROVE OnePass'
    BY <1>7, OnePassEmbedded
  <1>8. ASSUME NEW k \in TopKs, NEW s \in [Chunks -> Scores], Route(k, s) PROVE OnePass'
    BY <1>8, OnePassSame DEF Route
  <1>9. ASSUME NEW k \in TopKs, RouteTimesOut(k) PROVE OnePass'
    BY <1>9, OnePassSame DEF RouteTimesOut
  <1>10. CASE Ask \/ RouteFails \/ UNCHANGED vars
    BY <1>10, OnePassSame DEF Ask, RouteFails, vars
  <1> QED
    BY <1>1, <1>2, <1>3, <1>4, <1>5, <1>6, <1>7, <1>8, <1>9, <1>10 DEF Next

\* Only Finish and EmbedOk change what is served.
LEMMA IndexGoesOn ==
    ASSUME KInv, OnePass, [Next]_vars, index' # index
    PROVE  GoesOn(index.chunks, index'.chunks)
  <1>1. Finish \/ \E v \in 0..Len(split.chunks) : EmbedOk(v)
    BY DEF Next, Paste, AddDocument, Rebuild, Join, Flush, EmbedFails, Ask, Route, RouteTimesOut,
           RouteFails, vars
  <1>2. CASE Finish
    BY <1>2, OnePassEnd
  <1>3. ASSUME NEW v \in 0..Len(split.chunks), EmbedOk(v)
        PROVE  GoesOn(index.chunks, index'.chunks)
    BY <1>3, OnePassEmbedded
  <1> QED
    BY <1>1, <1>2, <1>3

LEMMA GoesOnKeeps ==
    ASSUME NEW a \in Seq(ChunkType), NEW b \in Seq(ChunkType), GoesOn(a, b), NEW i \in 1..Len(a)
    PROVE  /\ i <= Len(b)
           /\ i < Len(a) => b[i] = a[i]
           /\ a[i].text = SubSeq(b[i].text, 1, Len(a[i].text))
  <1>1. Len(a) \in Nat /\ Len(b) \in Nat /\ Len(a) <= Len(b)
    BY DEF GoesOn
  <1>2. i <= Len(b) /\ a[i] \in ChunkType /\ b[i] \in ChunkType
    BY <1>1
  <1>3. a[i].text \in Seq(Nat) /\ b[i].text \in Seq(Nat)
    BY <1>2 DEF ChunkType
  <1>4. StartOf(a[i].text, b[i].text) /\ (i < Len(a) => b[i] = a[i])
    BY DEF GoesOn
  <1> QED
    BY <1>2, <1>3, <1>4, StartIsExcerpt

\* Whatever is appended to the file, and however often it is chunked anew, a
\* chunk that is served stays as it is, and the last one goes on where it ended.
THEOREM AppendedOnly == Spec => AppendKeeps
  <1>1. Spec => []OnePass
    BY OnePassInit, OnePassStep, KInvHolds, PTL DEF Spec
  <1>2. KInv /\ KInv' /\ OnePass /\ [Next]_vars =>
            [index' # index => \A i \in Chunks :
                /\ i <= Len(index'.chunks)
                /\ i < Len(index.chunks) => index'.chunks[i] = index.chunks[i]
                /\ index.chunks[i].text =
                      SubSeq(index'.chunks[i].text, 1, Len(index.chunks[i].text))]_vars
    <2> SUFFICES ASSUME KInv, KInv', OnePass, [Next]_vars, index' # index, NEW i \in Chunks
                 PROVE  /\ i <= Len(index'.chunks)
                        /\ i < Len(index.chunks) => index'.chunks[i] = index.chunks[i]
                        /\ index.chunks[i].text =
                              SubSeq(index'.chunks[i].text, 1, Len(index.chunks[i].text))
      OBVIOUS
    <2>1. index.chunks \in Seq(ChunkType) /\ index'.chunks \in Seq(ChunkType)
      BY DEF KInv, IndexInv
    <2>2. GoesOn(index.chunks, index'.chunks)
      BY IndexGoesOn
    <2>3. i \in 1..Len(index.chunks)
      BY DEF Chunks
    <2> QED
      BY <2>1, <2>2, <2>3, GoesOnKeeps
  <1> QED
    BY <1>1, <1>2, KInvHolds, PTL DEF Spec, AppendKeeps
=============================================================================
