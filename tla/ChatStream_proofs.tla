------------------------- MODULE ChatStream_proofs -------------------------
(***************************************************************************)
(* Proofs about ChatStream: handlers and generators implement Answering;   *)
(* a request is logged at most once, and as far as the log policy goes     *)
(* with every token put on the wire; and a chat request is logged as       *)
(* failed if its client is told so -- for any number of requests, any      *)
(* length of an answer, either model server and any log policy.            *)
(* Exchanges share nothing: the invariant speaks of one exchange, of its   *)
(* generator g, frames on the wire w, client c and rows l.                 *)
(*                                                                         *)
(* The last three sections are about ChatPage, the page at the other end,  *)
(* which sees of the gateway what Answering says: for any number of tabs,  *)
(* chats and turns.                                                        *)
(***************************************************************************)
EXTENDS ChatStream, ChatPage, FiniteSetTheorems, SequenceTheorems, WellFoundedInduction, TLAPS

----------------------------------------------------------------------------
(* The inductive invariant *)

Generators ==
    [pc : Stages, endpoint : Endpoints, tokens : Nat, heard : {"more", "done", "over"},
     introduced : BOOLEAN, frames : Seq(FrameKinds), next : {"read", "log"},
     collected : Nat, text : BOOLEAN, status : {200, 502},
     raised : {"ended", "broken", "refused"}]

\* A generator one of whose fields is assigned is a generator.
LEMMA PcSet ==
    ASSUME NEW g \in Generators, NEW v \in Stages
    PROVE  [g EXCEPT !.pc = v] \in Generators
  BY DEF Generators

LEMMA TokensSet ==
    ASSUME NEW g \in Generators, NEW v \in Nat
    PROVE  [g EXCEPT !.tokens = v] \in Generators
  BY DEF Generators

LEMMA HeardSet ==
    ASSUME NEW g \in Generators, NEW v \in {"more", "done", "over"}
    PROVE  [g EXCEPT !.heard = v] \in Generators
  BY DEF Generators

LEMMA IntroducedSet ==
    ASSUME NEW g \in Generators, NEW v \in BOOLEAN
    PROVE  [g EXCEPT !.introduced = v] \in Generators
  BY DEF Generators

LEMMA FramesSet ==
    ASSUME NEW g \in Generators, NEW v \in Seq(FrameKinds)
    PROVE  [g EXCEPT !.frames = v] \in Generators
  BY DEF Generators

LEMMA NextSet ==
    ASSUME NEW g \in Generators, NEW v \in {"read", "log"}
    PROVE  [g EXCEPT !.next = v] \in Generators
  BY DEF Generators

LEMMA CollectedSet ==
    ASSUME NEW g \in Generators, NEW v \in Nat
    PROVE  [g EXCEPT !.collected = v] \in Generators
  BY DEF Generators

LEMMA TextSet ==
    ASSUME NEW g \in Generators, NEW v \in BOOLEAN
    PROVE  [g EXCEPT !.text = v] \in Generators
  BY DEF Generators

LEMMA RaisedSet ==
    ASSUME NEW g \in Generators, NEW v \in {"ended", "broken", "refused"}
    PROVE  [g EXCEPT !.raised = v] \in Generators
  BY DEF Generators

Readers ==
    [got : Nat, error : BOOLEAN, end : {"none", "left", "ended", "broken", "refused"}]

Rows == [response : Responses, status : {200, 502}]

Typed(g, w, c, l) ==
    /\ g \in Generators /\ w \in Seq(FrameKinds) /\ c \in Readers /\ l \in Seq(Rows)

HasError(s) == \E k \in 1..Len(s) : s[k] = "error"

\* No two tokens in what a generator yields on one resumption.
OneText(s) == \A j, k \in 1..Len(s) : s[j] = "text" /\ s[k] = "text" => j = k

\* The token in collected whose frame is not sent, and the one behind it.
OnHand(g) == IF g.pc = "send" /\ Head(g.frames) = "text" THEN 1 ELSE 0
Later(s) == IF \E k \in 2..Len(s) : s[k] = "text" THEN 1 ELSE 0

\* Nothing has happened to an exchange that is idle.
Untouched(g, w, c, l) ==
    g.pc = "idle" =>
        w = <<>> /\ l = <<>> /\ c = [got |-> 0, error |-> FALSE, end |-> "none"]

\* A generator with frames in hand: they are not the last of it, hold one token
\* at most, and what it collects stays within what it has read.
Stepping(g) ==
    /\ g.pc = "send" => g.frames # <<>> /\ OneText(g.frames)
    /\ g.pc = "read" => g.collected <= g.tokens
    /\ g.pc = "send" => /\ g.collected + Later(g.frames) <= g.tokens
                        /\ g.collected + Later(g.frames) <= MaxTokens
    /\ g.collected <= MaxTokens

\* A token collected is on hand, on the wire or read; for a client that went
\* away it may be lost.
Accounts(g, w, c) ==
    /\ c.got + Texts(w) + OnHand(g) <= g.collected
    /\ c.end # "left" /\ (g.endpoint \in StreamEndpoints \/ g.pc = "ended") =>
           c.got + Texts(w) + OnHand(g) = g.collected

\* The stream of a chat request: its status is 502 exactly if an error frame is
\* in hand, under way or read.
Streamed(g, w, c, l) ==
    g.endpoint \in StreamEndpoints =>
        /\ g.pc # "complete" /\ g.raised # "refused"
        /\ l # <<>> => g.pc # "refused"
        /\ g.endpoint \in ChatEndpoints /\ c.end # "left" =>
               (g.status = 502 <=> \/ c.error \/ HasError(w)
                                   \/ g.pc = "send" /\ HasError(g.frames))

\* A handler that answers at once: nothing is sent before its log is written.
AtOnce(g, w, c, l) ==
    g.endpoint \notin StreamEndpoints =>
        /\ g.pc \in {"idle", "complete", "log", "ended", "refused"}
        /\ g.raised # "broken" /\ ~c.error /\ ~HasError(w)
        /\ g.pc = "complete" => /\ g.collected = 0 /\ g.text /\ g.status = 200
                                /\ g.raised = "ended"
        /\ g.pc # "ended" => w = <<>> /\ c.got = 0
        /\ g.pc = "ended" => g.raised = "ended"
        /\ g.pc \in {"log", "ended"} /\ g.raised = "ended" =>
               g.collected = IF g.text THEN 1 ELSE 0
        /\ g.text => (g.status = 502 <=> g.raised = "refused")
        /\ l # <<>> => g.pc = g.raised

\* What a process with these settings writes of an answer of n tokens.
Redacted(s, n) ==
    IF n = 0 \/ ~s.log_prompt_bodies THEN [body |-> "none", tokens |-> 0]
    ELSE IF n > s.log_body_max_chars
    THEN [body |-> "cut", tokens |-> s.log_body_max_chars]
    ELSE [body |-> "whole", tokens |-> n]

\* One row, written when the generator is through with its frames; and none of
\* the response is missing when it ends well.
Logged(s, g, l) ==
    /\ l # <<>> => /\ l = <<[response |-> Redacted(s, g.collected), status |-> g.status]>>
                   /\ g.pc \in {"ended", "broken", "refused", "gone"}
    /\ g.pc = "ended" => l # <<>>

\* Who has read to the end has read the end of what its generator sent.
AtEnd(g, w, c) ==
    /\ c.end \in {"ended", "broken", "refused"} => g.pc = c.end /\ w = <<>>
    /\ g.pc \in {"abandoned", "gone"} => c.end = "left"

Sound(s, g, w, c, l) ==
    /\ Untouched(g, w, c, l)
    /\ g.pc # "idle" => /\ Stepping(g)
                        /\ Accounts(g, w, c)
                        /\ Streamed(g, w, c, l)
                        /\ AtOnce(g, w, c, l)
                        /\ Logged(s, g, l)
                        /\ AtEnd(g, w, c)

IInv == TypeOK /\ \A x \in Exchanges : Sound(settings, gen[x], wire[x], client[x], logs[x])

----------------------------------------------------------------------------
(* Frames *)

Ahead(s) == IF \E k \in 1..Len(s) : s[k] = "text" THEN 1 ELSE 0

\* The positions of the tokens among frames are finitely many.
LEMMA TokensFinite ==
    ASSUME NEW s \in Seq(FrameKinds)
    PROVE  /\ IsFiniteSet({k \in 1..Len(s) : s[k] = "text"})
           /\ Texts(s) \in Nat
           /\ Texts(s) = 0 <=> \A k \in 1..Len(s) : s[k] # "text"
  <1> DEFINE A == {k \in 1..Len(s) : s[k] = "text"}
  <1>1. Len(s) \in Nat
    BY LenProperties
  <1>2. IsFiniteSet(1..Len(s))
    BY <1>1, FS_Interval
  <1>3. IsFiniteSet(A)
    BY <1>2, FS_Subset
  <1>4. Cardinality(A) \in Nat
    BY <1>3, FS_CardinalityType
  <1>5. Cardinality(A) = 0 <=> A = {}
    BY <1>3, FS_EmptySet
  <1> QED
    BY <1>3, <1>4, <1>5 DEF Texts

\* A sequence without frames has no token.
LEMMA EmptyWire ==
    ASSUME NEW s \in Seq(FrameKinds), Len(s) = 0
    PROVE  Texts(s) = 0 /\ ~HasError(s) /\ OneText(s) /\ Ahead(s) = 0
  <1>1. \A k \in 1..Len(s) : FALSE
    OBVIOUS
  <1>2. Texts(s) = 0
    BY <1>1, TokensFinite, Zenon
  <1> QED
    BY <1>1, <1>2 DEF HasError, OneText, Ahead

\* Nothing on the wire holds no token.
LEMMA NoTexts ==
    /\ <<>> \in Seq(FrameKinds)
    /\ Texts(<<>>) = 0
    /\ ~HasError(<<>>)
    /\ OneText(<<>>)
    /\ Ahead(<<>>) = 0
  <1>1. <<>> \in Seq(FrameKinds) /\ Len(<<>>) = 0
    BY EmptySeq
  <1> QED
    BY <1>1, EmptyWire, Zenon

\* A frame sent adds its token, or its error, to what is on the wire.
LEMMA SentFrame ==
    ASSUME NEW s \in Seq(FrameKinds), NEW f \in FrameKinds
    PROVE  /\ Append(s, f) \in Seq(FrameKinds)
           /\ Texts(Append(s, f)) = Texts(s) + (IF f = "text" THEN 1 ELSE 0)
           /\ HasError(Append(s, f)) <=> HasError(s) \/ f = "error"
  <1> DEFINE t == Append(s, f)
             A == {k \in 1..Len(s) : s[k] = "text"}
             B == {k \in 1..Len(t) : t[k] = "text"}
  <1>1. /\ t \in Seq(FrameKinds) /\ Len(t) = Len(s) + 1 /\ Len(s) \in Nat
        /\ \A k \in 1..Len(s) : t[k] = s[k]
        /\ t[Len(s) + 1] = f
    BY AppendProperties, LenProperties
  <1>2. HasError(t) <=> HasError(s) \/ f = "error"
    BY <1>1 DEF HasError
  <1>3. /\ IsFiniteSet(A) /\ Cardinality(A) \in Nat /\ Texts(s) = Cardinality(A)
        /\ Texts(t) = Cardinality(B)
    BY TokensFinite DEF Texts
  <1>4. CASE f = "text"
    <2>1. B = A \cup {Len(s) + 1} /\ Len(s) + 1 \notin A
      BY <1>1, <1>4
    <2>2. Cardinality(B) = Cardinality(A) + 1
      BY <1>3, <2>1, FS_AddElement
    <2> HIDE DEF A, B
    <2> QED
      BY <1>1, <1>2, <1>3, <1>4, <2>2
  <1>5. CASE f # "text"
    <2>1. B = A
      BY <1>1, <1>5
    <2> HIDE DEF A, B
    <2> QED
      BY <1>1, <1>2, <1>3, <1>5, <2>1
  <1> QED
    BY <1>4, <1>5

\* What is behind the first frame of a sequence, and the first frame.
LEMMA FirstFrame ==
    ASSUME NEW s \in Seq(FrameKinds), s # <<>>
    PROVE  /\ Head(s) \in FrameKinds /\ Head(s) = s[1]
           /\ Tail(s) \in Seq(FrameKinds)
           /\ Len(s) \in Nat /\ Len(s) > 0 /\ Len(Tail(s)) = Len(s) - 1
           /\ \A k \in 1..Len(Tail(s)) : k + 1 \in 1..Len(s) /\ Tail(s)[k] = s[k + 1]
           /\ \A k \in 2..Len(s) : k - 1 \in 1..Len(Tail(s)) /\ s[k] = Tail(s)[k - 1]
  <1>1. Len(s) \in Nat /\ Len(s) > 0
    BY EmptySeq
  <1>2. /\ Head(s) \in FrameKinds /\ Tail(s) \in Seq(FrameKinds)
        /\ Len(Tail(s)) = Len(s) - 1
        /\ \A k \in 1..Len(Tail(s)) : Tail(s)[k] = s[k + 1]
    BY HeadTailProperties
  <1>3. Head(s) = s[1]
    OBVIOUS
  <1>4. ASSUME NEW k \in 2..Len(s)
        PROVE  k - 1 \in 1..Len(Tail(s)) /\ s[k] = Tail(s)[k - 1]
    <2>1. k - 1 \in 1..Len(Tail(s)) /\ (k - 1) + 1 = k
      BY <1>1, <1>2
    <2> QED
      BY <1>2, <2>1
  <1> QED
    BY <1>1, <1>2, <1>3, <1>4

\* A frame read, or in hand, is one token or none.
LEMMA ReadTexts ==
    ASSUME NEW s \in Seq(FrameKinds), s # <<>>
    PROVE  /\ Texts(s) = Texts(Tail(s)) + (IF Head(s) = "text" THEN 1 ELSE 0)
           /\ HasError(s) <=> Head(s) = "error" \/ HasError(Tail(s))
  <1> DEFINE t == Tail(s)
             A == {k \in 1..Len(t) : t[k] = "text"}
             B == {k \in 1..Len(s) : s[k] = "text"}
             f == [k \in A |-> k + 1]
  <1>1. /\ Head(s) = s[1] /\ t \in Seq(FrameKinds)
        /\ Len(s) \in Nat /\ Len(s) > 0 /\ Len(t) = Len(s) - 1
        /\ \A k \in 1..Len(t) : k + 1 \in 1..Len(s) /\ t[k] = s[k + 1]
        /\ \A k \in 2..Len(s) : k - 1 \in 1..Len(t) /\ s[k] = t[k - 1]
    BY FirstFrame
  <1>2. HasError(s) <=> Head(s) = "error" \/ HasError(t)
    BY <1>1 DEF HasError
  <1>3. /\ IsFiniteSet(A) /\ Cardinality(A) \in Nat /\ Texts(t) = Cardinality(A)
        /\ IsFiniteSet(B) /\ Cardinality(B) \in Nat /\ Texts(s) = Cardinality(B)
    BY <1>1, TokensFinite DEF Texts
  <1>4. f \in Bijection(A, B \ {1})
    <2>1. f \in [A -> B \ {1}]
      BY <1>1
    <2>2. \A j, k \in A : f[j] = f[k] => j = k
      BY <1>1
    <2>3. ASSUME NEW n \in B \ {1}
          PROVE  \E k \in A : f[k] = n
      <3>1. n \in 2..Len(s)
        BY <1>1
      <3>2. n - 1 \in A /\ (n - 1) + 1 = n
        BY <1>1, <3>1
      <3> QED
        BY <3>2
    <2> QED
      BY <2>1, <2>2, <2>3 DEF Bijection, Injection, Surjection, IsInjective
  <1>5. Cardinality(B \ {1}) = Cardinality(A)
    BY <1>3, <1>4, FS_Bijection, ZenonT(60) DEF ExistsBijection
  <1>6. CASE Head(s) = "text"
    <2>1. 1 \in B
      BY <1>1, <1>6
    <2>2. Cardinality(B \ {1}) = Cardinality(B) - 1
      BY <1>3, <2>1, FS_RemoveElement
    <2> HIDE DEF A, B
    <2> QED
      BY <1>2, <1>3, <1>5, <1>6, <2>2
  <1>7. CASE Head(s) # "text"
    <2>1. B \ {1} = B
      BY <1>1, <1>7
    <2>2. Cardinality(B \ {1}) = Cardinality(B)
      BY <2>1, Zenon
    <2> HIDE DEF A, B
    <2> QED
      BY <1>2, <1>3, <1>5, <1>7, <2>2
  <1> QED
    BY <1>6, <1>7

\* Of frames with one token at most, the first holds it or the rest does.
LEMMA FramesInHand ==
    ASSUME NEW s \in Seq(FrameKinds), s # <<>>, OneText(s)
    PROVE  /\ OneText(Tail(s))
           /\ Ahead(s) = (IF Head(s) = "text" THEN 1 ELSE 0) + Later(s)
           /\ Ahead(Tail(s)) = Later(s)
  <1> DEFINE t == Tail(s)
  <1>1. /\ Head(s) = s[1] /\ t \in Seq(FrameKinds)
        /\ Len(s) \in Nat /\ Len(s) > 0 /\ Len(t) = Len(s) - 1
        /\ \A k \in 1..Len(t) : k + 1 \in 1..Len(s) /\ t[k] = s[k + 1]
        /\ \A k \in 2..Len(s) : k - 1 \in 1..Len(t) /\ s[k] = t[k - 1]
    BY FirstFrame
  <1>2. OneText(t)
    <2> SUFFICES ASSUME NEW j \in 1..Len(t), NEW k \in 1..Len(t), t[j] = "text", t[k] = "text"
                 PROVE  j = k
      BY DEF OneText
    <2>1. j + 1 \in 1..Len(s) /\ k + 1 \in 1..Len(s) /\ s[j + 1] = "text" /\ s[k + 1] = "text"
      BY <1>1
    <2>2. j + 1 = k + 1
      BY <2>1 DEF OneText
    <2> QED
      BY <2>2, <1>1
  <1>3. (\E k \in 1..Len(t) : t[k] = "text") <=> (\E k \in 2..Len(s) : s[k] = "text")
    <2>1. ASSUME NEW k \in 1..Len(t), t[k] = "text"
          PROVE  \E n \in 2..Len(s) : s[n] = "text"
      <3>1. k + 1 \in 2..Len(s)
        BY <1>1
      <3> QED
        BY <1>1, <2>1, <3>1
    <2>2. ASSUME NEW k \in 2..Len(s), s[k] = "text"
          PROVE  \E n \in 1..Len(t) : t[n] = "text"
      BY <1>1, <2>2
    <2> QED
      BY <2>1, <2>2
  <1>4. Ahead(t) = Later(s)
    BY <1>3 DEF Ahead, Later
  <1>5. CASE s[1] = "text"
    <2>1. ASSUME NEW k \in 2..Len(s), s[k] = "text"
          PROVE  FALSE
      <3>1. k \in 1..Len(s) /\ 1 \in 1..Len(s) /\ k # 1
        BY <1>1
      <3> QED
        BY <1>5, <2>1, <3>1 DEF OneText
    <2>2. Later(s) = 0
      BY <2>1 DEF Later
    <2>3. Ahead(s) = 1
      BY <1>1, <1>5 DEF Ahead
    <2> QED
      BY <1>1, <1>2, <1>4, <1>5, <2>2, <2>3
  <1>6. CASE s[1] # "text"
    <2>1. (\E k \in 1..Len(s) : s[k] = "text") <=> (\E k \in 2..Len(s) : s[k] = "text")
      <3>1. \A k \in 1..Len(s) : k = 1 \/ k \in 2..Len(s)
        BY <1>1
      <3>2. \A k \in 2..Len(s) : k \in 1..Len(s)
        BY <1>1
      <3> QED
        BY <1>6, <3>1, <3>2
    <2>2. Ahead(s) = Later(s) /\ Later(s) \in Nat
      BY <2>1 DEF Ahead, Later
    <2> QED
      BY <1>1, <1>2, <1>4, <1>6, <2>2
  <1> QED
    BY <1>5, <1>6

----------------------------------------------------------------------------
(* The log policy *)

\* What is written of an answer: all of it, the beginning that the policy keeps,
\* or nothing.
LEMMA Redactions ==
    ASSUME NEW s \in Settings, NEW n \in Nat
    PROVE  LET r == Redacted(s, n) IN
           /\ r \in Responses /\ r \in ResponsesTo(n)
           /\ r.body = "whole" => r.tokens = n
           /\ r.body = "cut" => r.tokens = s.log_body_max_chars /\ r.tokens < n
           /\ r.body = "none" /\ s.log_prompt_bodies => n = 0
  <1> DEFINE r == Redacted(s, n)
             kept == s.log_body_max_chars
             Facts == /\ r \in Responses /\ r \in ResponsesTo(n)
                      /\ r.body = "whole" => r.tokens = n
                      /\ r.body = "cut" => r.tokens = kept /\ r.tokens < n
                      /\ r.body = "none" /\ s.log_prompt_bodies => n = 0
  <1>1. kept \in Nat
    BY StreamAssumption DEF Settings
  <1>2. CASE n = 0 \/ ~s.log_prompt_bodies
    <2>1. r = [body |-> "none", tokens |-> 0]
      BY <1>2 DEF Redacted
    <2> QED
      BY <1>2, <2>1 DEF Responses, ResponsesTo
  <1>3. CASE ~(n = 0 \/ ~s.log_prompt_bodies) /\ n > kept
    <2>1. r = [body |-> "cut", tokens |-> kept]
      BY <1>3 DEF Redacted
    <2> HIDE DEF kept, r
    <2>2. kept \in 0..n /\ kept < n
      BY <1>1, <1>3
    <2>3. r.body = "cut" /\ r.tokens = kept
      BY <2>1
    <2>4. r \in ResponsesTo(n)
      BY <2>1, <2>2 DEF ResponsesTo
    <2>5. r \in Responses
      BY <1>1, <2>1 DEF Responses
    <2> QED
      BY <2>2, <2>3, <2>4, <2>5 DEF kept, r
  <1>4. CASE ~(n = 0 \/ ~s.log_prompt_bodies) /\ ~(n > kept)
    <2>1. r = [body |-> "whole", tokens |-> n]
      BY <1>4 DEF Redacted
    <2> QED
      BY <2>1 DEF Responses, ResponsesTo
  <1> QED
    BY <1>2, <1>3, <1>4

LEMMA RowRedacts ==
    ASSUME NEW x \in Exchanges
    PROVE  Row(x) = [response |-> Redacted(settings, gen[x].collected), status |-> gen[x].status]
  BY Zenon DEF Row, Redact, Redacted

----------------------------------------------------------------------------
(* A generator resumes *)

\* What Resumed makes of a generator, field by field.
LEMMA ResumedFields ==
    ASSUME NEW g \in Generators, NEW frames \in Seq(FrameKinds), NEW next \in {"read", "log"}
    PROVE  LET r == Resumed(g, frames, next) IN
           /\ r \in Generators
           /\ r.pc = (IF frames = <<>> THEN next ELSE "send")
           /\ r.frames = frames /\ r.next = next
           /\ r.collected = g.collected
                            + (IF frames # <<>> /\ Head(frames) = "text" THEN 1 ELSE 0)
           /\ r.endpoint = g.endpoint /\ r.tokens = g.tokens
           /\ r.status = g.status /\ r.raised = g.raised /\ r.text = g.text
  <1> DEFINE r == Resumed(g, frames, next)
             n == IF frames # <<>> /\ Head(frames) = "text" THEN g.collected + 1 ELSE g.collected
             p == IF frames = <<>> THEN next ELSE "send"
  <1>1. n \in Nat /\ p \in Stages
    BY DEF Generators, Stages
  <1>2. n = g.collected + (IF frames # <<>> /\ Head(frames) = "text" THEN 1 ELSE 0)
    BY DEF Generators
  <1>3. r = [g EXCEPT !.frames = frames, !.collected = n, !.pc = p, !.next = next]
    BY DEF Resumed, Generators
  <1> HIDE DEF n, p
  <1>4. [g EXCEPT !.frames = frames, !.collected = n, !.pc = p, !.next = next] \in Generators
    BY <1>1, FramesSet, CollectedSet, PcSet, NextSet, Zenon
  <1>5. LET q == [g EXCEPT !.frames = frames, !.collected = n, !.pc = p, !.next = next] IN
        /\ q.pc = p /\ q.frames = frames /\ q.next = next /\ q.collected = n
        /\ q.endpoint = g.endpoint /\ q.tokens = g.tokens
        /\ q.status = g.status /\ q.raised = g.raised /\ q.text = g.text
    BY DEF Generators
  <1> QED
    BY <1>2, <1>3, <1>4, <1>5, Zenon DEF p

\* g may resume with these frames: what it has collected was sent, what it is
\* about to collect is within bounds, its status is that of the frames.
Ready(g, w, c, l, frames) ==
    /\ g.endpoint \in StreamEndpoints /\ g.raised # "refused"
    /\ l = <<>> /\ c.end \in {"none", "left"}
    /\ OneText(frames)
    /\ g.collected + Ahead(frames) <= g.tokens
    /\ g.collected + Ahead(frames) <= MaxTokens
    /\ c.got + Texts(w) <= g.collected
    /\ c.end # "left" => c.got + Texts(w) = g.collected
    /\ g.endpoint \in ChatEndpoints /\ c.end # "left" =>
           (g.status = 502 <=> c.error \/ HasError(w) \/ HasError(frames))

\* A generator that resumes in this way keeps the invariant.
LEMMA ResumesSoundly ==
    ASSUME NEW g, NEW w, NEW c, NEW l, Typed(g, w, c, l),
           NEW frames \in Seq(FrameKinds), NEW next \in {"read", "log"},
           Ready(g, w, c, l, frames)
    PROVE  /\ Typed(Resumed(g, frames, next), w, c, l)
           /\ Resumed(g, frames, next).pc # "idle"
           /\ Sound(settings, Resumed(g, frames, next), w, c, l)
  <1> DEFINE r == Resumed(g, frames, next)
             first == IF frames # <<>> /\ Head(frames) = "text" THEN 1 ELSE 0
  <1>1. /\ r \in Generators
        /\ r.pc = (IF frames = <<>> THEN next ELSE "send")
        /\ r.frames = frames
        /\ r.collected = g.collected + first
        /\ r.endpoint = g.endpoint /\ r.tokens = g.tokens
        /\ r.status = g.status /\ r.raised = g.raised
    <2>1. g \in Generators
      BY DEF Typed
    <2> QED
      BY <2>1, ResumedFields
  <1>2. /\ g.collected \in Nat /\ g.tokens \in Nat /\ c.got \in Nat /\ Texts(w) \in Nat
        /\ MaxTokens \in Nat
    BY TokensFinite, StreamAssumption DEF Typed, Generators, Readers
  <1>3. first = OnHand(r) /\ first \in {0, 1}
    BY <1>1 DEF OnHand
  <1>4. frames # <<>> => Ahead(frames) = first + Later(frames)
    BY FramesInHand DEF Ready
  <1>5. frames = <<>> => Ahead(frames) = 0 /\ first = 0 /\ ~HasError(frames)
    BY NoTexts
  <1>6. Later(frames) \in {0, 1} /\ Ahead(frames) \in {0, 1}
    BY DEF Later, Ahead
  <1> HIDE DEF r, first
  <1>7. r.pc \in {"read", "log", "send"} /\ (r.pc = "send" <=> frames # <<>>)
    BY <1>1
  <1>8. Stepping(r)
    BY <1>1, <1>2, <1>4, <1>5, <1>6, <1>3, <1>7 DEF Stepping, Ready
  <1>9. Accounts(r, w, c)
    BY <1>1, <1>2, <1>3, <1>7 DEF Accounts, Ready
  <1>10. Streamed(r, w, c, l)
    <2>1. r.pc = "send" /\ HasError(r.frames) <=> HasError(frames)
      BY <1>1, <1>5, <1>7
    <2> QED
      BY <1>1, <1>7, <2>1 DEF Streamed, Ready
  <1>11. AtOnce(r, w, c, l)
    BY <1>1 DEF AtOnce, Ready
  <1>12. Logged(settings, r, l)
    BY <1>7 DEF Logged, Ready
  <1>13. AtEnd(r, w, c)
    BY <1>7 DEF AtEnd, Ready
  <1>14. Typed(r, w, c, l)
    BY <1>1 DEF Typed
  <1> QED
    BY <1>7, <1>8, <1>9, <1>10, <1>11, <1>12, <1>13, <1>14 DEF Sound, Untouched, r

----------------------------------------------------------------------------
(* The frames of what the model server yields *)

\* Frames without an error and with at most n tokens, n being 0 or 1.
Tidy(f, n) == f \in Seq(FrameKinds) /\ OneText(f) /\ ~HasError(f) /\ Ahead(f) <= n

LEMMA TidyEmpty == Tidy(<<>>, 0)
  BY NoTexts DEF Tidy

LEMMA TidyOne ==
    ASSUME NEW a \in FrameKinds \ {"error"}
    PROVE  Tidy(<<a>>, IF a = "text" THEN 1 ELSE 0)
  <1>1. <<a>> \in Seq(FrameKinds) /\ Len(<<a>>) = 1 /\ <<a>>[1] = a
    OBVIOUS
  <1> DEFINE f == <<a>>
  <1> HIDE DEF f
  <1>2. f \in Seq(FrameKinds) /\ Len(f) = 1 /\ f[1] = a
    BY <1>1 DEF f
  <1>3. \A k \in 1..Len(f) : k = 1
    BY <1>2
  <1>4. OneText(f) /\ ~HasError(f)
    BY <1>2, <1>3 DEF OneText, HasError
  <1>5. Ahead(f) <= IF a = "text" THEN 1 ELSE 0
    BY <1>2, <1>3 DEF Ahead
  <1> QED
    BY <1>2, <1>4, <1>5 DEF Tidy, f

LEMMA TidyJoin ==
    ASSUME NEW s, NEW t, NEW m \in {0, 1}, NEW n \in {0, 1}, m + n <= 1,
           Tidy(s, m), Tidy(t, n)
    PROVE  Tidy(s \o t, m + n)
  <1> DEFINE u == s \o t
  <1>1. s \in Seq(FrameKinds) /\ t \in Seq(FrameKinds)
    BY DEF Tidy
  <1>2. Len(s) \in Nat /\ Len(t) \in Nat
    BY <1>1, LenProperties
  <1>3. u \in Seq(FrameKinds) /\ Len(u) = Len(s) + Len(t)
    BY <1>1, ConcatProperties
  <1>4. \A k \in 1..Len(u) :
            \/ k \in 1..Len(s) /\ u[k] = s[k]
            \/ k - Len(s) \in 1..Len(t) /\ u[k] = t[k - Len(s)]
    BY <1>1, <1>2, <1>3
  <1>5. (\E k \in 1..Len(s) : s[k] = "text") => m = 1 /\ n = 0
    BY DEF Tidy, Ahead
  <1>6. (\E k \in 1..Len(t) : t[k] = "text") => n = 1 /\ m = 0
    BY DEF Tidy, Ahead
  <1> HIDE DEF u
  <1>7. ~HasError(u)
    BY <1>4 DEF Tidy, HasError
  <1>8. OneText(u)
    <2> SUFFICES ASSUME NEW j \in 1..Len(u), NEW k \in 1..Len(u), u[j] = "text", u[k] = "text"
                 PROVE  j = k
      BY DEF OneText
    <2>1. CASE m = 1
      <3>1. j \in 1..Len(s) /\ k \in 1..Len(s) /\ s[j] = "text" /\ s[k] = "text"
        BY <1>4, <1>6, <2>1, SMTT(30)
      <3> QED
        BY <3>1 DEF Tidy, OneText
    <2>2. CASE m # 1
      <3>1. /\ j - Len(s) \in 1..Len(t) /\ t[j - Len(s)] = "text"
            /\ k - Len(s) \in 1..Len(t) /\ t[k - Len(s)] = "text"
        BY <1>4, <1>5, <2>2
      <3>2. j - Len(s) = k - Len(s)
        BY <3>1 DEF Tidy, OneText
      <3>3. j \in Int /\ k \in Int
        BY <1>2, <1>3
      <3> QED
        BY <1>2, <3>2, <3>3
    <2> QED
      BY <2>1, <2>2
  <1>9. Ahead(u) <= m + n
    <2>1. CASE \E k \in 1..Len(u) : u[k] = "text"
      <3>1. m + n = 1
        BY <1>4, <1>5, <1>6, <2>1
      <3> QED
        BY <2>1, <3>1 DEF Ahead
    <2>2. CASE ~\E k \in 1..Len(u) : u[k] = "text"
      BY <2>2 DEF Ahead
    <2> QED
      BY <2>1, <2>2
  <1> QED
    BY <1>3, <1>7, <1>8, <1>9 DEF Tidy, u

\* A pair that the model server's parser yields becomes frames with no error,
\* and with a token only if it is one.
LEMMA YieldedFrames ==
    ASSUME NEW token \in {"text", "empty", "null"}, NEW done \in BOOLEAN,
           NEW introduced \in BOOLEAN
    PROVE  /\ Tidy(ChatFrames(token, done), IF token = "text" THEN 1 ELSE 0)
           /\ Tidy(RagFrames(introduced, token, done), IF token = "text" THEN 1 ELSE 0)
  <1> DEFINE n == IF token = "text" THEN 1 ELSE 0
             last == IF done THEN <<"[DONE]">> ELSE <<>>
             meta == IF introduced THEN <<>> ELSE <<"meta">>
             shown == IF token = "text" THEN <<"text">> ELSE <<>>
             kind == IF token = "text" THEN "text" ELSE "empty"
  <1>1. n \in {0, 1} /\ n + 0 = n /\ 0 + n = n /\ 0 \in {0, 1} /\ n <= 1
    OBVIOUS
  <1>2. Tidy(last, 0)
    <2>1. "[DONE]" \in FrameKinds \ {"error"} /\ "[DONE]" # "text"
      BY DEF FrameKinds
    <2> QED
      BY <2>1, TidyOne, TidyEmpty
  <1>3. Tidy(meta, 0)
    <2>1. "meta" \in FrameKinds \ {"error"} /\ "meta" # "text"
      BY DEF FrameKinds
    <2> QED
      BY <2>1, TidyOne, TidyEmpty
  <1>4. Tidy(shown, n)
    <2>1. "text" \in FrameKinds \ {"error"}
      BY DEF FrameKinds
    <2> QED
      BY <2>1, TidyOne, TidyEmpty
  <1>5. Tidy(<<kind>>, n)
    <2>1. kind \in FrameKinds \ {"error"} /\ (kind = "text" <=> token = "text")
      BY DEF FrameKinds
    <2> QED
      BY <2>1, TidyOne
  <1>6. ChatFrames(token, done) = <<kind>> \o last
    BY Zenon DEF ChatFrames
  <1>7. RagFrames(introduced, token, done) = (meta \o shown) \o last
    BY Zenon DEF RagFrames
  <1> HIDE DEF n, last, meta, shown, kind
  <1>8. Tidy(<<kind>> \o last, n)
    <2>1. Tidy(<<kind>> \o last, n + 0)
      BY <1>1, <1>2, <1>5, TidyJoin
    <2> QED
      BY <1>1, <2>1
  <1>9. Tidy((meta \o shown) \o last, n)
    <2>1. Tidy(meta \o shown, 0 + n)
      BY <1>1, <1>3, <1>4, TidyJoin
    <2>2. Tidy((meta \o shown) \o last, n + 0)
      BY <1>1, <1>2, <2>1, TidyJoin
    <2> QED
      BY <1>1, <2>2
  <1> QED
    BY <1>6, <1>7, <1>8, <1>9 DEF n

\* The frame that reports a failure holds no token.
LEMMA ErrorFrame ==
    /\ <<"error">> \in Seq(FrameKinds)
    /\ OneText(<<"error">>)
    /\ HasError(<<"error">>)
    /\ Ahead(<<"error">>) = 0
  <1>1. <<"error">> \in Seq(FrameKinds) /\ Len(<<"error">>) = 1 /\ <<"error">>[1] = "error"
    BY DEF FrameKinds
  <1> DEFINE f == <<"error">>
  <1> HIDE DEF f
  <1>2. f \in Seq(FrameKinds) /\ Len(f) = 1 /\ f[1] = "error"
    BY <1>1 DEF f
  <1>3. (\A k \in 1..Len(f) : k = 1) /\ 1 \in 1..Len(f)
    BY <1>2
  <1>4. OneText(f) /\ HasError(f) /\ Ahead(f) = 0
    BY <1>2, <1>3 DEF OneText, HasError, Ahead
  <1> QED
    BY <1>2, <1>4 DEF f

----------------------------------------------------------------------------
(* Steps of one exchange *)

\* h is g at another place of its program.
Moved(g, h) ==
    /\ h \in Generators
    /\ h.endpoint = g.endpoint /\ h.tokens = g.tokens /\ h.collected = g.collected
    /\ h.text = g.text /\ h.status = g.status /\ h.raised = g.raised

LEMMA MovedTo ==
    ASSUME NEW g \in Generators, NEW p \in Stages
    PROVE  Moved(g, [g EXCEPT !.pc = p]) /\ [g EXCEPT !.pc = p].pc = p
  BY DEF Moved, Generators

LEMMA MovedOver ==
    ASSUME NEW g \in Generators, NEW p \in Stages
    PROVE  LET h == [g EXCEPT !.pc = p, !.heard = "over"] IN
           Moved(g, h) /\ h.pc = p
  <1> DEFINE h == [g EXCEPT !.pc = p, !.heard = "over"]
  <1>0. "over" \in {"more", "done", "over"}
    OBVIOUS
  <1>1. h \in Generators
    BY <1>0, PcSet, HeardSet, Zenon
  <1>2. h.endpoint = g.endpoint /\ h.tokens = g.tokens /\ h.collected = g.collected
    BY DEF Generators
  <1>3. h.text = g.text /\ h.status = g.status /\ h.raised = g.raised
    BY DEF Generators
  <1>4. h.pc = p
    BY DEF Generators
  <1> HIDE DEF h
  <1>5. Moved(g, h) /\ h.pc = p
    BY <1>1, <1>2, <1>3, <1>4 DEF Moved
  <1> QED
    BY <1>5 DEF h

\* The log is written only after the answer is through, lost when it fails, and
\* a stream that is cancelled goes on nowhere.
LEMMA MovesSoundly ==
    ASSUME NEW g, NEW w, NEW c, NEW l, Typed(g, w, c, l), Sound(settings, g, w, c, l),
           NEW h, Moved(g, h),
           \/ g.pc = "read" /\ h.pc = "log"
           \/ /\ g.pc = "log"
              /\ h.pc = IF g.endpoint \in StreamEndpoints THEN "broken" ELSE "refused"
           \/ g.pc \in {"read", "send", "log"} /\ g.endpoint \in StreamEndpoints
              /\ c.end = "left" /\ h.pc = "abandoned"
           \/ g.pc = "abandoned" /\ h.pc = "gone"
    PROVE  Typed(h, w, c, l) /\ Sound(settings, h, w, c, l)
  <1>1. /\ g.collected \in Nat /\ c.got \in Nat /\ Texts(w) \in Nat /\ MaxTokens \in Nat
        /\ h \in Generators
        /\ h.endpoint = g.endpoint /\ h.tokens = g.tokens /\ h.collected = g.collected
        /\ h.text = g.text /\ h.status = g.status /\ h.raised = g.raised
    BY TokensFinite, StreamAssumption DEF Typed, Generators, Readers, Moved
  <1>2. Typed(h, w, c, l)
    BY <1>1 DEF Typed
  <1>3. /\ g.pc \in {"read", "send", "log", "abandoned"}
        /\ h.pc \in {"log", "broken", "refused", "abandoned", "gone"}
        /\ (h.pc = "log" => g.pc = "read")
        /\ (h.pc \in {"abandoned", "gone"} => c.end = "left")
        /\ (h.pc = "refused" => g.endpoint \notin StreamEndpoints)
        /\ (h.pc = "broken" => g.endpoint \in StreamEndpoints)
        /\ (c.end # "left" => g.pc # "send")
    BY DEF Sound, AtEnd
  <1>4. Stepping(g) /\ Accounts(g, w, c) /\ Streamed(g, w, c, l) /\ AtOnce(g, w, c, l)
        /\ Logged(settings, g, l) /\ AtEnd(g, w, c)
    BY <1>3 DEF Sound
  <1>5. Stepping(h)
    BY <1>1, <1>3, <1>4 DEF Stepping
  <1>6. Accounts(h, w, c)
    <2>1. OnHand(h) = 0 /\ OnHand(g) \in {0, 1} /\ (c.end # "left" => OnHand(g) = 0)
      BY <1>3 DEF OnHand
    <2> QED
      BY <1>1, <1>3, <1>4, <2>1 DEF Accounts
  <1>7. l = <<>>
    BY <1>3, <1>4 DEF Logged
  <1>8. Streamed(h, w, c, l)
    BY <1>1, <1>3, <1>4, <1>7 DEF Streamed
  <1>9. AtOnce(h, w, c, l)
    BY <1>1, <1>3, <1>4, <1>7 DEF AtOnce
  <1>10. Logged(settings, h, l)
    BY <1>3, <1>7 DEF Logged
  <1>11. AtEnd(h, w, c)
    BY <1>1, <1>3, <1>4 DEF AtEnd
  <1> QED
    BY <1>2, <1>3, <1>5, <1>6, <1>8, <1>9, <1>10, <1>11 DEF Sound, Untouched

\* The row that is written has all that was put on the wire.
LEMMA LogsSoundly ==
    ASSUME NEW g, NEW w, NEW c, NEW l, Typed(g, w, c, l), Sound(settings, g, w, c, l),
           NEW h, Moved(g, h), NEW v \in Seq(FrameKinds),
           \/ /\ g.pc = "log" /\ h.pc = g.raised
              /\ v = IF g.endpoint \in StreamEndpoints \/ g.raised # "ended" THEN w
                     ELSE IF g.text THEN <<"text">> ELSE <<>>
           \/ g.pc = "abandoned" /\ h.pc = "gone" /\ v = w,
           settings \in Settings,
           NEW r, r = [response |-> Redacted(settings, g.collected), status |-> g.status]
    PROVE  Typed(h, v, c, Append(l, r)) /\ Sound(settings, h, v, c, Append(l, r)) /\ l = <<>>
  <1>1. /\ g.collected \in Nat /\ c.got \in Nat /\ Texts(w) \in Nat /\ MaxTokens \in Nat
        /\ h \in Generators
        /\ h.endpoint = g.endpoint /\ h.tokens = g.tokens /\ h.collected = g.collected
        /\ h.text = g.text /\ h.status = g.status /\ h.raised = g.raised
        /\ g.raised \in {"ended", "broken", "refused"} /\ g.text \in BOOLEAN
    BY TokensFinite, StreamAssumption DEF Typed, Generators, Readers, Moved
  <1>2. /\ g.pc \in {"log", "abandoned"} /\ h.pc \in {"ended", "broken", "refused", "gone"}
        /\ (h.pc = "gone" => g.pc = "abandoned")
        /\ (g.pc = "abandoned" => h.pc = "gone")
    BY <1>1
  <1>3. Stepping(g) /\ Accounts(g, w, c) /\ Streamed(g, w, c, l) /\ AtOnce(g, w, c, l)
        /\ Logged(settings, g, l) /\ AtEnd(g, w, c)
    BY <1>2 DEF Sound
  <1>4. l = <<>>
    BY <1>2, <1>3 DEF Logged
  <1> DEFINE m == Append(l, r)
  <1>5. m = <<r>> /\ m # <<>> /\ m \in Seq(Rows)
    <2>1. Redacted(settings, g.collected) \in Responses /\ g.status \in {200, 502}
      BY Redactions DEF Typed, Generators
    <2>2. r \in Rows
      BY <2>1 DEF Rows
    <2> QED
      BY <1>4, <2>2
  <1>6. g.endpoint \in StreamEndpoints => v = w
    BY <1>3, <1>2 DEF AtOnce
  <1>7. g.endpoint \notin StreamEndpoints => g.pc = "log" /\ h.pc = g.raised /\ w = <<>> /\ c.got = 0
    BY <1>2, <1>3 DEF AtOnce
  <1>8. g.endpoint \notin StreamEndpoints /\ g.raised # "ended" => v = <<>>
    BY <1>7
  <1>9. g.endpoint \notin StreamEndpoints /\ g.raised = "ended" =>
            v = (IF g.text THEN <<"text">> ELSE <<>>) /\ g.collected = (IF g.text THEN 1 ELSE 0)
    BY <1>7, <1>3 DEF AtOnce
  <1>10. Texts(<<"text">>) = 1 /\ ~HasError(<<"text">>)
    <2>1. "text" \in FrameKinds /\ "text" # "error"
      BY DEF FrameKinds
    <2>2. Append(<<>>, "text") = <<"text">>
      OBVIOUS
    <2> DEFINE e == <<>>
    <2>3. e \in Seq(FrameKinds) /\ Texts(e) = 0 /\ ~HasError(e)
      BY NoTexts
    <2> HIDE DEF e
    <2>4. Texts(Append(e, "text")) = 1 /\ ~HasError(Append(e, "text"))
      BY <2>1, <2>3, SentFrame
    <2> QED
      BY <2>2, <2>4, Zenon DEF e
  <1>11. OnHand(h) = 0 /\ OnHand(g) = 0
    BY <1>2 DEF OnHand
  <1> HIDE DEF m
  <1>12. Stepping(h)
    BY <1>1, <1>2, <1>3 DEF Stepping
  <1>13. Accounts(h, v, c)
    <2>1. CASE g.endpoint \in StreamEndpoints
      BY <1>1, <1>3, <1>6, <1>11, <2>1 DEF Accounts
    <2>2. CASE g.endpoint \notin StreamEndpoints /\ g.raised # "ended"
      <3>1. Texts(v) = 0 /\ c.got = 0 /\ h.pc # "ended"
        BY <1>1, <1>7, <1>8, <2>2, NoTexts
      <3> QED
        BY <1>1, <1>11, <2>2, <3>1 DEF Accounts
    <2>3. CASE g.endpoint \notin StreamEndpoints /\ g.raised = "ended"
      <3>1. Texts(v) = g.collected /\ c.got = 0
        BY <1>7, <1>9, <1>10, <2>3, NoTexts
      <3> QED
        BY <1>1, <1>11, <2>3, <3>1 DEF Accounts
    <2> QED
      BY <2>1, <2>2, <2>3
  <1>14. Streamed(h, v, c, m)
    <2> SUFFICES ASSUME g.endpoint \in StreamEndpoints
                 PROVE  Streamed(h, v, c, m)
      BY <1>1 DEF Streamed
    <2>1. h.pc # "refused"
      BY <1>1, <1>2, <1>3 DEF Streamed
    <2> QED
      BY <1>1, <1>2, <1>3, <1>6, <2>1 DEF Streamed
  <1>15. AtOnce(h, v, c, m)
    <2> SUFFICES ASSUME g.endpoint \notin StreamEndpoints
                 PROVE  AtOnce(h, v, c, m)
      BY <1>1 DEF AtOnce
    <2>1. ~HasError(v)
      BY <1>8, <1>9, <1>10, NoTexts
    <2> QED
      BY <1>1, <1>2, <1>3, <1>7, <1>8, <1>9, <2>1 DEF AtOnce
  <1>16. Logged(settings, h, m)
    BY <1>1, <1>2, <1>5 DEF Logged
  <1>17. AtEnd(h, v, c)
    <2>1. c.end \notin {"ended", "broken", "refused"}
      BY <1>2, <1>3 DEF AtEnd
    <2>2. h.pc = "gone" => c.end = "left"
      BY <1>2, <1>3 DEF AtEnd
    <2> QED
      BY <1>2, <2>1, <2>2 DEF AtEnd
  <1>18. Typed(h, v, c, m)
    BY <1>1, <1>5 DEF Typed
  <1> QED
    BY <1>2, <1>4, <1>12, <1>13, <1>14, <1>15, <1>16, <1>17, <1>18 DEF Sound, Untouched, m

Begun(e, p) ==
    IF p = "refused" THEN [Fresh(e) EXCEPT !.pc = p, !.heard = "over"]
    ELSE [Fresh(e) EXCEPT !.pc = p]

\* A request that begins, or is refused at once.
LEMMA BeginsSoundly ==
    ASSUME NEW g, NEW w, NEW c, NEW l, Typed(g, w, c, l), Sound(settings, g, w, c, l), g.pc = "idle",
           NEW e \in Endpoints, NEW p \in {"read", "complete", "refused"},
           p = "read" => e \in StreamEndpoints, p = "complete" => e \notin StreamEndpoints
    PROVE  /\ Typed(Begun(e, p), w, c, l) /\ Sound(settings, Begun(e, p), w, c, l)
           /\ Begun(e, p).pc = p
  <1> DEFINE h == Begun(e, p)
  <1>1. /\ h \in Generators /\ h.pc = p /\ h.endpoint = e /\ h.tokens = 0
        /\ h.collected = 0 /\ h.text = TRUE /\ h.status = 200 /\ h.raised = "ended"
    <2> DEFINE f == Fresh(e)
    <2>1. /\ f \in Generators /\ f.endpoint = e /\ f.tokens = 0 /\ f.collected = 0
          /\ f.text = TRUE /\ f.status = 200 /\ f.raised = "ended"
      BY EmptySeq DEF Fresh, Generators, Stages
    <2>2. p \in Stages
      BY DEF Stages
    <2>3. h = [f EXCEPT !.pc = p, !.heard = "over"] \/ h = [f EXCEPT !.pc = p]
      BY Zenon DEF Begun
    <2> HIDE DEF f, h
    <2>4. Moved(f, [f EXCEPT !.pc = p]) /\ [f EXCEPT !.pc = p].pc = p
      BY <2>1, <2>2, MovedTo
    <2>5. /\ Moved(f, [f EXCEPT !.pc = p, !.heard = "over"])
          /\ [f EXCEPT !.pc = p, !.heard = "over"].pc = p
      BY <2>1, <2>2, MovedOver
    <2>6. Moved(f, h) /\ h.pc = p
      BY <2>3, <2>4, <2>5, Zenon
    <2> QED
      BY <2>1, <2>6 DEF Moved
  <1>2. w = <<>> /\ l = <<>> /\ c = [got |-> 0, error |-> FALSE, end |-> "none"]
    BY DEF Sound, Untouched
  <1>3. c.got = 0 /\ c.error = FALSE /\ c.end = "none"
    BY <1>2
  <1>4. Texts(w) = 0 /\ ~HasError(w) /\ MaxTokens \in Nat
    BY <1>2, NoTexts, StreamAssumption
  <1> HIDE DEF h
  <1>5. OnHand(h) = 0
    BY <1>1 DEF OnHand
  <1>6. Stepping(h)
    BY <1>1, <1>4 DEF Stepping
  <1>7. Accounts(h, w, c)
    BY <1>1, <1>3, <1>4, <1>5 DEF Accounts
  <1>8. Streamed(h, w, c, l)
    BY <1>1, <1>2, <1>3, <1>4 DEF Streamed
  <1>9. AtOnce(h, w, c, l)
    BY <1>1, <1>2, <1>3, <1>4 DEF AtOnce
  <1>10. Logged(settings, h, l) /\ AtEnd(h, w, c)
    BY <1>1, <1>2, <1>3 DEF Logged, AtEnd
  <1>11. Typed(h, w, c, l)
    BY <1>1 DEF Typed
  <1> QED
    BY <1>1, <1>6, <1>7, <1>8, <1>9, <1>10, <1>11 DEF Sound, Untouched, h

\* complete() returned a text, or null, or failed.
LEMMA CompletesSoundly ==
    ASSUME NEW g, NEW w, NEW c, NEW l, Typed(g, w, c, l), Sound(settings, g, w, c, l),
           g.pc = "complete", NEW h \in Generators, h.endpoint = g.endpoint,
           \/ /\ h.pc = "log" /\ h.collected = 1 /\ h.text = g.text
              /\ h.status = g.status /\ h.raised = g.raised
           \/ /\ h.pc = "log" /\ h.collected = g.collected /\ ~h.text
              /\ h.status = g.status /\ h.raised \in {"refused", "ended"}
           \/ /\ h.pc = "log" /\ h.collected = g.collected /\ h.text = g.text
              /\ h.status = 502 /\ h.raised = "refused"
           \/ /\ h.pc = "refused" /\ h.collected = g.collected /\ h.text = g.text
              /\ h.status = g.status /\ h.raised = g.raised
    PROVE  Typed(h, w, c, l) /\ Sound(settings, h, w, c, l)
  <1>1. g.endpoint \notin StreamEndpoints
    BY DEF Sound, Streamed
  <1>2. AtOnce(g, w, c, l) /\ Logged(settings, g, l) /\ AtEnd(g, w, c)
    BY DEF Sound
  <1>3. /\ g.collected = 0 /\ g.text = TRUE /\ g.status = 200 /\ g.raised = "ended"
        /\ ~c.error /\ w = <<>> /\ c.got = 0
    BY <1>1, <1>2 DEF AtOnce, Typed, Generators
  <1>4. l = <<>>
    BY <1>2 DEF Logged
  <1>5. c.end \in {"none", "left"}
    BY <1>2 DEF AtEnd, Typed, Readers
  <1>6. Texts(w) = 0 /\ ~HasError(w) /\ MaxTokens \in Nat \ {0}
    BY <1>3, NoTexts, StreamAssumption
  <1>7. h.pc \in {"log", "refused"} /\ h.collected \in {0, 1}
    BY <1>3
  <1>8. OnHand(h) = 0
    BY <1>7 DEF OnHand
  <1>9. Stepping(h)
    BY <1>6, <1>7 DEF Stepping
  <1>10. Accounts(h, w, c)
    BY <1>1, <1>3, <1>6, <1>7, <1>8 DEF Accounts
  <1>11. Streamed(h, w, c, l)
    BY <1>1 DEF Streamed
  <1>12. AtOnce(h, w, c, l)
    BY <1>1, <1>3, <1>4, <1>6, <1>7 DEF AtOnce
  <1>13. Logged(settings, h, l) /\ AtEnd(h, w, c)
    BY <1>4, <1>5, <1>7 DEF Logged, AtEnd
  <1>14. Typed(h, w, c, l)
    BY DEF Typed
  <1> QED
    BY <1>7, <1>9, <1>10, <1>11, <1>12, <1>13, <1>14 DEF Sound, Untouched

AfterFrame(c, f) ==
    [c EXCEPT !.got = IF f = "text" THEN @ + 1 ELSE @, !.error = @ \/ f = "error"]

\* The client reads a frame.
LEMMA ReadsSoundly ==
    ASSUME NEW g, NEW w, NEW c, NEW l, Typed(g, w, c, l), Sound(settings, g, w, c, l),
           c.end = "none", w # <<>>,
           NEW d, d = AfterFrame(c, Head(w))
    PROVE  /\ Typed(g, Tail(w), d, l) /\ Sound(settings, g, Tail(w), d, l)
           /\ g.pc # "idle" /\ d.end = "none"
           /\ d.got = c.got + (IF Head(w) = "text" THEN 1 ELSE 0)
           /\ c.got + (IF Head(w) = "text" THEN 1 ELSE 0) <= g.collected
           /\ g.collected <= MaxTokens
  <1> DEFINE v == Tail(w)
             one == IF Head(w) = "text" THEN 1 ELSE 0
  <1>1. g.pc # "idle"
    BY DEF Sound, Untouched
  <1>2. g \in Generators /\ w \in Seq(FrameKinds) /\ c \in Readers /\ l \in Seq(Rows)
    BY DEF Typed
  <1>3. v \in Seq(FrameKinds) /\ Head(w) \in FrameKinds
    BY <1>2, FirstFrame
  <1>4. /\ Texts(w) = Texts(v) + one /\ Texts(w) \in Nat /\ Texts(v) \in Nat
        /\ HasError(w) <=> Head(w) = "error" \/ HasError(v)
    BY <1>2, <1>3, ReadTexts, TokensFinite
  <1>5. c.got \in Nat /\ c.error \in BOOLEAN /\ g.collected \in Nat /\ OnHand(g) \in {0, 1}
    BY <1>2 DEF Readers, Generators, OnHand
  <1>6. /\ d \in Readers /\ d.got = c.got + one /\ d.end = "none"
        /\ d.error <=> c.error \/ Head(w) = "error"
    <2> DEFINE n == IF Head(w) = "text" THEN c.got + 1 ELSE c.got
               b == c.error \/ Head(w) = "error"
    <2>1. n \in Nat /\ n = c.got + one
      BY <1>5
    <2>2. b \in BOOLEAN
      BY Zenon
    <2>3. d = [c EXCEPT !.got = n, !.error = b]
      BY <1>2, Zenon DEF Readers, AfterFrame
    <2> HIDE DEF n, b
    <2>4. /\ [c EXCEPT !.got = n, !.error = b] \in Readers
          /\ [c EXCEPT !.got = n, !.error = b].got = n
          /\ [c EXCEPT !.got = n, !.error = b].error = b
          /\ [c EXCEPT !.got = n, !.error = b].end = c.end
      BY <1>2, <2>1, <2>2 DEF Readers
    <2>5. d \in Readers /\ d.got = n /\ d.error = b /\ d.end = c.end
      BY <2>3, <2>4, Zenon
    <2> QED
      BY <2>1, <2>5, Zenon DEF b
  <1>7. Stepping(g) /\ Accounts(g, w, c) /\ Streamed(g, w, c, l) /\ AtOnce(g, w, c, l)
        /\ Logged(settings, g, l) /\ AtEnd(g, w, c)
    BY <1>1 DEF Sound
  <1> HIDE DEF v, one
  <1>8. one \in {0, 1}
    BY DEF one
  <1>9. Accounts(g, v, d)
    BY <1>4, <1>5, <1>6, <1>7, <1>8 DEF Accounts
  <1>10. c.got + one <= g.collected /\ g.collected <= MaxTokens
    BY <1>4, <1>5, <1>7, <1>8 DEF Accounts, Stepping
  <1>11. Streamed(g, v, d, l)
    BY <1>4, <1>6, <1>7 DEF Streamed
  <1>12. AtOnce(g, v, d, l)
    <2> SUFFICES ASSUME g.endpoint \notin StreamEndpoints
                 PROVE  AtOnce(g, v, d, l)
      BY DEF AtOnce
    <2>1. g.pc = "ended"
      BY <1>7 DEF AtOnce
    <2>2. ~HasError(w) /\ ~c.error
      BY <1>7 DEF AtOnce
    <2>3. ~HasError(v) /\ ~d.error
      BY <1>4, <1>6, <2>2
    <2> QED
      BY <1>7, <2>1, <2>3 DEF AtOnce
  <1>13. AtEnd(g, v, d)
    BY <1>6, <1>7 DEF AtEnd
  <1>14. Typed(g, v, d, l)
    BY <1>2, <1>3, <1>6 DEF Typed
  <1> QED
    BY <1>1, <1>6, <1>7, <1>9, <1>10, <1>11, <1>12, <1>13, <1>14 DEF Sound, Untouched, v, one

\* The client reads the end, or goes away.
LEMMA EndsSoundly ==
    ASSUME NEW g, NEW w, NEW c, NEW l, Typed(g, w, c, l), Sound(settings, g, w, c, l),
           c.end = "none", g.pc # "idle", NEW e,
           \/ e = "left"
           \/ e \in {"ended", "broken", "refused"} /\ g.pc = e /\ w = <<>>
    PROVE  LET d == [c EXCEPT !.end = e] IN
           Typed(g, w, d, l) /\ Sound(settings, g, w, d, l)
  <1> DEFINE d == [c EXCEPT !.end = e]
  <1>1. d \in Readers /\ d.got = c.got /\ d.error = c.error /\ d.end = e
    BY DEF Typed, Readers
  <1>2. Stepping(g) /\ Accounts(g, w, c) /\ Streamed(g, w, c, l) /\ AtOnce(g, w, c, l)
        /\ Logged(settings, g, l) /\ AtEnd(g, w, c)
    BY DEF Sound
  <1> HIDE DEF d
  <1>3. Accounts(g, w, d) /\ Streamed(g, w, d, l) /\ AtOnce(g, w, d, l)
    <2>1. Accounts(g, w, d)
      BY <1>1, <1>2 DEF Accounts
    <2>2. Streamed(g, w, d, l)
      BY <1>1, <1>2 DEF Streamed
    <2>3. AtOnce(g, w, d, l)
      BY <1>1, <1>2 DEF AtOnce
    <2> QED
      BY <2>1, <2>2, <2>3
  <1>4. AtEnd(g, w, d)
    BY <1>1, <1>2 DEF AtEnd
  <1>5. Typed(g, w, d, l)
    BY <1>1 DEF Typed
  <1> QED
    BY <1>2, <1>3, <1>4, <1>5 DEF Sound, Untouched, d

\* A generator about to read has sent all it has collected.
LEMMA ReadingIsReady ==
    ASSUME NEW g, NEW w, NEW c, NEW l, Typed(g, w, c, l), Sound(settings, g, w, c, l), g.pc = "read"
    PROVE  Ready(g, w, c, l, <<>>)
  <1> DEFINE none == <<>>
  <1>1. /\ g.collected \in Nat /\ g.tokens \in Nat /\ c.got \in Nat /\ Texts(w) \in Nat
        /\ MaxTokens \in Nat
        /\ c.end \in {"none", "left", "ended", "broken", "refused"}
    BY TokensFinite, StreamAssumption DEF Typed, Generators, Readers
  <1>2. Stepping(g) /\ Accounts(g, w, c) /\ Streamed(g, w, c, l) /\ AtOnce(g, w, c, l)
        /\ Logged(settings, g, l) /\ AtEnd(g, w, c)
    BY DEF Sound
  <1>3. g.endpoint \in StreamEndpoints
    BY <1>2 DEF AtOnce
  <1>4. l = <<>> /\ c.end \in {"none", "left"}
    BY <1>1, <1>2 DEF Logged, AtEnd
  <1>5. OnHand(g) = 0
    BY DEF OnHand
  <1>6. OneText(none) /\ Ahead(none) = 0 /\ ~HasError(none)
    BY NoTexts
  <1> HIDE DEF none
  <1>7. g.raised # "refused" /\ (g.endpoint \in ChatEndpoints /\ c.end # "left" =>
                                     (g.status = 502 <=> c.error \/ HasError(w)))
    BY <1>2, <1>3 DEF Streamed
  <1>8. Ready(g, w, c, l, none)
    BY <1>1, <1>2, <1>3, <1>4, <1>5, <1>6, <1>7 DEF Ready, Stepping, Accounts
  <1> QED
    BY <1>8 DEF none

\* Frames for a chunk that was read keep within it.
LEMMA ReadyToYield ==
    ASSUME NEW g, NEW w, NEW c, NEW l, Typed(g, w, c, l), Ready(g, w, c, l, <<>>),
           NEW h \in Generators, NEW frames, NEW n \in {0, 1}, Tidy(frames, n),
           h.endpoint = g.endpoint, h.collected = g.collected, h.status = g.status,
           h.raised = g.raised, h.tokens >= g.tokens + n, n = 1 => g.tokens < MaxTokens
    PROVE  Ready(h, w, c, l, frames)
  <1>1. /\ g.collected \in Nat /\ g.tokens \in Nat /\ h.tokens \in Nat /\ MaxTokens \in Nat
    BY StreamAssumption DEF Typed, Generators
  <1> DEFINE none == <<>>
  <1>2. Ready(g, w, c, l, none) /\ Ahead(none) = 0 /\ ~HasError(none)
    BY NoTexts
  <1> HIDE DEF none
  <1>3. /\ OneText(frames) /\ ~HasError(frames)
        /\ Ahead(frames) \in {0, 1} /\ Ahead(frames) <= n
    BY DEF Tidy, Ahead
  <1>4. g.collected <= g.tokens /\ g.collected <= MaxTokens
    BY <1>1, <1>2 DEF Ready
  <1>5. h.collected + Ahead(frames) <= h.tokens /\ h.collected + Ahead(frames) <= MaxTokens
    BY <1>1, <1>3, <1>4
  <1> QED
    BY <1>2, <1>3, <1>5 DEF Ready

\* An error frame comes with its status, where the endpoint has one.
LEMMA ReadyToFail ==
    ASSUME NEW g, NEW w, NEW c, NEW l, Typed(g, w, c, l), Ready(g, w, c, l, <<>>),
           NEW h \in Generators,
           h.endpoint = g.endpoint, h.collected = g.collected, h.tokens = g.tokens,
           h.raised = g.raised, g.endpoint \in ChatEndpoints => h.status = 502
    PROVE  Ready(h, w, c, l, <<"error">>)
  <1> DEFINE none == <<>>
             error == <<"error">>
  <1>1. Ready(g, w, c, l, none) /\ Ahead(none) = 0
    BY NoTexts
  <1>2. OneText(error) /\ HasError(error) /\ Ahead(error) = 0
    BY ErrorFrame
  <1> HIDE DEF none, error
  <1>3. Ready(h, w, c, l, error)
    BY <1>1, <1>2 DEF Ready
  <1> QED
    BY <1>3 DEF error

\* When a frame is sent the token in it is on the wire, unless the client went
\* away; and the generator may resume with what is behind it.
LEMMA ReadyToSendOn ==
    ASSUME NEW g, NEW w, NEW c, NEW l, Typed(g, w, c, l), Sound(settings, g, w, c, l), g.pc = "send",
           NEW v, v = IF c.end = "left" THEN w ELSE Append(w, Head(g.frames))
    PROVE  Typed(g, v, c, l) /\ Ready(g, v, c, l, Tail(g.frames))
  <1> DEFINE rest == Tail(g.frames)
             one == IF Head(g.frames) = "text" THEN 1 ELSE 0
  <1>1. g \in Generators /\ w \in Seq(FrameKinds) /\ c \in Readers /\ l \in Seq(Rows)
        /\ g.frames \in Seq(FrameKinds)
    BY DEF Typed, Generators
  <1>2. /\ g.collected \in Nat /\ g.tokens \in Nat /\ c.got \in Nat /\ Texts(w) \in Nat
        /\ MaxTokens \in Nat
        /\ c.end \in {"none", "left", "ended", "broken", "refused"}
    BY <1>1, TokensFinite, StreamAssumption DEF Generators, Readers
  <1>3. Stepping(g) /\ Accounts(g, w, c) /\ Streamed(g, w, c, l) /\ AtOnce(g, w, c, l)
        /\ Logged(settings, g, l) /\ AtEnd(g, w, c)
    BY DEF Sound
  <1>4. g.endpoint \in StreamEndpoints
    BY <1>3 DEF AtOnce
  <1>5. l = <<>> /\ c.end \in {"none", "left"}
    BY <1>2, <1>3 DEF Logged, AtEnd
  <1>6. g.frames # <<>> /\ OneText(g.frames)
    BY <1>3 DEF Stepping
  <1>7. /\ Head(g.frames) \in FrameKinds
        /\ OneText(rest) /\ Ahead(rest) = Later(g.frames)
        /\ HasError(g.frames) <=> Head(g.frames) = "error" \/ HasError(rest)
    BY <1>1, <1>6, FirstFrame, FramesInHand, ReadTexts
  <1>8. OnHand(g) = one /\ one \in {0, 1}
    BY DEF OnHand
  <1>9. /\ v \in Seq(FrameKinds)
        /\ c.end = "left" => v = w
        /\ c.end # "left" => /\ Texts(v) = Texts(w) + one
                             /\ HasError(v) <=> HasError(w) \/ Head(g.frames) = "error"
    BY <1>1, <1>7, SentFrame
  <1> HIDE DEF rest, one
  <1>10. c.got + Texts(w) + one <= g.collected
         /\ (c.end # "left" => c.got + Texts(w) + one = g.collected)
    BY <1>3, <1>4, <1>8 DEF Accounts
  <1>11. c.got + Texts(v) <= g.collected /\ (c.end # "left" => c.got + Texts(v) = g.collected)
    BY <1>2, <1>8, <1>9, <1>10
  <1>12. g.collected + Ahead(rest) <= g.tokens /\ g.collected + Ahead(rest) <= MaxTokens
    BY <1>3, <1>7 DEF Stepping
  <1>13. g.endpoint \in ChatEndpoints /\ c.end # "left" =>
             (g.status = 502 <=> c.error \/ HasError(v) \/ HasError(rest))
    BY <1>3, <1>4, <1>7, <1>9 DEF Streamed
  <1>14. g.raised # "refused"
    BY <1>3, <1>4 DEF Streamed
  <1>15. Ready(g, v, c, l, rest)
    BY <1>4, <1>5, <1>7, <1>11, <1>12, <1>13, <1>14 DEF Ready
  <1>16. Typed(g, v, c, l)
    BY <1>1, <1>9 DEF Typed
  <1> QED
    BY <1>15, <1>16 DEF rest

\* An exception of a chat stream that is no APIError.
LEMMA BreaksSoundly ==
    ASSUME NEW g, NEW w, NEW c, NEW l, Typed(g, w, c, l), Sound(settings, g, w, c, l), g.pc = "read",
           NEW h, h = [g EXCEPT !.pc = "log", !.heard = "over", !.raised = "broken"]
    PROVE  Typed(h, w, c, l) /\ Sound(settings, h, w, c, l) /\ h.pc = "log"
  <1>1. /\ h \in Generators /\ h.pc = "log" /\ h.raised = "broken"
        /\ h.endpoint = g.endpoint /\ h.tokens = g.tokens /\ h.collected = g.collected
        /\ h.status = g.status
    <2>1. g \in Generators
      BY DEF Typed
    <2> DEFINE q == [g EXCEPT !.pc = "log", !.heard = "over", !.raised = "broken"]
    <2>0. "log" \in Stages
      BY DEF Stages
    <2>2. q \in Generators
      BY <2>1, <2>0, PcSet, HeardSet, RaisedSet, Zenon
    <2>3. /\ q.pc = "log" /\ q.raised = "broken"
          /\ q.endpoint = g.endpoint /\ q.tokens = g.tokens /\ q.collected = g.collected
          /\ q.status = g.status
      BY <2>1 DEF Generators
    <2>4. h = q
      BY Zenon
    <2> HIDE DEF q
    <2> QED
      BY <2>2, <2>3, <2>4, Zenon
  <1>2. Stepping(g) /\ Accounts(g, w, c) /\ Streamed(g, w, c, l) /\ AtOnce(g, w, c, l)
        /\ Logged(settings, g, l) /\ AtEnd(g, w, c)
    BY DEF Sound
  <1>3. g.endpoint \in StreamEndpoints
    BY <1>2 DEF AtOnce
  <1>4. l = <<>>
    BY <1>2 DEF Logged
  <1>5. OnHand(g) = 0 /\ OnHand(h) = 0
    BY <1>1 DEF OnHand
  <1>6. Stepping(h)
    BY <1>1, <1>2 DEF Stepping
  <1>7. Accounts(h, w, c)
    BY <1>1, <1>2, <1>5 DEF Accounts
  <1>8. Streamed(h, w, c, l)
    BY <1>1, <1>2, <1>3, <1>4 DEF Streamed
  <1>9. AtOnce(h, w, c, l)
    BY <1>1, <1>3 DEF AtOnce
  <1>10. Logged(settings, h, l) /\ AtEnd(h, w, c)
    BY <1>1, <1>2, <1>4 DEF Logged, AtEnd
  <1>11. Typed(h, w, c, l)
    BY <1>1 DEF Typed
  <1> QED
    BY <1>1, <1>6, <1>7, <1>8, <1>9, <1>10, <1>11 DEF Sound, Untouched

----------------------------------------------------------------------------
(* One exchange steps, and the others do not *)

\* What Answering is shown of an exchange.
Shown(g, c, l) ==
    [stage |-> IF g.pc = "idle" THEN "idle"
               ELSE IF c.end = "none" THEN "open"
               ELSE IF c.end = "ended" THEN "complete" ELSE "cut",
     got |-> c.got,
     row |-> IF l = <<>> THEN NoRow ELSE Last(l).response]

\* A step of Answering, at one exchange, or none.
Answered(s, t) ==
    \/ t = s
    \/ s.stage = "idle" /\ t = [s EXCEPT !.stage = "open"]
    \/ /\ s.stage = "open" /\ s.got < MaxTokens
       /\ (s.row # NoRow /\ s.row.body = "whole" => s.got < s.row.tokens)
       /\ t = [s EXCEPT !.got = @ + 1]
    \/ /\ s.stage # "idle" /\ s.row = NoRow
       /\ \E n \in s.got..MaxTokens : \E r \in ResponsesTo(n) : t = [s EXCEPT !.row = r]
    \/ /\ s.stage = "open" /\ s.row # NoRow
       /\ s.row.body = "whole" => s.got = s.row.tokens
       /\ s.row.body = "cut" => s.got > s.row.tokens
       /\ t = [s EXCEPT !.stage = "complete"]
    \/ s.stage = "open" /\ t = [s EXCEPT !.stage = "cut"]

\* x goes on soundly, as Answering allows, and nothing else changes.
Exchanged(x) ==
    \E h, v, d, m :
        /\ settings' = settings
        /\ gen' = [gen EXCEPT ![x] = h] /\ wire' = [wire EXCEPT ![x] = v]
        /\ client' = [client EXCEPT ![x] = d] /\ logs' = [logs EXCEPT ![x] = m]
        /\ Typed(h, v, d, m) /\ Sound(settings, h, v, d, m)
        /\ Answered(Shown(gen[x], client[x], logs[x]), Shown(h, d, m))

LEMMA ShapeOfState ==
    ASSUME TypeOK
    PROVE  /\ gen \in [Exchanges -> Generators] /\ wire \in [Exchanges -> Seq(FrameKinds)]
           /\ client \in [Exchanges -> Readers] /\ logs \in [Exchanges -> Seq(Rows)]
           /\ settings \in Settings
  BY Zenon DEF TypeOK, Generators, Readers, Rows

LEMMA ShapeIsTypeOK ==
    ASSUME gen' \in [Exchanges -> Generators], wire' \in [Exchanges -> Seq(FrameKinds)],
           client' \in [Exchanges -> Readers], logs' \in [Exchanges -> Seq(Rows)],
           settings' \in Settings
    PROVE  TypeOK'
  BY Zenon DEF TypeOK, Generators, Readers, Rows

LEMMA Unaltered ==
    ASSUME NEW S, NEW f \in [Exchanges -> S], NEW x \in Exchanges
    PROVE  f = [f EXCEPT ![x] = f[x]]
  OBVIOUS

LEMMA TypedHere ==
    ASSUME IInv, NEW x \in Exchanges
    PROVE  /\ Typed(gen[x], wire[x], client[x], logs[x])
           /\ Sound(settings, gen[x], wire[x], client[x], logs[x])
           /\ gen = [gen EXCEPT ![x] = gen[x]] /\ wire = [wire EXCEPT ![x] = wire[x]]
           /\ client = [client EXCEPT ![x] = client[x]] /\ logs = [logs EXCEPT ![x] = logs[x]]
           /\ settings \in Settings
  <1>1. TypeOK /\ Sound(settings, gen[x], wire[x], client[x], logs[x])
    BY DEF IInv
  <1>2. /\ gen \in [Exchanges -> Generators] /\ wire \in [Exchanges -> Seq(FrameKinds)]
        /\ client \in [Exchanges -> Readers] /\ logs \in [Exchanges -> Seq(Rows)]
        /\ settings \in Settings
    BY <1>1, ShapeOfState
  <1> QED
    BY <1>1, <1>2, Unaltered DEF Typed

\* What keeps one exchange sound keeps all of them so.
LEMMA OthersKeep ==
    ASSUME IInv, NEW x \in Exchanges, Exchanged(x)
    PROVE  IInv'
  <1>1. PICK h, v, d, m :
            /\ settings' = settings
            /\ gen' = [gen EXCEPT ![x] = h] /\ wire' = [wire EXCEPT ![x] = v]
            /\ client' = [client EXCEPT ![x] = d] /\ logs' = [logs EXCEPT ![x] = m]
            /\ Typed(h, v, d, m) /\ Sound(settings, h, v, d, m)
    BY Zenon DEF Exchanged
  <1>2. /\ gen \in [Exchanges -> Generators] /\ wire \in [Exchanges -> Seq(FrameKinds)]
        /\ client \in [Exchanges -> Readers] /\ logs \in [Exchanges -> Seq(Rows)]
        /\ settings \in Settings
    BY ShapeOfState DEF IInv
  <1>3. h \in Generators /\ v \in Seq(FrameKinds) /\ d \in Readers /\ m \in Seq(Rows)
    BY <1>1, Zenon DEF Typed
  <1>4. /\ gen' \in [Exchanges -> Generators] /\ wire' \in [Exchanges -> Seq(FrameKinds)]
        /\ client' \in [Exchanges -> Readers] /\ logs' \in [Exchanges -> Seq(Rows)]
        /\ settings' \in Settings
    BY <1>1, <1>2, <1>3
  <1>5. TypeOK'
    BY <1>4, ShapeIsTypeOK
  <1>6. ASSUME NEW y \in Exchanges
        PROVE  Sound(settings', gen'[y], wire'[y], client'[y], logs'[y])
    <2>1. CASE y = x
      <3>1. gen'[x] = h /\ wire'[x] = v /\ client'[x] = d /\ logs'[x] = m
        BY <1>1, <1>2
      <3> QED
        BY <1>1, <2>1, <3>1, Zenon
    <2>2. CASE y # x
      <3>1. gen'[y] = gen[y] /\ wire'[y] = wire[y] /\ client'[y] = client[y] /\ logs'[y] = logs[y]
        BY <1>1, <1>2, <2>2
      <3>2. Sound(settings, gen[y], wire[y], client[y], logs[y])
        BY DEF IInv
      <3> QED
        BY <1>1, <3>1, <3>2, Zenon
    <2> QED
      BY <2>1, <2>2
  <1> QED
    BY <1>5, <1>6, Zenon DEF IInv

\* Answering is shown no change by a step that neither its client nor its log sees.
LEMMA Unseen ==
    ASSUME NEW g, NEW h, NEW c, NEW l, g.pc # "idle", h.pc # "idle"
    PROVE  Answered(Shown(g, c, l), Shown(h, c, l))
  BY DEF Answered, Shown

\* A step of the handler or the generator alone.
LEMMA GeneratorGoesOn ==
    ASSUME IInv, NEW x \in Exchanges, NEW h, gen' = [gen EXCEPT ![x] = h],
           UNCHANGED <<settings, wire, client, logs>>, gen[x].pc # "idle", h.pc # "idle",
           Typed(h, wire[x], client[x], logs[x]), Sound(settings, h, wire[x], client[x], logs[x])
    PROVE  Exchanged(x)
  <1>1. /\ wire' = [wire EXCEPT ![x] = wire[x]] /\ client' = [client EXCEPT ![x] = client[x]]
        /\ logs' = [logs EXCEPT ![x] = logs[x]] /\ settings' = settings
    BY TypedHere
  <1>2. Answered(Shown(gen[x], client[x], logs[x]), Shown(h, client[x], logs[x]))
    BY Unseen
  <1> QED
    BY <1>1, <1>2, Zenon DEF Exchanged

----------------------------------------------------------------------------
(* The handlers that answer at once *)

LEMMA CompletedStep ==
    ASSUME IInv, NEW x \in Exchanges, Completed(x)
    PROVE  Exchanged(x)
  <1> DEFINE g == gen[x]
             h == [g EXCEPT !.pc = "log", !.heard = "over", !.collected = 1]
  <1>1. g.pc = "complete" /\ gen' = [gen EXCEPT ![x] = h] /\ UNCHANGED <<settings, wire, client, logs>>
    BY Zenon DEF Completed
  <1>2. Typed(g, wire[x], client[x], logs[x]) /\ Sound(settings, g, wire[x], client[x], logs[x])
    BY TypedHere
  <1>3. g \in Generators
    BY <1>2 DEF Typed
  <1> HIDE DEF g
  <1>4. /\ h \in Generators /\ h.endpoint = g.endpoint /\ h.pc = "log" /\ h.collected = 1
        /\ h.text = g.text /\ h.status = g.status /\ h.raised = g.raised
    <2>0. "log" \in Stages /\ 1 \in Nat
      BY DEF Stages
    <2>1. h \in Generators
      BY <1>3, <2>0, PcSet, HeardSet, CollectedSet, Zenon
    <2>2. h.endpoint = g.endpoint /\ h.pc = "log" /\ h.collected = 1
      BY <1>3 DEF Generators
    <2>3. h.text = g.text /\ h.status = g.status /\ h.raised = g.raised
      BY <1>3 DEF Generators
    <2> QED
      BY <2>1, <2>2, <2>3, Zenon
  <1> HIDE DEF h
  <1>5. Typed(h, wire[x], client[x], logs[x]) /\ Sound(settings, h, wire[x], client[x], logs[x])
    BY <1>1, <1>2, <1>4, CompletesSoundly
  <1> QED
    BY <1>1, <1>4, <1>5, GeneratorGoesOn DEF g

LEMMA CompletedNullStep ==
    ASSUME IInv, NEW x \in Exchanges, CompletedNull(x)
    PROVE  Exchanged(x)
  <1> DEFINE g == gen[x]
             end == IF Chat(x) THEN "refused" ELSE "ended"
             h == [g EXCEPT !.pc = "log", !.heard = "over", !.text = FALSE, !.raised = end]
  <1>1. g.pc = "complete" /\ gen' = [gen EXCEPT ![x] = h] /\ UNCHANGED <<settings, wire, client, logs>>
    BY Zenon DEF CompletedNull
  <1>2. Typed(g, wire[x], client[x], logs[x]) /\ Sound(settings, g, wire[x], client[x], logs[x])
    BY TypedHere
  <1>3. g \in Generators /\ end \in {"refused", "ended"}
    BY <1>2 DEF Typed
  <1> HIDE DEF g, end
  <1>4. /\ h \in Generators /\ h.endpoint = g.endpoint /\ h.pc = "log"
        /\ h.collected = g.collected /\ h.text = FALSE /\ h.status = g.status /\ h.raised = end
    <2>0. "log" \in Stages
      BY DEF Stages
    <2>1. h \in Generators
      BY <1>3, <2>0, PcSet, HeardSet, TextSet, RaisedSet, Zenon
    <2>2. h.endpoint = g.endpoint /\ h.pc = "log" /\ h.collected = g.collected
      BY <1>3 DEF Generators
    <2>3. h.text = FALSE /\ h.status = g.status /\ h.raised = end
      BY <1>3 DEF Generators
    <2> QED
      BY <2>1, <2>2, <2>3, Zenon
  <1> HIDE DEF h
  <1>5. Typed(h, wire[x], client[x], logs[x]) /\ Sound(settings, h, wire[x], client[x], logs[x])
    BY <1>1, <1>2, <1>3, <1>4, CompletesSoundly
  <1> QED
    BY <1>1, <1>4, <1>5, GeneratorGoesOn DEF g

LEMMA CompleteFailsStep ==
    ASSUME IInv, NEW x \in Exchanges, CompleteFails(x)
    PROVE  Exchanged(x)
  <1> DEFINE g == gen[x]
             code == 502
             h == [g EXCEPT !.pc = "log", !.heard = "over", !.status = code, !.raised = "refused"]
  <1>1. g.pc = "complete" /\ gen' = [gen EXCEPT ![x] = h] /\ UNCHANGED <<settings, wire, client, logs>>
    BY ZenonT(60) DEF CompleteFails
  <1>2. Typed(g, wire[x], client[x], logs[x]) /\ Sound(settings, g, wire[x], client[x], logs[x])
    BY TypedHere
  <1>3. g \in Generators /\ code \in {200, 502}
    BY <1>2 DEF Typed
  <1> HIDE DEF g, code
  <1>4. /\ h \in Generators /\ h.endpoint = g.endpoint /\ h.pc = "log"
        /\ h.collected = g.collected /\ h.text = g.text /\ h.status = code
        /\ h.raised = "refused"
    <2>0. "log" \in Stages
      BY DEF Stages
    <2>1. h \in Generators
      <3> DEFINE a == [g EXCEPT !.pc = "log"]
                 b == [a EXCEPT !.heard = "over"]
                 d == [b EXCEPT !.status = code]
      <3>1. a \in Generators
        BY <1>3, PcSet DEF Stages
      <3>2. b \in Generators
        <4> HIDE DEF a
        <4> QED
          BY <3>1, HeardSet
      <3>3. d \in Generators
        <4> HIDE DEF b
        <4> QED
          BY <1>3, <3>2 DEF Generators
      <3>4. [d EXCEPT !.raised = "refused"] \in Generators
        <4> HIDE DEF d
        <4> QED
          BY <3>3, RaisedSet
      <3> QED
        BY <3>4, Zenon
    <2>2. h.endpoint = g.endpoint /\ h.pc = "log" /\ h.collected = g.collected
      BY <1>3 DEF Generators
    <2>3. h.text = g.text /\ h.status = code /\ h.raised = "refused"
      BY <1>3 DEF Generators
    <2> QED
      BY <2>1, <2>2, <2>3, Zenon
  <1> HIDE DEF h
  <1>5. Typed(h, wire[x], client[x], logs[x]) /\ Sound(settings, h, wire[x], client[x], logs[x])
    BY <1>1, <1>2, <1>4, CompletesSoundly DEF code
  <1> QED
    BY <1>1, <1>4, <1>5, GeneratorGoesOn DEF g

LEMMA CompleteRaisesStep ==
    ASSUME IInv, NEW x \in Exchanges, CompleteRaises(x)
    PROVE  Exchanged(x)
  <1> DEFINE g == gen[x]
             h == [g EXCEPT !.pc = "refused", !.heard = "over"]
  <1>1. g.pc = "complete" /\ gen' = [gen EXCEPT ![x] = h] /\ UNCHANGED <<settings, wire, client, logs>>
    BY Zenon DEF CompleteRaises
  <1>2. Typed(g, wire[x], client[x], logs[x]) /\ Sound(settings, g, wire[x], client[x], logs[x])
    BY TypedHere
  <1>3. g \in Generators /\ "refused" \in Stages
    BY <1>2 DEF Typed, Stages
  <1>4. Moved(g, h) /\ h.pc = "refused"
    BY <1>3, MovedOver
  <1> HIDE DEF g, h
  <1>5. Typed(h, wire[x], client[x], logs[x]) /\ Sound(settings, h, wire[x], client[x], logs[x])
    BY <1>1, <1>2, <1>4, CompletesSoundly DEF Moved
  <1> QED
    BY <1>1, <1>4, <1>5, GeneratorGoesOn DEF g

----------------------------------------------------------------------------
(* The generators *)

LEMMA ResumedStep ==
    ASSUME IInv, NEW x \in Exchanges, gen[x].pc # "idle",
           NEW h, NEW frames \in Seq(FrameKinds), NEW next \in {"read", "log"},
           h \in Generators, Ready(h, wire[x], client[x], logs[x], frames),
           gen' = [gen EXCEPT ![x] = Resumed(h, frames, next)],
           UNCHANGED <<settings, wire, client, logs>>
    PROVE  Exchanged(x)
  <1> DEFINE r == Resumed(h, frames, next)
  <1>1. Typed(h, wire[x], client[x], logs[x])
    BY TypedHere DEF Typed
  <1>2. Typed(r, wire[x], client[x], logs[x]) /\ r.pc # "idle" /\ Sound(settings, r, wire[x], client[x], logs[x])
    BY <1>1, ResumesSoundly
  <1>3. gen' = [gen EXCEPT ![x] = r]
    OBVIOUS
  <1> HIDE DEF r
  <1> QED
    BY <1>2, <1>3, GeneratorGoesOn

LEMMA YieldedStep ==
    ASSUME IInv, NEW x \in Exchanges, Yielded(x)
    PROVE  Exchanged(x)
  <1> DEFINE g == gen[x]
             After(token, done) ==
                 [g EXCEPT !.tokens = IF token = "text" THEN @ + 1 ELSE @,
                           !.heard = IF done THEN "done" ELSE "more", !.introduced = TRUE,
                           !.text = ~Chat(x) \/ token # "null"]
  <1>1. PICK pair \in Pairs(x) :
            gen' = [gen EXCEPT ![x] = Resumed(After(pair[1], pair[2]),
                                              Frames(x, pair[1], pair[2]), "read")]
    BY Zenon DEF Yielded
  <1>2. g.pc = "read" /\ UNCHANGED <<settings, wire, client, logs>>
    BY DEF Yielded
  <1>3. Typed(g, wire[x], client[x], logs[x]) /\ Sound(settings, g, wire[x], client[x], logs[x])
    BY TypedHere
  <1>4. g \in Generators
    BY <1>3 DEF Typed
  <1>5. /\ pair[1] \in {"text", "empty", "null"} /\ pair[2] \in BOOLEAN
        /\ pair[1] = "text" => g.tokens < MaxTokens
    <2>1. \/ pair \in {<<"text", TRUE>>, <<"text", FALSE>>} /\ g.tokens < MaxTokens
          \/ pair \in {<<"empty", FALSE>>, <<"empty", TRUE>>, <<"null", TRUE>>}
      BY Zenon DEF Pairs
    <2>2. \/ (pair = <<"text", TRUE>> \/ pair = <<"text", FALSE>>) /\ g.tokens < MaxTokens
          \/ pair = <<"empty", FALSE>> \/ pair = <<"empty", TRUE>> \/ pair = <<"null", TRUE>>
      BY <2>1, Zenon
    <2>3. \A a, b : pair = <<a, b>> => pair[1] = a /\ pair[2] = b
      OBVIOUS
    <2> HIDE DEF g
    <2>4. TRUE \in BOOLEAN /\ FALSE \in BOOLEAN /\ "empty" # "text" /\ "null" # "text"
      OBVIOUS
    <2> QED
      BY <2>2, <2>3, <2>4, Zenon
  <1> DEFINE token == pair[1]
             done == pair[2]
             more == ~Chat(x) \/ token # "null"
             n == IF token = "text" THEN 1 ELSE 0
             frames == Frames(x, token, done)
             read == IF token = "text" THEN g.tokens + 1 ELSE g.tokens
             heard == IF done THEN "done" ELSE "more"
             h == [g EXCEPT !.tokens = read, !.heard = heard, !.introduced = TRUE,
                            !.text = more]
  <1>6. gen' = [gen EXCEPT ![x] = Resumed(h, frames, "read")]
    <2>1. After(pair[1], pair[2]) = h
      BY <1>4, Zenon DEF Generators
    <2> QED
      BY <1>1, <2>1, Zenon
  <1>7. token \in {"text", "empty", "null"} /\ done \in BOOLEAN /\ (n = 1 => g.tokens < MaxTokens)
        /\ n \in {0, 1}
    BY <1>5
  <1>8. g.introduced \in BOOLEAN
    BY <1>4 DEF Generators
  <1>9. more \in BOOLEAN /\ heard \in {"more", "done", "over"}
    BY Zenon
  <1>. read \in Nat /\ read = g.tokens + n
    BY <1>4 DEF Generators
  <1> HIDE DEF token, done, more, read, heard
  <1>10. Tidy(frames, n)
    <2>1. Tidy(ChatFrames(token, done), n) /\ Tidy(RagFrames(gen[x].introduced, token, done), n)
      BY <1>7, <1>8, YieldedFrames
    <2> QED
      BY <2>1, Zenon DEF Frames
  <1> HIDE DEF g, frames, n
  <1>11. /\ h \in Generators /\ h.endpoint = g.endpoint /\ h.collected = g.collected
         /\ h.status = g.status /\ h.raised = g.raised /\ h.tokens = read
    <2>1. read \in Nat
      OBVIOUS
    <2>2. h \in Generators
      <3> DEFINE a == [g EXCEPT !.tokens = read]
                 b == [a EXCEPT !.heard = heard]
                 c == [b EXCEPT !.introduced = TRUE]
      <3>1. a \in Generators
        BY <1>4, <2>1, TokensSet, Zenon
      <3>2. b \in Generators
        <4> HIDE DEF a
        <4> QED
          BY <1>9, <3>1, HeardSet, Zenon
      <3>3. c \in Generators
        <4> HIDE DEF b
        <4> QED
          BY <3>2, IntroducedSet
      <3>4. [c EXCEPT !.text = more] \in Generators
        <4> HIDE DEF c
        <4> QED
          BY <1>9, <3>3, TextSet, Zenon
      <3> QED
        BY <3>4, Zenon
    <2>3. h.endpoint = g.endpoint /\ h.collected = g.collected /\ h.tokens = read
      BY <1>4 DEF Generators
    <2>4. h.status = g.status /\ h.raised = g.raised
      BY <1>4 DEF Generators
    <2> QED
      BY <2>2, <2>3, <2>4, Zenon
  <1> HIDE DEF h
  <1>12. g.tokens \in Nat
    BY <1>4 DEF Generators
  <1>13. h.tokens >= g.tokens + n
    BY <1>7, <1>11, <1>12
  <1>14. Ready(g, wire[x], client[x], logs[x], <<>>)
    BY <1>2, <1>3, ReadingIsReady
  <1>15. Ready(h, wire[x], client[x], logs[x], frames)
    BY <1>3, <1>7, <1>10, <1>11, <1>13, <1>14, ReadyToYield
  <1>16. gen[x].pc # "idle" /\ frames \in Seq(FrameKinds)
    BY <1>2, <1>10 DEF g, Tidy
  <1> QED
    BY <1>2, <1>6, <1>11, <1>15, <1>16, ResumedStep

LEMMA YieldedLastStep ==
    ASSUME IInv, NEW x \in Exchanges, YieldedLast(x)
    PROVE  Exchanged(x)
  <1> DEFINE g == gen[x]
             h == [g EXCEPT !.introduced = TRUE, !.heard = "over"]
             frames == Frames(x, "empty", TRUE)
  <1>1. /\ g.pc = "read" /\ gen' = [gen EXCEPT ![x] = Resumed(h, frames, "log")]
        /\ UNCHANGED <<settings, wire, client, logs>>
    BY Zenon DEF YieldedLast
  <1>2. Typed(g, wire[x], client[x], logs[x]) /\ Sound(settings, g, wire[x], client[x], logs[x])
    BY TypedHere
  <1>3. g \in Generators
    BY <1>2 DEF Typed
  <1>4. g.introduced \in BOOLEAN /\ g.tokens \in Nat
    BY <1>3 DEF Generators
  <1>5. Tidy(frames, 0)
    <2>1. Tidy(ChatFrames("empty", TRUE), 0) /\ Tidy(RagFrames(gen[x].introduced, "empty", TRUE), 0)
      BY <1>4, YieldedFrames
    <2> QED
      BY <2>1, Zenon DEF Frames
  <1> HIDE DEF g, frames
  <1>6. /\ h \in Generators /\ h.endpoint = g.endpoint /\ h.collected = g.collected
        /\ h.status = g.status /\ h.raised = g.raised /\ h.tokens = g.tokens
    <2>1. h \in Generators
      BY <1>3, IntroducedSet, HeardSet, Zenon
    <2>2. h.endpoint = g.endpoint /\ h.collected = g.collected /\ h.tokens = g.tokens
      BY <1>3 DEF Generators
    <2>3. h.status = g.status /\ h.raised = g.raised
      BY <1>3 DEF Generators
    <2> QED
      BY <2>1, <2>2, <2>3
  <1> HIDE DEF h
  <1>7. h.tokens >= g.tokens + 0
    BY <1>4, <1>6
  <1>8. Ready(g, wire[x], client[x], logs[x], <<>>)
    BY <1>1, <1>2, ReadingIsReady
  <1>9. Ready(h, wire[x], client[x], logs[x], frames)
    BY <1>2, <1>5, <1>6, <1>7, <1>8, ReadyToYield
  <1>10. gen[x].pc # "idle" /\ frames \in Seq(FrameKinds)
    BY <1>1, <1>5 DEF g, Tidy
  <1> QED
    BY <1>1, <1>6, <1>9, <1>10, ResumedStep

\* A step that only moves the handler or the generator.
LEMMA MovedStep ==
    ASSUME IInv, NEW x \in Exchanges, NEW p \in Stages,
           gen' = [gen EXCEPT ![x].pc = p], UNCHANGED <<settings, wire, client, logs>>,
           \/ /\ gen[x].pc = "log"
              /\ p = IF gen[x].endpoint \in StreamEndpoints THEN "broken" ELSE "refused"
           \/ gen[x].pc \in {"read", "send", "log"} /\ gen[x].endpoint \in StreamEndpoints
              /\ client[x].end = "left" /\ p = "abandoned"
           \/ gen[x].pc = "abandoned" /\ p = "gone"
    PROVE  Exchanged(x)
  <1> DEFINE g == gen[x]
             h == [g EXCEPT !.pc = p]
  <1>1. gen' = [gen EXCEPT ![x] = h]
    OBVIOUS
  <1>2. Typed(g, wire[x], client[x], logs[x]) /\ Sound(settings, g, wire[x], client[x], logs[x])
    BY TypedHere
  <1>3. g \in Generators
    BY <1>2 DEF Typed
  <1>4. Moved(g, h) /\ h.pc = p
    BY <1>3, MovedTo
  <1>5. g.pc # "idle" /\ h.pc # "idle"
    BY <1>4
  <1> HIDE DEF h
  <1>6. Typed(h, wire[x], client[x], logs[x]) /\ Sound(settings, h, wire[x], client[x], logs[x])
    BY <1>2, <1>4, MovesSoundly
  <1> QED
    BY <1>1, <1>5, <1>6, GeneratorGoesOn

LEMMA ExhaustedStep ==
    ASSUME IInv, NEW x \in Exchanges, Exhausted(x)
    PROVE  Exchanged(x)
  <1> DEFINE g == gen[x]
             h == [g EXCEPT !.pc = "log", !.heard = "over"]
  <1>1. g.pc = "read" /\ gen' = [gen EXCEPT ![x] = h] /\ UNCHANGED <<settings, wire, client, logs>>
    BY Zenon DEF Exhausted
  <1>2. Typed(g, wire[x], client[x], logs[x]) /\ Sound(settings, g, wire[x], client[x], logs[x])
    BY TypedHere
  <1>3. g \in Generators /\ "log" \in Stages
    BY <1>2 DEF Typed, Stages
  <1>4. Moved(g, h) /\ h.pc = "log"
    BY <1>3, MovedOver
  <1> HIDE DEF g, h
  <1>5. Typed(h, wire[x], client[x], logs[x]) /\ Sound(settings, h, wire[x], client[x], logs[x])
    BY <1>1, <1>2, <1>4, MovesSoundly
  <1> QED
    BY <1>1, <1>4, <1>5, GeneratorGoesOn DEF g

LEMMA LogFailsStep ==
    ASSUME IInv, NEW x \in Exchanges, LogFails(x)
    PROVE  Exchanged(x)
  <1> DEFINE p == IF Streams(x) THEN "broken" ELSE "refused"
  <1>1. p \in Stages /\ p = IF gen[x].endpoint \in StreamEndpoints THEN "broken" ELSE "refused"
    BY DEF Stages, Streams
  <1>2. gen' = [gen EXCEPT ![x].pc = p] /\ gen[x].pc = "log" /\ UNCHANGED <<settings, wire, client, logs>>
    BY Zenon DEF LogFails
  <1> HIDE DEF p
  <1> QED
    BY <1>1, <1>2, MovedStep

LEMMA NoticeStep ==
    ASSUME IInv, NEW x \in Exchanges, Notice(x)
    PROVE  Exchanged(x)
  <1>1. "abandoned" \in Stages
    BY DEF Stages
  <1> QED
    BY <1>1, MovedStep DEF Notice, Streams

LEMMA LoseLogStep ==
    ASSUME IInv, NEW x \in Exchanges, LoseLog(x)
    PROVE  Exchanged(x)
  <1>1. "gone" \in Stages
    BY DEF Stages
  <1> QED
    BY <1>1, MovedStep DEF LoseLog

\* g is about to yield an error frame, its status set.
Failed(g, code) ==
    Resumed([g EXCEPT !.heard = "over", !.status = code], <<"error">>, "log")

\* An error frame is yielded, on the status that belongs to it.
LEMMA FailsSoundly ==
    ASSUME NEW g, NEW w, NEW c, NEW l, Typed(g, w, c, l), Sound(settings, g, w, c, l), g.pc = "read",
           NEW code \in {200, 502}, g.endpoint \in ChatEndpoints => code = 502
    PROVE  /\ Typed(Failed(g, code), w, c, l) /\ Failed(g, code).pc # "idle"
           /\ Sound(settings, Failed(g, code), w, c, l)
  <1> DEFINE h == [g EXCEPT !.heard = "over", !.status = code]
             error == <<"error">>
  <1>1. g \in Generators /\ w \in Seq(FrameKinds) /\ c \in Readers /\ l \in Seq(Rows)
    BY DEF Typed
  <1>2. /\ h \in Generators /\ h.endpoint = g.endpoint /\ h.collected = g.collected
        /\ h.tokens = g.tokens /\ h.raised = g.raised /\ h.status = code
    <2>1. h \in Generators
      <3> DEFINE a == [g EXCEPT !.heard = "over"]
      <3>1. a \in Generators
        BY <1>1, HeardSet
      <3>2. [a EXCEPT !.status = code] \in Generators
        <4> HIDE DEF a
        <4> QED
          BY <3>1 DEF Generators
      <3> QED
        BY <3>2, Zenon
    <2>2. h.endpoint = g.endpoint /\ h.collected = g.collected /\ h.tokens = g.tokens
      BY <1>1 DEF Generators
    <2>3. h.raised = g.raised /\ h.status = code
      BY <1>1 DEF Generators
    <2> QED
      BY <2>1, <2>2, <2>3, Zenon
  <1> HIDE DEF h
  <1>3. Ready(g, w, c, l, <<>>)
    BY ReadingIsReady
  <1>4. Ready(h, w, c, l, <<"error">>)
    BY <1>2, <1>3, ReadyToFail
  <1>5. error \in Seq(FrameKinds) /\ Ready(h, w, c, l, error)
    BY <1>4, ErrorFrame
  <1>6. Typed(h, w, c, l)
    BY <1>1, <1>2 DEF Typed
  <1> HIDE DEF error
  <1>7. /\ Typed(Resumed(h, error, "log"), w, c, l) /\ Resumed(h, error, "log").pc # "idle"
        /\ Sound(settings, Resumed(h, error, "log"), w, c, l)
    BY <1>5, <1>6, ResumesSoundly
  <1> QED
    BY <1>7, Zenon DEF h, error, Failed

LEMMA FailsStep ==
    ASSUME IInv, NEW x \in Exchanges, Fails(x)
    PROVE  Exchanged(x)
  <1> DEFINE g == gen[x]
             code == IF Chat(x) THEN 502 ELSE gen[x].status
             h == Failed(g, code)
  <1>1. Typed(g, wire[x], client[x], logs[x]) /\ Sound(settings, g, wire[x], client[x], logs[x])
        /\ g \in Generators
    BY TypedHere DEF Typed
  <1>2. code \in {200, 502} /\ (g.endpoint \in ChatEndpoints => code = 502)
    BY <1>1 DEF Generators, Chat
  <1>3. gen' = [gen EXCEPT ![x] = h]
    BY Zenon DEF Fails, Failed
  <1>4. g.pc = "read" /\ UNCHANGED <<settings, wire, client, logs>>
    BY DEF Fails
  <1> HIDE DEF code
  <1>5. Typed(h, wire[x], client[x], logs[x]) /\ h.pc # "idle"
        /\ Sound(settings, h, wire[x], client[x], logs[x])
    BY <1>1, <1>2, <1>4, FailsSoundly
  <1> HIDE DEF h
  <1> QED
    BY <1>3, <1>4, <1>5, GeneratorGoesOn

LEMMA RaisesStep ==
    ASSUME IInv, NEW x \in Exchanges, Raises(x)
    PROVE  Exchanged(x)
  <1> DEFINE g == gen[x]
             h == [g EXCEPT !.pc = "log", !.heard = "over", !.raised = "broken"]
  <1>1. g.pc = "read" /\ UNCHANGED <<settings, wire, client, logs>>
    BY DEF Raises
  <1>2. Typed(g, wire[x], client[x], logs[x]) /\ Sound(settings, g, wire[x], client[x], logs[x])
    BY TypedHere
  <1>3. g \in Generators
    BY <1>2 DEF Typed
  <1>4. CASE Chat(x)
    <2>1. gen' = [gen EXCEPT ![x] = h]
      BY <1>4, Zenon DEF Raises
    <2> HIDE DEF g
    <2>2. Typed(h, wire[x], client[x], logs[x]) /\ Sound(settings, h, wire[x], client[x], logs[x])
          /\ h.pc = "log"
      BY <1>1, <1>2, BreaksSoundly, ZenonT(60)
    <2> HIDE DEF h
    <2>3. h.pc # "idle" /\ gen[x].pc # "idle"
      BY <1>1, <2>2 DEF g
    <2> QED
      BY <1>1, <2>1, <2>2, <2>3, GeneratorGoesOn
  <1>5. CASE ~Chat(x)
    <2> DEFINE code == g.status
               k == Failed(g, code)
    <2>1. /\ [g EXCEPT !.heard = "over"] = [g EXCEPT !.heard = "over", !.status = code]
          /\ code \in {200, 502}
      BY <1>3 DEF Generators
    <2>2. gen' = [gen EXCEPT ![x] = Resumed([g EXCEPT !.heard = "over"], <<"error">>, "log")]
      BY <1>5, Zenon DEF Raises
    <2>3. gen' = [gen EXCEPT ![x] = k]
      BY <2>1, <2>2, Zenon DEF Failed
    <2>4. g.endpoint \notin ChatEndpoints
      BY <1>5 DEF Chat
    <2> HIDE DEF code
    <2>5. Typed(k, wire[x], client[x], logs[x]) /\ k.pc # "idle"
          /\ Sound(settings, k, wire[x], client[x], logs[x])
      BY <1>1, <1>2, <2>1, <2>4, FailsSoundly
    <2> HIDE DEF k
    <2> QED
      BY <1>1, <2>3, <2>5, GeneratorGoesOn
  <1> QED
    BY <1>4, <1>5

LEMMA SendFrameStep ==
    ASSUME IInv, NEW x \in Exchanges, SendFrame(x)
    PROVE  Exchanged(x)
  <1> DEFINE g == gen[x]
             w == wire[x]
             c == client[x]
             l == logs[x]
             v == IF c.end = "left" THEN w ELSE Append(w, Head(g.frames))
             h == Resumed(g, Tail(g.frames), g.next)
  <1>1. Typed(g, w, c, l) /\ Sound(settings, g, w, c, l) /\ wire = [wire EXCEPT ![x] = w]
    BY TypedHere
  <1>2. g.pc = "send" /\ settings' = settings /\ client' = client /\ logs' = logs
    BY DEF SendFrame
  <1>3. gen' = [gen EXCEPT ![x] = h]
    BY Zenon DEF SendFrame
  <1>4. wire' = [wire EXCEPT ![x] = v]
    <2>1. CASE c.end = "left"
      BY <1>1, <2>1, Zenon DEF SendFrame
    <2>2. CASE c.end # "left"
      BY <2>2, Zenon DEF SendFrame
    <2> QED
      BY <2>1, <2>2
  <1>5. client' = [client EXCEPT ![x] = c] /\ logs' = [logs EXCEPT ![x] = l]
    BY <1>2, TypedHere
  <1>6. g \in Generators
    BY <1>1 DEF Typed
  <1>7. g.next \in {"read", "log"} /\ g.frames \in Seq(FrameKinds)
    BY <1>6 DEF Generators
  <1>8. g.frames # <<>>
    BY <1>1, <1>2 DEF Sound, Stepping
  <1>9. Tail(g.frames) \in Seq(FrameKinds)
    BY <1>7, <1>8, FirstFrame
  <1> HIDE DEF g, w, c, l
  <1>10. Typed(g, v, c, l) /\ Ready(g, v, c, l, Tail(g.frames))
    BY <1>1, <1>2, ReadyToSendOn
  <1> HIDE DEF v
  <1>11. Typed(h, v, c, l) /\ h.pc # "idle" /\ Sound(settings, h, v, c, l)
    BY <1>7, <1>9, <1>10, ResumesSoundly
  <1> HIDE DEF h
  <1>12. g.pc # "idle"
    BY <1>2
  <1>13. Answered(Shown(g, c, l), Shown(h, c, l))
    BY <1>11, <1>12, Unseen
  <1> QED
    BY <1>2, <1>3, <1>4, <1>5, <1>11, <1>13, Zenon DEF Exchanged, g, c, l

----------------------------------------------------------------------------
(* The log *)

\* Answering sees a row: of all that was collected.
LEMMA RowIsSeen ==
    ASSUME NEW g, NEW h, NEW c, NEW l, g.pc # "idle", h.pc # "idle", l = <<>>,
           NEW r, NEW k \in c.got..MaxTokens, r.response \in ResponsesTo(k)
    PROVE  Answered(Shown(g, c, l), Shown(h, c, Append(l, r)))
  <1> DEFINE m == Append(l, r)
             stage == IF c.end = "none" THEN "open"
                      ELSE IF c.end = "ended" THEN "complete" ELSE "cut"
             s == Shown(g, c, l)
             n == r.response
  <1>1. m # <<>> /\ Last(m) = r
    BY DEF Last
  <1> HIDE DEF m
  <1>2. s = [stage |-> stage, got |-> c.got, row |-> NoRow]
    BY DEF Shown
  <1>3. Shown(h, c, m) = [stage |-> stage, got |-> c.got, row |-> n]
    BY <1>1 DEF Shown
  <1>4. stage # "idle"
    OBVIOUS
  <1> HIDE DEF s, stage, n
  <1>5. s.stage # "idle" /\ s.row = NoRow /\ s.got = c.got
        /\ [stage |-> stage, got |-> c.got, row |-> n] = [s EXCEPT !.row = n]
    BY <1>2, <1>4
  <1>6. Answered(s, [stage |-> stage, got |-> c.got, row |-> n])
    <2>1. k \in s.got..MaxTokens /\ n \in ResponsesTo(k)
      BY <1>5 DEF n
    <2> QED
      BY <1>5, <2>1, Zenon DEF Answered
  <1> QED
    BY <1>3, <1>6, Zenon DEF s, m

LEMMA LoggedStep ==
    ASSUME IInv, NEW x \in Exchanges, NEW p \in Stages, NEW v \in Seq(FrameKinds),
           gen' = [gen EXCEPT ![x].pc = p], wire' = [wire EXCEPT ![x] = v],
           logs' = [logs EXCEPT ![x] = Append(@, Row(x))],
           settings' = settings, client' = client,
           \/ /\ gen[x].pc = "log" /\ p = gen[x].raised
              /\ v = IF gen[x].endpoint \in StreamEndpoints \/ gen[x].raised # "ended"
                     THEN wire[x] ELSE IF gen[x].text THEN <<"text">> ELSE <<>>
           \/ gen[x].pc = "abandoned" /\ p = "gone" /\ v = wire[x]
    PROVE  Exchanged(x)
  <1> DEFINE g == gen[x]
             w == wire[x]
             c == client[x]
             l == logs[x]
             h == [g EXCEPT !.pc = p]
             r == [response |-> Redacted(settings, g.collected), status |-> g.status]
  <1>1. Typed(g, w, c, l) /\ Sound(settings, g, w, c, l)
    BY TypedHere
  <1>2. g \in Generators /\ w \in Seq(FrameKinds) /\ c \in Readers
    BY <1>1 DEF Typed
  <1>3. Moved(g, h) /\ h.pc = p
    BY <1>2, MovedTo
  <1>4. gen' = [gen EXCEPT ![x] = h]
    BY Zenon
  <1>5. logs' = [logs EXCEPT ![x] = Append(l, r)]
    BY RowRedacts, Zenon
  <1>6. client' = [client EXCEPT ![x] = c]
    BY TypedHere
  <1> HIDE DEF h, r
  <1>7. Typed(h, v, c, Append(l, r)) /\ Sound(settings, h, v, c, Append(l, r)) /\ l = <<>>
    BY <1>1, <1>3, TypedHere, LogsSoundly DEF r
  <1>8. g.pc # "idle" /\ h.pc # "idle"
    BY <1>2, <1>3 DEF Generators
  <1>9. r.response \in ResponsesTo(g.collected)
    <2>1. g.collected \in Nat
      BY <1>2 DEF Generators
    <2>2. Redacted(settings, g.collected) \in ResponsesTo(g.collected)
      BY <2>1, TypedHere, Redactions
    <2> QED
      BY <2>2 DEF r
  <1>10. g.collected \in c.got..MaxTokens
    <2>1. /\ g.collected \in Nat /\ c.got \in Nat /\ Texts(w) \in Nat /\ MaxTokens \in Nat
          /\ OnHand(g) \in {0, 1}
      BY <1>2, TokensFinite, StreamAssumption DEF Generators, Readers, OnHand
    <2>2. Stepping(g) /\ Accounts(g, w, c)
      BY <1>1, <1>8 DEF Sound
    <2>3. g.collected <= MaxTokens
      BY <2>2 DEF Stepping
    <2>4. c.got + Texts(w) + OnHand(g) <= g.collected
      BY <2>2 DEF Accounts
    <2> HIDE DEF g, w, c
    <2> QED
      BY <2>1, <2>3, <2>4
  <1> HIDE DEF g, w, c, l
  <1>11. Answered(Shown(g, c, l), Shown(h, c, Append(l, r)))
    BY <1>7, <1>8, <1>9, <1>10, RowIsSeen
  <1> QED
    BY <1>4, <1>5, <1>6, <1>7, <1>11, Zenon DEF Exchanged, g, c, l

LEMMA WriteLogStep ==
    ASSUME IInv, NEW x \in Exchanges, WriteLog(x)
    PROVE  Exchanged(x)
  <1> DEFINE p == gen[x].raised
             answered == IF gen[x].text THEN <<"text">> ELSE <<>>
             v == IF gen[x].endpoint \in StreamEndpoints \/ gen[x].raised # "ended"
                  THEN wire[x] ELSE answered
  <1>1. gen[x] \in Generators /\ wire[x] \in Seq(FrameKinds) /\ wire = [wire EXCEPT ![x] = wire[x]]
    BY TypedHere DEF Typed
  <1>2. p \in Stages
    BY <1>1 DEF Generators, Stages
  <1>3. v \in Seq(FrameKinds)
    <2>1. <<"text">> \in Seq(FrameKinds) /\ <<>> \in Seq(FrameKinds)
      BY NoTexts DEF FrameKinds
    <2> QED
      BY <1>1, <2>1, Zenon
  <1>4. wire' = [wire EXCEPT ![x] = v]
    <2>1. CASE gen[x].endpoint \in StreamEndpoints \/ gen[x].raised # "ended"
      BY <1>1, <2>1, Zenon DEF WriteLog, Streams
    <2>2. CASE ~(gen[x].endpoint \in StreamEndpoints \/ gen[x].raised # "ended")
      BY <2>2, Zenon DEF WriteLog, Streams
    <2> QED
      BY <2>1, <2>2
  <1>5. /\ gen[x].pc = "log" /\ gen' = [gen EXCEPT ![x].pc = p]
        /\ logs' = [logs EXCEPT ![x] = Append(@, Row(x))] /\ settings' = settings /\ client' = client
    BY Zenon DEF WriteLog
  <1> QED
    BY <1>2, <1>3, <1>4, <1>5, LoggedStep, Zenon

LEMMA KeepLogStep ==
    ASSUME IInv, NEW x \in Exchanges, KeepLog(x)
    PROVE  Exchanged(x)
  <1>1. wire[x] \in Seq(FrameKinds) /\ wire = [wire EXCEPT ![x] = wire[x]]
    BY TypedHere DEF Typed
  <1>2. /\ gen[x].pc = "abandoned" /\ gen' = [gen EXCEPT ![x].pc = "gone"] /\ wire' = wire
        /\ logs' = [logs EXCEPT ![x] = Append(@, Row(x))] /\ settings' = settings /\ client' = client
    BY Zenon DEF KeepLog
  <1>3. "gone" \in Stages
    BY DEF Stages
  <1> QED
    BY <1>1, <1>2, <1>3, LoggedStep, Zenon

----------------------------------------------------------------------------
(* The client *)

LEMMA BegunStep ==
    ASSUME IInv, NEW x \in Exchanges, gen[x].pc = "idle", NEW e \in Endpoints,
           NEW p \in {"read", "complete", "refused"},
           p = "read" => e \in StreamEndpoints, p = "complete" => e \notin StreamEndpoints,
           gen' = [gen EXCEPT ![x] = Begun(e, p)],
           UNCHANGED <<settings, wire, client, logs>>
    PROVE  Exchanged(x)
  <1> DEFINE g == gen[x]
             c == client[x]
             l == logs[x]
             h == Begun(e, p)
  <1>1. Typed(g, wire[x], c, l) /\ Sound(settings, g, wire[x], c, l)
    BY TypedHere
  <1>2. /\ wire' = [wire EXCEPT ![x] = wire[x]] /\ client' = [client EXCEPT ![x] = c]
        /\ logs' = [logs EXCEPT ![x] = l] /\ settings' = settings /\ gen' = [gen EXCEPT ![x] = h]
    BY TypedHere
  <1>3. Typed(h, wire[x], c, l) /\ Sound(settings, h, wire[x], c, l) /\ h.pc = p
    BY <1>1, BeginsSoundly
  <1>4. c.end = "none"
    <2>1. c = [got |-> 0, error |-> FALSE, end |-> "none"]
      BY <1>1 DEF Sound, Untouched
    <2> QED
      BY <2>1
  <1> HIDE DEF h
  <1>5. Answered(Shown(g, c, l), Shown(h, c, l))
    <2> DEFINE n == IF l = <<>> THEN NoRow ELSE Last(l).response
    <2>1. g.pc = "idle" /\ h.pc # "idle"
      BY <1>3
    <2> HIDE DEF g, c, l
    <2>2. Shown(g, c, l) = [stage |-> "idle", got |-> c.got, row |-> n]
      BY <2>1, Zenon DEF Shown
    <2>3. Shown(h, c, l) = [stage |-> "open", got |-> c.got, row |-> n]
      BY <1>4, <2>1, Zenon DEF Shown
    <2> HIDE DEF n
    <2>4. Shown(g, c, l).stage = "idle"
          /\ Shown(h, c, l) = [Shown(g, c, l) EXCEPT !.stage = "open"]
      BY <2>2, <2>3
    <2> QED
      BY <2>4, Zenon DEF Answered
  <1> QED
    BY <1>2, <1>3, <1>5, Zenon DEF Exchanged

LEMMA BeginStep ==
    ASSUME IInv, NEW x \in Exchanges, NEW e \in Endpoints, Begin(x, e)
    PROVE  Exchanged(x)
  <1> DEFINE p == IF e \in StreamEndpoints THEN "read" ELSE "complete"
  <1>1. /\ p \in {"read", "complete", "refused"}
        /\ p = "read" => e \in StreamEndpoints
        /\ p = "complete" => e \notin StreamEndpoints
    OBVIOUS
  <1>2. /\ gen[x].pc = "idle" /\ gen' = [gen EXCEPT ![x] = Begun(e, p)]
        /\ UNCHANGED <<settings, wire, client, logs>>
    <2>1. /\ gen[x].pc = "idle" /\ gen' = [gen EXCEPT ![x] = [Fresh(e) EXCEPT !.pc = p]]
          /\ UNCHANGED <<settings, wire, client, logs>>
      BY Zenon DEF Begin
    <2>2. p # "refused"
      OBVIOUS
    <2> HIDE DEF p
    <2>3. Begun(e, p) = [Fresh(e) EXCEPT !.pc = p]
      BY <2>2, Zenon DEF Begun
    <2> QED
      BY <2>1, <2>3, Zenon
  <1> HIDE DEF p
  <1> QED
    BY <1>1, <1>2, BegunStep

LEMMA RefuseStep ==
    ASSUME IInv, NEW x \in Exchanges, NEW e \in Endpoints, Refuse(x, e)
    PROVE  Exchanged(x)
  <1> DEFINE p == "refused"
  <1>1. /\ p \in {"read", "complete", "refused"}
        /\ p = "read" => e \in StreamEndpoints
        /\ p = "complete" => e \notin StreamEndpoints
    OBVIOUS
  <1>2. /\ gen[x].pc = "idle" /\ gen' = [gen EXCEPT ![x] = Begun(e, p)]
        /\ UNCHANGED <<settings, wire, client, logs>>
    BY Zenon DEF Refuse, Begun
  <1> HIDE DEF p
  <1> QED
    BY <1>1, <1>2, BegunStep

\* The client reads its end: of an answer that is complete it has read what is
\* logged.
LEMMA EndedStep ==
    ASSUME IInv, NEW x \in Exchanges, client[x].end = "none", gen[x].pc # "idle", NEW e,
           client' = [client EXCEPT ![x].end = e], UNCHANGED <<settings, gen, wire, logs>>,
           \/ e = "left"
           \/ e \in {"ended", "broken", "refused"} /\ gen[x].pc = e /\ wire[x] = <<>>
    PROVE  Exchanged(x)
  <1> DEFINE g == gen[x]
             w == wire[x]
             c == client[x]
             l == logs[x]
             d == [c EXCEPT !.end = e]
             n == IF l = <<>> THEN NoRow ELSE Last(l).response
  <1>1. Typed(g, w, c, l) /\ Sound(settings, g, w, c, l)
    BY TypedHere
  <1>2. /\ gen' = [gen EXCEPT ![x] = g] /\ wire' = [wire EXCEPT ![x] = w]
        /\ logs' = [logs EXCEPT ![x] = l] /\ settings' = settings
        /\ client' = [client EXCEPT ![x] = d]
    BY TypedHere
  <1>3. /\ c.end = "none" /\ g.pc # "idle"
        /\ \/ e = "left"
           \/ e \in {"ended", "broken", "refused"} /\ g.pc = e /\ w = <<>>
    OBVIOUS
  <1> HIDE DEF g, w, c, l
  <1>4. Typed(g, w, d, l) /\ Sound(settings, g, w, d, l)
    BY <1>1, <1>3, EndsSoundly
  <1>5. d.got = c.got /\ d.end = e
    BY <1>1 DEF Typed, Readers
  <1>6. Shown(g, c, l) = [stage |-> "open", got |-> c.got, row |-> n]
    BY <1>3, Zenon DEF Shown
  <1> HIDE DEF d
  <1>7. Shown(g, d, l) = [stage |-> IF e = "ended" THEN "complete" ELSE "cut",
                          got |-> c.got, row |-> n]
    <2>1. e # "none"
      BY <1>3
    <2> QED
      BY <1>3, <1>5, <2>1, Zenon DEF Shown
  <1>8. Answered(Shown(g, c, l), Shown(g, d, l))
    <2>1. CASE e = "ended"
      <3>1. g.pc = "ended" /\ w = <<>>
        BY <1>3, <2>1
      <3>2. Accounts(g, w, c) /\ Logged(settings, g, l)
        BY <1>1, <1>3 DEF Sound
      <3>3. /\ l # <<>>
            /\ l = <<[response |-> Redacted(settings, g.collected), status |-> g.status]>>
        BY <3>1, <3>2 DEF Logged
      <3>4. n = Redacted(settings, g.collected)
        BY <3>3 DEF Last
      <3>5. Texts(w) = 0 /\ OnHand(g) = 0
        BY <3>1, NoTexts DEF OnHand
      <3>6. c.got \in Nat /\ g.collected \in Nat
        BY <1>1 DEF Typed, Readers, Generators
      <3>7. c.got + Texts(w) + OnHand(g) = g.collected
        BY <1>3, <3>1, <3>2 DEF Accounts
      <3>8. c.got = g.collected
        BY <3>5, <3>6, <3>7
      <3> HIDE DEF n
      <3>10. /\ n \in Responses
             /\ n.body = "whole" => c.got = n.tokens
             /\ n.body = "cut" => c.got > n.tokens
        <4>1. /\ n \in Responses
              /\ n.body = "whole" => n.tokens = g.collected
              /\ n.body = "cut" => n.tokens < g.collected
          BY <3>4, <3>6, TypedHere, Redactions
        <4>2. n.tokens \in Nat
          BY <4>1 DEF Responses
        <4> QED
          BY <3>6, <3>8, <4>1, <4>2
      <3>11. n # NoRow
        BY <3>10, StreamAssumption
      <3>9. /\ Shown(g, c, l).stage = "open" /\ Shown(g, c, l).row # NoRow
            /\ Shown(g, c, l).row.body = "whole" => Shown(g, c, l).got = Shown(g, c, l).row.tokens
            /\ Shown(g, c, l).row.body = "cut" => Shown(g, c, l).got > Shown(g, c, l).row.tokens
            /\ Shown(g, d, l) = [Shown(g, c, l) EXCEPT !.stage = "complete"]
        BY <1>6, <1>7, <2>1, <3>10, <3>11
      <3> QED
        BY <3>9, Zenon DEF Answered
    <2>2. CASE e # "ended"
      <3> HIDE DEF n
      <3>1. Shown(g, c, l).stage = "open"
            /\ Shown(g, d, l) = [Shown(g, c, l) EXCEPT !.stage = "cut"]
        BY <1>6, <1>7, <2>2
      <3> QED
        BY <3>1, Zenon DEF Answered
    <2> QED
      BY <2>1, <2>2
  <1> QED
    BY <1>2, <1>4, <1>8, Zenon DEF Exchanged, g, c, l

LEMMA LeaveStep ==
    ASSUME IInv, NEW x \in Exchanges, Leave(x)
    PROVE  Exchanged(x)
  <1> DEFINE e == "left"
  <1>1. /\ client[x].end = "none" /\ gen[x].pc # "idle" /\ e = "left"
        /\ client' = [client EXCEPT ![x].end = e] /\ UNCHANGED <<settings, gen, wire, logs>>
    BY Zenon DEF Leave, Reading
  <1> HIDE DEF e
  <1> QED
    BY <1>1, EndedStep

LEMMA ReadEndStep ==
    ASSUME IInv, NEW x \in Exchanges, ReadEnd(x)
    PROVE  Exchanged(x)
  <1> DEFINE e == gen[x].pc
  <1>1. /\ client[x].end = "none" /\ wire[x] = <<>> /\ e \in {"ended", "broken", "refused"}
        /\ gen[x].pc = e
        /\ client' = [client EXCEPT ![x].end = e] /\ UNCHANGED <<settings, gen, wire, logs>>
    BY Zenon DEF ReadEnd, Reading
  <1>2. gen[x].pc # "idle"
    BY <1>1
  <1> HIDE DEF e
  <1> QED
    BY <1>1, <1>2, EndedStep, Zenon

\* A token is read only if it is within the row that is there by then.
LEMMA ReadFrameStep ==
    ASSUME IInv, NEW x \in Exchanges, ReadFrame(x)
    PROVE  Exchanged(x)
  <1> DEFINE g == gen[x]
             w == wire[x]
             c == client[x]
             l == logs[x]
             d == AfterFrame(c, Head(w))
             one == IF Head(w) = "text" THEN 1 ELSE 0
             n == IF l = <<>> THEN NoRow ELSE Last(l).response
  <1>1. Typed(g, w, c, l) /\ Sound(settings, g, w, c, l)
    BY TypedHere
  <1>2. c.end = "none" /\ w # <<>> /\ settings' = settings /\ gen' = gen /\ logs' = logs
    BY DEF ReadFrame, Reading
  <1>3. gen' = [gen EXCEPT ![x] = g] /\ logs' = [logs EXCEPT ![x] = l]
    BY <1>2, TypedHere
  <1>4. wire' = [wire EXCEPT ![x] = Tail(w)]
    BY Zenon DEF ReadFrame
  <1>5. client' = [client EXCEPT ![x] = d]
    BY Zenon DEF ReadFrame, AfterFrame
  <1> HIDE DEF g, w, c, l
  <1>6. /\ Typed(g, Tail(w), d, l) /\ Sound(settings, g, Tail(w), d, l)
        /\ g.pc # "idle" /\ d.end = "none"
        /\ d.got = c.got + one
        /\ c.got + one <= g.collected
        /\ g.collected <= MaxTokens
    BY <1>1, <1>2, ReadsSoundly
  <1> HIDE DEF d, one
  <1>7. Shown(g, c, l) = [stage |-> "open", got |-> c.got, row |-> n]
    BY <1>2, <1>6, Zenon DEF Shown
  <1>8. Shown(g, d, l) = [stage |-> "open", got |-> c.got + one, row |-> n]
    BY <1>6, Zenon DEF Shown
  <1>9. c.got \in Nat /\ g.collected \in Nat /\ MaxTokens \in Nat /\ one \in {0, 1}
    BY <1>1, StreamAssumption DEF Typed, Readers, Generators, one
  <1>10. n # NoRow /\ n.body = "whole" => n.tokens = g.collected
    <2>1. Logged(settings, g, l)
      BY <1>1, <1>6 DEF Sound
    <2>2. l # <<>> => l = <<[response |-> Redacted(settings, g.collected), status |-> g.status]>>
      BY <2>1 DEF Logged
    <2>3. n # NoRow => n = Redacted(settings, g.collected)
      BY <2>2 DEF Last
    <2> HIDE DEF n
    <2> QED
      BY <1>9, <2>3, TypedHere, Redactions
  <1> HIDE DEF n
  <1>11. Answered(Shown(g, c, l), Shown(g, d, l))
    <2>1. CASE one = 0
      <3>1. Shown(g, d, l) = Shown(g, c, l)
        BY <1>7, <1>8, <1>9, <2>1
      <3> QED
        BY <3>1, Zenon DEF Answered
    <2>2. CASE one = 1
      <3>1. c.got < MaxTokens /\ (n # NoRow /\ n.body = "whole" => c.got < n.tokens)
        BY <1>6, <1>9, <1>10, <2>2
      <3>2. /\ Shown(g, c, l).stage = "open" /\ Shown(g, c, l).got < MaxTokens
            /\ Shown(g, c, l).row # NoRow /\ Shown(g, c, l).row.body = "whole" =>
                   Shown(g, c, l).got < Shown(g, c, l).row.tokens
            /\ Shown(g, d, l) = [Shown(g, c, l) EXCEPT !.got = @ + 1]
        BY <1>7, <1>8, <2>2, <3>1
      <3> QED
        BY <3>2, Zenon DEF Answered
    <2> QED
      BY <1>9, <2>1, <2>2
  <1> QED
    BY <1>2, <1>3, <1>4, <1>5, <1>6, <1>11, Zenon DEF Exchanged, g, c, l

----------------------------------------------------------------------------
(* The theorems *)

\* Whatever happens, it is one exchange that goes on.
LEMMA OneGoesOn ==
    ASSUME IInv, Next
    PROVE  \E x \in Exchanges : Exchanged(x)
  <1>1. PICK x \in Exchanges : Hear(x) \/ Proceed(x) \/ Notice(x) \/ Client(x)
    BY DEF Next
  <1>2. CASE Hear(x)
    <2>1. CASE Completed(x) \/ CompletedNull(x) \/ CompleteFails(x) \/ CompleteRaises(x)
      BY <2>1, CompletedStep, CompletedNullStep, CompleteFailsStep, CompleteRaisesStep
    <2>2. CASE Yielded(x) \/ YieldedLast(x) \/ Exhausted(x) \/ Fails(x) \/ Raises(x)
      BY <2>2, YieldedStep, YieldedLastStep, ExhaustedStep, FailsStep, RaisesStep
    <2> QED
      BY <1>2, <2>1, <2>2 DEF Hear
  <1>5. CASE Proceed(x)
    BY <1>5, SendFrameStep, WriteLogStep, LogFailsStep, LoseLogStep, KeepLogStep DEF Proceed
  <1>3. CASE Notice(x)
    BY <1>3, NoticeStep
  <1>4. CASE Client(x)
    <2>1. ASSUME NEW e \in Endpoints, Begin(x, e) \/ Refuse(x, e)
          PROVE  Exchanged(x)
      BY <2>1, BeginStep, RefuseStep
    <2>2. CASE ReadFrame(x) \/ ReadEnd(x) \/ Leave(x)
      BY <2>2, ReadFrameStep, ReadEndStep, LeaveStep
    <2> QED
      BY <1>4, <2>1, <2>2 DEF Client
  <1> QED
    BY <1>1, <1>2, <1>3, <1>4, <1>5

LEMMA InitSound == Init => IInv
  <1> SUFFICES ASSUME Init
               PROVE  IInv
    OBVIOUS
  <1> DEFINE fresh == Fresh("/v1/chat")
             reader == [got |-> 0, error |-> FALSE, end |-> "none"]
             empty == <<>>
  <1>1. /\ settings \in Settings /\ gen = [x \in Exchanges |-> fresh]
        /\ wire = [x \in Exchanges |-> empty] /\ client = [x \in Exchanges |-> reader]
        /\ logs = [x \in Exchanges |-> empty]
    BY Zenon DEF Init
  <1>2. fresh \in Generators /\ fresh.pc = "idle"
    BY EmptySeq DEF Fresh, Generators, Stages, Endpoints, ChatEndpoints, StreamEndpoints
  <1>3. reader \in Readers
    BY DEF Readers
  <1>4. empty \in Seq(FrameKinds) /\ empty \in Seq(Rows)
    BY EmptySeq
  <1>5. TypeOK
    BY <1>1, <1>2, <1>3, <1>4 DEF TypeOK, Generators, Readers, Rows
  <1>6. Sound(settings, fresh, empty, reader, empty)
    BY <1>2, Zenon DEF Sound, Untouched
  <1> HIDE DEF fresh, reader, empty
  <1>7. ASSUME NEW x \in Exchanges
        PROVE  Sound(settings, gen[x], wire[x], client[x], logs[x])
    <2>1. gen[x] = fresh /\ wire[x] = empty /\ client[x] = reader /\ logs[x] = empty
      BY <1>1
    <2> QED
      BY <1>6, <2>1, Zenon
  <1> QED
    BY <1>5, <1>7, Zenon DEF IInv

LEMMA StepSound == IInv /\ [Next]_vars => IInv'
  <1>1. ASSUME IInv, Next
        PROVE  IInv'
    <2>1. PICK x \in Exchanges : Exchanged(x)
      BY <1>1, OneGoesOn
    <2> QED
      BY <1>1, <2>1, OthersKeep
  <1>2. ASSUME IInv, UNCHANGED vars
        PROVE  IInv'
    <2>1. settings' = settings /\ gen' = gen /\ wire' = wire /\ client' = client /\ logs' = logs
      BY <1>2 DEF vars
    <2> QED
      BY <1>2, <2>1, Zenon DEF IInv, TypeOK
  <1> QED
    BY <1>1, <1>2

\* Every exchange is sound in every state.
THEOREM Invariant == Spec => []IInv
  BY InitSound, StepSound, PTL DEF Spec

\* Every variable has the values the program can give it.
THEOREM TypeCorrect == Spec => []TypeOK
  <1>1. IInv => TypeOK
    BY DEF IInv
  <1> QED
    BY <1>1, Invariant, PTL

\* A request is logged at most once, and as far as the log policy goes with every
\* token that was put on the wire, whoever hangs up, whatever fails, wherever the
\* stream is cancelled.
THEOREM WireIsLogged == Spec => []ShownIsLogged
  <1>1. ASSUME IInv, NEW x \in Exchanges, logs[x] # <<>>
        PROVE  LET kept == logs[x][1].response
                   shown == client[x].got + Texts(wire[x]) IN
               /\ Len(logs[x]) = 1
               /\ kept.body = "whole" => shown <= kept.tokens
               /\ kept.body = "cut" => kept.tokens = settings.log_body_max_chars
               /\ kept.body = "none" /\ settings.log_prompt_bodies => shown = 0
    <2> DEFINE g == gen[x]
               w == wire[x]
               c == client[x]
               l == logs[x]
    <2>1. /\ Typed(g, w, c, l) /\ Sound(settings, g, w, c, l) /\ l # <<>>
          /\ settings \in Settings
      BY <1>1, TypedHere
    <2> HIDE DEF g, w, c, l
    <2>2. g.pc # "idle"
      BY <2>1 DEF Sound, Untouched
    <2>3. Logged(settings, g, l) /\ Accounts(g, w, c)
      BY <2>1, <2>2 DEF Sound
    <2>4. l = <<[response |-> Redacted(settings, g.collected), status |-> g.status]>>
      BY <2>1, <2>3 DEF Logged
    <2>5. Len(l) = 1 /\ l[1].response = Redacted(settings, g.collected)
      BY <2>4
    <2>6. /\ c.got \in Nat /\ Texts(w) \in Nat /\ g.collected \in Nat /\ OnHand(g) \in {0, 1}
          /\ c.got + Texts(w) + OnHand(g) <= g.collected
      BY <2>1, <2>3, TokensFinite DEF Typed, Readers, Generators, OnHand, Accounts
    <2>7. c.got + Texts(w) <= g.collected /\ (g.collected = 0 => c.got + Texts(w) = 0)
      BY <2>6
    <2> DEFINE kept == l[1].response
    <2>8. /\ kept.body = "whole" => kept.tokens = g.collected
          /\ kept.body = "cut" => kept.tokens = settings.log_body_max_chars
          /\ kept.body = "none" /\ settings.log_prompt_bodies => g.collected = 0
      BY <2>1, <2>5, <2>6, Redactions
    <2> HIDE DEF kept
    <2>9. /\ kept.body = "whole" => c.got + Texts(w) <= kept.tokens
          /\ kept.body = "none" /\ settings.log_prompt_bodies => c.got + Texts(w) = 0
      BY <2>7, <2>8
    <2> QED
      BY <2>5, <2>8, <2>9, Zenon DEF g, w, c, l, kept
  <1>2. IInv => ShownIsLogged
    BY <1>1, Zenon DEF ShownIsLogged
  <1> QED
    BY <1>2, Invariant, PTL

\* A chat request is logged as failed exactly if its client, reading to the end,
\* is told so.
THEOREM StatusIsTold == Spec => []StatusMatches
  <1>1. ASSUME IInv, NEW x \in Exchanges, Chat(x), gen[x].text, logs[x] # <<>>,
               client[x].end \in {"ended", "refused"}
        PROVE  logs[x][1].status = 502 <=> client[x].error \/ client[x].end = "refused"
    <2> DEFINE g == gen[x]
               w == wire[x]
               c == client[x]
               l == logs[x]
    <2>1. /\ Typed(g, w, c, l) /\ Sound(settings, g, w, c, l) /\ l # <<>>
          /\ g.endpoint \in ChatEndpoints /\ g.text /\ c.end \in {"ended", "refused"}
      BY <1>1, TypedHere DEF Chat
    <2> HIDE DEF g, w, c, l
    <2>2. g.pc # "idle"
      BY <2>1 DEF Sound, Untouched
    <2>3. Logged(settings, g, l) /\ AtEnd(g, w, c) /\ Streamed(g, w, c, l) /\ AtOnce(g, w, c, l)
      BY <2>1, <2>2 DEF Sound
    <2>4. l[1].status = g.status
      <3>1. l = <<[response |-> Redacted(settings, g.collected), status |-> g.status]>>
        BY <2>1, <2>3 DEF Logged
      <3> QED
        BY <3>1
    <2>5. g.pc = c.end /\ w = <<>>
      BY <2>1, <2>3 DEF AtEnd
    <2>6. ~HasError(w)
      BY <2>5, NoTexts
    <2>7. CASE g.endpoint \in StreamEndpoints
      <3>1. c.end = "ended" /\ g.pc = "ended"
        BY <2>1, <2>3, <2>5, <2>7 DEF Streamed
      <3>2. g.status = 502 <=> c.error
        BY <2>1, <2>3, <2>6, <2>7, <3>1 DEF Streamed
      <3> QED
        BY <2>4, <3>1, <3>2 DEF c, l
    <2>8. CASE g.endpoint \notin StreamEndpoints
      <3>1. ~c.error /\ (g.status = 502 <=> g.raised = "refused") /\ g.pc = g.raised
        BY <2>1, <2>3, <2>8 DEF AtOnce
      <3> QED
        BY <2>4, <2>5, <3>1 DEF c, l
    <2> QED
      BY <2>7, <2>8
  <1>2. IInv => StatusMatches
    BY <1>1, Zenon DEF StatusMatches
  <1> QED
    BY <1>2, Invariant, PTL

\* Answering, as the endpoints show it.
shown ==
    [x \in Exchanges |->
        [stage |-> Stage(x), got |-> client[x].got,
         row |-> IF logs[x] = <<>> THEN NoRow ELSE Last(logs[x]).response]]

LEMMA AnsweredIsShown ==
    /\ shown = [x \in Exchanges |-> Shown(gen[x], client[x], logs[x])]
    /\ shown' = [x \in Exchanges |-> Shown(gen'[x], client'[x], logs'[x])]
  BY Zenon DEF shown, Stage, Shown

\* What one exchange does is a step of Answering, or none.
LEMMA ExchangeAnswers ==
    ASSUME IInv, NEW x \in Exchanges, Exchanged(x)
    PROVE  [Promise!Next]_shown
  <1>1. PICK h, v, d, m :
            /\ gen' = [gen EXCEPT ![x] = h] /\ client' = [client EXCEPT ![x] = d]
            /\ logs' = [logs EXCEPT ![x] = m]
            /\ Answered(Shown(gen[x], client[x], logs[x]), Shown(h, d, m))
    BY Zenon DEF Exchanged
  <1> DEFINE s == Shown(gen[x], client[x], logs[x])
             t == Shown(h, d, m)
  <1>2. /\ gen \in [Exchanges -> Generators] /\ client \in [Exchanges -> Readers]
        /\ logs \in [Exchanges -> Seq(Rows)]
    BY ShapeOfState DEF IInv
  <1>3. gen'[x] = h /\ client'[x] = d /\ logs'[x] = m
    BY <1>1, <1>2
  <1>4. ASSUME NEW y \in Exchanges, y # x
        PROVE  gen'[y] = gen[y] /\ client'[y] = client[y] /\ logs'[y] = logs[y]
    BY <1>1, <1>2, <1>4
  <1>5. shown[x] = s
    BY AnsweredIsShown
  <1>6. shown' = [shown EXCEPT ![x] = t]
    <2> DEFINE F(y) == Shown(gen[y], client[y], logs[y])
               G(y) == Shown(gen'[y], client'[y], logs'[y])
    <2>1. shown = [y \in Exchanges |-> F(y)] /\ shown' = [y \in Exchanges |-> G(y)]
      BY AnsweredIsShown, Zenon
    <2>2. G(x) = t
      BY <1>3, Zenon
    <2>3. ASSUME NEW y \in Exchanges, y # x
          PROVE  G(y) = F(y)
      BY <1>4, <2>3, Zenon
    <2> HIDE DEF F, G, t
    <2> QED
      BY <2>1, <2>2, <2>3
  <1>7. Answered(s, t)
    BY <1>1, Zenon
  <1> HIDE DEF s, t
  <1>8. CASE t = s
    <2>1. shown' = shown
      BY <1>5, <1>6, <1>8, AnsweredIsShown
    <2> QED
      BY <2>1
  <1>9. CASE s.stage = "idle" /\ t = [s EXCEPT !.stage = "open"]
    <2>1. Promise!Ask(x)
      BY <1>5, <1>6, <1>9, Zenon DEF Promise!Ask, shown
    <2> QED
      BY <2>1, Zenon DEF Promise!Next
  <1>10. CASE /\ s.stage = "open" /\ s.got < MaxTokens
              /\ (s.row # NoRow /\ s.row.body = "whole" => s.got < s.row.tokens)
              /\ t = [s EXCEPT !.got = @ + 1]
    <2>1. Promise!Deliver(x)
      BY <1>5, <1>6, <1>10, Zenon DEF Promise!Deliver, shown
    <2> QED
      BY <2>1, Zenon DEF Promise!Next
  <1>11. CASE /\ s.stage # "idle" /\ s.row = NoRow
              /\ \E n \in s.got..MaxTokens : \E r \in ResponsesTo(n) : t = [s EXCEPT !.row = r]
    <2>0. PICK n \in s.got..MaxTokens : \E r \in ResponsesTo(n) : t = [s EXCEPT !.row = r]
      BY <1>11
    <2>1. PICK r \in ResponsesTo(n) : t = [s EXCEPT !.row = r]
      BY <2>0
    <2>2. n \in shown[x].got..MaxTokens /\ shown' = [shown EXCEPT ![x].row = r]
      BY <1>5, <1>6, <2>1, Zenon
    <2>3. shown[x].stage # "idle" /\ shown[x].row = NoRow
      BY <1>5, <1>11, Zenon
    <2>4. Promise!Record(x)
      BY <2>2, <2>3 DEF Promise!Record, Promise!ResponsesTo, ResponsesTo, shown
    <2> QED
      BY <2>4, Zenon DEF Promise!Next
  <1>12. CASE /\ s.stage = "open" /\ s.row # NoRow
              /\ s.row.body = "whole" => s.got = s.row.tokens
              /\ s.row.body = "cut" => s.got > s.row.tokens
              /\ t = [s EXCEPT !.stage = "complete"]
    <2>1. Promise!Complete(x)
      BY <1>5, <1>6, <1>12, Zenon DEF Promise!Complete, shown
    <2> QED
      BY <2>1, Zenon DEF Promise!Next
  <1>13. CASE s.stage = "open" /\ t = [s EXCEPT !.stage = "cut"]
    <2>1. Promise!CutOff(x)
      BY <1>5, <1>6, <1>13, Zenon DEF Promise!CutOff, shown
    <2> QED
      BY <2>1, Zenon DEF Promise!Next
  <1> QED
    BY <1>7, <1>8, <1>9, <1>10, <1>11, <1>12, <1>13, Zenon DEF Answered

\* The refinement: handlers, generators and parsers implement Answering, step by
\* step.  Nothing is delivered that a row lacks which says it is whole, and a
\* client that has read a 200 answer to its end has read what such a row holds, or
\* more than is in one that is marked as cut.
THEOREM EndpointsAnswer == Spec => ImplementsPromise
  <1>1. Init => Promise!AnsweringInit
    <2> SUFFICES ASSUME Init
                 PROVE  Promise!AnsweringInit
      OBVIOUS
    <2> DEFINE fresh == Fresh("/v1/chat")
               reader == [got |-> 0, error |-> FALSE, end |-> "none"]
               empty == <<>>
               start == [stage |-> "idle", got |-> 0, row |-> NoRow]
    <2>1. /\ gen = [x \in Exchanges |-> fresh] /\ client = [x \in Exchanges |-> reader]
          /\ logs = [x \in Exchanges |-> empty]
      BY Zenon DEF Init
    <2>2. Shown(fresh, reader, empty) = start
      BY DEF Shown, Fresh
    <2>3. ASSUME NEW x \in Exchanges
          PROVE  Shown(gen[x], client[x], logs[x]) = start
      <3> HIDE DEF fresh, reader, empty, start
      <3>1. gen[x] = fresh /\ client[x] = reader /\ logs[x] = empty
        BY <2>1
      <3> QED
        BY <2>2, <3>1, Zenon
    <2> DEFINE F(y) == Shown(gen[y], client[y], logs[y])
    <2>4. \A x \in Exchanges : F(x) = start
      BY <2>3
    <2> HIDE DEF F, start
    <2>5. [x \in Exchanges |-> F(x)] = [x \in Exchanges |-> start]
      BY <2>4
    <2>6. shown = [x \in Exchanges |-> start]
      BY <2>5, AnsweredIsShown, Zenon DEF F
    <2> QED
      BY <2>6, Zenon DEF Promise!AnsweringInit, shown, start
  <1>2. ASSUME IInv, [Next]_vars
        PROVE  [Promise!Next]_shown
    <2>1. CASE Next
      <3>1. PICK x \in Exchanges : Exchanged(x)
        BY <1>2, <2>1, OneGoesOn
      <3> QED
        BY <1>2, <3>1, ExchangeAnswers
    <2>2. CASE UNCHANGED vars
      <3>1. gen' = gen /\ client' = client /\ logs' = logs
        BY <2>2 DEF vars
      <3>2. shown' = shown
        BY <3>1, AnsweredIsShown, Zenon
      <3> QED
        BY <3>2
    <2> QED
      BY <1>2, <2>1, <2>2
  <1>3. IInv /\ [Next]_vars => [Promise!Next]_shown
    BY <1>2
  <1> QED
    BY <1>1, <1>3, Invariant, PTL DEF Spec, ImplementsPromise, Promise!Spec, shown

----------------------------------------------------------------------------
(* The page at the other end: module ChatPage, over Answering               *)

Answers ==
    [stage : {"idle", "open", "complete", "cut"}, got : 0..MaxTokens,
     row : {NoRow} \cup Responses]

RoleAt(k) == IF k % 2 = 1 THEN "user" ELSE "assistant"

\* Turns in pairs, with no more text than was received of their answers.
Talk(a, turns) ==
    /\ turns \in Seq(Messages) /\ Len(turns) > 0 /\ Len(turns) % 2 = 0
    /\ \A k \in 1..Len(turns) : /\ turns[k].role = RoleAt(k)
                                /\ turns[k].text <= a[turns[k].of].got

\* A row that is whole has what was delivered.
Behind(r) == r.row # NoRow /\ r.row.body = "whole" => r.got <= r.row.tokens

\* The types of what is not a conversation, and that no row is behind.
PageTyped ==
    /\ answer \in [Exchanges -> Answers]
    /\ \A x \in Exchanges : Behind(answer[x])
    /\ convos = [c \in Convos |-> convos[c]]
    /\ active \in Convos \cup {NoConvo}
    /\ reads \in [Tabs -> Exchanges \cup {NoExchange}]
    /\ home \in [Exchanges -> Convos \cup {NoConvo}]
    /\ quiet \subseteq Exchanges

Talks == \A c \in Convos : Stored(c) => Talk(answer, convos[c])

PageInv == PageTyped /\ Talks

\* What the gateway does to the answer to x, and that it takes nothing back.
Further(a, b) ==
    /\ b \in [Exchanges -> Answers]
    /\ \A x \in Exchanges : /\ Behind(b[x])
                            /\ a[x].got <= b[x].got

LEMMA AnswerTypes ==
    ASSUME PageTyped, NEW x \in Exchanges
    PROVE  /\ answer[x].stage \in {"idle", "open", "complete", "cut"}
           /\ answer[x].got \in 0..MaxTokens /\ answer[x].row \in {NoRow} \cup Responses
           /\ Behind(answer[x])
  BY DEF PageTyped, Answers

\* One exchange is changed, to one that is no less far.
LEMMA OneFurther ==
    ASSUME PageTyped, NEW x \in Exchanges, NEW r \in Answers,
           Behind(r), answer[x].got <= r.got,
           answer' = [answer EXCEPT ![x] = r]
    PROVE  Further(answer, answer')
  <1>1. answer' \in [Exchanges -> Answers]
    BY DEF PageTyped
  <1>2. ASSUME NEW y \in Exchanges
        PROVE  /\ Behind(answer'[y])
               /\ answer[y].got <= answer'[y].got
    <2>1. CASE y = x
      <3>1. answer'[y] = r
        BY <2>1 DEF PageTyped
      <3> QED
        BY <2>1, <3>1
    <2>2. CASE y # x
      <3>1. answer'[y] = answer[y]
        BY <2>2 DEF PageTyped
      <3>2. answer[y].got \in Int
        BY AnswerTypes
      <3> QED
        BY <3>1, <3>2, AnswerTypes
    <2> QED
      BY <2>1, <2>2
  <1> QED
    BY <1>1, <1>2 DEF Further

LEMMA GatewaySteps ==
    ASSUME MaxTokens \in Nat, NoRow \notin Responses, PageTyped, NEW x \in Exchanges,
           \/ Gateway!Ask(x) \/ Gateway!Deliver(x) \/ Gateway!Record(x)
           \/ Gateway!Complete(x) \/ Gateway!CutOff(x)
    PROVE  Further(answer, answer')
  <1> DEFINE s == answer[x].stage
             g == answer[x].got
             w == answer[x].row
  <1>1. /\ s \in {"idle", "open", "complete", "cut"} /\ g \in 0..MaxTokens
        /\ w \in {NoRow} \cup Responses
        /\ w # NoRow /\ w.body = "whole" => g <= w.tokens
        /\ answer[x] = [stage |-> s, got |-> g, row |-> w]
    BY AnswerTypes DEF PageTyped, Answers, Behind
  <1>2. ASSUME NEW u \in {"open", "complete", "cut"},
               answer' = [answer EXCEPT ![x] = [answer[x] EXCEPT !.stage = u]]
        PROVE  Further(answer, answer')
    <2>1. PICK r \in Answers : r = [stage |-> u, got |-> g, row |-> w]
      BY <1>1 DEF Answers
    <2>2. [answer[x] EXCEPT !.stage = u] = r
      BY <1>1, <2>1
    <2>3. answer' = [answer EXCEPT ![x] = r]
      BY <1>2, <2>2
    <2>4. r.row = w /\ r.got = g
      BY <2>1
    <2>5. Behind(r) /\ answer[x].got <= r.got
      BY <1>1, <2>4 DEF Behind
    <2> QED
      BY <2>3, <2>5, OneFurther
  <1>3. CASE Gateway!Ask(x)
    <2>1. answer' = [answer EXCEPT ![x] = [answer[x] EXCEPT !.stage = "open"]]
      BY <1>3 DEF Gateway!Ask
    <2> QED
      BY <1>2, <2>1
  <1>4. CASE Gateway!Complete(x)
    <2>1. answer' = [answer EXCEPT ![x] = [answer[x] EXCEPT !.stage = "complete"]]
      BY <1>4 DEF Gateway!Complete
    <2> QED
      BY <1>2, <2>1
  <1>5. CASE Gateway!CutOff(x)
    <2>1. answer' = [answer EXCEPT ![x] = [answer[x] EXCEPT !.stage = "cut"]]
      BY <1>5 DEF Gateway!CutOff
    <2> QED
      BY <1>2, <2>1
  <1>6. CASE Gateway!Deliver(x)
    <2>1. /\ g < MaxTokens /\ (w # NoRow /\ w.body = "whole" => g < w.tokens)
          /\ answer' = [answer EXCEPT ![x] = [answer[x] EXCEPT !.got = g + 1]]
      BY <1>6 DEF Gateway!Deliver
    <2>2. g + 1 \in 0..MaxTokens /\ (w # NoRow /\ w.body = "whole" => g + 1 <= w.tokens)
      BY <1>1, <2>1 DEF Responses
    <2>3. PICK n \in 0..MaxTokens : n = g + 1
      BY <2>2
    <2>4. PICK r \in Answers : r = [stage |-> s, got |-> n, row |-> w]
      BY <1>1 DEF Answers
    <2>5. [answer[x] EXCEPT !.got = n] = r
      BY <1>1, <2>4
    <2>6. answer' = [answer EXCEPT ![x] = r]
      BY <2>1, <2>3, <2>5
    <2>7. r.row = w /\ r.got = n
      BY <2>4
    <2>8. Behind(r) /\ answer[x].got <= r.got
      BY <1>1, <2>2, <2>3, <2>7 DEF Behind
    <2> QED
      BY <2>6, <2>8, OneFurther
  <1>7. CASE Gateway!Record(x)
    <2>0. PICK k \in g..MaxTokens :
             \E n \in ResponsesTo(k) :
                answer' = [answer EXCEPT ![x] = [answer[x] EXCEPT !.row = n]]
      BY <1>7 DEF Gateway!Record, Gateway!ResponsesTo, ResponsesTo
    <2>1. PICK n \in ResponsesTo(k) :
             answer' = [answer EXCEPT ![x] = [answer[x] EXCEPT !.row = n]]
      BY <2>0
    <2>2. n \in Responses /\ (n.body = "whole" => g <= n.tokens)
      <3>1. k \in Nat /\ g <= k
        BY <1>1
      <3> QED
        BY <3>1 DEF ResponsesTo, Responses
    <2>3. PICK r \in Answers : r = [stage |-> s, got |-> g, row |-> n]
      BY <1>1, <2>2 DEF Answers
    <2>4. [answer[x] EXCEPT !.row = n] = r
      BY <1>1, <2>3
    <2>5. answer' = [answer EXCEPT ![x] = r]
      BY <2>1, <2>4
    <2>6. r.row = n /\ r.got = g
      BY <2>3
    <2>7. Behind(r) /\ answer[x].got <= r.got
      BY <1>1, <2>2, <2>6 DEF Behind
    <2> QED
      BY <2>5, <2>7, OneFurther
  <1> QED
    BY <1>3, <1>4, <1>5, <1>6, <1>7

LEMMA SameFurther ==
    ASSUME PageTyped, answer' = answer
    PROVE  Further(answer, answer')
  <1>1. \A x \in Exchanges : answer[x].got <= answer[x].got
    <2>1. \A x \in Exchanges : answer[x].got \in Int
      BY AnswerTypes
    <2> QED
      BY <2>1
  <1> QED
    BY <1>1 DEF PageTyped, Further

\* A conversation stays one while answers come in.
LEMMA TalkGoesOn ==
    ASSUME PageTyped, Further(answer, answer'), NEW turns, Talk(answer, turns)
    PROVE  Talk(answer', turns)
  <1>1. turns \in Seq(Messages) /\ Len(turns) > 0 /\ Len(turns) % 2 = 0
    BY DEF Talk
  <1>2. ASSUME NEW k \in 1..Len(turns)
        PROVE  turns[k].role = RoleAt(k) /\ turns[k].text <= answer'[turns[k].of].got
    <2>1. turns[k] \in Messages
      BY <1>1
    <2>2. PICK x \in Exchanges : x = turns[k].of
      BY <2>1 DEF Messages
    <2>3. turns[k].text \in Int
      BY <2>1 DEF Messages
    <2>4. answer[x].got \in Int /\ answer'[x].got \in Int
      BY AnswerTypes DEF Further, Answers
    <2>5. answer[x].got <= answer'[x].got
      BY DEF Further
    <2>6. turns[k].role = RoleAt(k) /\ turns[k].text <= answer[x].got
      BY <2>2 DEF Talk
    <2>7. turns[k].text <= answer'[x].got
      BY <2>3, <2>4, <2>5, <2>6
    <2> QED
      BY <2>2, <2>6, <2>7
  <1> QED
    BY <1>1, <1>2 DEF Talk

\* A question and the place of its answer are added.
LEMMA TalkAsked ==
    ASSUME PageTyped, MaxTokens \in Nat, NEW x \in Exchanges,
           NEW old, old = <<>> \/ Talk(answer, old)
    PROVE  Talk(answer, old \o <<Message("user", x, 0), Message("assistant", x, 0)>>)
  <1> DEFINE m == Message("user", x, 0)
             n == Message("assistant", x, 0)
             new == old \o <<m, n>>
  <1>1. /\ m \in Messages /\ m.role = "user" /\ m.of = x /\ m.text = 0
        /\ n \in Messages /\ n.role = "assistant" /\ n.of = x /\ n.text = 0
    BY DEF Message, Messages
  <1> HIDE DEF m, n
  <1>2. /\ old \in Seq(Messages) /\ Len(old) \in Nat /\ Len(old) % 2 = 0
        /\ \A k \in 1..Len(old) : /\ old[k].role = RoleAt(k)
                                  /\ old[k].text <= answer[old[k].of].got
    <2>1. CASE old = <<>>
      <3>1. old \in Seq(Messages) /\ Len(old) = 0 /\ 0 % 2 = 0
        BY <2>1
      <3> QED
        BY <3>1
    <2>2. CASE Talk(answer, old)
      BY <2>2 DEF Talk
    <2> QED
      BY <2>1, <2>2
  <1>3. PICK z \in Nat : z = Len(old)
    BY <1>2
  <1>4. /\ new \in Seq(Messages) /\ Len(new) = z + 2 /\ new[z + 1] = m /\ new[z + 2] = n
        /\ \A k \in 1..z : new[k] = old[k]
    BY <1>1, <1>2, <1>3
  <1> HIDE DEF new
  <1>5. (z + 2) % 2 = 0 /\ (z + 1) % 2 = 1 /\ z + 2 > 0
    BY <1>2, <1>3
  <1>6. answer[x].got >= 0 /\ answer[x].got \in Int
    BY AnswerTypes
  <1>7. ASSUME NEW k \in 1..(z + 2)
        PROVE  new[k].role = RoleAt(k) /\ new[k].text <= answer[new[k].of].got
    <2>1. CASE k \in 1..z
      BY <1>2, <1>3, <1>4, <2>1
    <2>2. CASE k = z + 1
      <3>1. RoleAt(k) = "user" /\ new[k] = m
        BY <1>4, <1>5, <2>2 DEF RoleAt
      <3> QED
        BY <1>1, <1>6, <3>1
    <2>3. CASE k = z + 2
      <3>1. RoleAt(k) = "assistant" /\ new[k] = n
        BY <1>4, <1>5, <2>3 DEF RoleAt
      <3> QED
        BY <1>1, <1>6, <3>1
    <2> QED
      BY <2>1, <2>2, <2>3
  <1>8. Talk(answer, new)
    BY <1>4, <1>5, <1>7 DEF Talk
  <1> QED
    BY <1>8 DEF new, m, n

\* The last message of a conversation is an assistant's; another takes its place.
LEMMA TalkAnswered ==
    ASSUME PageTyped, NEW x \in Exchanges, NEW old, Talk(answer, old)
    PROVE  /\ Last(old).role = "assistant"
           /\ Talk(answer, Front(old) \o <<Message("assistant", x, answer[x].got)>>)
  <1> DEFINE n == Message("assistant", x, answer[x].got)
             new == Front(old) \o <<n>>
  <1>1. answer[x].got \in 0..MaxTokens /\ answer[x].got \in Int
    BY AnswerTypes
  <1>2. n \in Messages /\ n.role = "assistant" /\ n.of = x /\ n.text = answer[x].got
    BY <1>1 DEF Message, Messages
  <1> HIDE DEF n
  <1>3. /\ old \in Seq(Messages) /\ Len(old) \in Nat /\ Len(old) > 0 /\ Len(old) % 2 = 0
        /\ \A k \in 1..Len(old) : /\ old[k].role = RoleAt(k)
                                  /\ old[k].text <= answer[old[k].of].got
    BY DEF Talk
  <1>4. PICK z \in Nat : z = Len(old) /\ z > 0 /\ z % 2 = 0
    BY <1>3
  <1>5. Last(old).role = "assistant"
    <2>1. Last(old) = old[z] /\ z \in 1..z
      BY <1>4 DEF Last
    <2>2. RoleAt(z) = "assistant"
      BY <1>4 DEF RoleAt
    <2> QED
      BY <1>3, <1>4, <2>1, <2>2
  <1>6. /\ Front(old) \in Seq(Messages) /\ Len(Front(old)) = z - 1
        /\ \A k \in 1..(z - 1) : Front(old)[k] = old[k]
    BY <1>3, <1>4 DEF Front
  <1>7. /\ new \in Seq(Messages) /\ Len(new) = z /\ new[z] = n
        /\ \A k \in 1..(z - 1) : new[k] = old[k]
    <2> DEFINE f == Front(old)
    <2>1. PICK y \in Nat : y = z - 1 /\ z = y + 1
      BY <1>4
    <2>2. f \in Seq(Messages) /\ Len(f) = y
      BY <1>6, <2>1
    <2>3. \A k \in 1..y : f[k] = old[k]
      BY <1>6, <2>1
    <2>4. new = f \o <<n>>
      OBVIOUS
    <2> HIDE DEF f, new
    <2>5. new \in Seq(Messages) /\ Len(new) = y + 1 /\ new[y + 1] = n
      BY <1>2, <2>2, <2>4
    <2>6. \A k \in 1..y : new[k] = f[k]
      BY <1>2, <2>2, <2>4
    <2> QED
      BY <2>1, <2>3, <2>5, <2>6
  <1> HIDE DEF new
  <1>8. ASSUME NEW k \in 1..z
        PROVE  new[k].role = RoleAt(k) /\ new[k].text <= answer[new[k].of].got
    <2>1. CASE k = z
      <3>1. RoleAt(k) = "assistant" /\ new[k] = n
        BY <1>4, <1>7, <2>1 DEF RoleAt
      <3> QED
        BY <1>1, <1>2, <3>1
    <2>2. CASE k # z
      <3>1. k \in 1..(z - 1)
        BY <1>4, <2>2
      <3> QED
        BY <1>3, <1>4, <1>7, <3>1
    <2> QED
      BY <2>1, <2>2
  <1>9. Talk(answer, new)
    BY <1>4, <1>7, <1>8 DEF Talk
  <1> QED
    BY <1>5, <1>9 DEF new, n

\* One conversation is changed, the others go on under the answers of now.
LEMMA OneTalkChanged ==
    ASSUME PageInv, Further(answer, answer'), NEW c \in Convos, NEW turns,
           Talk(answer', turns) \/ turns = Deleted, convos' = [convos EXCEPT ![c] = turns]
    PROVE  convos' = [d \in Convos |-> convos'[d]] /\ Talks'
  <1>1. convos = [d \in Convos |-> convos[d]]
    BY DEF PageInv, PageTyped
  <1>2. convos' = [d \in Convos |-> convos'[d]]
    BY <1>1
  <1>3. ASSUME NEW d \in Convos, Stored(d)'
        PROVE  Talk(answer', convos'[d])
    <2>1. convos'[d] \notin {Unused, Deleted}
      BY <1>3 DEF Stored
    <2>2. CASE d = c
      <3>1. convos'[d] = turns
        BY <1>1, <2>2
      <3> QED
        BY <2>1, <3>1
    <2>3. CASE d # c
      <3>1. convos'[d] = convos[d]
        BY <1>1, <2>3
      <3>2. Talk(answer, convos[d])
        BY <2>1, <3>1 DEF PageInv, Talks, Stored
      <3> QED
        BY <3>1, <3>2, TalkGoesOn DEF PageInv
    <2> QED
      BY <2>2, <2>3
  <1> QED
    BY <1>2, <1>3 DEF Talks

LEMMA NoTalkChanged ==
    ASSUME PageInv, Further(answer, answer'), convos' = convos
    PROVE  convos' = [d \in Convos |-> convos'[d]] /\ Talks'
  <1>1. convos' = [d \in Convos |-> convos'[d]]
    BY DEF PageInv, PageTyped
  <1>2. ASSUME NEW d \in Convos, Stored(d)'
        PROVE  Talk(answer', convos'[d])
    <2>1. Talk(answer, convos[d])
      BY <1>2 DEF PageInv, Talks, Stored
    <2> QED
      BY <2>1, TalkGoesOn DEF PageInv
  <1> QED
    BY <1>1, <1>2 DEF Talks

\* What is left to show of a step, its answers and conversations being well.
LEMMA RestTyped ==
    ASSUME Further(answer, answer'), convos' = [d \in Convos |-> convos'[d]], Talks',
           active' \in Convos \cup {NoConvo},
           reads' \in [Tabs -> Exchanges \cup {NoExchange}],
           home' \in [Exchanges -> Convos \cup {NoConvo}], quiet' \subseteq Exchanges
    PROVE  PageInv'
  BY DEF PageInv, PageTyped, Further

LEMMA PageInitial ==
    ASSUME PageInit
    PROVE  PageInv
  <1>1. /\ answer = [x \in Exchanges |-> [stage |-> "idle", got |-> 0, row |-> NoRow]]
        /\ MaxTokens \in Nat
    BY PageAssumption DEF PageInit, Gateway!AnsweringInit, PageAssumption
  <1>2. PICK r \in Answers : r = [stage |-> "idle", got |-> 0, row |-> NoRow]
    <2>1. PICK z \in 0..MaxTokens : z = 0
      BY <1>1
    <2>2. [stage |-> "idle", got |-> z, row |-> NoRow] \in Answers
      BY DEF Answers
    <2> QED
      BY <2>1, <2>2
  <1>3. answer = [x \in Exchanges |-> r] /\ r.row = NoRow
    BY <1>1, <1>2
  <1>4. answer \in [Exchanges -> Answers] /\ \A x \in Exchanges : answer[x].row = NoRow
    BY <1>3
  <1>5. convos = [c \in Convos |-> Unused]
    BY DEF PageInit
  <1>6. convos = [c \in Convos |-> convos[c]] /\ \A c \in Convos : ~Stored(c)
    BY <1>5 DEF Stored
  <1>7. /\ active \in Convos \cup {NoConvo} /\ quiet \subseteq Exchanges
        /\ reads \in [Tabs -> Exchanges \cup {NoExchange}]
        /\ home \in [Exchanges -> Convos \cup {NoConvo}]
    BY DEF PageInit
  <1> QED
    BY <1>4, <1>6, <1>7 DEF PageInv, PageTyped, Talks, Behind

LEMMA SendKeeps ==
    ASSUME PageInv, NEW t \in Tabs, NEW x \in Exchanges, NEW c \in Convos,
           Send(t, x, c)
    PROVE  PageInv'
  <1> DEFINE old == IF Stored(c) THEN convos[c] ELSE <<>>
             new == old \o <<Message("user", x, 0), Message("assistant", x, 0)>>
  <1>1. MaxTokens \in Nat /\ NoRow \notin Responses /\ PageTyped
    BY PageAssumption DEF PageAssumption, PageInv
  <1>2. Gateway!Ask(x) /\ convos' = [convos EXCEPT ![c] = new]
    BY DEF Send
  <1>3. Further(answer, answer')
    BY <1>1, <1>2, GatewaySteps
  <1>4. old = <<>> \/ Talk(answer, old)
    BY DEF PageInv, Talks
  <1>5. Talk(answer, new)
    BY <1>1, <1>4, TalkAsked
  <1> HIDE DEF new
  <1>6. Talk(answer', new)
    BY <1>1, <1>3, <1>5, TalkGoesOn
  <1>7. convos' = [d \in Convos |-> convos'[d]] /\ Talks'
    BY <1>2, <1>3, <1>6, OneTalkChanged
  <1>8. /\ active' \in Convos \cup {NoConvo} /\ quiet' \subseteq Exchanges
        /\ reads' \in [Tabs -> Exchanges \cup {NoExchange}]
        /\ home' \in [Exchanges -> Convos \cup {NoConvo}]
    BY <1>1 DEF PageTyped, Send
  <1> QED
    BY <1>3, <1>7, <1>8, RestTyped

\* The answer is written over the last message of the conversation that is
\* active by now, whosever turn that was.
LEMMA FinishKeeps ==
    ASSUME PageInv, NEW t \in Tabs, Finish(t)
    PROVE  PageInv'
  <1> DEFINE x == reads[t]
  <1>1. MaxTokens \in Nat /\ NoRow \notin Responses /\ PageTyped
    BY PageAssumption DEF PageAssumption, PageInv
  <1>2. /\ x \in Exchanges
        /\ Gateway!Complete(x) \/ Gateway!CutOff(x)
        /\ convos' = Updated(x, answer[x].got)
    BY <1>1 DEF Finish, PageTyped
  <1>3. /\ active' \in Convos \cup {NoConvo} /\ quiet' \subseteq Exchanges
        /\ reads' \in [Tabs -> Exchanges \cup {NoExchange}]
        /\ home' \in [Exchanges -> Convos \cup {NoConvo}]
    BY <1>1 DEF PageTyped, Finish
  <1> HIDE DEF x
  <1>4. Further(answer, answer')
    BY <1>1, <1>2, GatewaySteps
  <1>5. convos' = [d \in Convos |-> convos'[d]] /\ Talks'
    <2>1. CASE ~Stored(active)
      <3>1. convos' = convos
        BY <1>2, <2>1 DEF Updated
      <3> QED
        BY <1>4, <3>1, NoTalkChanged
    <2>2. CASE Stored(active)
      <3> DEFINE old == convos[active]
                 new == Front(old) \o <<Message("assistant", x, answer[x].got)>>
      <3>1. active \in Convos /\ Talk(answer, old)
        BY <2>2 DEF PageInv, Talks, Stored
      <3>2. Last(old).role = "assistant" /\ Talk(answer, new)
        BY <1>1, <1>2, <3>1, TalkAnswered
      <3>3. convos' = [convos EXCEPT ![active] = new]
        BY <1>2, <2>2, <3>2
        DEF Updated, Last, Front, Last, Front
      <3> HIDE DEF new
      <3>4. Talk(answer', new)
        BY <1>1, <1>4, <3>2, TalkGoesOn
      <3> QED
        BY <1>4, <3>1, <3>3, <3>4, OneTalkChanged
    <2> QED
      BY <2>1, <2>2
  <1> QED
    BY <1>3, <1>4, <1>5, RestTyped

LEMMA ShowKeeps ==
    ASSUME PageInv, NEW t \in Tabs, Show(t) \/ Reload(t)
    PROVE  PageInv'
  <1> DEFINE x == reads[t]
  <1>1. MaxTokens \in Nat /\ NoRow \notin Responses /\ PageTyped
    BY PageAssumption DEF PageAssumption, PageInv
  <1>2. /\ x \in Exchanges /\ convos' = convos
        /\ Gateway!Deliver(x) \/ Gateway!CutOff(x)
    BY <1>1 DEF Show, Reload, PageTyped
  <1>3. /\ active' \in Convos \cup {NoConvo} /\ quiet' \subseteq Exchanges
        /\ reads' \in [Tabs -> Exchanges \cup {NoExchange}]
        /\ home' \in [Exchanges -> Convos \cup {NoConvo}]
    BY <1>1 DEF PageTyped, Show, Reload
  <1> HIDE DEF x
  <1>4. Further(answer, answer')
    BY <1>1, <1>2, GatewaySteps
  <1> QED
    BY <1>2, <1>3, <1>4, NoTalkChanged, RestTyped

LEMMA LogKeeps ==
    ASSUME PageInv, NEW x \in Exchanges, Log(x)
    PROVE  PageInv'
  <1>1. MaxTokens \in Nat /\ NoRow \notin Responses /\ PageTyped
    BY PageAssumption DEF PageAssumption, PageInv
  <1>2. Gateway!Record(x) /\ UNCHANGED <<convos, active, reads, home, quiet>>
    BY DEF Log
  <1>3. Further(answer, answer')
    BY <1>1, <1>2, GatewaySteps
  <1>4. convos' = [d \in Convos |-> convos'[d]] /\ Talks'
    BY <1>2, <1>3, NoTalkChanged
  <1> QED
    BY <1>1, <1>2, <1>3, <1>4, RestTyped DEF PageTyped

LEMMA DeleteKeeps ==
    ASSUME PageInv, NEW c \in Convos, Delete(c)
    PROVE  PageInv'
  <1>1. PageTyped
    BY DEF PageInv
  <1>2. answer' = answer /\ convos' = [convos EXCEPT ![c] = Deleted]
    BY DEF Delete
  <1>3. Further(answer, answer')
    BY <1>1, <1>2, SameFurther
  <1>4. convos' = [d \in Convos |-> convos'[d]] /\ Talks'
    BY <1>2, <1>3, OneTalkChanged
  <1>5. /\ active' \in Convos \cup {NoConvo} /\ quiet' \subseteq Exchanges
        /\ reads' \in [Tabs -> Exchanges \cup {NoExchange}]
        /\ home' \in [Exchanges -> Convos \cup {NoConvo}]
    BY <1>1 DEF PageTyped, Delete
  <1> QED
    BY <1>3, <1>4, <1>5, RestTyped

LEMMA ActivateKeeps ==
    ASSUME PageInv, NEW c \in Convos \cup {NoConvo},
           Activate(c) \/ UNCHANGED pageVars
    PROVE  PageInv'
  <1>1. PageTyped
    BY DEF PageInv
  <1>2. answer' = answer /\ convos' = convos
    BY DEF Activate, pageVars
  <1>3. Further(answer, answer')
    BY <1>1, <1>2, SameFurther
  <1>4. convos' = [d \in Convos |-> convos'[d]] /\ Talks'
    BY <1>2, <1>3, NoTalkChanged
  <1>5. /\ active' \in Convos \cup {NoConvo} /\ quiet' \subseteq Exchanges
        /\ reads' \in [Tabs -> Exchanges \cup {NoExchange}]
        /\ home' \in [Exchanges -> Convos \cup {NoConvo}]
    BY <1>1 DEF PageTyped, Activate, pageVars
  <1> QED
    BY <1>3, <1>4, <1>5, RestTyped

LEMMA PageKeeps ==
    ASSUME PageInv, [PageNext]_pageVars
    PROVE  PageInv'
  <1>1. CASE UNCHANGED pageVars
    BY <1>1, ActivateKeeps
  <1>2. CASE \E t \in Tabs, x \in Exchanges, c \in Convos : Send(t, x, c)
    BY <1>2, SendKeeps
  <1>3. CASE \E t \in Tabs : Show(t) \/ Finish(t) \/ Reload(t)
    BY <1>3, ShowKeeps, FinishKeeps
  <1>4. CASE \E c \in Convos : Delete(c)
    BY <1>4, DeleteKeeps
  <1>5. CASE \E c \in Convos \cup {NoConvo} : Activate(c)
    BY <1>5, ActivateKeeps
  <1>6. CASE \E x \in Exchanges : Log(x)
    BY <1>6, LogKeeps
  <1> QED
    BY <1>1, <1>2, <1>3, <1>4, <1>5, <1>6 DEF PageNext

\* Conversations are turns in pairs, and hold no more than was received.
THEOREM PageInvariant == PageSpec => []PageInv
  <1>1. PageInit => PageInv
    BY PageInitial
  <1>2. PageInv /\ [PageNext]_pageVars => PageInv'
    BY PageKeeps
  <1> QED
    BY <1>1, <1>2, PTL DEF PageSpec

\* Every variable of the page has the values the script can give it.
THEOREM PageTypeCorrect == PageSpec => []PageTypeOK
  <1>1. PageInv => PageTypeOK
    BY DEF PageInv, PageTyped, Talks, Talk, PageTypeOK, Messages, Answers
  <1> QED
    BY <1>1, PageInvariant, PTL

\* Whatever tabs do to one another's chats while answers stream in, every
\* stored conversation alternates, user first.
THEOREM TurnsGoOn == PageSpec => []TurnsAlternate
  <1>1. PageInv => TurnsAlternate
    BY DEF PageInv, Talks, Talk, TurnsAlternate, RoleAt
  <1> QED
    BY <1>1, PageInvariant, PTL

\* No message the browser keeps holds more than a whole row for its request.
THEOREM KeptWithinLog == PageSpec => []KeptIsLogged
  <1>1. ASSUME PageInv, NEW c \in Convos, Stored(c), NEW k \in 1..Len(convos[c])
        PROVE  LET m == convos[c][k]
                   row == answer[m.of].row IN
               row # NoRow /\ row.body = "whole" => m.text <= row.tokens
    <2>1. /\ PageTyped /\ convos[c] \in Seq(Messages)
          /\ convos[c][k].text <= answer[convos[c][k].of].got
      BY <1>1 DEF PageInv, Talks, Talk
    <2>2. convos[c][k] \in Messages
      BY <2>1
    <2>3. PICK x \in Exchanges : x = convos[c][k].of
      BY <2>2 DEF Messages
    <2> DEFINE row == answer[x].row
    <2>4. /\ row # NoRow /\ row.body = "whole" => answer[x].got <= row.tokens
          /\ row # NoRow => row.tokens \in Nat
          /\ answer[x].got \in Int
      BY <2>1, AnswerTypes DEF Behind, Responses
    <2>5. convos[c][k].text \in Int
      BY <2>2 DEF Messages
    <2> HIDE DEF row
    <2>6. row # NoRow /\ row.body = "whole" => convos[c][k].text <= row.tokens
      BY <2>1, <2>3, <2>4, <2>5
    <2> QED
      BY <2>3, <2>6, Zenon DEF row
  <1>2. PageInv => KeptIsLogged
    BY <1>1, Zenon DEF KeptIsLogged
  <1> QED
    BY <1>2, PageInvariant, PTL

----------------------------------------------------------------------------
(* What a question takes along                                             *)

LEMMA LeastOf ==
    ASSUME NEW T, T \subseteq Nat, T # {}
    PROVE  \E n \in T : \A k \in T : n <= k
  <1>1. PICK n \in T : \A k \in T : <<k, n>> \notin OpToRel(<, Nat)
    BY NatLessThanWellFounded, WFMin
  <1>2. ASSUME NEW k \in T
        PROVE  n <= k
    <2>1. ~(k < n)
      BY <1>1 DEF OpToRel
    <2> QED
      BY <2>1
  <1> QED
    BY <1>2

Said(m) == IF Spoken(m) THEN <<m>> ELSE <<>>

\* f[k]: what is said in the first k of these turns.
SaidUpTo(f, turns, n) ==
    /\ f \in [0..n -> Seq(Messages)] /\ f[0] = <<>>
    /\ \A k \in 1..n : f[k] = f[k - 1] \o Said(turns[k])

LEMMA SaidType ==
    ASSUME NEW m \in Messages
    PROVE  Said(m) \in Seq(Messages)
  <1>1. <<m>> \in Seq(Messages) /\ <<>> \in Seq(Messages)
    OBVIOUS
  <1> QED
    BY <1>1 DEF Said

LEMMA SaidExists ==
    ASSUME NEW turns \in Seq(Messages), NEW n \in 0..Len(turns)
    PROVE  \E f : SaidUpTo(f, turns, n)
  <1> DEFINE T == {k \in 0..Len(turns) : ~\E f : SaidUpTo(f, turns, k)}
  <1>1. SUFFICES ASSUME T # {}
                 PROVE  FALSE
    OBVIOUS
  <1>2. PICK m \in T : \A k \in T : m <= k
    <2>1. T \subseteq Nat
      OBVIOUS
    <2> HIDE DEF T
    <2> QED
      BY <1>1, <2>1, LeastOf
  <1>3. m \in 0..Len(turns) /\ ~\E f : SaidUpTo(f, turns, m)
    OBVIOUS
  <1>4. m # 0
    <2> DEFINE f == [k \in 0..0 |-> <<>>]
    <2>1. f \in [0..0 -> Seq(Messages)] /\ f[0] = <<>>
      OBVIOUS
    <2> HIDE DEF f
    <2>2. SaidUpTo(f, turns, 0)
      BY <2>1 DEF SaidUpTo
    <2> QED
      BY <1>3, <2>2
  <1>5. PICK n0 \in Nat : m = n0 + 1 /\ n0 \in 0..Len(turns) /\ m \in 1..Len(turns)
    <2>1. m - 1 \in Nat /\ m = (m - 1) + 1
      BY <1>3, <1>4
    <2> QED
      BY <1>3, <2>1
  <1>6. n0 \notin T
    BY <1>2, <1>5
  <1>7. PICK f : SaidUpTo(f, turns, n0)
    BY <1>5, <1>6
  <1> HIDE DEF T
  <1>8. /\ f \in [0..n0 -> Seq(Messages)] /\ f[0] = <<>>
        /\ \A k \in 1..n0 : f[k] = f[k - 1] \o Said(turns[k])
    BY <1>7 DEF SaidUpTo
  <1>9. PICK v \in Seq(Messages) : v = f[n0] \o Said(turns[m])
    <2>1. f[n0] \in Seq(Messages) /\ turns[m] \in Messages
      BY <1>5, <1>8
    <2>2. Said(turns[m]) \in Seq(Messages)
      BY <2>1, SaidType
    <2>3. f[n0] \o Said(turns[m]) \in Seq(Messages)
      BY <2>1, <2>2, ConcatProperties
    <2> QED
      BY <2>3, Zenon
  <1> DEFINE g == [k \in 0..m |-> IF k = m THEN v ELSE f[k]]
  <1>10. g[m] = v /\ \A k \in 0..n0 : g[k] = f[k]
    BY <1>5
  <1>11. g \in [0..m -> Seq(Messages)]
    <2>1. \A k \in 0..m : k # m => k \in 0..n0
      BY <1>5
    <2> QED
      BY <1>8, <2>1
  <1> HIDE DEF g
  <1>12. \A k \in 1..m : g[k] = g[k - 1] \o Said(turns[k])
    <2> TAKE k \in 1..m
    <2>1. CASE k = m
      <3>1. k - 1 = n0 /\ n0 \in 0..n0
        BY <1>5, <2>1
      <3> QED
        BY <1>9, <1>10, <2>1, <3>1
    <2>2. CASE k # m
      <3>1. k \in 1..n0 /\ k \in 0..n0 /\ k - 1 \in 0..n0
        BY <1>5, <2>2
      <3> QED
        BY <1>8, <1>10, <3>1
    <2> QED
      BY <2>1, <2>2
  <1>13. g[0] = <<>>
    BY <1>5, <1>8, <1>10
  <1>14. SaidUpTo(g, turns, m)
    BY <1>11, <1>12, <1>13 DEF SaidUpTo
  <1> QED
    BY <1>3, <1>14

\* History's recursion defines what is said in the first turns.
LEMMA HistorySays ==
    ASSUME NEW turns \in Seq(Messages)
    PROVE  \E f : /\ SaidUpTo(f, turns, Len(turns))
                  /\ History(turns) =
                        LET s == f[Len(turns)]
                            from == IF Len(s) > MaxTurns THEN Len(s) - MaxTurns + 1 ELSE 1 IN
                        SubSeq(s, from, Len(s))
  <1> DEFINE Eq(h) == h = [k \in 0..Len(turns) |->
                             IF k = 0 THEN <<>>
                             ELSE h[k - 1] \o (IF Spoken(turns[k]) THEN <<turns[k]>>
                                               ELSE <<>>)]
             g == CHOOSE h : h = [k \in 0..Len(turns) |->
                             IF k = 0 THEN <<>>
                             ELSE h[k - 1] \o (IF Spoken(turns[k]) THEN <<turns[k]>>
                                               ELSE <<>>)]
  <1>1. History(turns) =
           LET s == g[Len(turns)]
               from == IF Len(s) > MaxTurns THEN Len(s) - MaxTurns + 1 ELSE 1 IN
           SubSeq(s, from, Len(s))
    BY Zenon DEF History
  <1>2. PICK n \in Nat : n = Len(turns)
    OBVIOUS
  <1>3. PICK f : SaidUpTo(f, turns, n)
    BY <1>2, SaidExists
  <1>4. /\ f \in [0..n -> Seq(Messages)] /\ f[0] = <<>>
        /\ \A k \in 1..n : f[k] = f[k - 1] \o Said(turns[k])
    BY <1>3 DEF SaidUpTo
  <1>5. f = [k \in 0..n |-> IF k = 0 THEN <<>> ELSE f[k - 1] \o Said(turns[k])]
    <2>1. \A k \in 0..n : k = 0 \/ k \in 1..n
      OBVIOUS
    <2> HIDE DEF g, Eq
    <2>2. \A k \in 0..n : f[k] = IF k = 0 THEN <<>> ELSE f[k - 1] \o Said(turns[k])
      BY <1>4, <2>1, Zenon
    <2>3. f = [k \in 0..n |-> f[k]]
      BY <1>4
    <2> QED
      BY <2>2, <2>3, Zenon
  <1>6. Eq(f)
    BY <1>2, <1>5, Zenon DEF Said
  <1>7. Eq(g)
    BY <1>6, Zenon
  <1>8. g = [k \in 0..n |-> IF k = 0 THEN <<>> ELSE g[k - 1] \o Said(turns[k])]
    BY <1>2, <1>7, Zenon DEF Said
  <1> HIDE DEF g
  <1>9. \A k \in 0..n : g[k] = IF k = 0 THEN <<>> ELSE g[k - 1] \o Said(turns[k])
    BY <1>8, Zenon
  <1>10. \A k \in 0..n : g[k] = f[k]
    <2> DEFINE T == {k \in 0..n : g[k] # f[k]}
    <2>1. SUFFICES ASSUME T # {}
                   PROVE  FALSE
      OBVIOUS
    <2>2. PICK m \in T : \A k \in T : m <= k
      <3>1. T \subseteq Nat
        OBVIOUS
      <3> HIDE DEF T
      <3> QED
        BY <2>1, <3>1, LeastOf
    <2>3. m \in 0..n /\ g[m] # f[m]
      OBVIOUS
    <2>4. m # 0
      BY <1>4, <1>9, <2>3
    <2>5. m - 1 \in 0..n /\ m \in 1..n /\ ~(m <= m - 1)
      BY <2>3, <2>4
    <2>6. g[m - 1] = f[m - 1]
      BY <2>2, <2>5
    <2>7. g[m] = g[m - 1] \o Said(turns[m])
      BY <1>9, <2>3, <2>4
    <2> QED
      BY <1>4, <2>3, <2>5, <2>6, <2>7
  <1>11. g[Len(turns)] = f[Len(turns)]
    BY <1>2, <1>10
  <1>12. SaidUpTo(f, turns, Len(turns))
    BY <1>2, <1>3
  <1> QED
    BY <1>1, <1>11, <1>12, Zenon

\* What is said last is what a question takes along last.
LEMMA HistoryEnds ==
    ASSUME NEW turns \in Seq(Messages), NEW z \in Nat, Len(turns) = z + 2,
           NEW q, NEW a, turns[z + 1] = q, turns[z + 2] = a, Spoken(q),
           MaxTurns \in Nat \ {0}
    PROVE  Last(History(turns)) = IF Spoken(a) THEN a ELSE q
  <1>1. PICK f : /\ SaidUpTo(f, turns, Len(turns))
                 /\ History(turns) =
                        LET s == f[Len(turns)]
                            from == IF Len(s) > MaxTurns THEN Len(s) - MaxTurns + 1 ELSE 1 IN
                        SubSeq(s, from, Len(s))
    BY HistorySays, Zenon
  <1> DEFINE s == f[z + 2]
             L == Len(s)
             from == IF L > MaxTurns THEN L - MaxTurns + 1 ELSE 1
  <1>2. History(turns) = SubSeq(s, from, L)
    BY <1>1, Zenon
  <1>3. /\ f[z] \in Seq(Messages)
        /\ f[z + 1] = f[z] \o Said(q)
        /\ s = f[z + 1] \o Said(a)
    <2>1. z + 1 \in 1..(z + 2) /\ z + 2 \in 1..(z + 2) /\ z \in 0..(z + 2)
      OBVIOUS
    <2>2. (z + 1) - 1 = z /\ (z + 2) - 1 = z + 1
      OBVIOUS
    <2>3. /\ f \in [0..(z + 2) -> Seq(Messages)]
          /\ \A k \in 1..(z + 2) : f[k] = f[k - 1] \o Said(turns[k])
      BY <1>1 DEF SaidUpTo
    <2> HIDE DEF s
    <2>4. f[z + 1] = f[z] \o Said(q)
      BY <2>1, <2>2, <2>3
    <2>5. f[z + 2] = f[z + 1] \o Said(a)
      BY <2>1, <2>2, <2>3
    <2>6. f[z] \in Seq(Messages)
      BY <2>1, <2>3
    <2> QED
      BY <2>4, <2>5, <2>6 DEF s
  <1> HIDE DEF s
  <1>4. q \in Messages /\ a \in Messages
    <2>1. z + 1 \in 1..Len(turns) /\ z + 2 \in 1..Len(turns)
      OBVIOUS
    <2> QED
      BY <2>1
  <1>5. f[z + 1] = Append(f[z], q)
    BY <1>3, <1>4 DEF Said
  <1>6. /\ s \in Seq(Messages) /\ L \in Nat /\ L > 0
        /\ s[L] = IF Spoken(a) THEN a ELSE q
    <2>1. CASE Spoken(a)
      <3>1. s = Append(Append(f[z], q), a)
        BY <1>3, <1>4, <1>5, <2>1 DEF Said
      <3> QED
        BY <1>3, <1>4, <2>1, <3>1
    <2>2. CASE ~Spoken(a)
      <3>1. s = Append(f[z], q)
        BY <1>3, <1>4, <1>5, <2>2 DEF Said
      <3> QED
        BY <1>3, <1>4, <2>2, <3>1
    <2> QED
      BY <2>1, <2>2
  <1> HIDE DEF L
  <1>7. from \in 1..L
    BY <1>6
  <1> HIDE DEF from
  <1>8. PICK w \in Nat : from = L - w /\ w < L
    <2>1. L - from \in Nat /\ from = L - (L - from) /\ L - from < L
      BY <1>6, <1>7
    <2> QED
      BY <2>1
  <1>9. Last(SubSeq(s, from, L)) = s[L]
    <2>1. Len(SubSeq(s, from, L)) = w + 1 /\ SubSeq(s, from, L)[w + 1] = s[L]
      BY <1>6, <1>7, <1>8 DEF L
    <2> QED
      BY <2>1 DEF Last
  <1> QED
    BY <1>2, <1>6, <1>9

----------------------------------------------------------------------------
(* An answer nobody disturbs                                               *)

Asks(turns, x) ==
    \E z \in Nat : Len(turns) = z + 2 /\ turns[z + 1] = Message("user", x, 0)

\* The question is where it was asked, and only its answer comes after it.
Waits(stored, current, asked, x) ==
    /\ current \in Convos /\ asked[x] = current
    /\ stored[current] \notin {Unused, Deleted}
    /\ Asks(stored[current], x)

QuietWaits == \A t \in Tabs : reads[t] \in quiet => Waits(convos, active, home, reads[t])

LEMMA TalkIsStored ==
    ASSUME NEW turns \in Seq(Messages)
    PROVE  turns \notin {Unused, Deleted}
  BY PageAssumption DEF PageAssumption, Messages

\* The question to x and n, its answer, are the last of these turns.
Lands(turns, x, n) ==
    /\ turns \in Seq(Messages)
    /\ \E z \in Nat : /\ Len(turns) = z + 2 /\ turns[z + 1] = Message("user", x, 0)
                      /\ turns[z + 2] = n
    /\ Last(Front(turns)) = Message("user", x, 0) /\ Last(turns) = n

\* Another answer over the last message leaves the question before it.
LEMMA AnsweredAsks ==
    ASSUME NEW turns \in Seq(Messages), NEW x, Asks(turns, x), NEW n \in Messages
    PROVE  Lands(Front(turns) \o <<n>>, x, n)
  <1> DEFINE f == Front(turns)
             new == f \o <<n>>
             m == Message("user", x, 0)
  <1>1. PICK z \in Nat : Len(turns) = z + 2 /\ turns[z + 1] = m
    BY DEF Asks
  <1> HIDE DEF m
  <1>2. f = SubSeq(turns, 1, z + 1)
    BY <1>1 DEF Front
  <1>3. f \in Seq(Messages) /\ Len(f) = z + 1 /\ f[z + 1] = m
    BY <1>1, <1>2
  <1> HIDE DEF f
  <1>4. new \in Seq(Messages) /\ Len(new) = z + 2 /\ new[z + 1] = m /\ new[z + 2] = n
    BY <1>3
  <1> HIDE DEF new
  <1>5. Last(new) = n
    BY <1>4 DEF Last
  <1>6. Front(new) = SubSeq(new, 1, z + 1)
    BY <1>4 DEF Front
  <1>7. Len(Front(new)) = z + 1 /\ Front(new)[z + 1] = m
    BY <1>4, <1>6
  <1>8. Last(Front(new)) = m
    BY <1>7 DEF Last
  <1> QED
    BY <1>4, <1>5, <1>8 DEF Lands, new, f, m

LEMMA WaitsUnlessTouched ==
    ASSUME QuietWaits, PageTyped, NEW t \in Tabs,
           convos' = convos, active' = active, home' = home, quiet' \subseteq quiet,
           \/ reads' = reads
           \/ reads' = [reads EXCEPT ![t] = NoExchange] /\ NoExchange \notin quiet
    PROVE  QuietWaits'
  <1>1. ASSUME NEW u \in Tabs, reads'[u] \in quiet'
        PROVE  Waits(convos', active', home', reads'[u])
    <2>1. reads'[u] = reads[u] /\ reads[u] \in quiet
      BY <1>1 DEF PageTyped
    <2>2. Waits(convos, active, home, reads[u])
      BY <2>1 DEF QuietWaits
    <2> QED
      BY <2>1, <2>2, Zenon
  <1> QED
    BY <1>1 DEF QuietWaits

LEMMA SendWaits ==
    ASSUME PageInv, PageInv', QuietWaits, NEW t \in Tabs,
           NEW x \in Exchanges, NEW c \in Convos, Send(t, x, c)
    PROVE  QuietWaits'
  <1> DEFINE old == IF Stored(c) THEN convos[c] ELSE <<>>
             q == Message("user", x, 0)
             a == Message("assistant", x, 0)
  <1>1. /\ PageTyped /\ MaxTokens \in Nat /\ NoExchange \notin Exchanges
        /\ convos = [d \in Convos |-> convos[d]]
        /\ convos' = [d \in Convos |-> convos'[d]]
    BY PageAssumption DEF PageInv, PageTyped, PageAssumption
  <1>2. /\ convos' = [convos EXCEPT ![c] = old \o <<q, a>>] /\ active' = c
        /\ reads' = [reads EXCEPT ![t] = x] /\ home' = [home EXCEPT ![x] = c]
        /\ quiet' = IF \A u \in Tabs : reads[u] = NoExchange THEN {x} ELSE {}
    BY DEF Send
  <1>3. old \in Seq(Messages)
    <2>1. CASE Stored(c)
      BY <2>1 DEF PageInv, Talks, Talk
    <2>2. CASE ~Stored(c)
      BY <2>2
    <2> QED
      BY <2>1, <2>2
  <1>4. q \in Messages /\ a \in Messages
    BY <1>1 DEF Message, Messages
  <1> HIDE DEF old, q, a
  <1>5. PICK z \in Nat : z = Len(old)
    BY <1>3
  <1>6. PICK new \in Seq(Messages) : new = old \o <<q, a>>
    <2>1. <<q, a>> \in Seq(Messages)
      BY <1>4
    <2>2. old \o <<q, a>> \in Seq(Messages)
      BY <1>3, <2>1, ConcatProperties
    <2> QED
      BY <2>2, Zenon
  <1>7. Len(new) = z + 2 /\ new[z + 1] = q
    BY <1>3, <1>4, <1>5, <1>6
  <1>8. convos'[c] = new
    BY <1>1, <1>2, <1>6
  <1>9. new \notin {Unused, Deleted}
    BY TalkIsStored
  <1>10. ASSUME NEW u \in Tabs, reads'[u] \in quiet'
         PROVE  Waits(convos', active', home', reads'[u])
    <2>1. \A v \in Tabs : reads[v] = NoExchange
      BY <1>2, <1>10
    <2>2. reads'[u] = x
      BY <1>2, <1>10
    <2>3. home'[x] = c
      BY <1>1, <1>2 DEF PageTyped
    <2>4. Asks(convos'[c], x)
      BY <1>7, <1>8 DEF Asks, q
    <2> QED
      BY <1>2, <1>8, <1>9, <2>2, <2>3, <2>4 DEF Waits
  <1> QED
    BY <1>10 DEF QuietWaits

\* The conversation the answer goes into, if it is one.
LEMMA FinishWrites ==
    ASSUME PageInv, NEW t \in Tabs, Finish(t), Stored(active)
    PROVE  LET n == Message("assistant", reads[t], answer[reads[t]].got) IN
           /\ reads[t] \in Exchanges /\ n \in Messages
           /\ convos[active] \in Seq(Messages)
           /\ convos' = [convos EXCEPT ![active] = Front(convos[active]) \o <<n>>]
  <1> DEFINE x == reads[t]
             n == Message("assistant", x, answer[x].got)
             old == convos[active]
  <1>1. PageTyped /\ x \in Exchanges
    BY DEF PageInv, PageTyped, Finish
  <1>2. convos' = Updated(x, answer[x].got)
    BY DEF Finish
  <1>3. Talk(answer, old) /\ active \in Convos
    BY DEF PageInv, Talks, Stored
  <1>4. old \in Seq(Messages)
    BY <1>3 DEF Talk
  <1>5. Last(old).role = "assistant"
    BY <1>1, <1>3, TalkAnswered
  <1>6. answer[x].got \in 0..MaxTokens
    BY <1>1, AnswerTypes
  <1>7. n \in Messages
    BY <1>1, <1>6 DEF Message, Messages
  <1> HIDE DEF x
  <1>8. convos' = [convos EXCEPT ![active] = Front(old) \o <<n>>]
    BY <1>2, <1>5 DEF Updated, Last, Front, Last, Front
  <1> QED
    BY <1>1, <1>4, <1>7, <1>8 DEF x

LEMMA FinishWaits ==
    ASSUME PageInv, PageInv', QuietWaits, NEW t \in Tabs, Finish(t)
    PROVE  QuietWaits'
  <1>1. /\ PageTyped /\ NoExchange \notin Exchanges
        /\ convos = [d \in Convos |-> convos[d]]
        /\ convos' = [d \in Convos |-> convos'[d]]
    BY PageAssumption DEF PageInv, PageTyped, PageAssumption
  <1>2. /\ active' = active /\ home' = home /\ quiet' = quiet
        /\ reads' = [reads EXCEPT ![t] = NoExchange]
    BY DEF Finish
  <1>3. ASSUME NEW u \in Tabs, reads'[u] \in quiet'
        PROVE  Waits(convos', active', home', reads'[u])
    <2> DEFINE x == reads[u]
               n == Message("assistant", reads[t], answer[reads[t]].got)
               new == Front(convos[active]) \o <<n>>
    <2>1. reads'[u] = x /\ x \in quiet
      BY <1>1, <1>2, <1>3 DEF PageTyped
    <2>2. /\ active \in Convos /\ Stored(active) /\ home[x] = active
          /\ Asks(convos[active], x)
      BY <2>1 DEF QuietWaits, Waits, Stored
    <2>3. /\ n \in Messages /\ convos[active] \in Seq(Messages)
          /\ convos' = [convos EXCEPT ![active] = new]
      BY <2>2, FinishWrites
    <2> HIDE DEF n, x
    <2>4. new \in Seq(Messages) /\ Asks(new, x)
      <3> DEFINE turns == convos[active]
      <3>1. turns \in Seq(Messages) /\ Asks(turns, x) /\ n \in Messages
        BY <2>2, <2>3
      <3>2. new = Front(turns) \o <<n>>
        OBVIOUS
      <3> HIDE DEF turns, new
      <3>3. Lands(new, x, n)
        BY <3>1, <3>2, AnsweredAsks, Zenon
      <3> QED
        BY <3>3 DEF Lands, Asks
    <2> HIDE DEF new
    <2>5. convos'[active] = new
      BY <1>1, <2>2, <2>3
    <2>6. new \notin {Unused, Deleted}
      BY <2>4, TalkIsStored
    <2> QED
      BY <1>2, <2>1, <2>2, <2>4, <2>5, <2>6 DEF Waits
  <1> QED
    BY <1>3 DEF QuietWaits

LEMMA QuietKeeps ==
    ASSUME PageInv, PageInv', QuietWaits, [PageNext]_pageVars
    PROVE  QuietWaits'
  <1>1. PageTyped /\ NoExchange \notin quiet
    BY PageAssumption DEF PageInv, PageTyped, PageAssumption
  <1>2. CASE UNCHANGED pageVars
    BY <1>2 DEF QuietWaits, pageVars
  <1>3. CASE \E t \in Tabs, x \in Exchanges, c \in Convos : Send(t, x, c)
    BY <1>3, SendWaits
  <1>4. ASSUME NEW t \in Tabs, Show(t) \/ Reload(t)
        PROVE  QuietWaits'
    <2>1. /\ convos' = convos /\ active' = active /\ home' = home /\ quiet' \subseteq quiet
          /\ reads' = reads \/ reads' = [reads EXCEPT ![t] = NoExchange]
      BY <1>4 DEF Show, Reload
    <2> QED
      BY <1>1, <2>1, WaitsUnlessTouched
  <1>5. CASE \E t \in Tabs : Finish(t)
    BY <1>5, FinishWaits
  <1>6. CASE \/ \E c \in Convos : Delete(c)
             \/ \E c \in Convos \cup {NoConvo} : Activate(c)
    <2>1. quiet' = {}
      BY <1>6 DEF Delete, Activate
    <2> QED
      BY <2>1 DEF QuietWaits
  <1>7. ASSUME NEW x \in Exchanges, Log(x)
        PROVE  QuietWaits'
    BY <1>7 DEF Log, QuietWaits
  <1> QED
    BY <1>2, <1>3, <1>4, <1>5, <1>6, <1>7 DEF PageNext

\* The step in which a tab stops reading an answer nobody disturbed.
Landing(t) ==
    LET x == reads[t]
        turns == convos'[home[x]] IN
    /\ Last(Front(turns)) = Message("user", x, 0)
    /\ Last(turns) = Message("assistant", x, answer'[x].got)
    /\ Last(History(turns)) =
          Message(IF answer'[x].got > 0 THEN "assistant" ELSE "user", x, answer'[x].got)

LEMMA FinishLands ==
    ASSUME PageInv, QuietWaits, NEW t \in Tabs,
           Finish(t), reads[t] \in quiet
    PROVE  Landing(t)
  <1> DEFINE x == reads[t]
             n == Message("assistant", x, answer[x].got)
             old == convos[active]
             new == Front(old) \o <<n>>
  <1>1. /\ PageTyped /\ MaxTurns \in Nat \ {0} /\ MaxTokens \in Nat
        /\ convos = [d \in Convos |-> convos[d]]
    BY PageAssumption DEF PageInv, PageTyped, PageAssumption
  <1>2. /\ active \in Convos /\ Stored(active) /\ home[x] = active /\ Asks(old, x)
    BY DEF QuietWaits, Waits, Stored
  <1>3. /\ x \in Exchanges /\ n \in Messages /\ old \in Seq(Messages)
        /\ convos' = [convos EXCEPT ![active] = new]
    BY <1>2, FinishWrites
  <1>4. answer'[x].got = answer[x].got
    <2>1. Gateway!Complete(x) \/ Gateway!CutOff(x)
      BY DEF Finish
    <2>2. PICK u \in {"complete", "cut"} :
             answer' = [answer EXCEPT ![x] = [answer[x] EXCEPT !.stage = u]]
      BY <2>1 DEF Gateway!Complete, Gateway!CutOff
    <2>3. answer'[x] = [answer[x] EXCEPT !.stage = u]
      BY <1>1, <1>3, <2>2 DEF PageTyped
    <2>4. answer[x] \in Answers
      BY <1>1, <1>3 DEF PageTyped
    <2> QED
      BY <2>3, <2>4 DEF Answers
  <1>5. answer[x].got \in Int /\ answer[x].got >= 0
    BY <1>1, <1>3, AnswerTypes
  <1>6. /\ n.role = "assistant" /\ n.of = x /\ n.text = answer[x].got
        /\ n = Message("assistant", x, answer[x].got)
    BY DEF Message
  <1> DEFINE q == Message("user", x, 0)
  <1>7. q.role = "user" /\ q = Message("user", x, 0)
    BY DEF Message
  <1> HIDE DEF x, n, old, q
  <1>8. Lands(new, x, n)
    BY <1>2, <1>3, AnsweredAsks
  <1> HIDE DEF new
  <1>9. PICK z \in Nat : Len(new) = z + 2 /\ new[z + 1] = q /\ new[z + 2] = n
    BY <1>7, <1>8 DEF Lands
  <1>10. Last(History(new)) = IF Spoken(n) THEN n ELSE q
    <2>1. Spoken(q)
      BY <1>7 DEF Spoken
    <2>2. new \in Seq(Messages)
      BY <1>8 DEF Lands
    <2> QED
      BY <1>1, <1>9, <2>1, <2>2, HistoryEnds
  <1>11. Spoken(n) <=> answer[x].got > 0
    BY <1>6 DEF Spoken
  <1>12. Last(History(new)) =
            Message(IF answer[x].got > 0 THEN "assistant" ELSE "user", x, answer[x].got)
    <2>1. CASE answer[x].got > 0
      BY <1>6, <1>10, <1>11, <2>1
    <2>2. CASE ~(answer[x].got > 0)
      <3>1. answer[x].got = 0
        BY <1>5, <2>2
      <3> QED
        BY <1>7, <1>10, <1>11, <2>2, <3>1
    <2> QED
      BY <2>1, <2>2
  <1>13. convos'[home[x]] = new
    BY <1>1, <1>2, <1>3
  <1>14. Last(Front(new)) = q /\ Last(new) = n
    BY <1>7, <1>8 DEF Lands
  <1> QED
    BY <1>4, <1>6, <1>7, <1>12, <1>13, <1>14
    DEF Landing, Last, Front, Last, Front, x

LEMMA StepLands ==
    ASSUME PageInv, PageInv', QuietWaits, PageNext, NEW t \in Tabs,
           reads'[t] # reads[t], reads[t] \in quiet'
    PROVE  Landing(t)
  <1>1. /\ reads \in [Tabs -> Exchanges \cup {NoExchange}]
        /\ NoExchange \notin quiet' /\ reads[t] # NoExchange
    BY PageAssumption DEF PageInv, PageTyped, PageAssumption
  <1>2. PICK u \in Tabs :
           \/ \E x \in Exchanges, c \in Convos : Send(u, x, c)
           \/ Finish(u) \/ Reload(u)
    <2>1. \E u \in Tabs :
             \/ \E x \in Exchanges, c \in Convos : Send(u, x, c)
             \/ Show(u) \/ Finish(u) \/ Reload(u)
      BY DEF PageNext, Delete, Activate, Log
    <2>2. \A u \in Tabs : ~Show(u)
      BY DEF Show
    <2> QED
      BY <2>1, <2>2
  <1>3. CASE \E x \in Exchanges, c \in Convos : Send(u, x, c)
    <2>1. PICK x \in Exchanges : reads[u] = NoExchange /\ reads' = [reads EXCEPT ![u] = x]
      BY <1>3 DEF Send
    <2>2. u = t
      BY <1>1, <2>1
    <2> QED
      BY <1>1, <2>1, <2>2
  <1>4. CASE Finish(u)
    <2>1. reads' = [reads EXCEPT ![u] = NoExchange] /\ quiet' = quiet
      BY <1>4 DEF Finish
    <2>2. u = t
      BY <1>1, <2>1
    <2> QED
      BY <1>4, <2>1, <2>2, FinishLands
  <1>5. CASE Reload(u)
    <2>1. reads' = [reads EXCEPT ![u] = NoExchange] /\ quiet' = quiet \ {reads[u]}
      BY <1>5 DEF Reload
    <2>2. u = t
      BY <1>1, <2>1
    <2> QED
      BY <2>1, <2>2
  <1> QED
    BY <1>2, <1>3, <1>4, <1>5

\* The answer to a question since which nobody touched the chats ends up under
\* that question, and is what the next question takes along last.
THEOREM AnswersLand == PageSpec => AnswerLands
  <1>1. PageInit => PageInv /\ QuietWaits
    <2>1. PageInit => PageInv
      BY PageInitial
    <2>2. PageInit => QuietWaits
      BY DEF PageInit, QuietWaits
    <2> QED
      BY <2>1, <2>2
  <1>2. PageInv /\ QuietWaits /\ [PageNext]_pageVars => PageInv' /\ QuietWaits'
    BY PageKeeps, QuietKeeps
  <1>3. PageInv /\ PageInv' /\ QuietWaits /\ [PageNext]_pageVars
        => [\A t \in Tabs : LET x == reads[t] IN
               reads'[t] # x /\ x \in quiet' => Landing(t)]_pageVars
    BY StepLands
  <1> QED
    BY <1>1, <1>2, <1>3, PTL DEF PageSpec, AnswerLands, Landing
=============================================================================
