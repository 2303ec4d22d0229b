----------------------------- MODULE ChatStream -----------------------------
(***************************************************************************)
(* The answering endpoints of routers/chat.py and routers/rag.py, between  *)
(* the language-model server and a client that reads the answer: the       *)
(* parsers of openai_service.py and ollama_service.py, the generators that *)
(* turn what they yield into SSE frames and write a log in their finally,  *)
(* and the non-streaming handlers.  Tokens are counted, not spelled: every *)
(* stage is first in, first out.  Authentication is KeyAuth's, the usage   *)
(* table UsageRollup's, retrieval RagIndex's.  Nothing in the code bounds  *)
(* an answer: the model server may never come to the end of it.            *)
(***************************************************************************)
EXTENDS Requests, Integers, FiniteSets, SequencesExt

CONSTANTS
    Backends,       \* LLM_BACKEND: a subset of {"openai", "ollama"}
    BodySizes,      \* values of log_body_max_chars, counted in tokens
    NullContent,    \* the model server (OpenAI API) may send content: null
    MaxWire         \* frames under way when the server's flow control stops sending

ASSUME StreamAssumption ==
    /\ Backends \subseteq {"openai", "ollama"} /\ Backends # {}
    /\ BodySizes \subseteq Nat /\ BodySizes # {}
    /\ NullContent \in BOOLEAN
    /\ MaxTokens \in Nat \ {0} /\ MaxWire \in Nat \ {0}
    /\ NoRow \notin Responses

VARIABLES
    settings,       \* of the process: llm_backend and the log policy
    gen,            \* gen[x]: the handler or generator of x
    wire,           \* wire[x]: frames sent to x's client and not read
    client,         \* client[x]: what x's client has read, and how it ended
    logs            \* logs[x]: the request_logs rows of x

vars == <<settings, gen, wire, client, logs>>

----------------------------------------------------------------------------

Settings == [llm_backend : Backends, log_prompt_bodies : BOOLEAN,
             log_body_max_chars : BodySizes]

ChatEndpoints == {"/v1/chat", "/v1/chat/stream"}
StreamEndpoints == {"/v1/chat/stream", "/v1/rag/stream", "/v1/rag/smart/stream"}
Endpoints == {"/v1/rag", "/v1/rag/smart"} \cup ChatEndpoints \cup StreamEndpoints

Chat(x) == gen[x].endpoint \in ChatEndpoints
Streams(x) == gen[x].endpoint \in StreamEndpoints

\* tokens: read so far of the model's answer; heard: that more may follow, that
\* the chunk just read was the last, or that the answer is over; text: it has no
\* None in it; next: where the generator is when its frames are out; raised: how
\* the response ends once the log is written.
Fresh(endpoint) ==
    [pc |-> "idle", endpoint |-> endpoint, tokens |-> 0, heard |-> "more",
     introduced |-> FALSE, frames |-> <<>>, next |-> "read", collected |-> 0,
     text |-> TRUE, status |-> 200, raised |-> "ended"]

Init ==
    /\ settings \in Settings
    /\ gen = [x \in Exchanges |-> Fresh("/v1/chat")]
    /\ wire = [x \in Exchanges |-> <<>>]
    /\ client = [x \in Exchanges |-> [got |-> 0, error |-> FALSE, end |-> "none"]]
    /\ logs = [x \in Exchanges |-> <<>>]

\* The generator resumes with frames to yield, one after the other; a token is
\* appended to collected before its frame is yielded.
Resumed(g, frames, next) ==
    [g EXCEPT !.frames = frames,
              !.collected = IF frames # <<>> /\ Head(frames) = "text" THEN @ + 1 ELSE @,
              !.pc = IF frames = <<>> THEN next ELSE "send",
              !.next = next]

----------------------------------------------------------------------------
(* The request arrives *)

\* Admitted, and the model is on the allow-list where that is asked.
Begin(x, endpoint) ==
    /\ gen[x].pc = "idle"
    /\ gen' = [gen EXCEPT ![x] = [Fresh(endpoint) EXCEPT
                   !.pc = IF endpoint \in StreamEndpoints THEN "read" ELSE "complete"]]
    /\ UNCHANGED <<settings, wire, client, logs>>

\* require_api_key refuses it, or the model is disabled (ForbiddenError):
\* answered with an error before any handler logs.
Refuse(x, endpoint) ==
    /\ gen[x].pc = "idle"
    /\ gen' = [gen EXCEPT ![x] = [Fresh(endpoint) EXCEPT !.pc = "refused", !.heard = "over"]]
    /\ UNCHANGED <<settings, wire, client, logs>>

----------------------------------------------------------------------------
(* The non-streaming handlers *)

\* complete() returned; the answer counts as one token.
Completed(x) ==
    /\ gen[x].pc = "complete"
    /\ gen' = [gen EXCEPT ![x].pc = "log", ![x].heard = "over", ![x].collected = 1]
    /\ UNCHANGED <<settings, wire, client, logs>>

\* complete() returned None as the text: it is logged, but no ChatResponse.
CompletedNull(x) ==
    /\ gen[x].pc = "complete" /\ settings.llm_backend = "openai" /\ NullContent
    /\ gen' = [gen EXCEPT ![x].pc = "log", ![x].heard = "over", ![x].text = FALSE,
                          ![x].raised = IF Chat(x) THEN "refused" ELSE "ended"]
    /\ UNCHANGED <<settings, wire, client, logs>>

\* /v1/chat logs an APIError of the model server with its status ...
CompleteFails(x) ==
    /\ gen[x].pc = "complete" /\ Chat(x)
    /\ gen' = [gen EXCEPT ![x].pc = "log", ![x].heard = "over", ![x].status = 502,
                          ![x].raised = "refused"]
    /\ UNCHANGED <<settings, wire, client, logs>>

\* ... and no other exception; the RAG handlers log none.
CompleteRaises(x) ==
    /\ gen[x].pc = "complete"
    /\ gen' = [gen EXCEPT ![x].pc = "refused", ![x].heard = "over"]
    /\ UNCHANGED <<settings, wire, client, logs>>

----------------------------------------------------------------------------
(* The streaming generators *)

\* What a client of the model server may yield next as (token, done), none of
\* it after the chunk that is done.  There may be any number of tokens (on the
\* chat endpoints max_tokens is the caller's to send or to leave out), of which
\* MaxTokens are explored.  Ollama's parser also yields empty ones (a line with
\* an error, say), as often as they come, OpenAI's only with finish_reason.
Pairs(x) ==
    IF gen[x].heard # "more" THEN {}
    ELSE (IF gen[x].tokens < MaxTokens THEN {<<"text", TRUE>>, <<"text", FALSE>>} ELSE {})
         \cup {<<"empty", TRUE>>}
         \cup (IF settings.llm_backend = "ollama" THEN {<<"empty", FALSE>>} ELSE {})
         \cup (IF settings.llm_backend = "openai" /\ NullContent THEN {<<"null", TRUE>>} ELSE {})

\* event_source of chat.py: a frame for every pair.
ChatFrames(token, done) ==
    <<IF token = "text" THEN "text" ELSE "empty">> \o (IF done THEN <<"[DONE]">> ELSE <<>>)

\* Fault: the token is not looked at.
RagFramesUnguarded(introduced, token, done) ==
    (IF introduced THEN <<>> ELSE <<"meta">>)
    \o <<token>> \o (IF done THEN <<"[DONE]">> ELSE <<>>)

\* gen() of rag.py: meta or sources first, and no frame for an empty token.
RagFrames(introduced, token, done) ==
    (IF introduced THEN <<>> ELSE <<"meta">>)
    \o (IF token = "text" THEN <<"text">> ELSE <<>>)
    \o (IF done THEN <<"[DONE]">> ELSE <<>>)

Frames(x, token, done) ==
    IF Chat(x) THEN ChatFrames(token, done)
    ELSE RagFrames(gen[x].introduced, token, done)

Yielded(x) ==
    /\ gen[x].pc = "read"
    /\ \E pair \in Pairs(x) :
          LET token == pair[1]
              done == pair[2]
              g == [gen[x] EXCEPT !.tokens = IF token = "text" THEN @ + 1 ELSE @,
                                  !.heard = IF done THEN "done" ELSE "more",
                                  !.introduced = TRUE,
                                  !.text = ~Chat(x) \/ token # "null"] IN
          gen' = [gen EXCEPT ![x] = Resumed(g, Frames(x, token, done), "read")]
    /\ UNCHANGED <<settings, wire, client, logs>>

\* Fault: the loop is not left.
YieldedLastOn(x) ==
    /\ gen[x].pc = "read" /\ settings.llm_backend = "openai"
    /\ gen' = [gen EXCEPT ![x] = Resumed([@ EXCEPT !.introduced = TRUE, !.heard = "over"],
                                         Frames(x, "empty", TRUE), "read")]
    /\ UNCHANGED <<settings, wire, client, logs>>

\* OpenAI's "data: [DONE]": one more ("", True), and the loop is left.
YieldedLast(x) ==
    /\ gen[x].pc = "read" /\ settings.llm_backend = "openai"
    /\ gen' = [gen EXCEPT ![x] = Resumed([@ EXCEPT !.introduced = TRUE, !.heard = "over"],
                                         Frames(x, "empty", TRUE), "log")]
    /\ UNCHANGED <<settings, wire, client, logs>>

\* The model server closes the stream, with or without having said so.
Exhausted(x) ==
    /\ gen[x].pc = "read"
    /\ gen' = [gen EXCEPT ![x].pc = "log", ![x].heard = "over"]
    /\ UNCHANGED <<settings, wire, client, logs>>

\* Fault: the except branch forgets the status.
FailsUnnoticed(x) ==
    /\ gen[x].pc = "read"
    /\ gen' = [gen EXCEPT ![x] = Resumed([@ EXCEPT !.heard = "over"], <<"error">>, "log")]
    /\ UNCHANGED <<settings, wire, client, logs>>

\* A read that times out, a lost connection or an error status: an APIError.  chat.py takes
\* its status, rag.py logs 200.
Fails(x) ==
    /\ gen[x].pc = "read"
    /\ gen' = [gen EXCEPT ![x] =
                   Resumed([@ EXCEPT !.heard = "over",
                                     !.status = IF Chat(x) THEN 502 ELSE gen[x].status],
                           <<"error">>, "log")]
    /\ UNCHANGED <<settings, wire, client, logs>>

\* Any other exception (a line that is no JSON object): rag.py reports it,
\* chat.py's finally runs and the response breaks off.
Raises(x) ==
    /\ gen[x].pc = "read"
    /\ gen' = [gen EXCEPT ![x] = IF Chat(x)
                                 THEN [@ EXCEPT !.pc = "log", !.heard = "over", !.raised = "broken"]
                                 ELSE Resumed([@ EXCEPT !.heard = "over"], <<"error">>, "log")]
    /\ UNCHANGED <<settings, wire, client, logs>>

\* StreamingResponse sends a frame, waiting for a client that is slow to read,
\* and asks for the next one.
SendFrame(x) ==
    /\ gen[x].pc = "send"
    /\ client[x].end = "left" \/ Len(wire[x]) < MaxWire
    /\ wire' = IF client[x].end = "left" THEN wire
               ELSE [wire EXCEPT ![x] = Append(@, Head(gen[x].frames))]
    /\ gen' = [gen EXCEPT ![x] = Resumed(@, Tail(gen[x].frames), gen[x].next)]
    /\ UNCHANGED <<settings, client, logs>>

----------------------------------------------------------------------------
(* The log *)

RedactUnmarked(n) ==                    \* fault: the cut leaves no mark
    IF n = 0 \/ ~settings.log_prompt_bodies THEN [body |-> "none", tokens |-> 0]
    ELSE IF n > settings.log_body_max_chars
    THEN [body |-> "whole", tokens |-> settings.log_body_max_chars]
    ELSE [body |-> "whole", tokens |-> n]

\* _redact: what the log policy leaves of an answer of n tokens.  An empty one is
\* None, and so is any if bodies are not logged; one that is too long is cut
\* and marked as truncated.
Redact(n) ==
    IF n = 0 \/ ~settings.log_prompt_bodies THEN [body |-> "none", tokens |-> 0]
    ELSE IF n > settings.log_body_max_chars
    THEN [body |-> "cut", tokens |-> settings.log_body_max_chars]
    ELSE [body |-> "whole", tokens |-> n]

Row(x) == [response |-> Redact(gen[x].collected), status |-> gen[x].status]

\* write_log commits.  A non-streaming answer goes out only now.
WriteLog(x) ==
    /\ gen[x].pc = "log" /\ (Streams(x) => gen[x].text)
    /\ logs' = [logs EXCEPT ![x] = Append(@, Row(x))]
    /\ gen' = [gen EXCEPT ![x].pc = gen[x].raised]
    /\ wire' = IF Streams(x) \/ gen[x].raised # "ended" THEN wire
               ELSE [wire EXCEPT ![x] = IF gen[x].text THEN <<"text">> ELSE <<>>]
    /\ UNCHANGED <<settings, client>>

\* Fault: the exception is swallowed.
LogFailsSilently(x) ==
    /\ gen[x].pc = "log"
    /\ gen' = [gen EXCEPT ![x].pc = gen[x].raised]
    /\ UNCHANGED <<settings, wire, client, logs>>

\* The database fails, or "".join(collected) meets a None: the exception
\* leaves the finally.
LogFails(x) ==
    /\ gen[x].pc = "log"
    /\ gen' = [gen EXCEPT ![x].pc = IF Streams(x) THEN "broken" ELSE "refused"]
    /\ UNCHANGED <<settings, wire, client, logs>>

----------------------------------------------------------------------------
(* A client that goes away *)

Reading(x) == client[x].end = "none"

Leave(x) ==
    /\ gen[x].pc # "idle" /\ Reading(x)
    /\ client' = [client EXCEPT ![x].end = "left"]
    /\ UNCHANGED <<settings, gen, wire, logs>>

\* listen_for_disconnect: the stream is cancelled wherever it awaits.  (The
\* non-streaming handlers run on.)
Notice(x) ==
    /\ client[x].end = "left" /\ Streams(x) /\ gen[x].pc \in {"read", "send", "log"}
    /\ gen' = [gen EXCEPT ![x].pc = "abandoned"]
    /\ UNCHANGED <<settings, wire, client, logs>>

\* The finally of a cancelled generator: its write_log is cancelled too ...
LoseLog(x) ==
    /\ gen[x].pc = "abandoned"
    /\ gen' = [gen EXCEPT ![x].pc = "gone"]
    /\ UNCHANGED <<settings, wire, client, logs>>

\* ... or was committed by then, or runs when the generator is finalised.
KeepLog(x) ==
    /\ gen[x].pc = "abandoned" /\ gen[x].text
    /\ logs' = [logs EXCEPT ![x] = Append(@, Row(x))]
    /\ gen' = [gen EXCEPT ![x].pc = "gone"]
    /\ UNCHANGED <<settings, wire, client>>

----------------------------------------------------------------------------
(* A client that reads *)

ReadFrame(x) ==
    /\ Reading(x) /\ wire[x] # <<>>
    /\ wire' = [wire EXCEPT ![x] = Tail(@)]
    /\ client' = [client EXCEPT ![x].got = IF Head(wire[x]) = "text" THEN @ + 1 ELSE @,
                                ![x].error = @ \/ Head(wire[x]) = "error"]
    /\ UNCHANGED <<settings, gen, logs>>

\* The end of the body, a body cut off, or an error response.
ReadEnd(x) ==
    /\ Reading(x) /\ wire[x] = <<>> /\ gen[x].pc \in {"ended", "broken", "refused"}
    /\ client' = [client EXCEPT ![x].end = gen[x].pc]
    /\ UNCHANGED <<settings, gen, wire, logs>>

----------------------------------------------------------------------------

\* Steps that wait for the model server ...
Hear(x) ==
    \/ Completed(x) \/ CompletedNull(x) \/ CompleteFails(x) \/ CompleteRaises(x)
    \/ Yielded(x) \/ YieldedLast(x) \/ Exhausted(x) \/ Fails(x) \/ Raises(x)

\* ... and steps that do not.
Proceed(x) == SendFrame(x) \/ WriteLog(x) \/ LogFails(x) \/ LoseLog(x) \/ KeepLog(x)

\* Any client of the API: it reads, or leaves when it likes.
Client(x) ==
    \/ \E e \in Endpoints : Begin(x, e) \/ Refuse(x, e)
    \/ ReadFrame(x) \/ ReadEnd(x) \/ Leave(x)

Next == \E x \in Exchanges : Hear(x) \/ Proceed(x) \/ Notice(x) \/ Client(x)

Spec == Init /\ [][Next]_vars

\* The event loop runs what can run, a write to the database ends, and a
\* connection that was closed is noticed.  A client that stays reads what has
\* arrived.  Of the model server nothing is assumed: the client's timeout is for
\* each read, so lines without end, or tokens without end, go on for ever.
FairSpec ==
    /\ Spec
    /\ \A x \in Exchanges : /\ WF_vars(Proceed(x)) /\ WF_vars(Notice(x))
                            /\ WF_vars(ReadFrame(x) \/ ReadEnd(x))

----------------------------------------------------------------------------
(* Properties *)

FrameKinds == {"meta", "text", "empty", "[DONE]", "error"}
Stages == {"idle", "complete", "read", "send", "log", "ended", "broken", "refused",
           "abandoned", "gone"}

\* Every variable has the values the program can give it.
TypeOK ==
    /\ settings \in Settings
    /\ gen \in [Exchanges ->
          [pc : Stages, endpoint : Endpoints, tokens : Nat, heard : {"more", "done", "over"},
           introduced : BOOLEAN, frames : Seq(FrameKinds), next : {"read", "log"},
           collected : Nat, text : BOOLEAN, status : {200, 502},
           raised : {"ended", "broken", "refused"}]]
    /\ wire \in [Exchanges -> Seq(FrameKinds)]
    /\ client \in [Exchanges -> [got : Nat, error : BOOLEAN,
                                 end : {"none", "left", "ended", "broken", "refused"}]]
    /\ logs \in [Exchanges -> Seq([response : Responses, status : {200, 502}])]

\* The stages and rows of Answering.
Stage(x) ==
    IF gen[x].pc = "idle" THEN "idle"
    ELSE IF client[x].end = "none" THEN "open"
    ELSE IF client[x].end = "ended" THEN "complete" ELSE "cut"

Promise == INSTANCE Answering WITH answer <- [x \in Exchanges |->
                     [stage |-> Stage(x), got |-> client[x].got,
                      row |-> IF logs[x] = <<>> THEN NoRow ELSE Last(logs[x]).response]]

\* Handlers, generators and parsers implement Answering, step by step: nothing
\* is delivered that a row lacks which says it is whole, and a client that has
\* read a 200 answer to its end has read what such a row holds, or more than is
\* in one that is marked as cut.
ImplementsPromise == Promise!Spec

Texts(frames) == Cardinality({k \in 1..Len(frames) : frames[k] = "text"})

\* Whoever hangs up, whatever fails, wherever the stream is cancelled: a request
\* is logged at most once, and as far as the log policy goes every token that was
\* put on the wire is in its row.  A row that is not marked as cut has them all,
\* one that is has as many as the policy keeps, and if bodies are logged none is
\* missing but that of an answer nobody was shown any of.
ShownIsLogged ==
    \A x \in Exchanges : logs[x] # <<>> =>
        LET kept == logs[x][1].response
            shown == client[x].got + Texts(wire[x]) IN
        /\ Len(logs[x]) = 1
        /\ kept.body = "whole" => shown <= kept.tokens
        /\ kept.body = "cut" => kept.tokens = settings.log_body_max_chars
        /\ kept.body = "none" /\ settings.log_prompt_bodies => shown = 0

\* A chat request is logged as failed exactly if the client that reads to the
\* end is told so -- unless the model server answered with null for a text,
\* which /v1/chat logs as 200 before ChatResponse refuses it.
StatusMatches ==
    \A x \in Exchanges :
        Chat(x) /\ gen[x].text /\ logs[x] # <<>> /\ client[x].end \in {"ended", "refused"} =>
            (logs[x][1].status = 502 <=> client[x].error \/ client[x].end = "refused")

\* Once the model server's answer is over, or failed, whoever stays gets to the
\* end of it or to an error; and a stream whose client went away is given up even
\* if the model server never comes to an end: no generator loops, none waits for
\* a client that has gone.
EveryAnswerEnds ==
    \A x \in Exchanges :
        gen[x].heard = "over" \/ (Streams(x) /\ client[x].end = "left") ~>
            client[x].end # "none" /\ gen[x].pc \in {"ended", "broken", "refused", "gone"}
=============================================================================
