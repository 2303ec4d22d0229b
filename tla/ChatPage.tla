------------------------------ MODULE ChatPage ------------------------------
(***************************************************************************)
(* The chat page (web/templates/chat.html) in the tabs of one browser.     *)
(* The conversations and the id of the active one are in localStorage,     *)
(* which the tabs share; a tab has only the exchange whose answer it is    *)
(* reading.  What the gateway does is Answering, which ChatStream is shown *)
(* to implement.  Script runs to its next await: a handler is one step.    *)
(***************************************************************************)
EXTENDS Requests, Integers, SequencesExt

CONSTANTS
    MaxTurns,       \* the 12 of slice(-12) and of format_history's max_turns
    Tabs,           \* tabs of the browser with the page open
    Convos,         \* ids that uid() may give
    Unused,         \* no conversation has had this id yet
    Deleted,
    NoConvo,        \* LS.active = ''
    NoExchange      \* the tab is not streaming

Messages == [role : {"user", "assistant"}, of : Exchanges, text : 0..MaxTokens]

ASSUME PageAssumption ==
    /\ NoConvo \notin Convos /\ NoExchange \notin Exchanges
    /\ MaxTokens \in Nat /\ MaxTurns \in Nat \ {0} /\ NoRow \notin Responses
    /\ Unused \notin Seq(Messages) /\ Deleted \notin Seq(Messages)

VARIABLES
    answer,         \* answer[x]: see Answering; got is the page's variable answer
    convos,         \* LS.convos: Unused, Deleted or the messages
    active,         \* LS.active
    reads,          \* reads[t]: the exchange t is streaming, or NoExchange
    home,           \* history: home[x], the conversation x was asked in
    quiet           \* history: exchanges since whose question nobody touched the chats

pageVars == <<answer, convos, active, reads, home, quiet>>

----------------------------------------------------------------------------

Gateway == INSTANCE Answering

Stored(c) == c \in Convos /\ convos[c] \notin {Unused, Deleted}

\* Fault: the page has a name of its own for the role.
MessageOfBot(role, x, text) ==
    [role |-> IF role = "user" THEN role ELSE "bot", of |-> x, text |-> text]

Message(role, x, text) == [role |-> role, of |-> x, text |-> text]

PageInit ==
    /\ Gateway!AnsweringInit
    /\ convos = [c \in Convos |-> Unused]
    /\ active = NoConvo
    /\ reads = [t \in Tabs |-> NoExchange]
    /\ home = [x \in Exchanges |-> NoConvo]
    /\ quiet = {}

Spoken(m) == m.role = "user" \/ m.text > 0

\* What the next question in a conversation takes along: of its turns that are
\* not empty the last MaxTurns.  The page and, again, format_history choose them.
History(turns) ==
    LET upto[k \in 0..Len(turns)] ==
            IF k = 0 THEN <<>>
            ELSE upto[k - 1] \o (IF Spoken(turns[k]) THEN <<turns[k]>> ELSE <<>>)
        said == upto[Len(turns)]
        from == IF Len(said) > MaxTurns THEN Len(said) - MaxTurns + 1 ELSE 1 IN
    SubSeq(said, from, Len(said))

\* send(): the question and an empty answer are saved in the active
\* conversation, or in a new one, and the request is made.
Send(t, x, c) ==
    /\ reads[t] = NoExchange
    /\ IF Stored(active) THEN c = active ELSE convos[c] = Unused
    /\ Gateway!Ask(x)
    /\ convos' = [convos EXCEPT ![c] = (IF Stored(c) THEN @ ELSE <<>>)
                      \o <<Message("user", x, 0), Message("assistant", x, 0)>>]
    /\ active' = c
    /\ reads' = [reads EXCEPT ![t] = x]
    /\ home' = [home EXCEPT ![x] = c]
    /\ quiet' = IF \A u \in Tabs : reads[u] = NoExchange THEN {x} ELSE {}

\* Fault: the answer is added to the conversation, not put into its last message.
UpdatedByAdding(x, text) ==
    IF ~Stored(active) THEN convos
    ELSE [convos EXCEPT ![active] = Append(@, Message("assistant", x, text))]

\* updateLastAssistant: into the conversation that is active by now.
Updated(x, text) ==
    IF ~Stored(active) THEN convos
    ELSE IF Last(convos[active]).role = "assistant"
    THEN [convos EXCEPT ![active] = Front(@) \o <<Message("assistant", x, text)>>]
    ELSE [convos EXCEPT ![active] = Append(@, Message("assistant", x, text))]

Show(t) ==
    /\ reads[t] # NoExchange
    /\ Gateway!Deliver(reads[t])
    /\ UNCHANGED <<convos, active, reads, home, quiet>>

\* Fault: an answer that was cut off is not stored.
FinishIfComplete(t) ==
    LET x == reads[t] IN
    /\ x # NoExchange
    /\ Gateway!Complete(x) \/ Gateway!CutOff(x)
    /\ convos' = IF answer'[x].stage = "complete" THEN Updated(x, answer[x].got) ELSE convos
    /\ reads' = [reads EXCEPT ![t] = NoExchange]
    /\ UNCHANGED <<active, home, quiet>>

\* The body ends, or is cut off, or an error frame or status is thrown: what
\* was received is stored, and the input unlocked.
Finish(t) ==
    LET x == reads[t] IN
    /\ x # NoExchange
    /\ Gateway!Complete(x) \/ Gateway!CutOff(x)
    /\ convos' = Updated(x, answer[x].got)
    /\ reads' = [reads EXCEPT ![t] = NoExchange]
    /\ UNCHANGED <<active, home, quiet>>

\* The page is closed or loaded anew while it streams.
Reload(t) ==
    /\ reads[t] # NoExchange
    /\ Gateway!CutOff(reads[t])
    /\ reads' = [reads EXCEPT ![t] = NoExchange]
    /\ quiet' = quiet \ {reads[t]}
    /\ UNCHANGED <<convos, active, home>>

\* newChat(), a click on a recent chat (which another tab may have deleted) or a
\* search for one, in any tab.
Activate(c) ==
    /\ c # NoConvo => convos[c] # Unused
    /\ c # active
    /\ active' = c
    /\ quiet' = {}
    /\ UNCHANGED <<answer, convos, reads, home>>

\* The x on a recent chat.
Delete(c) ==
    /\ Stored(c)
    /\ convos' = [convos EXCEPT ![c] = Deleted]
    /\ active' = IF active = c THEN NoConvo ELSE active
    /\ quiet' = {}
    /\ UNCHANGED <<answer, reads, home>>

\* The gateway logs the request.
Log(x) ==
    /\ Gateway!Record(x)
    /\ UNCHANGED <<convos, active, reads, home, quiet>>

PageNext ==
    \/ \E t \in Tabs : \/ \E x \in Exchanges, c \in Convos : Send(t, x, c)
                       \/ Show(t) \/ Finish(t) \/ Reload(t)
    \/ \E c \in Convos : Delete(c)
    \/ \E c \in Convos \cup {NoConvo} : Activate(c)
    \/ \E x \in Exchanges : Log(x)

PageSpec == PageInit /\ [][PageNext]_pageVars

----------------------------------------------------------------------------
(* Properties *)

\* Every variable has the values the program can give it.
PageTypeOK ==
    /\ answer \in [Exchanges -> [stage : {"idle", "open", "complete", "cut"},
                                 got : 0..MaxTokens, row : {NoRow} \cup Responses]]
    /\ \A c \in Convos : Stored(c) => convos[c] \in Seq(Messages)
    /\ active \in Convos \cup {NoConvo}
    /\ reads \in [Tabs -> Exchanges \cup {NoExchange}]
    /\ home \in [Exchanges -> Convos \cup {NoConvo}]
    /\ quiet \subseteq Exchanges

\* Whatever the tabs do to one another's chats while answers stream in, every
\* stored conversation goes on alternating, user first: it can be sent as the
\* history of the next question.
TurnsAlternate ==
    \A c \in Convos : Stored(c) =>
        /\ Len(convos[c]) % 2 = 0
        /\ \A k \in 1..Len(convos[c]) :
              convos[c][k].role = IF k % 2 = 1 THEN "user" ELSE "assistant"

\* What the browser keeps of an answer, the operator's log has, unless it says
\* that it was cut or left out: no message holds more than a whole row for its
\* request.
KeptIsLogged ==
    \A c \in Convos : Stored(c) =>
        \A k \in 1..Len(convos[c]) :
            LET m == convos[c][k]
                row == answer[m.of].row IN
            row # NoRow /\ row.body = "whole" => m.text <= row.tokens

\* The answer to a question since which nobody touched the chats ends up under
\* that question with all that was received of it, cut off or complete, and is
\* the latest the next question takes along, unless it is empty.
AnswerLands ==
    [][\A t \in Tabs :
          LET x == reads[t] IN
          reads'[t] # x /\ x \in quiet' =>
              LET turns == convos'[home[x]] IN
              /\ Last(Front(turns)) = Message("user", x, 0)
              /\ Last(turns) = Message("assistant", x, answer'[x].got)
              /\ Last(History(turns)) =
                    Message(IF answer'[x].got > 0 THEN "assistant" ELSE "user", x, answer'[x].got)]_pageVars

\* "prior turns of THIS conversation" (chat.html): what a question takes along
\* was asked, or answers what was asked, in the conversation it is asked in.
HistoryIsOfThisConversation ==
    \A c \in Convos : Stored(c) =>
        \A k \in 1..Len(History(convos[c])) : home[History(convos[c])[k].of] = c
=============================================================================
