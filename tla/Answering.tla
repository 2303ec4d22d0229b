------------------------------ MODULE Answering ------------------------------
(***************************************************************************)
(* What the answering endpoints promise their clients and their operator:  *)
(* an answer is delivered token by token, and its row in request_logs is   *)
(* written at most once.  The log policy may keep the answer out of its    *)
(* row, or cut it, which the row then shows.  A row that is whole lacks no *)
(* token that is delivered, and is what a client has who has read it all.  *)
(* Who is cut off, by a failure or by going away, may have no row, or one  *)
(* that says more.  ChatStream is shown to implement this module; ChatPage *)
(* builds on it.                                                           *)
(***************************************************************************)
EXTENDS Requests

VARIABLE
    answer          \* answer[x]: how far x is, what its client has, what is logged

----------------------------------------------------------------------------

AnsweringInit ==
    answer = [x \in Exchanges |-> [stage |-> "idle", got |-> 0, row |-> NoRow]]

Ask(x) ==
    /\ answer[x].stage = "idle"
    /\ answer' = [answer EXCEPT ![x].stage = "open"]

\* Fault: a token may be delivered that a whole row lacks.
DeliverUnlogged(x) ==
    /\ answer[x].stage = "open" /\ answer[x].got < MaxTokens
    /\ answer' = [answer EXCEPT ![x].got = @ + 1]

Deliver(x) ==
    /\ answer[x].stage = "open" /\ answer[x].got < MaxTokens
    /\ (answer[x].row # NoRow /\ answer[x].row.body = "whole" =>
            answer[x].got < answer[x].row.tokens)
    /\ answer' = [answer EXCEPT ![x].got = @ + 1]

\* The row is of what was produced, some of which may be on its way.
Record(x) ==
    /\ answer[x].stage # "idle" /\ answer[x].row = NoRow
    /\ \E n \in answer[x].got..MaxTokens : \E r \in ResponsesTo(n) :
          answer' = [answer EXCEPT ![x].row = r]

Complete(x) ==
    /\ answer[x].stage = "open" /\ answer[x].row # NoRow
    /\ answer[x].row.body = "whole" => answer[x].got = answer[x].row.tokens
    /\ answer[x].row.body = "cut" => answer[x].got > answer[x].row.tokens
    /\ answer' = [answer EXCEPT ![x].stage = "complete"]

CutOff(x) ==
    /\ answer[x].stage = "open"
    /\ answer' = [answer EXCEPT ![x].stage = "cut"]

Next == \E x \in Exchanges : Ask(x) \/ Deliver(x) \/ Record(x) \/ Complete(x) \/ CutOff(x)

Spec == AnsweringInit /\ [][Next]_answer
==============================================================================
