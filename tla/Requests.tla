------------------------------ MODULE Requests ------------------------------
(***************************************************************************)
(* The requests to the answering endpoints: what Answering, ChatStream and *)
(* ChatPage speak of in common.                                            *)
(***************************************************************************)
EXTENDS Integers

CONSTANTS
    Exchanges,      \* requests to the endpoints, each made once
    NoRow,          \* nothing is logged of an exchange
    MaxTokens       \* bound: tokens of an answer that are explored

\* What a row of request_logs may hold as the response: None, all of an answer,
\* or the beginning of one, marked as truncated.
Responses == [body : {"none", "whole", "cut"}, tokens : Nat]

\* Of an answer of n tokens, depending on the log policy.
ResponsesTo(n) ==
    {r \in [body : {"none", "whole", "cut"}, tokens : 0..n] :
        /\ r.body = "none" => r.tokens = 0
        /\ r.body = "whole" => r.tokens = n
        /\ r.body = "cut" => r.tokens < n}
=============================================================================
