--------------------------- MODULE SlidingWindow ---------------------------
(***************************************************************************)
(* What a rate limiter of the gateway promises, whatever keeps its state:  *)
(* in any span consecutive ticks of real time an identity is admitted at   *)
(* most Limit times.  A limiter whose store is lost starts a new budget    *)
(* (Forget); the promise is about the admissions since then.               *)
(* RateLimiter is shown to implement this module with either back end,     *)
(* each with the span its clock and its transport allow.                   *)
(***************************************************************************)
EXTENDS Integers, Sequences, FiniteSets

CONSTANTS
    Identities,     \* the identities that have a limit ("key:7", "ip:10.0.0.1")
    Limit           \* Limit[i]: admissions identity i may have in a window

VARIABLES
    span,           \* the length of the window, in ticks of real time, for good
    now,            \* real time
    admitted,       \* admitted[i]: the times of i's admissions, in order
    base            \* base[i]: how many of them preceded the last loss of state

vars == <<span, now, admitted, base>>

----------------------------------------------------------------------------

\* The admissions of i, by position, that still count and lie in (t - span, t].
InWindow(i, t) ==
    {j \in (base[i] + 1)..Len(admitted[i]) :
        t - span < admitted[i][j] /\ admitted[i][j] <= t}

Init ==
    /\ span \in Int
    /\ now = 0
    /\ admitted = [i \in Identities |-> <<>>]
    /\ base = [i \in Identities |-> 0]

Advance ==
    /\ now' = now + 1
    /\ UNCHANGED <<span, admitted, base>>

Admit(i) ==
    /\ Cardinality(InWindow(i, now)) < Limit[i]
    /\ admitted' = [admitted EXCEPT ![i] = Append(@, now)]
    /\ UNCHANGED <<span, now, base>>

Forget ==
    /\ base' = [i \in Identities |-> Len(admitted[i])]
    /\ UNCHANGED <<span, now, admitted>>

Next == Advance \/ Forget \/ \E i \in Identities : Admit(i)

Spec == Init /\ [][Next]_vars

----------------------------------------------------------------------------

\* In no span ticks, the present or any past ones, has an identity been
\* admitted more than Limit times on the strength of one store.
BudgetKept ==
    \A i \in Identities : \A t \in 0..now :
        Cardinality(InWindow(i, t)) <= Limit[i]
============================================================================
