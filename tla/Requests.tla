------------------------------ MODULE Requests ------------------------------
(***************************************************************************)
(* How a handler runs: it reads and decides in one step, and then issues   *)
(* its remaining statements one by one, each in a step of its own, while   *)
(* other handlers do the same.  A statement may fail, or the process die:  *)
(* the handler ends there and what it has written stays.                   *)
(***************************************************************************)
EXTENDS Platform

CONSTANTS
    Slot,           \* slots for requests that overlap
    NoArgs,         \* what an idle slot holds
    MaxRequests,    \* bound: no request begins after so many,
    MaxClashing     \* nor after so many once two overlap or one has failed

ASSUME RequestsAssumption == IsFiniteSet(Slot) /\ MaxRequests \in Nat /\ MaxClashing \in Nat

VARIABLES
    req,        \* per slot: the statements still to issue, and the values they use
    smooth,     \* history: no two requests have overlapped so far and none has failed
    begun       \* how many requests have begun

reqVars == <<req, smooth, begun>>

Idle == [todo |-> <<>>, arg |-> NoArgs]

ReqInit ==
    /\ req = [r \in Slot |-> Idle]
    /\ smooth = TRUE
    /\ begun = 0

Resting(r) == req[r].todo = <<>>
AllRest == \A r \in Slot : Resting(r)

\* One more request.
Count ==
    /\ smooth' = (smooth /\ AllRest)
    /\ begun' = begun + 1
    /\ begun' <= IF smooth' THEN MaxRequests ELSE MaxClashing

\* A request that has read what it needs and found that it may go on.
Begin(r, todo, arg) ==
    /\ Resting(r)
    /\ Count
    /\ req' = [req EXCEPT ![r] = [todo |-> todo, arg |-> arg]]

\* A request that is one statement.
AtOnce == Count /\ UNCHANGED req

\* The next statement of r is s.
At(r, s) == ~Resting(r) /\ Head(req[r].todo) = s

\* r goes on with todo.
Proceed(r, todo, arg) ==
    /\ req' = [req EXCEPT ![r] = IF todo = <<>> THEN Idle ELSE [todo |-> todo, arg |-> arg]]
    /\ UNCHANGED <<smooth, begun>>

\* The statement is done; the rest of the handler uses arg.
AdvanceWith(r, arg) == Proceed(r, Tail(req[r].todo), arg)

Advance(r) == AdvanceWith(r, req[r].arg)

\* The handler throws: a check refuses the request, or a constraint the statement.
Quit(r) ==
    /\ req' = [req EXCEPT ![r] = Idle]
    /\ UNCHANGED <<smooth, begun>>

\* A statement that should have succeeded fails.
Break(r) ==
    /\ Faults
    /\ ~Resting(r)
    /\ req' = [req EXCEPT ![r] = Idle]
    /\ smooth' = FALSE
    /\ UNCHANGED begun

=============================================================================
