----------------------------- MODULE OrderBook -----------------------------
(***************************************************************************)
(* What the shop promises about orders and stock, with no handler, step or *)
(* table in sight: an order is placed, advances or is cancelled in one     *)
(* atomic act, and stock goes down and up with it by the order's items.    *)
(***************************************************************************)
EXTENDS Integers

CONSTANTS OrderId, Product

VARIABLES
    status,     \* of each order; "NONE" before it is placed
    items,      \* the quantity of each product it is for
    stock       \* of each product

vars == <<status, items, stock>>

Unplaced == {o \in OrderId : status[o] = "NONE"}

Init ==
    /\ status = [o \in OrderId |-> "NONE"]
    /\ items = [o \in OrderId |-> [p \in Product |-> 0]]
    /\ stock \in [Product -> Nat]

Takes(o, p) == stock'[p] = stock[p] - items'[o][p]

\* One cart becomes one or more orders, all of them together; no product is
\* split between them, and the stock suffices.
Place ==
    \E new \in (SUBSET Unplaced) \ {{}} :
        /\ status' = [o \in OrderId |-> IF o \in new THEN "PENDING" ELSE status[o]]
        /\ items' \in [OrderId -> [Product -> Nat]]
        /\ \A o \in OrderId \ new : items'[o] = items[o]
        /\ stock' \in [Product -> Nat]
        /\ \A p \in Product : \E o \in new : Takes(o, p) /\ \A u \in new \ {o} : items'[u][p] = 0

Successor == [PENDING |-> "CONFIRMED", CONFIRMED |-> "PREPARING", PREPARING |-> "DELIVERED"]
Open == {o \in OrderId : status[o] \in DOMAIN Successor}

Advance(o) ==
    /\ o \in Open
    /\ status' = [status EXCEPT ![o] = Successor[status[o]]]
    /\ UNCHANGED <<items, stock>>

Cancel(o) ==
    /\ o \in Open
    /\ status' = [status EXCEPT ![o] = "CANCELLED"]
    /\ stock' = [p \in Product |-> stock[p] + items[o][p]]
    /\ UNCHANGED items

\* The seller's own doing.
Supply(p) ==
    /\ stock' \in [Product -> Nat]
    /\ \A q \in Product \ {p} : stock'[q] = stock[q]
    /\ UNCHANGED <<status, items>>

Next ==
    \/ Place
    \/ \E o \in OrderId : Advance(o) \/ Cancel(o)
    \/ \E p \in Product : Supply(p)

Spec == Init /\ [][Next]_vars

=============================================================================
