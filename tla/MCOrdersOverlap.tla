-------------------------- MODULE MCOrdersOverlap --------------------------
(***************************************************************************)
(* Overlapping requests about orders, in two scenes: in "orders" two order *)
(* requests overlap with each other and with an administrator's, in        *)
(* "stock" at most one order request overlaps with the seller's stock      *)
(* requests.                                                               *)
(***************************************************************************)
EXTENDS MCOrders

VARIABLE scene

Jobs == {j \in StockJob : job[j].pc # "idle"}
Filings == {f \in Filing : filing[f].pc # "idle"}
Calls == {c \in Call : call[c].pc # "idle"}

SceneInit ==
    /\ Init
    /\ scene \in {"orders", "stock"}
    /\ scene = "orders" => \A p \in Product : product[p].stock = 2
    /\ scene = "stock" =>
          /\ commission = <<>>
          /\ \A p \in Product : product[p].status # "NONE"
          /\ \A k \in CartId, p \in Product : cart[k].items[p] = 2

\* Bounds of the scene "stock": two requests in flight, two changes of an order,
\* and once there is an order one of the seller's requests at a time, if the
\* seller has made no movement yet.
Few ==
    /\ Filings = {}
    /\ Cardinality(Calls) <= 1 /\ Cardinality(Calls) + Cardinality(Jobs) <= 2
    /\ (\E o \in OrderId : order[o].status # "NONE") =>
          /\ Cardinality(Jobs) <= 1
          /\ \A j \in Jobs : \A i \in 1 .. Len(movement[job[j].p]) :
                movement[job[j].p][i].order # NoOrder
    /\ \A c \in Call : call[c].pc \in {"read", "commit"} => Len(history[call[c].order]) < 3

SceneNext ==
    /\ Next
    /\ UNCHANGED scene
    /\ scene = "orders" => Jobs' = {} /\ UNCHANGED price
    /\ scene = "stock" => Few'

SceneSpec == SceneInit /\ [][SceneNext]_<<vars, scene>>

Interchangeable == Symmetry \cup Permutations(StockJob) \cup Permutations(Buyer)

=============================================================================
