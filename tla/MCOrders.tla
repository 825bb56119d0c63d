------------------------------ MODULE MCOrders ------------------------------
(***************************************************************************)
(* Instances of Orders for TLC.                                            *)
(***************************************************************************)
EXTENDS Orders, TLC

CONSTANTS p1, p2, s1, s2, m1

\* Two products of two sellers: a cart with both makes two orders.
TwoSellers == (p1 :> s1 @@ p2 :> s2)
OneSeller == (p1 :> s1)

OneOfEach == {(p1 :> 1 @@ p2 :> 1)}
OneOrBoth == OneOfEach \cup {(p1 :> 1 @@ p2 :> 0)}
OneUnit == {(p1 :> 1)}
OneOrTwoUnits == {(p1 :> 1), (p1 :> 2)}

NoEdits == {}
NoMethodEdits == {}
StatusEditsOnly == {{"status"}}

NothingConfigured == {<<>>}
NoMethodYet == {NoMethods}
FivePercent == {<<[percentage |-> 5, active |-> TRUE, from |-> 0]>>}
FiveOrNothing == FivePercent \cup {<<>>}
OtherMethod == {(m1 :> [provider |-> "OTHER", active |-> TRUE])}

Symmetry == Permutations(OrderId) \cup Permutations(Call)

=============================================================================
