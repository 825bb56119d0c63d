---------------------------- MODULE MCPayments -----------------------------
(***************************************************************************)
(* Instances of Payments for TLC.                                          *)
(***************************************************************************)
EXTENDS Payments, TLC

CONSTANTS p1, p2, s1, s2, m1

OneSeller == (p1 :> s1)
TwoSellers == (p1 :> s1 @@ p2 :> s2)
OneUnit == {(p1 :> 1)}
OneOrBoth == {(p1 :> 1 @@ p2 :> 1), (p1 :> 1 @@ p2 :> 0)}

NoEdits == {}
NoMethodEdits == {}

FivePercent == {<<[percentage |-> 5, active |-> TRUE, from |-> 0]>>}
PaypalMethod == {(m1 :> [provider |-> "PAYPAL", active |-> TRUE])}

=============================================================================
