----------------------------- MODULE MCFinance -----------------------------
(***************************************************************************)
(* Instances of Finance for TLC.                                           *)
(***************************************************************************)
EXTENDS Finance, TLC

CONSTANT m1

NothingConfigured == {<<>>}
FiveOrNothing == NothingConfigured \cup {<<[percentage |-> 5, active |-> TRUE, from |-> 0]>>}
NoEdit == {}

OtherOnly == {m1 :> [provider |-> "OTHER", active |-> TRUE]}

\* Bound of the overlapping requests: one status is filed on a transaction, and
\* nothing about payment methods.
Few == \A f \in Filing :
    /\ filing[f].method = NoMethod
    /\ filing[f].pc = "status" => statusAudit[filing[f].order] = <<>>

FewSpec == FinInit /\ [][FinNext /\ Few']_finVars

=============================================================================
