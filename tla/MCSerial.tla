------------------------------ MODULE MCSerial ------------------------------
(***************************************************************************)
(* Instances of Inventory and Finance for TLC, with requests that do not   *)
(* overlap.  The two share no state but what Orders does with both: a      *)
(* behaviour is one of one of them, its scene, while the other rests.      *)
(***************************************************************************)
EXTENDS Inventory, Finance

HideOrPrice == {{"status"}, {"price"}}
NothingConfigured == {<<>>}
NoMethodYet == {NoMethods}

VARIABLE scene

SceneInit ==
    /\ InvInit /\ FinInit
    /\ scene \in {"stock", "finance"}
    /\ scene = "finance" => \A p \in Product : product[p] = NoRow /\ price[p] = 5

SceneNext ==
    \/ scene = "stock" /\ InvNext /\ OneJob' /\ UNCHANGED <<scene, finVars>>
    \/ scene = "finance" /\ FinNext /\ OneAdmin' /\ UNCHANGED <<scene, invVars>>

SceneSpec == SceneInit /\ [][SceneNext]_<<scene, invVars, finVars>>

Symmetry == Permutations(StockJob) \cup Permutations(Filing)

=============================================================================
