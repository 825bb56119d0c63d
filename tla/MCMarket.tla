------------------------------ MODULE MCMarket ------------------------------
(***************************************************************************)
(* Instances of Cart, Community, Images, PaypalClient and Seed for TLC.    *)
(* These parts of the system share no state: a behaviour is one of one of  *)
(* them, its scene, while the others rest.                                 *)
(***************************************************************************)
EXTENDS Cart, Community, Images, PaypalClient, Seed, TLC

CONSTANTS i1, o1

FirstOrder == (i1 :> o1)

VARIABLE scene

marketVars == <<scene, reqVars, cartVars, comVars, imgVars, ppVars, seedVars>>

MarketInit ==
    /\ scene \in {"cart", "community", "images", "paypal", "seed"}
    /\ ReqInit /\ CartInit /\ CommunityInit /\ ImagesInit /\ PaypalInit /\ SeedInit
    /\ scene # "cart" => \A c \in Cart : cart[c].owner = None
    /\ scene # "cart" \/ cart[1].owner # None => \A p \in Product : shelf[p].price = 1
    /\ scene # "community" => world.delivered = {}

MarketNext ==
    \/ scene = "cart" /\ CartNext /\ UNCHANGED <<scene, comVars, imgVars, ppVars, seedVars>>
    \/ scene = "community" /\ CommunityNext /\ UNCHANGED <<scene, cartVars, imgVars, ppVars, seedVars>>
    \/ scene = "images" /\ ImagesNext /\ UNCHANGED <<scene, cartVars, comVars, ppVars, seedVars>>
    \/ scene = "paypal" /\ PaypalNext /\ UNCHANGED <<scene, cartVars, comVars, imgVars, seedVars>>
    \/ scene = "seed" /\ SeedNext /\ UNCHANGED <<scene, reqVars, cartVars, comVars, imgVars, ppVars>>

MarketSpec == MarketInit /\ [][MarketNext]_marketVars

\* The tables, the store and the cache hold what their declarations allow.
MarketTypeOK ==
    /\ CartTypeOK
    /\ CommunityTypeOK
    /\ ImagesTypeOK
    /\ PaypalTypeOK
    /\ SeedTypeOK

Symmetry ==
    UNION {Permutations(Slot), Permutations(Product), Permutations(Setting), Permutations(Document)}

=============================================================================
