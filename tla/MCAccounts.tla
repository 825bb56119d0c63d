----------------------------- MODULE MCAccounts -----------------------------
(***************************************************************************)
(* Instances of SellerVerification for TLC.                                *)
(***************************************************************************)
EXTENDS SellerVerification

CONSTANTS u1, u2, e1, g1, d1

FirstEmail == (g1 :> e1)

Known(role, google, p) ==
    [NoAccount EXCEPT !.state = "live", !.active = TRUE, !.role = role, !.email = e1,
                      !.google = google, !.verified = TRUE, !.password = p]

Table(account, dni, primaries) ==
    [user |-> (u1 :> account @@ u2 :> NoAccount),
     profile |-> (u1 :> [NoProfile EXCEPT !.dni = dni] @@ u2 :> NoProfile),
     primary |-> (u1 :> primaries @@ u2 :> 0)]

\* Nobody yet, a customer who came through Google and has a password, a customer
\* who has not verified the address, or a seller.
FromGoogle == {Table(Known("CUSTOMER", g1, p), NoDni, 0) : p \in Password}
Beginnings ==
    FromGoogle \cup {Table(NoAccount, NoDni, 0)}
               \cup {Table([Known("CUSTOMER", NoGoogle, p) EXCEPT !.verified = FALSE], NoDni, 0) : p \in Password}
               \cup {Table(Known("SELLER", NoGoogle, p), d1, 1) : p \in Password}

Symmetry == Permutations(Slot) \cup Permutations(Password)

=============================================================================
