------------------------- MODULE SellerVerification -------------------------
(***************************************************************************)
(* The verification of sellers, over their accounts: UsersService          *)
(* (upsertIdentityVerification, and transitionSeller behind the four       *)
(* administrator routes).  The four pictures are module Images' matter;    *)
(* the mail that goes with a notice never fails the handler and is left    *)
(* out.                                                                    *)
(***************************************************************************)
EXTENDS Accounts

VARIABLES
    identity,   \* table identity_verifications, per seller: its status, or "NONE"
    sellerLog,  \* table audit_logs: entries about a seller, in the order they commit
    told,       \* table notifications: the SELLER_* notices of a seller
    past        \* history: the statuses a profile has had, in the order they are written

svVars == <<identity, sellerLog, told, past>>
allVars == <<reqVars, accVars, svVars>>

Transition == [from : VerificationStatus, to : VerificationStatus]

SVInit ==
    /\ AccInit
    /\ identity = [u \in User |-> "NONE"]
    /\ sellerLog = [u \in User |-> <<>>]
    /\ told = [u \in User |-> <<>>]
    /\ past = [u \in User |-> <<profile[u].status>>]

HasProfile(u) == profile[u].dni # NoDni

\* A profile goes back to PENDING if it was REJECTED when the handler read it.
Reopens(status) == status = "REJECTED"

\* Mutation: the profile goes back before its documents are stored.
AfterUploadsHasty(status) ==
    IF Reopens(status) THEN <<"reopen", "upsertIdentity">> ELSE <<"upsertIdentity">>

\* The statements of upsertIdentityVerification, once its four pictures are up.
AfterUploads(status) ==
    IF Reopens(status) THEN <<"upsertIdentity", "reopen">> ELSE <<"upsertIdentity">>

SendDocuments(r, u) ==
    /\ HasProfile(u)
    /\ Begin(r, AfterUploads(profile[u].status), For(u))

\* Mutation: the seller is told first.
AfterTransitionHasty(status, known) ==
    <<"notify", "setStatus">> \o (IF known THEN <<"setIdentity">> ELSE <<>>) \o <<"logStatus">>

\* The statements of transitionSeller, and of suspendSeller after it.
AfterTransition(status, known) ==
    <<"setStatus">> \o (IF known THEN <<"setIdentity">> ELSE <<>>) \o <<"logStatus">>
        \o (IF status = "UNDER_REVIEW" THEN <<>> ELSE <<"notify">>)
        \o (IF status = "SUSPENDED" THEN <<"revokeAll">> ELSE <<>>)

TransitionSeller(r, u, status) ==
    /\ HasProfile(u)
    /\ Begin(r, AfterTransition(status, identity[u] # "NONE"),
             [For(u) EXCEPT !.status = status, !.previous = profile[u].status])

SetStatus(r, s, status) ==
    /\ At(r, s)
    /\ profile' = [profile EXCEPT ![req[r].arg.user].status = status]
    /\ past' = [past EXCEPT ![req[r].arg.user] = Append(@, status)]
    /\ Advance(r)
    /\ UNCHANGED <<user, primary, token, accountLog, identity, sellerLog, told>>

SetIdentity(r, s, status) ==
    /\ At(r, s)
    /\ identity' = [identity EXCEPT ![req[r].arg.user] = status]
    /\ Advance(r)
    /\ UNCHANGED <<accVars, sellerLog, told, past>>

LogStatus(r) ==
    LET arg == req[r].arg IN
    /\ At(r, "logStatus")
    /\ sellerLog' = [sellerLog EXCEPT ![arg.user] =
                        Append(@, [from |-> arg.previous, to |-> arg.status])]
    /\ Advance(r)
    /\ UNCHANGED <<accVars, identity, told, past>>

Notify(r) ==
    LET arg == req[r].arg IN
    /\ At(r, "notify")
    /\ told' = [told EXCEPT ![arg.user] = Append(@, arg.status)]
    /\ Advance(r)
    /\ UNCHANGED <<accVars, identity, sellerLog, past>>

VerificationStep(r) ==
    \/ SetStatus(r, "setStatus", req[r].arg.status) \/ SetStatus(r, "reopen", "PENDING")
    \/ SetIdentity(r, "upsertIdentity", "PENDING") \/ SetIdentity(r, "setIdentity", req[r].arg.status)
    \/ LogStatus(r) \/ Notify(r)

StartVerification(r) ==
    \E u \in User :
        \/ SendDocuments(r, u)
        \/ \E status \in VerificationStatus \ {"PENDING"} : TransitionSeller(r, u, status)

SVNext ==
    \/ AccNext /\ UNCHANGED svVars
    \/ \E r \in Slot : (StartVerification(r) /\ UNCHANGED <<accVars, svVars>>) \/ VerificationStep(r)

SVSpec == SVInit /\ [][SVNext]_allVars

---------------------------------------------------------------------------
(* Properties.                                                             *)

\* The tables hold rows of the shape the schema declares.
AccTypeOK ==
    /\ user \in [User -> Account]
    /\ profile \in [User -> SellerProfile]
    /\ primary \in [User -> Nat]
    /\ token \in [Token -> Session]
    /\ accountLog \in [User -> Seq(AccountAction)]
    /\ identity \in [User -> VerificationStatus \cup {"NONE"}]
    /\ sellerLog \in [User -> Seq(Transition)]
    /\ told \in [User -> Seq(VerificationStatus)]
    /\ past \in [User -> Seq(VerificationStatus)]

Works(t) == token[t].user # NoUser /\ ~token[t].revoked

\* Refresh tokens rotate: while requests do not overlap, a login has at most one
\* session that still works, however often it is renewed.  (Two refreshes with
\* one token that overlap both pass the check and leave two.)
OneSessionPerLogin ==
    smooth => \A t, s \in Token :
        Works(t) /\ Works(s) /\ token[t].login = token[s].login => t = s

\* Once a password has been changed or reset, only sessions opened with the new
\* one work, unless requests have overlapped: a login that has compared the old
\* password opens its session after the others are revoked.
SessionsDieWithPassword ==
    smooth /\ AllRest =>
        \A t \in Token : Works(t) => token[t].password = user[token[t].user].password

\* However requests interleave and fail, a session that was issued after its
\* account was deleted is never exchanged for another: refresh reads the user
\* after the token and before it writes anything.
NoHeirAfterDeletion ==
    \A t \in Token : token[t].from # NoToken => ~token[token[t].from].late

\* A seller's account never exists without its profile and its location, though
\* any statement may fail: the three rows are inserted together.  Their DNIs
\* differ, whatever two registrations have read, and while requests do not
\* overlap nobody has two primary locations.
SellersAreComplete ==
    \A u \in User :
        /\ user[u].role = "SELLER" => HasProfile(u) /\ primary[u] >= 1
        /\ \A v \in User \ {u} : HasProfile(u) => profile[u].dni # profile[v].dni
        /\ smooth => primary[u] <= 1

\* However requests interleave and fail, a profile goes back to PENDING only
\* after an administrator rejected it, and with documents on record to review.
\* (The handler writes PENDING by id after uploading four pictures: if the seller
\* is suspended meanwhile, its documents lift the suspension.)  While requests
\* neither overlap nor fail, the rejection is the last decision, and documents
\* sent to a rejected profile reopen it: those on record have the profile's
\* status or await review, and never await it under a profile left rejected.
ReopeningsAreFounded ==
    \A u \in User :
        /\ \A i \in 2 .. Len(past[u]) : past[u][i] = "PENDING" =>
              /\ identity[u] # "NONE"
              /\ \E k \in 1 .. i - 1 : past[u][k] = "REJECTED"
              /\ smooth => past[u][i - 1] = "REJECTED"
        /\ smooth /\ AllRest =>
              \/ identity[u] \in {"NONE", profile[u].status}
              \/ identity[u] = "PENDING" /\ profile[u].status # "REJECTED"

Times(x, s) == Cardinality({i \in DOMAIN s : s[i] = x})
LoggedAs(u, status) == Cardinality({i \in DOMAIN sellerLog[u] : sellerLog[u][i].to = status})

\* A seller is told of a decision only after it was audited, whatever fails.
\* While requests neither overlap nor fail, the audit log of a seller is a chain
\* that ends at its status, but for reopenings, which are not audited, and the
\* last entry about an account says whether it is open.
DecisionsAreAudited ==
    \A u \in User :
        /\ \A status \in VerificationStatus : Times(status, told[u]) <= LoggedAs(u, status)
        /\ LET log == sellerLog[u]
               Follows(status, row) == \/ status = row.to
                                       \/ row.to = "REJECTED" /\ status = "PENDING"
           IN smooth /\ AllRest =>
                /\ \A i \in 1 .. Len(log) - 1 : Follows(log[i + 1].from, log[i])
                /\ log # <<>> => Follows(profile[u].status, Last(log))
                /\ accountLog[u] # <<>> /\ Live(u) =>
                      user[u].active = (Last(accountLog[u]) = "USER_ACTIVATED")

\* What users.service.ts:164-167 says of the address of a deleted account: it is
\* free, and the same person may register with it again.  A registration that
\* found its address free is then not refused by the unique columns.
FreedAddressIsUsable ==
    smooth => \A r \in Slot :
        At(r, "insert") \/ At(r, "insertSeller") => ~Clashes(req[r].arg.new)

=============================================================================
