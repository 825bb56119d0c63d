------------------------------ MODULE Accounts ------------------------------
(***************************************************************************)
(* Accounts and sessions: AuthService (registration, login, refresh, codes *)
(* and passwords) and the part of UsersService that closes accounts.       *)
(*                                                                         *)
(* Hashing, JWT signing, mail and Google's check of an ID token are        *)
(* external.  Access tokens are not checked against the tables, so a       *)
(* request may name any account that exists.  A code or refresh token that *)
(* has expired is refused without a write, which is the same as not being  *)
(* presented: expiry needs no state.                                       *)
(***************************************************************************)
EXTENDS Requests, SequencesExt

CONSTANTS
    User, NoUser,           \* ids of user rows
    Email, NoEmail,         \* addresses; NoEmail is the one deletion leaves behind
    Google, NoGoogle,       \* Google identities
    EmailOf,                \* the verified address of each of them
    Password, NoPassword,
    Code, NoCode,           \* the six-digit codes
    Dni, NoDni,
    MaxTokens,              \* bound: how many refresh tokens are issued
    InitialTables           \* the users, profiles and locations a run starts from

ASSUME AccountsAssumption ==
    /\ NoUser \notin User /\ NoEmail \notin Email /\ NoGoogle \notin Google
    /\ NoPassword \notin Password /\ NoCode \notin Code
    /\ NoDni \notin Dni /\ MaxTokens \in Nat
    /\ EmailOf \in [Google -> Email]

\* Refresh tokens, in the order they are issued.
Token == 1 .. MaxTokens
NoToken == 0

VARIABLES
    user,       \* table users
    profile,    \* table seller_profiles, per user
    primary,    \* table locations: how many primary ones a user has
    token,      \* table refresh_tokens
    accountLog  \* table audit_logs: entries about a user, in the order they commit

accVars == <<user, profile, primary, token, accountLog>>

UserRole == {"CUSTOMER", "SELLER", "ADMIN"}
VerificationStatus == {"PENDING", "UNDER_REVIEW", "VERIFIED", "REJECTED", "SUSPENDED"}
AccountAction == {"USER_ACTIVATED", "USER_DEACTIVATED", "USER_DELETED"}

Account == [state : {"none", "live", "deleted"}, active : BOOLEAN, role : UserRole,
            email : Email \cup {NoEmail}, google : Google \cup {NoGoogle},
            verified : BOOLEAN, password : Password \cup {NoPassword},
            verifyCode : Code \cup {NoCode}, resetCode : Code \cup {NoCode}]

NoAccount == [state |-> "none", active |-> FALSE, role |-> "CUSTOMER", email |-> NoEmail,
              google |-> NoGoogle, verified |-> FALSE, password |-> NoPassword,
              verifyCode |-> NoCode, resetCode |-> NoCode]

SellerProfile == [dni : Dni \cup {NoDni}, status : VerificationStatus]
NoProfile == [dni |-> NoDni, status |-> "PENDING"]

\* The tables a run starts from are ones the schema and InsertSeller allow.
ASSUME InitialTablesAssumption ==
    \A t \in InitialTables :
        /\ t.user \in [User -> Account]
        /\ t.profile \in [User -> SellerProfile]
        /\ t.primary \in [User -> 0 .. 1]
        /\ \A u \in User :
              /\ t.user[u].role = "SELLER" => t.profile[u].dni # NoDni /\ t.primary[u] = 1
              /\ t.profile[u].dni # NoDni => t.user[u].state # "none"
              /\ \A v \in User \ {u} :
                    t.profile[u].dni # NoDni => t.profile[u].dni # t.profile[v].dni

\* A refresh token row, and its history: the token it was exchanged for, the
\* login it descends from, the password the account had when that login was let
\* in, and whether the account was deleted when the token was issued.
Session == [user : User \cup {NoUser}, revoked : BOOLEAN, from : Token \cup {NoToken},
            login : Token \cup {NoToken}, password : Password \cup {NoPassword},
            late : BOOLEAN]
NoSession == [user |-> NoUser, revoked |-> FALSE, from |-> NoToken, login |-> NoToken,
              password |-> NoPassword, late |-> FALSE]

\* What the statements of a handler use.
Args == [user : User \cup {NoUser}, new : Account, dni : Dni \cup {NoDni},
         password : Password \cup {NoPassword}, code : Code \cup {NoCode},
         token : Token \cup {NoToken}, active : BOOLEAN,
         status : VerificationStatus, previous : VerificationStatus]
Blank == [user |-> NoUser, new |-> NoAccount, dni |-> NoDni, password |-> NoPassword,
          code |-> NoCode, token |-> NoToken, active |-> FALSE,
          status |-> "PENDING", previous |-> "PENDING"]
For(u) == [Blank EXCEPT !.user = u]

AccInit ==
    /\ ReqInit
    /\ \E t \in InitialTables : user = t.user /\ profile = t.profile /\ primary = t.primary
    /\ token = [t \in Token |-> NoSession]
    /\ accountLog = [u \in User |-> <<>>]

---------------------------------------------------------------------------
(* Reads.  The soft-delete extension hides deleted users from findUnique,  *)
(* but not from the unique constraints nor from count.                     *)

Live(u) == user[u].state = "live"
Row(u) == user[u].state # "none"
ByEmail(e) == {u \in User : Live(u) /\ user[u].email = e}

MayLogIn(u) == user[u].active /\ user[u].verified

\* Mutation: refresh looks only at the token.
MayRenewAlways(u) == TRUE

MayRenew(u) == Live(u) /\ user[u].active

\* The codes isEmailVerificationCodeTaken and isPasswordResetCodeTaken find taken.
VerifyCodes == {user[u].verifyCode : u \in User}
ResetCodes == {user[u].resetCode : u \in User}

---------------------------------------------------------------------------
(* Requests.                                                               *)

NewAccount(role, e, p) ==
    [NoAccount EXCEPT !.state = "live", !.active = TRUE, !.role = role,
                      !.email = e, !.password = p]

RegisterBuyer(r, e, p) ==
    /\ ByEmail(e) = {}
    /\ Begin(r, <<"chooseVerify", "insert">>,
             [Blank EXCEPT !.new = NewAccount("CUSTOMER", e, p)])

\* Mutation: the rows of a seller are inserted one by one.
SellerInsertsApart == <<"chooseVerify", "insert", "insertProfile">>

\* One transaction inserts the user, its location and its profile.
SellerInserts == <<"chooseVerify", "insertSeller">>

RegisterSeller(r, e, p, d) ==
    /\ ByEmail(e) = {}
    /\ \A u \in User : profile[u].dni # d
    /\ Begin(r, SellerInserts, [Blank EXCEPT !.new = NewAccount("SELLER", e, p), !.dni = d])

Login(r, e, p) ==
    \E u \in ByEmail(e) :
        /\ MayLogIn(u)
        /\ user[u].password = p
        /\ Begin(r, <<"open">>, [For(u) EXCEPT !.password = p])

\* "Continue with Google" registers, links or logs in.
GoogleAuth(r, g) ==
    \/ \E u \in ByEmail(EmailOf[g]) :
          /\ user[u].active
          /\ Begin(r, IF user[u].google = NoGoogle THEN <<"link", "open">> ELSE <<"open">>,
                   [For(u) EXCEPT !.new.google = g, !.password = user[u].password])
    \/ /\ ByEmail(EmailOf[g]) = {}
       /\ Begin(r, <<"insert", "open">>,
                [Blank EXCEPT !.new = [NewAccount("CUSTOMER", EmailOf[g], NoPassword)
                                          EXCEPT !.google = g, !.verified = TRUE]])

\* A revoked token that comes back closes every session of its user.
Refresh(r, t) ==
    /\ token[t].user # NoUser
    /\ Begin(r, IF token[t].revoked THEN <<"revokeAll">> ELSE <<"check", "spend", "open">>,
             [For(token[t].user) EXCEPT !.token = t, !.password = token[t].password])

ForgotPassword(r, e) ==
    \E u \in ByEmail(e) : Begin(r, <<"chooseReset", "setReset">>, For(u))

\* Mutation: a new password leaves the sessions alone.
PasswordChangeOnly == <<"setPassword">>

PasswordChange == <<"setPassword", "revokeAll">>

ResetPassword(r, c, p) ==
    \E u \in User :
        /\ Live(u) /\ user[u].resetCode = c
        /\ Begin(r, PasswordChange, [For(u) EXCEPT !.password = p, !.code = c])

ChangePassword(r, u, p, q) ==
    /\ Live(u) /\ user[u].password = p
    /\ Begin(r, PasswordChange, [For(u) EXCEPT !.password = q])

VerifyEmail(r, c) ==
    \E u \in User :
        /\ Live(u) /\ user[u].verifyCode = c
        /\ Begin(r, <<"verify">>, For(u))

ResendVerification(r, e) ==
    \E u \in ByEmail(e) :
        /\ ~user[u].verified
        /\ Begin(r, <<"chooseVerify", "setVerify">>, For(u))

DeleteOwnAccount(r, u, p) ==
    /\ Live(u) /\ user[u].password = p
    /\ Begin(r, <<"erase", "revokeAll">>, For(u))

DeleteUser(r, u) ==
    /\ Live(u)
    /\ Begin(r, <<"erase", "revokeAll", "logDeleted">>, For(u))

SetUserActive(r, u, b) ==
    /\ Live(u)
    /\ Begin(r, IF b THEN <<"setActive", "logActive">>
                     ELSE <<"setActive", "revokeAll", "logActive">>,
             [For(u) EXCEPT !.active = b])

\* upsertLocation edits the primary location, if it finds one.
UpsertLocation(r, u) ==
    /\ Row(u)
    /\ primary[u] = 0
    /\ Begin(r, <<"addPrimary">>, For(u))

Revoked(t) == [token EXCEPT ![t].revoked = TRUE]
AllRevoked(u) == [t \in Token |-> IF token[t].user = u THEN [token[t] EXCEPT !.revoked = TRUE]
                                  ELSE token[t]]

Logout(t) ==
    /\ token[t].user # NoUser
    /\ token' = Revoked(t)
    /\ AtOnce
    /\ UNCHANGED <<user, profile, primary, accountLog>>

LogoutAll(u) ==
    /\ Row(u)
    /\ token' = AllRevoked(u)
    /\ AtOnce
    /\ UNCHANGED <<user, profile, primary, accountLog>>

---------------------------------------------------------------------------
(* Statements.                                                             *)

\* generateUniqueCode: gives up if five draws in a row are taken.
Choose(r, s, taken) ==
    /\ At(r, s)
    /\ \/ \E c \in Code \ taken :
             AdvanceWith(r, [req[r].arg EXCEPT !.code = c, !.new.verifyCode = c])
       \/ Code \cap taken # {} /\ Quit(r)
    /\ UNCHANGED accVars

\* The unique columns: a clash with any other row, deleted ones included.
Clashes(row) ==
    \E v \in User :
        \/ row.email # NoEmail /\ user[v].email = row.email
        \/ row.google # NoGoogle /\ user[v].google = row.google
        \/ row.verifyCode # NoCode /\ user[v].verifyCode = row.verifyCode

Insert(r) ==
    LET arg == req[r].arg IN
    /\ At(r, "insert")
    /\ IF Clashes(arg.new)
       THEN Quit(r) /\ UNCHANGED user
       ELSE \E u \in User :
               /\ ~Row(u)
               /\ user' = [user EXCEPT ![u] = arg.new]
               /\ AdvanceWith(r, [arg EXCEPT !.user = u])
    /\ UNCHANGED <<profile, primary, token, accountLog>>

InsertSeller(r) ==
    LET arg == req[r].arg IN
    /\ At(r, "insertSeller")
    /\ IF Clashes(arg.new) \/ \E v \in User : profile[v].dni = arg.dni
       THEN Quit(r) /\ UNCHANGED <<user, profile, primary>>
       ELSE \E u \in User :
               /\ ~Row(u)
               /\ user' = [user EXCEPT ![u] = arg.new]
               /\ profile' = [profile EXCEPT ![u].dni = arg.dni]
               /\ primary' = [primary EXCEPT ![u] = 1]
               /\ Advance(r)
    /\ UNCHANGED <<token, accountLog>>

Link(r) ==
    LET u == req[r].arg.user  g == req[r].arg.new.google IN
    /\ At(r, "link")
    /\ IF \E v \in User \ {u} : user[v].google = g
       THEN Quit(r) /\ UNCHANGED user
       ELSE /\ user' = [user EXCEPT ![u].google = g, ![u].verified = TRUE]
            /\ Advance(r)
    /\ UNCHANGED <<profile, primary, token, accountLog>>

\* refresh reads the user after the token.
CheckUser(r) ==
    /\ At(r, "check")
    /\ IF MayRenew(req[r].arg.user) THEN Advance(r) ELSE Quit(r)
    /\ UNCHANGED accVars

\* Mutation: the token stays good.
SpentKept(t) == token

Spent(t) == Revoked(t)

Spend(r) ==
    /\ At(r, "spend")
    /\ token' = Spent(req[r].arg.token)
    /\ Advance(r)
    /\ UNCHANGED <<user, profile, primary, accountLog>>

\* issueTokens
Open(r) ==
    LET u == req[r].arg.user  s == req[r].arg.token IN
    /\ At(r, "open")
    /\ \E t \in Token :
          /\ \A i \in Token : token[i].user = NoUser <=> i >= t
          /\ token' = [token EXCEPT ![t] =
                [user |-> u, revoked |-> FALSE, from |-> s,
                 login |-> IF s = NoToken THEN t ELSE token[s].login,
                 password |-> req[r].arg.password, late |-> user[u].state = "deleted"]]
    /\ Advance(r)
    /\ UNCHANGED <<user, profile, primary, accountLog>>

RevokeAll(r) ==
    /\ At(r, "revokeAll")
    /\ token' = AllRevoked(req[r].arg.user)
    /\ Advance(r)
    /\ UNCHANGED <<user, profile, primary, accountLog>>

\* The updates of a user row go by its id, deleted or not.
SetUser(r, s, row) ==
    /\ At(r, s)
    /\ user' = [user EXCEPT ![req[r].arg.user] = row]
    /\ Advance(r)
    /\ UNCHANGED <<profile, primary, token, accountLog>>

\* A code another request has stored since it was chosen breaks the unique column.
StoreCode(r, s, row, clash) ==
    /\ At(r, s)
    /\ IF clash THEN Quit(r) /\ UNCHANGED accVars ELSE SetUser(r, s, row)

SetCode(r) ==
    LET u == req[r].arg.user  c == req[r].arg.code IN
    \/ StoreCode(r, "setReset", [user[u] EXCEPT !.resetCode = c],
                 \E v \in User \ {u} : user[v].resetCode = c)
    \/ StoreCode(r, "setVerify", [user[u] EXCEPT !.verifyCode = c],
                 \E v \in User \ {u} : user[v].verifyCode = c)

\* A reset consumes the code; a change by a logged-in user has none.
SetPassword(r) ==
    LET arg == req[r].arg  u == arg.user IN
    SetUser(r, "setPassword",
            [user[u] EXCEPT !.password = arg.password,
                            !.resetCode = IF arg.code = NoCode THEN @ ELSE NoCode])

Verify(r) ==
    SetUser(r, "verify", [user[req[r].arg.user] EXCEPT !.verified = TRUE, !.verifyCode = NoCode])

SetActive(r) ==
    SetUser(r, "setActive", [user[req[r].arg.user] EXCEPT !.active = req[r].arg.active])

Erase(r) ==
    SetUser(r, "erase", [user[req[r].arg.user] EXCEPT !.state = "deleted", !.active = FALSE,
                                                      !.email = NoEmail])

AddPrimary(r) ==
    /\ At(r, "addPrimary")
    /\ primary' = [primary EXCEPT ![req[r].arg.user] = @ + 1]
    /\ Advance(r)
    /\ UNCHANGED <<user, profile, token, accountLog>>

\* Mutation: an action that is not in the enum of the schema.
SwitchActionBlocked(active) == IF active THEN "USER_ACTIVATED" ELSE "USER_BLOCKED"

SwitchAction(active) == IF active THEN "USER_ACTIVATED" ELSE "USER_DEACTIVATED"

LogAccount(r) ==
    LET arg == req[r].arg IN
    /\ At(r, "logDeleted") \/ At(r, "logActive")
    /\ accountLog' = [accountLog EXCEPT ![arg.user] = Append(@,
          IF At(r, "logDeleted") THEN "USER_DELETED" ELSE SwitchAction(arg.active))]
    /\ Advance(r)
    /\ UNCHANGED <<user, profile, primary, token>>

---------------------------------------------------------------------------
StartAccount(r) ==
    \/ \E e \in Email, p \in Password :
          \/ RegisterBuyer(r, e, p) \/ Login(r, e, p)
          \/ \E d \in Dni : RegisterSeller(r, e, p, d)
    \/ \E e \in Email : ForgotPassword(r, e) \/ ResendVerification(r, e)
    \/ \E g \in Google : GoogleAuth(r, g)
    \/ \E t \in Token : Refresh(r, t)
    \/ \E c \in Code : VerifyEmail(r, c) \/ \E p \in Password : ResetPassword(r, c, p)
    \/ \E u \in User :
          \/ \E p, q \in Password : p # q /\ ChangePassword(r, u, p, q)
          \/ \E p \in Password : DeleteOwnAccount(r, u, p)
          \/ \E b \in BOOLEAN : SetUserActive(r, u, b)
          \/ DeleteUser(r, u) \/ UpsertLocation(r, u)

AccountStep(r) ==
    \/ Choose(r, "chooseVerify", VerifyCodes) \/ Choose(r, "chooseReset", ResetCodes)
    \/ Insert(r) \/ InsertSeller(r) \/ Link(r)
    \/ CheckUser(r) \/ Spend(r) \/ Open(r) \/ RevokeAll(r)
    \/ SetCode(r) \/ SetPassword(r) \/ Verify(r) \/ SetActive(r) \/ Erase(r)
    \/ AddPrimary(r) \/ LogAccount(r)

AccNext ==
    \/ \E r \in Slot : (StartAccount(r) /\ UNCHANGED accVars) \/ AccountStep(r)
                       \/ (Break(r) /\ UNCHANGED accVars)
    \/ \E t \in Token : Logout(t)
    \/ \E u \in User : LogoutAll(u)

=============================================================================
