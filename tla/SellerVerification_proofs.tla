---------------------- MODULE SellerVerification_proofs ----------------------
(***************************************************************************)
(* Theorems about accounts, sessions and the verification of sellers, for  *)
(* any number of accounts, tokens and requests that overlap and fail.      *)
(***************************************************************************)
EXTENDS SellerVerification, Requests_proofs, FiniteSetTheorems

---------------------------------------------------------------------------
(* The plans of the handlers.                                              *)

Inserts == {"insert", "insertSeller"}
Draws == {"chooseVerify", "chooseReset"}
CodeStores == {"setReset", "setVerify"}

Statement ==
    Inserts \cup Draws \cup CodeStores
    \cup {"link", "check", "spend", "open", "revokeAll", "setPassword", "verify", "setActive",
          "erase", "addPrimary", "logDeleted", "logActive",
          "setStatus", "reopen", "upsertIdentity", "setIdentity", "logStatus", "notify"}

\* Which statements may still come after one.
Successors ==
    [chooseVerify |-> {"insert", "insertSeller", "setVerify"},
     chooseReset |-> {"setReset"},
     insert |-> {"open"},
     link |-> {"open"},
     check |-> {"spend", "open"},
     spend |-> {"open"},
     setPassword |-> {"revokeAll"},
     erase |-> {"revokeAll", "logDeleted"},
     setActive |-> {"revokeAll", "logActive"},
     revokeAll |-> {"logDeleted", "logActive"},
     upsertIdentity |-> {"reopen"},
     setStatus |-> {"setIdentity", "logStatus", "notify", "revokeAll"},
     setIdentity |-> {"logStatus", "notify", "revokeAll"},
     logStatus |-> {"notify", "revokeAll"},
     notify |-> {"revokeAll"}]
Later == [s \in Statement |-> IF s \in DOMAIN Successors THEN Successors[s] ELSE {}]

Plans == PlansOK(Statement, Later, Args)

LEMMA LaterType == Later \in [Statement -> SUBSET Statement] /\ \A s \in Statement : s \notin Later[s]
  BY DEF Later, Successors, Statement, Inserts, Draws, CodeStores

\* A handler may be refused at these statements, which nothing but the opening
\* of a session follows.
Refusable == Inserts \cup Draws \cup CodeStores \cup {"link", "check", "spend", "open"}

LEMMA RefusedEarly ==
    ASSUME NEW s \in Inserts \cup Draws \cup CodeStores \cup {"link", "check"}
    PROVE  {s} \cup Later[s] \subseteq Refusable
  BY DEF Later, Successors, Statement, Inserts, Draws, CodeStores, Refusable

\* The statements of a transition, for the three kinds of decision.
Decided(status, known) ==
    {"setStatus", "logStatus"} \cup (IF known THEN {"setIdentity"} ELSE {})
        \cup (IF status = "UNDER_REVIEW" THEN {} ELSE {"notify"})
        \cup (IF status = "SUSPENDED" THEN {"revokeAll"} ELSE {})

\* A plan of the statements set, in an order that may be.
PlanOver(todo, set) == todo \in Seq(Statement) /\ InOrder(todo, Later) /\ Statements(todo) = set

LEMMA PlansFollow ==
    ASSUME NEW s, NEW t, NEW S, NEW T, PlanOver(s, S), PlanOver(t, T), s # <<>>,
           \A x \in S, y \in T : y \in Later[x]
    PROVE  PlanOver(s \o t, S \cup T) /\ s \o t # <<>>
  BY PlansJoin DEF PlanOver

LEMMA TransitionPlan ==
    ASSUME NEW status \in VerificationStatus, NEW known \in BOOLEAN
    PROVE  LET todo == AfterTransition(status, known)
           IN  todo # <<>> /\ PlanOver(todo, Decided(status, known))
<1> DEFINE S1 == IF known THEN {"setIdentity"} ELSE {}
           S2 == IF status = "UNDER_REVIEW" THEN {} ELSE {"notify"}
           S3 == IF status = "SUSPENDED" THEN {"revokeAll"} ELSE {}
           t1 == IF known THEN <<"setIdentity">> ELSE <<>>
           t2 == IF status = "UNDER_REVIEW" THEN <<>> ELSE <<"notify">>
           t3 == IF status = "SUSPENDED" THEN <<"revokeAll">> ELSE <<>>
<1>1. /\ PlanOver(<<"setStatus">>, {"setStatus"}) /\ <<"setStatus">> # <<>>
      /\ PlanOver(<<"logStatus">>, {"logStatus"}) /\ <<"logStatus">> # <<>>
  BY OneStatement DEF Statement, PlanOver
<1>2. PlanOver(t1, S1) /\ PlanOver(t2, S2) /\ PlanOver(t3, S3)
  <2>1. /\ PlanOver(<<>>, {}) /\ PlanOver(<<"setIdentity">>, {"setIdentity"})
        /\ PlanOver(<<"notify">>, {"notify"}) /\ PlanOver(<<"revokeAll">>, {"revokeAll"})
    BY OneStatement, NoStatement DEF Statement, PlanOver
  <2> QED
    BY <2>1
<1>3. /\ S1 \subseteq {"setIdentity"} /\ S2 \subseteq {"notify"} /\ S3 \subseteq {"revokeAll"}
      /\ Decided(status, known) = (({"setStatus"} \cup S1) \cup {"logStatus"}) \cup S2 \cup S3
      /\ AfterTransition(status, known) = ((<<"setStatus">> \o t1) \o <<"logStatus">>) \o t2 \o t3
  BY DEF Decided, AfterTransition
<1> HIDE DEF S1, S2, S3, t1, t2, t3
<1>4. /\ {"setIdentity", "logStatus", "notify", "revokeAll"} \subseteq Later["setStatus"]
      /\ {"logStatus", "notify", "revokeAll"} \subseteq Later["setIdentity"]
      /\ {"notify", "revokeAll"} \subseteq Later["logStatus"]
      /\ "revokeAll" \in Later["notify"]
  BY DEF Later, Successors, Statement
<1> DEFINE p1 == <<"setStatus">> \o t1          P1 == {"setStatus"} \cup S1
           p2 == p1 \o <<"logStatus">>          P2 == P1 \cup {"logStatus"}
           p3 == p2 \o t2                       P3 == P2 \cup S2
<1>5. PlanOver(p1, P1) /\ p1 # <<>> /\ P1 \subseteq {"setStatus", "setIdentity"}
  <2>1. \A x \in {"setStatus"}, y \in S1 : y \in Later[x]
    BY <1>3, <1>4
  <2>2. PlanOver(p1, P1) /\ p1 # <<>>
    BY <1>1, <1>2, <2>1, PlansFollow
  <2> QED
    BY <1>3, <2>2
<1> HIDE DEF p1, P1
<1>6. PlanOver(p2, P2) /\ p2 # <<>> /\ P2 \subseteq {"setStatus", "setIdentity", "logStatus"}
  <2>1. \A x \in P1, y \in {"logStatus"} : y \in Later[x]
    BY <1>4, <1>5
  <2>2. PlanOver(p2, P2) /\ p2 # <<>>
    <3> DEFINE t == <<"logStatus">>  T == {"logStatus"}
    <3>1. PlanOver(t, T)
      BY <1>1
    <3> HIDE DEF t, T
    <3>2. PlanOver(p1 \o t, P1 \cup T) /\ p1 \o t # <<>>
      <4>1. \A x \in P1, y \in T : y \in Later[x]
        BY <2>1 DEF T
      <4> QED
        BY <1>5, <3>1, <4>1, PlansFollow
    <3> QED
      BY <3>2 DEF p2, P2, t, T
  <2> QED
    BY <1>5, <2>2
<1> HIDE DEF p2, P2
<1>7. PlanOver(p3, P3) /\ p3 # <<>> /\ P3 \subseteq {"setStatus", "setIdentity", "logStatus", "notify"}
  <2>1. \A x \in P2, y \in S2 : y \in Later[x]
    BY <1>3, <1>4, <1>6
  <2>2. PlanOver(p3, P3) /\ p3 # <<>>
    BY <1>2, <1>6, <2>1, PlansFollow
  <2> QED
    BY <1>3, <1>6, <2>2
<1> HIDE DEF p3, P3
<1>8. PlanOver(p3 \o t3, P3 \cup S3) /\ p3 \o t3 # <<>>
  <2>1. \A x \in P3, y \in S3 : y \in Later[x]
    BY <1>3, <1>4, <1>7
  <2> QED
    BY <1>2, <1>7, <2>1, PlansFollow
<1> QED
  BY <1>3, <1>8 DEF p1, p2, p3, P1, P2, P3

---------------------------------------------------------------------------
(* What holds of the requests in flight and of the tokens.                 *)

\* A request that has the statements in left still to issue, and the values
\* arg, however others have interleaved with it.
SubjectOf(left, arg) ==
    /\ left \cap Inserts # {} =>
          /\ arg.new.state = "live" /\ arg.token = NoToken
          /\ left \subseteq Inserts \cup {"chooseVerify", "open"}
    /\ "insert" \in left => arg.new.role = "CUSTOMER"
    /\ "insertSeller" \in left => arg.dni \in Dni
    /\ left # {} /\ left \cap Inserts = {} => arg.user \in User /\ Row(arg.user)
    /\ left # {} /\ arg.token # NoToken =>
          token[arg.token].user = arg.user /\ token[arg.token].password = arg.password
    /\ "open" \in left /\ "check" \notin left /\ arg.token # NoToken => ~token[arg.token].late
    /\ "setPassword" \in left => "revokeAll" \in left
    /\ "setActive" \in left => "logActive" \in left
    /\ "setStatus" \in left => "logStatus" \in left /\ arg.status # "PENDING"
    /\ "logDeleted" \in left /\ "erase" \notin left => user[arg.user].state = "deleted"
Subject(r) == SubjectOf(Left(r), req[r].arg)

\* An entry of the audit log explains the status, or was followed by a reopening.
Continues(status, row) == status = row.to \/ (row.to = "REJECTED" /\ status = "PENDING")

\* A request that has run alone: what it has read still stands.
AloneOf(left, arg) ==
    /\ "open" \in left /\ arg.token # NoToken /\ "spend" \in left => Works(arg.token)
    /\ "open" \in left /\ arg.token # NoToken /\ "spend" \notin left =>
          \A t \in Token : Works(t) => token[t].login # token[arg.token].login
    /\ "open" \in left /\ "insert" \in left => arg.password = arg.new.password
    /\ "open" \in left /\ "insert" \notin left /\ (arg.token # NoToken => "spend" \notin left) =>
          arg.password = user[arg.user].password
    /\ "addPrimary" \in left => primary[arg.user] = 0
    /\ "reopen" \in left => profile[arg.user].status = "REJECTED"
    /\ "setStatus" \in left => arg.previous = profile[arg.user].status
    /\ "logStatus" \in left /\ "setStatus" \notin left =>
          /\ profile[arg.user].status = arg.status
          /\ sellerLog[arg.user] # <<>> => Continues(arg.previous, Last(sellerLog[arg.user]))
    /\ "logActive" \in left /\ "setActive" \notin left /\ Live(arg.user) =>
          user[arg.user].active = arg.active
Alone(r) == AloneOf(Left(r), req[r].arg)

\* A request about a seller's verification, whose plan fits what it has read.
DocumentsOf(left, arg) ==
    /\ "setIdentity" \in left => "logStatus" \in left
    /\ "setStatus" \in left => "setIdentity" \in left \/ identity[arg.user] = "NONE"
    /\ "upsertIdentity" \in left => "reopen" \in left \/ profile[arg.user].status # "REJECTED"
    /\ "reopen" \in left => "upsertIdentity" \in left \/ identity[arg.user] = "PENDING"
Documents(r) == DocumentsOf(Left(r), req[r].arg)

Issued(t) == token[t].user # NoUser

TokensOK ==
    /\ \A t \in Token : ~Issued(t) => token[t] = NoSession
    /\ \A t \in Token : Issued(t) =>
          /\ Row(token[t].user)
          /\ token[t].login \in Token /\ Issued(token[t].login)
          /\ token[t].late => user[token[t].user].state = "deleted"
          /\ token[t].from # NoToken => Issued(token[t].from) /\ ~token[token[t].from].late

Base ==
    /\ AccTypeOK
    /\ Plans
    /\ TokensOK
    /\ \A u \in User : HasProfile(u) => Row(u)
    /\ \A r \in Slot : Subject(r)

---------------------------------------------------------------------------
(* What the steps do.                                                      *)

tables == <<accVars, svVars>>

Others(r) == \A q \in Slot \ {r} : req'[q] = req[q] /\ Left(q)' = Left(q)

\* A request begins.
Started(r) ==
    /\ Left(r) = {}
    /\ Others(r)
    /\ Subject(r)' /\ Alone(r)' /\ Documents(r)'
    /\ "notify" \in Left(r)' => "logStatus" \in Left(r)'
    /\ smooth' = (smooth /\ AllRest)
    /\ UNCHANGED tables

\* A request ends early: it is refused, or something has failed.
Stopped(r) ==
    /\ Left(r)' = {}
    /\ Others(r)
    /\ smooth' => smooth /\ Left(r) \subseteq Refusable
    /\ UNCHANGED tables

\* Sessions are closed.
SignedOut ==
    /\ UNCHANGED <<req, user, profile, primary, accountLog, svVars>>
    /\ smooth' = (smooth /\ AllRest)
    /\ token' \in [Token -> Session]
    /\ \A t \in Token : \/ token'[t] = token[t]
                        \/ Issued(t) /\ token'[t] = [token[t] EXCEPT !.revoked = TRUE]

\* A request issues the statement s, and goes on with arg.
Ran(r, s, arg) ==
    /\ s \in Left(r) /\ Left(r) \subseteq {s} \cup Later[s]
    /\ Left(r)' = Left(r) \ {s}
    /\ Left(r)' # {} => req'[r].arg = arg
    /\ Others(r)
    /\ UNCHANGED smooth

UserUpdates == CodeStores \cup {"link", "setPassword", "verify", "setActive", "erase"}

\* What the statement s does to the tables, arg being what it was given.
WroteUser(s, a, arg) ==
    /\ s \notin UserUpdates \cup Inserts => UNCHANGED user
    /\ s \in UserUpdates =>
          /\ a.user \in User
          /\ \E row \in Account :
                /\ user' = [user EXCEPT ![a.user] = row]
                /\ row.role = user[a.user].role
                /\ row.state = IF s = "erase" THEN "deleted" ELSE user[a.user].state
                /\ s # "setPassword" => row.password = user[a.user].password
                /\ s = "setActive" => row.active = a.active
                /\ s \notin {"setActive", "erase"} => row.active = user[a.user].active
    /\ s \in Inserts => \E v \in User :
          /\ ~Row(v)
          /\ user' = [user EXCEPT ![v] = a.new]
          /\ s = "insert" => arg = [a EXCEPT !.user = v]
          /\ s = "insertSeller" =>
                /\ \A w \in User : profile[w].dni # a.dni
                /\ profile' = [profile EXCEPT ![v].dni = a.dni]
                /\ primary' = [primary EXCEPT ![v] = 1]

WroteToken(s, a) ==
    /\ s \notin {"spend", "open", "revokeAll"} => UNCHANGED token
    /\ s = "spend" => token' = Revoked(a.token)
    /\ s = "revokeAll" => token' = AllRevoked(a.user)
    /\ s = "open" => \E t \in Token :
          /\ ~Issued(t)
          /\ token' = [token EXCEPT ![t] =
                [user |-> a.user, revoked |-> FALSE, from |-> a.token,
                 login |-> IF a.token = NoToken THEN t ELSE token[a.token].login,
                 password |-> a.password, late |-> user[a.user].state = "deleted"]]

WroteSeller(s, a) ==
    /\ s \notin {"insertSeller", "setStatus", "reopen"} => UNCHANGED profile
    /\ s \in {"setStatus", "reopen"} =>
          profile' = [profile EXCEPT ![a.user].status = IF s = "reopen" THEN "PENDING" ELSE a.status]
    /\ s \notin {"insertSeller", "addPrimary"} => UNCHANGED primary
    /\ s = "addPrimary" => primary' = [primary EXCEPT ![a.user] = @ + 1]
    /\ s \notin {"upsertIdentity", "setIdentity"} => UNCHANGED identity
    /\ s \in {"upsertIdentity", "setIdentity"} =>
          identity' = [identity EXCEPT ![a.user] = IF s = "upsertIdentity" THEN "PENDING" ELSE a.status]

WroteLogs(s, a) ==
    /\ s \notin {"logDeleted", "logActive"} => UNCHANGED accountLog
    /\ s \in {"logDeleted", "logActive"} =>
          accountLog' = [accountLog EXCEPT ![a.user] =
              Append(@, IF s = "logDeleted" THEN "USER_DELETED" ELSE SwitchAction(a.active))]
    /\ s # "logStatus" => UNCHANGED sellerLog
    /\ s = "logStatus" =>
          sellerLog' = [sellerLog EXCEPT ![a.user] = Append(@, [from |-> a.previous, to |-> a.status])]
    /\ s # "notify" => UNCHANGED told
    /\ s = "notify" => told' = [told EXCEPT ![a.user] = Append(@, a.status)]
    /\ s \notin {"setStatus", "reopen"} => UNCHANGED past
    /\ s \in {"setStatus", "reopen"} =>
          past' = [past EXCEPT ![a.user] = Append(@, IF s = "reopen" THEN "PENDING" ELSE a.status)]

Wrote(s, a, arg) ==
    /\ s \in Statement /\ a \in Args /\ arg \in Args
    /\ s \notin Draws \cup {"insert"} => arg = a
    /\ s \in Draws => \E c \in Code : arg = [a EXCEPT !.code = c, !.new.verifyCode = c]
    /\ s = "check" => MayRenew(a.user)
    /\ WroteUser(s, a, arg) /\ WroteToken(s, a) /\ WroteSeller(s, a) /\ WroteLogs(s, a)

Step ==
    \/ UNCHANGED allVars
    \/ SignedOut
    \/ \E r \in Slot : Started(r) \/ Stopped(r)
    \/ \E r \in Slot, s \in Statement, arg \in Args : Ran(r, s, arg) /\ Wrote(s, req[r].arg, arg)

---------------------------------------------------------------------------
(* The requests that begin.                                                *)

LEMMA BlankType == Blank \in Args /\ NoAccount \in Account
  BY DEF Blank, Args, NoAccount, Account, UserRole, VerificationStatus

LEMMA ForType ==
    ASSUME NEW u \in User
    PROVE  For(u) \in Args /\ For(u).user = u /\ For(u).token = NoToken
  BY BlankType DEF For, Args, Blank

\* A request whose plan and values are right begins.
LEMMA Opens ==
    ASSUME Base, NEW r \in Slot, NEW todo, NEW left, NEW arg \in Args,
           PlanOver(todo, left), todo # <<>>, SubjectOf(left, arg), AloneOf(left, arg),
           DocumentsOf(left, arg), "notify" \in left => "logStatus" \in left,
           Begin(r, todo, arg), UNCHANGED tables
    PROVE  Plans' /\ Started(r)
<1>1. /\ PlansOK(Statement, Later, Args)'
      /\ Left(r) = {} /\ Left(r)' = left /\ req'[r].arg = arg
      /\ Others(r)
      /\ smooth' = (smooth /\ AllRest)
  BY Begins DEF Base, Plans, PlanOver, Others
<1>2. UNCHANGED <<user, profile, primary, token, identity, sellerLog>>
  BY DEF tables, accVars, svVars
<1>3. Subject(r)'
  BY <1>1, <1>2 DEF Subject, SubjectOf, Row
<1>4. Alone(r)'
  BY <1>1, <1>2 DEF Alone, AloneOf, Works, Live
<1>5. Documents(r)'
  BY <1>1, <1>2 DEF Documents, DocumentsOf
<1> QED
  BY <1>1, <1>3, <1>4, <1>5 DEF Plans, Started

LEMMA TwoPlan ==
    ASSUME NEW a \in Statement, NEW b \in Statement, b \in Later[a]
    PROVE  PlanOver(<<a, b>>, {a, b})
  BY TwoStatements DEF PlanOver

LEMMA ThreePlan ==
    ASSUME NEW a \in Statement, NEW b \in Statement, NEW c \in Statement,
           b \in Later[a], c \in Later[a], c \in Later[b]
    PROVE  PlanOver(<<a, b, c>>, {a, b, c})
  BY ThreeStatements DEF PlanOver

LEMMA PlansBegun ==
    /\ \A a \in {"open", "verify", "addPrimary", "revokeAll", "upsertIdentity"} : PlanOver(<<a>>, {a})
    /\ PlanOver(<<"chooseVerify", "insert">>, {"chooseVerify", "insert"})
    /\ PlanOver(<<"chooseVerify", "insertSeller">>, {"chooseVerify", "insertSeller"})
    /\ PlanOver(<<"link", "open">>, {"link", "open"})
    /\ PlanOver(<<"insert", "open">>, {"insert", "open"})
    /\ PlanOver(<<"chooseReset", "setReset">>, {"chooseReset", "setReset"})
    /\ PlanOver(<<"setPassword", "revokeAll">>, {"setPassword", "revokeAll"})
    /\ PlanOver(<<"chooseVerify", "setVerify">>, {"chooseVerify", "setVerify"})
    /\ PlanOver(<<"erase", "revokeAll">>, {"erase", "revokeAll"})
    /\ PlanOver(<<"setActive", "logActive">>, {"setActive", "logActive"})
    /\ PlanOver(<<"upsertIdentity", "reopen">>, {"upsertIdentity", "reopen"})
    /\ PlanOver(<<"check", "spend", "open">>, {"check", "spend", "open"})
    /\ PlanOver(<<"erase", "revokeAll", "logDeleted">>, {"erase", "revokeAll", "logDeleted"})
    /\ PlanOver(<<"setActive", "revokeAll", "logActive">>, {"setActive", "revokeAll", "logActive"})
<1>1. \A a \in {"open", "verify", "addPrimary", "revokeAll", "upsertIdentity"} : PlanOver(<<a>>, {a})
  BY OneStatement DEF PlanOver, Statement
<1>2. PlanOver(<<"chooseVerify", "insert">>, {"chooseVerify", "insert"})
  <2>1. "chooseVerify" \in Statement /\ "insert" \in Statement /\ "insert" \in Later["chooseVerify"]
    BY DEF Later, Successors, Statement, Inserts, Draws, CodeStores
  <2> QED
    BY <2>1, TwoPlan
<1>3. PlanOver(<<"chooseVerify", "insertSeller">>, {"chooseVerify", "insertSeller"})
  <2>1. "chooseVerify" \in Statement /\ "insertSeller" \in Statement /\ "insertSeller" \in Later["chooseVerify"]
    BY DEF Later, Successors, Statement, Inserts, Draws, CodeStores
  <2> QED
    BY <2>1, TwoPlan
<1>4. PlanOver(<<"link", "open">>, {"link", "open"})
  <2>1. "link" \in Statement /\ "open" \in Statement /\ "open" \in Later["link"]
    BY DEF Later, Successors, Statement, Inserts, Draws, CodeStores
  <2> QED
    BY <2>1, TwoPlan
<1>5. PlanOver(<<"insert", "open">>, {"insert", "open"})
  <2>1. "insert" \in Statement /\ "open" \in Statement /\ "open" \in Later["insert"]
    BY DEF Later, Successors, Statement, Inserts, Draws, CodeStores
  <2> QED
    BY <2>1, TwoPlan
<1>6. PlanOver(<<"chooseReset", "setReset">>, {"chooseReset", "setReset"})
  <2>1. "chooseReset" \in Statement /\ "setReset" \in Statement /\ "setReset" \in Later["chooseReset"]
    BY DEF Later, Successors, Statement, Inserts, Draws, CodeStores
  <2> QED
    BY <2>1, TwoPlan
<1>7. PlanOver(<<"setPassword", "revokeAll">>, {"setPassword", "revokeAll"})
  <2>1. "setPassword" \in Statement /\ "revokeAll" \in Statement /\ "revokeAll" \in Later["setPassword"]
    BY DEF Later, Successors, Statement, Inserts, Draws, CodeStores
  <2> QED
    BY <2>1, TwoPlan
<1>8. PlanOver(<<"chooseVerify", "setVerify">>, {"chooseVerify", "setVerify"})
  <2>1. "chooseVerify" \in Statement /\ "setVerify" \in Statement /\ "setVerify" \in Later["chooseVerify"]
    BY DEF Later, Successors, Statement, Inserts, Draws, CodeStores
  <2> QED
    BY <2>1, TwoPlan
<1>9. PlanOver(<<"erase", "revokeAll">>, {"erase", "revokeAll"})
  <2>1. "erase" \in Statement /\ "revokeAll" \in Statement /\ "revokeAll" \in Later["erase"]
    BY DEF Later, Successors, Statement, Inserts, Draws, CodeStores
  <2> QED
    BY <2>1, TwoPlan
<1>10. PlanOver(<<"setActive", "logActive">>, {"setActive", "logActive"})
  <2>1. "setActive" \in Statement /\ "logActive" \in Statement /\ "logActive" \in Later["setActive"]
    BY DEF Later, Successors, Statement, Inserts, Draws, CodeStores
  <2> QED
    BY <2>1, TwoPlan
<1>11. PlanOver(<<"upsertIdentity", "reopen">>, {"upsertIdentity", "reopen"})
  <2>1. "upsertIdentity" \in Statement /\ "reopen" \in Statement /\ "reopen" \in Later["upsertIdentity"]
    BY DEF Later, Successors, Statement, Inserts, Draws, CodeStores
  <2> QED
    BY <2>1, TwoPlan
<1>12. PlanOver(<<"check", "spend", "open">>, {"check", "spend", "open"})
  <2>1. "check" \in Statement /\ "spend" \in Statement /\ "open" \in Statement
    BY DEF Statement
  <2>2. "spend" \in Later["check"] /\ "open" \in Later["check"] /\ "open" \in Later["spend"]
    BY DEF Later, Successors, Statement
  <2> QED
    BY <2>1, <2>2, ThreePlan
<1>13. PlanOver(<<"erase", "revokeAll", "logDeleted">>, {"erase", "revokeAll", "logDeleted"})
  <2>1. "erase" \in Statement /\ "revokeAll" \in Statement /\ "logDeleted" \in Statement
    BY DEF Statement
  <2>2. "revokeAll" \in Later["erase"] /\ "logDeleted" \in Later["erase"] /\ "logDeleted" \in Later["revokeAll"]
    BY DEF Later, Successors, Statement
  <2> QED
    BY <2>1, <2>2, ThreePlan
<1>14. PlanOver(<<"setActive", "revokeAll", "logActive">>, {"setActive", "revokeAll", "logActive"})
  <2>1. "setActive" \in Statement /\ "revokeAll" \in Statement /\ "logActive" \in Statement
    BY DEF Statement
  <2>2. "revokeAll" \in Later["setActive"] /\ "logActive" \in Later["setActive"] /\ "logActive" \in Later["revokeAll"]
    BY DEF Later, Successors, Statement
  <2> QED
    BY <2>1, <2>2, ThreePlan
<1> QED
  BY <1>1, <1>2, <1>3, <1>4, <1>5, <1>6, <1>7, <1>8, <1>9, <1>10, <1>11, <1>12, <1>13, <1>14

\* A request about an account that exists.
LEMMA AboutAccount ==
    ASSUME NEW u \in User, Row(u), NEW arg, arg.user = u, arg.token = NoToken
    PROVE  /\ \A left \in {{"verify"}, {"upsertIdentity"}, {"chooseReset", "setReset"},
                           {"setPassword", "revokeAll"}, {"chooseVerify", "setVerify"},
                           {"erase", "revokeAll"}, {"erase", "revokeAll", "logDeleted"},
                           {"setActive", "logActive"}, {"setActive", "revokeAll", "logActive"}} :
                 SubjectOf(left, arg) /\ AloneOf(left, arg)
           /\ arg.password = user[u].password =>
                 \A left \in {{"open"}, {"link", "open"}} : SubjectOf(left, arg) /\ AloneOf(left, arg)
           /\ primary[u] = 0 => SubjectOf({"addPrimary"}, arg) /\ AloneOf({"addPrimary"}, arg)
           /\ profile[u].status = "REJECTED" =>
                 SubjectOf({"upsertIdentity", "reopen"}, arg) /\ AloneOf({"upsertIdentity", "reopen"}, arg)
  BY DEF SubjectOf, AloneOf, Inserts, Row

LEMMA NewAccountType ==
    ASSUME NEW role \in UserRole, NEW e \in Email, NEW p \in Password \cup {NoPassword}
    PROVE  LET row == NewAccount(role, e, p)
           IN  row \in Account /\ row.state = "live" /\ row.role = role /\ row.password = p
  BY DEF NewAccount, Account, NoAccount, UserRole

LEMMA RegistrationBegins ==
    ASSUME Base, NEW r \in Slot, UNCHANGED tables,
           NEW e \in Email, NEW p \in Password,
           RegisterBuyer(r, e, p) \/ \E d \in Dni : RegisterSeller(r, e, p, d)
    PROVE  Plans' /\ Started(r)
<1>1. CASE RegisterBuyer(r, e, p)
  <2> DEFINE arg == [Blank EXCEPT !.new = NewAccount("CUSTOMER", e, p)]
             left == {"chooseVerify", "insert"}
  <2>1. arg \in Args /\ arg.new = NewAccount("CUSTOMER", e, p) /\ arg.token = NoToken
    BY BlankType, NewAccountType DEF Args, Blank, UserRole
  <2>2. Begin(r, <<"chooseVerify", "insert">>, arg)
    BY <1>1 DEF RegisterBuyer
  <2> HIDE DEF arg
  <2>3. SubjectOf(left, arg) /\ AloneOf(left, arg)
    BY <2>1, NewAccountType DEF SubjectOf, AloneOf, Inserts, UserRole
  <2>4. PlanOver(<<"chooseVerify", "insert">>, left)
    BY PlansBegun
  <2> QED
    BY <2>1, <2>2, <2>3, <2>4, Opens DEF DocumentsOf
<1>2. ASSUME NEW d \in Dni, RegisterSeller(r, e, p, d) PROVE Plans' /\ Started(r)
  <2> DEFINE arg == [Blank EXCEPT !.new = NewAccount("SELLER", e, p), !.dni = d]
             left == {"chooseVerify", "insertSeller"}
  <2>1. arg \in Args /\ arg.new = NewAccount("SELLER", e, p) /\ arg.token = NoToken /\ arg.dni = d
    BY BlankType, NewAccountType DEF Args, Blank, UserRole
  <2>2. Begin(r, <<"chooseVerify", "insertSeller">>, arg)
    BY <1>2 DEF RegisterSeller, SellerInserts
  <2> HIDE DEF arg
  <2>3. SubjectOf(left, arg) /\ AloneOf(left, arg)
    BY <2>1, NewAccountType DEF SubjectOf, AloneOf, Inserts, UserRole
  <2>4. PlanOver(<<"chooseVerify", "insertSeller">>, left)
    BY PlansBegun
  <2> QED
    BY <2>1, <2>2, <2>3, <2>4, Opens DEF DocumentsOf
<1> QED
  BY <1>1, <1>2

\* The plans of requests about an account that exists, and what holds of it then.
LEMMA AccountOpens ==
    ASSUME Base, NEW r \in Slot, UNCHANGED tables, NEW u \in User, Row(u),
           NEW arg \in Args, arg.user = u, arg.token = NoToken,
           NEW todo \in {<<"verify">>, <<"chooseReset", "setReset">>,
                         <<"setPassword", "revokeAll">>,
                         <<"chooseVerify", "setVerify">>, <<"erase", "revokeAll">>,
                         <<"erase", "revokeAll", "logDeleted">>, <<"setActive", "logActive">>,
                         <<"setActive", "revokeAll", "logActive">>},
           Begin(r, todo, arg)
    PROVE  Plans' /\ Started(r)
<1> DEFINE Good(plan, left) == /\ PlanOver(plan, left) /\ plan # <<>> /\ "notify" \notin left
                               /\ SubjectOf(left, arg) /\ AloneOf(left, arg) /\ DocumentsOf(left, arg)
<1>1. \E left : Good(todo, left)
  <2>1. CASE todo = <<"verify">>
    <3>1. Good(todo, {"verify"})
      BY <2>1, PlansBegun, AboutAccount DEF DocumentsOf
    <3> QED
      BY <3>1
  <2>3. CASE todo = <<"chooseReset", "setReset">>
    <3>1. Good(todo, {"chooseReset", "setReset"})
      BY <2>3, PlansBegun, AboutAccount DEF DocumentsOf
    <3> QED
      BY <3>1
  <2>4. CASE todo = <<"setPassword", "revokeAll">>
    <3>1. Good(todo, {"setPassword", "revokeAll"})
      BY <2>4, PlansBegun, AboutAccount DEF DocumentsOf
    <3> QED
      BY <3>1
  <2>5. CASE todo = <<"chooseVerify", "setVerify">>
    <3>1. Good(todo, {"chooseVerify", "setVerify"})
      BY <2>5, PlansBegun, AboutAccount DEF DocumentsOf
    <3> QED
      BY <3>1
  <2>6. CASE todo = <<"erase", "revokeAll">>
    <3>1. Good(todo, {"erase", "revokeAll"})
      BY <2>6, PlansBegun, AboutAccount DEF DocumentsOf
    <3> QED
      BY <3>1
  <2>7. CASE todo = <<"erase", "revokeAll", "logDeleted">>
    <3>1. Good(todo, {"erase", "revokeAll", "logDeleted"})
      BY <2>7, PlansBegun, AboutAccount DEF DocumentsOf
    <3> QED
      BY <3>1
  <2>8. CASE todo = <<"setActive", "logActive">>
    <3>1. Good(todo, {"setActive", "logActive"})
      BY <2>8, PlansBegun, AboutAccount DEF DocumentsOf
    <3> QED
      BY <3>1
  <2>9. CASE todo = <<"setActive", "revokeAll", "logActive">>
    <3>1. Good(todo, {"setActive", "revokeAll", "logActive"})
      BY <2>9, PlansBegun, AboutAccount DEF DocumentsOf
    <3> QED
      BY <3>1
  <2> QED
    BY <2>1, <2>3, <2>4, <2>5, <2>6, <2>7, <2>8, <2>9
<1>2. PICK left : Good(todo, left)
  BY <1>1
<1> QED
  BY <1>2, Opens

LEMMA SessionOpens ==
    ASSUME Base, NEW r \in Slot, UNCHANGED tables, NEW u \in User, Row(u),
           NEW arg \in Args, arg.user = u, arg.token = NoToken, arg.password = user[u].password,
           Begin(r, <<"open">>, arg) \/ Begin(r, <<"link", "open">>, arg)
    PROVE  Plans' /\ Started(r)
<1>1. /\ SubjectOf({"open"}, arg) /\ AloneOf({"open"}, arg)
      /\ SubjectOf({"link", "open"}, arg) /\ AloneOf({"link", "open"}, arg)
  BY AboutAccount
<1>2. PlanOver(<<"open">>, {"open"}) /\ PlanOver(<<"link", "open">>, {"link", "open"})
  BY PlansBegun
<1>3. CASE Begin(r, <<"open">>, arg)
  BY <1>1, <1>2, <1>3, Opens DEF DocumentsOf
<1>4. CASE Begin(r, <<"link", "open">>, arg)
  BY <1>1, <1>2, <1>4, Opens DEF DocumentsOf
<1> QED
  BY <1>3, <1>4

LEMMA GoogleBegins ==
    ASSUME Base, NEW r \in Slot, UNCHANGED tables, NEW g \in Google, GoogleAuth(r, g)
    PROVE  Plans' /\ Started(r)
<1>1. ASSUME NEW u \in ByEmail(EmailOf[g]),
             Begin(r, IF user[u].google = NoGoogle THEN <<"link", "open">> ELSE <<"open">>,
                   [For(u) EXCEPT !.new.google = g, !.password = user[u].password])
      PROVE  Plans' /\ Started(r)
  <2> DEFINE arg == [For(u) EXCEPT !.new.google = g, !.password = user[u].password]
  <2>1. u \in User /\ Row(u) /\ user[u].password \in Password \cup {NoPassword}
    BY DEF ByEmail, Live, Row, Base, AccTypeOK, Account
  <2>2. arg \in Args /\ arg.user = u /\ arg.token = NoToken /\ arg.password = user[u].password
    <3>1. For(u) \in Args /\ For(u).user = u /\ For(u).token = NoToken
      BY <2>1, ForType
    <3>2. [For(u).new EXCEPT !.google = g] \in Account
      BY <3>1 DEF Args, Account
    <3>3. arg = [For(u) EXCEPT !.new = [For(u).new EXCEPT !.google = g], !.password = user[u].password]
      OBVIOUS
    <3> QED
      BY <2>1, <3>1, <3>2, <3>3 DEF Args
  <2> HIDE DEF arg
  <2> QED
    BY <1>1, <2>1, <2>2, SessionOpens DEF arg
<1>2. CASE Begin(r, <<"insert", "open">>,
                 [Blank EXCEPT !.new = [NewAccount("CUSTOMER", EmailOf[g], NoPassword)
                                           EXCEPT !.google = g, !.verified = TRUE]])
  <2> DEFINE row == [NewAccount("CUSTOMER", EmailOf[g], NoPassword) EXCEPT !.google = g, !.verified = TRUE]
             arg == [Blank EXCEPT !.new = row]
             left == {"insert", "open"}
  <2>1. row \in Account /\ row.state = "live" /\ row.role = "CUSTOMER" /\ row.password = NoPassword
    <3>1. EmailOf[g] \in Email /\ "CUSTOMER" \in UserRole
      BY AccountsAssumption DEF UserRole
    <3> DEFINE plain == NewAccount("CUSTOMER", EmailOf[g], NoPassword)
    <3>2. plain \in Account /\ plain.state = "live" /\ plain.role = "CUSTOMER" /\ plain.password = NoPassword
      BY <3>1, NewAccountType
    <3>3. row = [plain EXCEPT !.google = g, !.verified = TRUE]
      OBVIOUS
    <3> HIDE DEF plain, row
    <3> QED
      BY <3>2, <3>3 DEF Account
  <2> HIDE DEF row
  <2>2. arg \in Args /\ arg.new = row /\ arg.token = NoToken /\ arg.password = NoPassword
    BY <2>1, BlankType DEF Args, Blank
  <2>3. Begin(r, <<"insert", "open">>, arg)
    BY <1>2 DEF row
  <2> HIDE DEF arg
  <2>4. SubjectOf(left, arg) /\ AloneOf(left, arg)
    BY <2>1, <2>2 DEF SubjectOf, AloneOf, Inserts
  <2>5. PlanOver(<<"insert", "open">>, left)
    BY PlansBegun
  <2> QED
    BY <2>2, <2>3, <2>4, <2>5, Opens DEF DocumentsOf
<1> QED
  BY <1>1, <1>2 DEF GoogleAuth

LEMMA RefreshBegins ==
    ASSUME Base, NEW r \in Slot, UNCHANGED tables, NEW t \in Token, Refresh(r, t)
    PROVE  Plans' /\ Started(r)
<1> DEFINE u == token[t].user
           arg == [For(u) EXCEPT !.token = t, !.password = token[t].password]
<1>1. u \in User /\ Row(u) /\ Issued(t) /\ token[t].password \in Password \cup {NoPassword}
  BY DEF Refresh, Base, TokensOK, AccTypeOK, Session, Issued
<1>2. arg \in Args /\ arg.user = u /\ arg.token = t /\ arg.password = token[t].password
  BY <1>1, BlankType DEF For, Args, Blank
<1>3. Begin(r, IF token[t].revoked THEN <<"revokeAll">> ELSE <<"check", "spend", "open">>, arg)
  BY DEF Refresh
<1>4. t # NoToken
  BY AccountsAssumption DEF Token, NoToken
<1> HIDE DEF arg, u
<1>5. CASE token[t].revoked
  <2>1. SubjectOf({"revokeAll"}, arg) /\ AloneOf({"revokeAll"}, arg)
    BY <1>1, <1>2 DEF SubjectOf, AloneOf, Inserts, u
  <2>2. PlanOver(<<"revokeAll">>, {"revokeAll"})
    BY PlansBegun
  <2> QED
    BY <1>2, <1>3, <1>5, <2>1, <2>2, Opens DEF DocumentsOf
<1>6. CASE ~token[t].revoked
  <2> DEFINE left == {"check", "spend", "open"}
  <2>1. SubjectOf(left, arg) /\ AloneOf(left, arg)
    BY <1>1, <1>2, <1>6, <1>4 DEF SubjectOf, AloneOf, Inserts, Works, Issued, u
  <2>2. PlanOver(<<"check", "spend", "open">>, left)
    BY PlansBegun
  <2> QED
    BY <1>2, <1>3, <1>6, <2>1, <2>2, Opens DEF DocumentsOf
<1> QED
  BY <1>5, <1>6

LEMMA LocationBegins ==
    ASSUME Base, NEW r \in Slot, UNCHANGED tables, NEW u \in User, UpsertLocation(r, u)
    PROVE  Plans' /\ Started(r)
<1>1. SubjectOf({"addPrimary"}, For(u)) /\ AloneOf({"addPrimary"}, For(u))
  BY AboutAccount, ForType DEF UpsertLocation
<1>2. Begin(r, <<"addPrimary">>, For(u)) /\ PlanOver(<<"addPrimary">>, {"addPrimary"})
  BY PlansBegun DEF UpsertLocation
<1> QED
  BY <1>1, <1>2, ForType, Opens DEF DocumentsOf

LEMMA AccountStarts ==
    ASSUME Base, NEW r \in Slot, UNCHANGED tables, StartAccount(r)
    PROVE  Plans' /\ Started(r)
<1> DEFINE Goal == Plans' /\ Started(r)
<1>1. ASSUME NEW u \in User, Row(u), NEW arg \in Args, arg.user = u, arg.token = NoToken
      PROVE  /\ Begin(r, <<"verify">>, arg) => Goal
             /\ Begin(r, <<"chooseReset", "setReset">>, arg) => Goal
             /\ Begin(r, <<"chooseVerify", "setVerify">>, arg) => Goal
             /\ Begin(r, PasswordChange, arg) => Goal
             /\ Begin(r, <<"erase", "revokeAll">>, arg) => Goal
             /\ Begin(r, <<"erase", "revokeAll", "logDeleted">>, arg) => Goal
             /\ Begin(r, <<"setActive", "logActive">>, arg) => Goal
             /\ Begin(r, <<"setActive", "revokeAll", "logActive">>, arg) => Goal
  BY <1>1, AccountOpens DEF PasswordChange
<1> HIDE DEF Goal
<1>2. ASSUME NEW e \in Email, NEW p \in Password, Login(r, e, p) PROVE Goal
  <2>1. PICK u \in User : /\ Row(u) /\ user[u].password = p
                          /\ Begin(r, <<"open">>, [For(u) EXCEPT !.password = p])
    BY <1>2 DEF Login, ByEmail, Live, Row
  <2> DEFINE arg == [For(u) EXCEPT !.password = p]
  <2>2. arg \in Args /\ arg.user = u /\ arg.token = NoToken /\ arg.password = p
    BY BlankType DEF For, Args, Blank
  <2>3. Begin(r, <<"open">>, arg)
    BY <2>1
  <2> HIDE DEF arg
  <2> QED
    BY <2>1, <2>2, <2>3, SessionOpens DEF Goal
<1>3. ASSUME NEW e \in Email, ForgotPassword(r, e) \/ ResendVerification(r, e) PROVE Goal
  <2>1. PICK u \in User : /\ Row(u)
                          /\ \/ Begin(r, <<"chooseReset", "setReset">>, For(u))
                             \/ Begin(r, <<"chooseVerify", "setVerify">>, For(u))
    BY <1>3 DEF ForgotPassword, ResendVerification, ByEmail, Live, Row
  <2> QED
    BY <1>1, <2>1, ForType
<1>4. ASSUME NEW c \in Code, VerifyEmail(r, c) PROVE Goal
  <2>1. PICK u \in User : Row(u) /\ Begin(r, <<"verify">>, For(u))
    BY <1>4 DEF VerifyEmail, Live, Row
  <2> QED
    BY <1>1, <2>1, ForType
<1>5. ASSUME NEW c \in Code, NEW p \in Password, ResetPassword(r, c, p) PROVE Goal
  <2>1. PICK u \in User : Row(u) /\ Begin(r, PasswordChange, [For(u) EXCEPT !.password = p, !.code = c])
    BY <1>5 DEF ResetPassword, Live, Row
  <2> DEFINE arg == [For(u) EXCEPT !.password = p, !.code = c]
  <2>2. arg \in Args /\ arg.user = u /\ arg.token = NoToken
    BY <2>1, BlankType DEF For, Args, Blank
  <2>3. Begin(r, PasswordChange, arg)
    BY <2>1
  <2> HIDE DEF arg
  <2> QED
    BY <1>1, <2>1, <2>2, <2>3
<1>6. ASSUME NEW u \in User, NEW p \in Password, NEW q \in Password, ChangePassword(r, u, p, q)
      PROVE  Goal
  <2>1. Row(u) /\ Begin(r, PasswordChange, [For(u) EXCEPT !.password = q])
    BY <1>6 DEF ChangePassword, Live, Row
  <2> DEFINE arg == [For(u) EXCEPT !.password = q]
  <2>2. arg \in Args /\ arg.user = u /\ arg.token = NoToken
    BY BlankType DEF For, Args, Blank
  <2>3. Begin(r, PasswordChange, arg)
    BY <2>1
  <2> HIDE DEF arg
  <2> QED
    BY <1>1, <2>1, <2>2, <2>3
<1>7. ASSUME NEW u \in User, DeleteUser(r, u) \/ \E p \in Password : DeleteOwnAccount(r, u, p)
      PROVE  Goal
  <2>1. /\ Row(u)
        /\ \/ Begin(r, <<"erase", "revokeAll">>, For(u))
           \/ Begin(r, <<"erase", "revokeAll", "logDeleted">>, For(u))
    BY <1>7 DEF DeleteUser, DeleteOwnAccount, Live, Row
  <2> QED
    BY <1>1, <2>1, ForType
<1>8. ASSUME NEW u \in User, NEW b \in BOOLEAN, SetUserActive(r, u, b) PROVE Goal
  <2> DEFINE arg == [For(u) EXCEPT !.active = b]
  <2>1. /\ Row(u)
        /\ \/ Begin(r, <<"setActive", "logActive">>, arg)
           \/ Begin(r, <<"setActive", "revokeAll", "logActive">>, arg)
    BY <1>8 DEF SetUserActive, Live, Row
  <2>2. arg \in Args /\ arg.user = u /\ arg.token = NoToken
    BY BlankType DEF For, Args, Blank
  <2> HIDE DEF arg
  <2> QED
    BY <1>1, <2>1, <2>2
<1> QED
  BY <1>2, <1>3, <1>4, <1>5, <1>6, <1>7, <1>8,
     RegistrationBegins, GoogleBegins, RefreshBegins, LocationBegins DEF StartAccount, Goal

LEMMA VerificationStarts ==
    ASSUME Base, NEW r \in Slot, UNCHANGED tables, StartVerification(r)
    PROVE  Plans' /\ Started(r)
<1>1. ASSUME NEW u \in User, SendDocuments(r, u) PROVE Plans' /\ Started(r)
  <2>1. Row(u) /\ For(u) \in Args /\ For(u).user = u /\ For(u).token = NoToken
    BY <1>1, ForType DEF SendDocuments, Base
  <2>2. CASE profile[u].status = "REJECTED"
    <3>1. Begin(r, <<"upsertIdentity", "reopen">>, For(u))
      BY <1>1, <2>2 DEF SendDocuments, AfterUploads, Reopens
    <3>2. SubjectOf({"upsertIdentity", "reopen"}, For(u)) /\ AloneOf({"upsertIdentity", "reopen"}, For(u))
      BY <2>1, <2>2, AboutAccount
    <3>3. PlanOver(<<"upsertIdentity", "reopen">>, {"upsertIdentity", "reopen"})
      BY PlansBegun
    <3> QED
      BY <2>1, <3>1, <3>2, <3>3, Opens DEF DocumentsOf
  <2>3. CASE profile[u].status # "REJECTED"
    <3>1. Begin(r, <<"upsertIdentity">>, For(u))
      BY <1>1, <2>3 DEF SendDocuments, AfterUploads, Reopens
    <3>2. SubjectOf({"upsertIdentity"}, For(u)) /\ AloneOf({"upsertIdentity"}, For(u))
      BY <2>1, AboutAccount
    <3>3. PlanOver(<<"upsertIdentity">>, {"upsertIdentity"})
      BY PlansBegun
    <3> QED
      BY <2>1, <2>3, <3>1, <3>2, <3>3, Opens DEF DocumentsOf
  <2> QED
    BY <2>2, <2>3
<1>2. ASSUME NEW u \in User, NEW status \in VerificationStatus \ {"PENDING"}, TransitionSeller(r, u, status)
      PROVE  Plans' /\ Started(r)
  <2> DEFINE known == identity[u] # "NONE"
             arg == [For(u) EXCEPT !.status = status, !.previous = profile[u].status]
             left == Decided(status, known)
  <2>1. Row(u) /\ Begin(r, AfterTransition(status, known), arg)
    BY <1>2 DEF TransitionSeller, Base
  <2>2. arg \in Args /\ arg.user = u /\ arg.token = NoToken /\ arg.status = status /\ arg.previous = profile[u].status
    BY BlankType DEF For, Args, Blank, Base, AccTypeOK, SellerProfile
  <2>3. PlanOver(AfterTransition(status, known), left) /\ AfterTransition(status, known) # <<>>
    BY TransitionPlan
  <2> HIDE DEF arg
  <2>5. DocumentsOf(left, arg) /\ "logStatus" \in left
    BY <2>2 DEF DocumentsOf, Decided
  <2> HIDE DEF known
  <2>4. SubjectOf(left, arg) /\ AloneOf(left, arg)
    BY <2>1, <2>2 DEF SubjectOf, AloneOf, Decided, Inserts
  <2> QED
    BY <2>1, <2>2, <2>3, <2>4, <2>5, Opens
<1> QED
  BY <1>1, <1>2 DEF StartVerification

---------------------------------------------------------------------------
(* The statements.                                                         *)

Moved(r) ==
    /\ Plans'
    /\ \/ Stopped(r)
       \/ \E s \in Statement, arg \in Args : Ran(r, s, arg) /\ Wrote(s, req[r].arg, arg)

LEMMA RunsOn ==
    ASSUME Base, NEW r \in Slot, NEW s, At(r, s), NEW arg \in Args, AdvanceWith(r, arg)
    PROVE  Plans' /\ Ran(r, s, arg) /\ s \in Statement /\ req[r].arg \in Args
<1>1. /\ s \in Statement /\ s \in Left(r) /\ Left(r) \subseteq {s} \cup Later[s]
      /\ ~Resting(r) /\ req[r] \in [todo : Seq(Statement), arg : Args]
  BY AtHead, LaterType DEF Base, Plans
<1>2. /\ PlansOK(Statement, Later, Args)'
      /\ Left(r)' = Left(r) \ {s}
      /\ Left(r)' # {} => req'[r].arg = arg
      /\ \A q \in Slot \ {r} : req'[q] = req[q] /\ Left(q)' = Left(q)
      /\ UNCHANGED <<smooth, begun>>
  BY Advances, LaterType DEF Base, Plans
<1> QED
  BY <1>1, <1>2 DEF Plans, Ran, Others

LEMMA AtAccount ==
    ASSUME Base, NEW r \in Slot, NEW s, At(r, s), s \notin Draws \cup Inserts
    PROVE  /\ s \in Left(r) /\ Left(r) \cap Inserts = {}
           /\ req[r].arg \in Args
           /\ req[r].arg.user \in User /\ Row(req[r].arg.user) /\ user[req[r].arg.user] \in Account
<1>1. /\ s \in Statement /\ s \in Left(r) /\ Left(r) \subseteq {s} \cup Later[s]
      /\ req[r].arg \in Args
  BY AtHead, LaterType DEF Base, Plans
<1>2. {s} \cup Later[s] \subseteq Statement \ Inserts
  BY <1>1 DEF Later, Successors, Statement, Inserts, Draws, CodeStores
<1> QED
  BY <1>1, <1>2 DEF Base, Subject, SubjectOf, AccTypeOK

LEMMA IsRefused ==
    ASSUME Base, NEW r \in Slot,
           NEW s \in Inserts \cup Draws \cup CodeStores \cup {"link", "check"}, At(r, s),
           Quit(r), UNCHANGED tables
    PROVE  Plans' /\ Stopped(r)
<1>1. s \in Statement /\ Left(r) \subseteq {s} \cup Later[s]
  BY AtHead, LaterType DEF Base, Plans
<1>2. Left(r) \subseteq Refusable
  BY <1>1, RefusedEarly
<1>3. req' = [req EXCEPT ![r] = Idle] /\ UNCHANGED smooth
  BY DEF Quit
<1>4. PlansOK(Statement, Later, Args)' /\ Left(r)' = {} /\ Others(r)
  BY <1>3, Ends DEF Base, Plans, Others
<1> QED
  BY <1>2, <1>3, <1>4 DEF Plans, Stopped

LEMMA Breaks ==
    ASSUME Base, NEW r \in Slot, Break(r), UNCHANGED tables
    PROVE  Plans' /\ Stopped(r)
<1>1. req' = [req EXCEPT ![r] = Idle] /\ smooth' = FALSE
  BY DEF Break
<1>2. PlansOK(Statement, Later, Args)' /\ Left(r)' = {} /\ Others(r)
  BY <1>1, Ends DEF Base, Plans, Others
<1> QED
  BY <1>1, <1>2 DEF Plans, Stopped

\* A statement that runs, with what it does to the tables.
LEMMA IsRun ==
    ASSUME Base, NEW r \in Slot, NEW s, At(r, s), s \notin Draws \cup {"insert"}, Advance(r),
           WroteUser(s, req[r].arg, req[r].arg), WroteToken(s, req[r].arg),
           WroteSeller(s, req[r].arg), WroteLogs(s, req[r].arg),
           s = "check" => MayRenew(req[r].arg.user)
    PROVE  Moved(r)
<1> DEFINE arg == req[r].arg
<1>1. arg \in Args
  BY AtHead, LaterType DEF Base, Plans
<1>2. AdvanceWith(r, arg)
  BY DEF Advance
<1>3. Plans' /\ Ran(r, s, arg) /\ s \in Statement
  BY <1>1, <1>2, RunsOn
<1>4. Wrote(s, arg, arg)
  BY <1>1, <1>3 DEF Wrote
<1> QED
  BY <1>1, <1>3, <1>4 DEF Moved

LEMMA ChooseMoves ==
    ASSUME Base, NEW r \in Slot, NEW s \in Draws, NEW taken, Choose(r, s, taken), UNCHANGED svVars
    PROVE  Moved(r)
<1> DEFINE a == req[r].arg
<1>1. a \in Args /\ At(r, s) /\ UNCHANGED tables
  BY AtHead, LaterType DEF Base, Plans, Choose, tables
<1>2. ASSUME NEW c \in Code, AdvanceWith(r, [a EXCEPT !.code = c, !.new.verifyCode = c])
      PROVE  Moved(r)
  <2> DEFINE arg == [a EXCEPT !.code = c, !.new.verifyCode = c]
  <2>1. arg \in Args
    <3>1. arg = [a EXCEPT !.code = c, !.new = [a.new EXCEPT !.verifyCode = c]]
      BY <1>1 DEF Args
    <3>2. [a.new EXCEPT !.verifyCode = c] \in Account
      BY <1>1 DEF Args, Account
    <3> HIDE DEF a
    <3> QED
      BY <1>1, <3>1, <3>2 DEF Args
  <2>2. Plans' /\ Ran(r, s, arg)
    BY <1>1, <1>2, <2>1, RunsOn
  <2>3. Wrote(s, a, arg)
    <3>1. s \in Statement
      BY DEF Statement
    <3>2. /\ UNCHANGED <<user, token, profile, primary, identity, accountLog, sellerLog, told, past>>
          /\ s \in {"chooseVerify", "chooseReset"}
      BY <1>1 DEF tables, accVars, svVars, Draws
    <3> QED
      BY <1>1, <2>1, <3>1, <3>2
      DEF Wrote, WroteUser, WroteToken, WroteSeller, WroteLogs, Draws, UserUpdates, CodeStores, Inserts
  <2> QED
    BY <2>1, <2>2, <2>3 DEF Moved, Statement
<1>3. CASE Quit(r)
  BY <1>1, <1>3, IsRefused DEF Moved
<1> QED
  BY <1>2, <1>3 DEF Choose

LEMMA InsertMoves ==
    ASSUME Base, NEW r \in Slot, Insert(r), UNCHANGED svVars
    PROVE  Moved(r)
<1> DEFINE a == req[r].arg  s == "insert"
<1>1. /\ a \in Args /\ At(r, s) /\ s \in Statement
      /\ UNCHANGED <<profile, primary, token, accountLog, svVars>>
  BY AtHead, LaterType DEF Base, Plans, Insert
<1>2. CASE Clashes(a.new)
  <2>1. Quit(r) /\ UNCHANGED tables
    BY <1>1, <1>2 DEF Insert, tables, accVars
  <2> QED
    BY <1>1, <2>1, IsRefused DEF Moved, Inserts
<1>3. ASSUME NEW v \in User, ~Row(v), user' = [user EXCEPT ![v] = a.new],
             AdvanceWith(r, [a EXCEPT !.user = v])
      PROVE  Moved(r)
  <2> DEFINE arg == [a EXCEPT !.user = v]
  <2>1. arg \in Args
    BY <1>1 DEF Args
  <2>2. Plans' /\ Ran(r, s, arg)
    BY <1>1, <1>3, <2>1, RunsOn
  <2>3. WroteUser(s, a, arg)
    BY <1>3 DEF WroteUser, UserUpdates, CodeStores, Inserts
  <2>4. WroteToken(s, a) /\ WroteSeller(s, a) /\ WroteLogs(s, a)
    BY <1>1 DEF WroteToken, WroteSeller, WroteLogs, svVars
  <2>5. Wrote(s, a, arg)
    BY <1>1, <2>1, <2>3, <2>4 DEF Wrote, Draws
  <2> QED
    BY <1>1, <2>1, <2>2, <2>5 DEF Moved
<1> QED
  BY <1>2, <1>3 DEF Insert

LEMMA InsertSellerMoves ==
    ASSUME Base, NEW r \in Slot, InsertSeller(r), UNCHANGED svVars
    PROVE  Moved(r)
<1> DEFINE a == req[r].arg  s == "insertSeller"
<1>1. At(r, s) /\ UNCHANGED <<token, accountLog, svVars>>
  BY DEF InsertSeller
<1>2. CASE Quit(r) /\ UNCHANGED <<user, profile, primary>>
  <2>1. UNCHANGED tables
    BY <1>1, <1>2 DEF tables, accVars
  <2> QED
    BY <1>1, <1>2, <2>1, IsRefused DEF Moved, Inserts
<1>3. ASSUME ~ \E v \in User : profile[v].dni = a.dni,
             NEW v \in User, ~Row(v), user' = [user EXCEPT ![v] = a.new],
             profile' = [profile EXCEPT ![v].dni = a.dni], primary' = [primary EXCEPT ![v] = 1],
             Advance(r)
      PROVE  Moved(r)
  <2>1. WroteUser(s, a, a)
    BY <1>3 DEF WroteUser, UserUpdates, CodeStores, Inserts
  <2>2. WroteToken(s, a) /\ WroteSeller(s, a) /\ WroteLogs(s, a)
    BY <1>1 DEF WroteToken, WroteSeller, WroteLogs, svVars
  <2> QED
    BY <1>1, <1>3, <2>1, <2>2, IsRun DEF Draws
<1> QED
  BY <1>2, <1>3 DEF InsertSeller

LEMMA CheckMoves ==
    ASSUME Base, NEW r \in Slot, CheckUser(r), UNCHANGED svVars
    PROVE  Moved(r)
<1>1. At(r, "check") /\ UNCHANGED tables
  BY DEF CheckUser, tables
<1>2. CASE Quit(r)
  BY <1>1, <1>2, IsRefused DEF Moved
<1>3. CASE Advance(r) /\ MayRenew(req[r].arg.user)
  <2>1. UNCHANGED <<user, token, profile, primary, identity, accountLog, sellerLog, told, past>>
    BY <1>1 DEF tables, accVars, svVars
  <2>2. /\ WroteUser("check", req[r].arg, req[r].arg) /\ WroteToken("check", req[r].arg)
        /\ WroteSeller("check", req[r].arg) /\ WroteLogs("check", req[r].arg)
    BY <2>1 DEF WroteUser, WroteToken, WroteSeller, WroteLogs, UserUpdates, CodeStores, Inserts
  <2> QED
    BY <1>1, <1>3, <2>2, IsRun DEF Draws
<1> QED
  BY <1>2, <1>3 DEF CheckUser

LEMMA SessionMoves ==
    ASSUME Base, NEW r \in Slot, Spend(r) \/ Open(r) \/ RevokeAll(r), UNCHANGED svVars
    PROVE  Moved(r)
<1> DEFINE a == req[r].arg
<1>1. ASSUME NEW s \in {"spend", "open", "revokeAll"}, At(r, s), Advance(r),
             UNCHANGED <<user, profile, primary, accountLog>>, WroteToken(s, a)
      PROVE  Moved(r)
  <2>1. WroteUser(s, a, a) /\ WroteSeller(s, a) /\ WroteLogs(s, a)
    BY <1>1 DEF WroteUser, WroteSeller, WroteLogs, svVars, UserUpdates, CodeStores, Inserts
  <2> QED
    BY <1>1, <2>1, IsRun DEF Draws
<1>2. CASE Spend(r)
  BY <1>1, <1>2 DEF Spend, Spent, WroteToken
<1>3. CASE Open(r)
  <2>1. WroteToken("open", a)
    <3>1. ASSUME NEW t \in Token, \A i \in Token : token[i].user = NoUser <=> i >= t
          PROVE  ~Issued(t)
      BY <3>1 DEF Issued, Token
    <3> QED
      BY <1>3, <3>1 DEF Open, WroteToken
  <2> QED
    BY <1>1, <1>3, <2>1 DEF Open
<1>4. CASE RevokeAll(r)
  BY <1>1, <1>4 DEF RevokeAll, WroteToken
<1> QED
  BY <1>2, <1>3, <1>4

\* An update of the row of the request's account.
LEMMA UserMoves ==
    ASSUME Base, NEW r \in Slot, NEW s \in UserUpdates, UNCHANGED svVars, NEW row,
           SetUser(r, s, row), row \in Account,
           row.role = user[req[r].arg.user].role,
           row.state = IF s = "erase" THEN "deleted" ELSE user[req[r].arg.user].state,
           s # "setPassword" => row.password = user[req[r].arg.user].password,
           s = "setActive" => row.active = req[r].arg.active,
           s \notin {"setActive", "erase"} => row.active = user[req[r].arg.user].active
    PROVE  Moved(r)
<1> DEFINE a == req[r].arg
<1>1. /\ At(r, s) /\ Advance(r) /\ user' = [user EXCEPT ![a.user] = row]
      /\ UNCHANGED <<profile, primary, token, accountLog>>
  BY DEF SetUser
<1>2. s \notin Draws \cup Inserts
  BY DEF UserUpdates, CodeStores, Draws, Inserts
<1>3. a.user \in User
  BY <1>1, <1>2, AtAccount
<1>4. WroteUser(s, a, a)
  BY <1>1, <1>2, <1>3 DEF WroteUser
<1>5. WroteToken(s, a) /\ WroteSeller(s, a) /\ WroteLogs(s, a)
  BY <1>1 DEF WroteToken, WroteSeller, WroteLogs, svVars, UserUpdates, CodeStores
<1> QED
  BY <1>1, <1>2, <1>4, <1>5, IsRun DEF UserUpdates, CodeStores, Inserts

LEMMA LinkMoves ==
    ASSUME Base, NEW r \in Slot, Link(r), UNCHANGED svVars
    PROVE  Moved(r)
<1> DEFINE a == req[r].arg  row == [user[a.user] EXCEPT !.google = a.new.google, !.verified = TRUE]
<1>1. At(r, "link") /\ UNCHANGED <<profile, primary, token, accountLog>>
  BY DEF Link
<1>2. CASE Quit(r) /\ UNCHANGED user
  <2>1. UNCHANGED tables
    BY <1>1, <1>2 DEF tables, accVars
  <2> QED
    BY <1>1, <1>2, <2>1, IsRefused DEF Moved
<1>3. CASE Advance(r) /\ user' = [user EXCEPT ![a.user].google = a.new.google, ![a.user].verified = TRUE]
  <2>1. a \in Args /\ a.user \in User /\ user[a.user] \in Account
    BY <1>1, AtAccount DEF Draws, Inserts
  <2>2. user' = [user EXCEPT ![a.user] = row]
    BY <1>3, <2>1 DEF Base, AccTypeOK
  <2>3. /\ row \in Account /\ row.role = user[a.user].role /\ row.state = user[a.user].state
        /\ row.password = user[a.user].password /\ row.active = user[a.user].active
    BY <2>1 DEF Account, Args
  <2> HIDE DEF row
  <2>4. SetUser(r, "link", row)
    BY <1>1, <1>3, <2>2 DEF SetUser
  <2> QED
    BY <2>3, <2>4, UserMoves DEF UserUpdates
<1> QED
  BY <1>2, <1>3 DEF Link

LEMMA CodeMoves ==
    ASSUME Base, NEW r \in Slot, SetCode(r), UNCHANGED svVars
    PROVE  Moved(r)
<1> DEFINE a == req[r].arg
<1>1. ASSUME NEW s \in CodeStores, At(r, s), Quit(r), UNCHANGED accVars
      PROVE  Moved(r)
  <2>1. UNCHANGED tables
    BY <1>1 DEF tables
  <2> QED
    BY <1>1, <2>1, IsRefused DEF Moved
<1>2. ASSUME NEW s \in CodeStores, At(r, s), NEW row, SetUser(r, s, row),
             \/ row = [user[a.user] EXCEPT !.resetCode = a.code]
             \/ row = [user[a.user] EXCEPT !.verifyCode = a.code]
      PROVE  Moved(r)
  <2>1. a \in Args /\ user[a.user] \in Account
    BY <1>2, AtAccount DEF CodeStores, Draws, Inserts
  <2>2. /\ row \in Account /\ row.role = user[a.user].role /\ row.state = user[a.user].state
        /\ row.password = user[a.user].password /\ row.active = user[a.user].active
    BY <1>2, <2>1 DEF Account, Args
  <2> QED
    BY <1>2, <2>2, UserMoves DEF UserUpdates, CodeStores
<1>3. "setReset" \in CodeStores /\ "setVerify" \in CodeStores
  BY DEF CodeStores
<1> HIDE DEF a
<1> QED
  BY <1>1, <1>2, <1>3 DEF SetCode, StoreCode, a

LEMMA AccountMoves ==
    ASSUME Base, NEW r \in Slot, UNCHANGED svVars,
           SetPassword(r) \/ Verify(r) \/ SetActive(r) \/ Erase(r)
    PROVE  Moved(r)
<1> DEFINE a == req[r].arg
<1>1. CASE SetPassword(r)
  <2> DEFINE row == [user[a.user] EXCEPT !.password = a.password,
                            !.resetCode = IF a.code = NoCode THEN @ ELSE NoCode]
  <2>1. SetUser(r, "setPassword", row)
    BY <1>1 DEF SetPassword
  <2>2. At(r, "setPassword")
    BY <2>1 DEF SetUser
  <2>3. a.user \in User /\ a \in Args /\ user[a.user] \in Account
    BY <2>2, AtAccount DEF Draws, Inserts
  <2>4. row.role = user[a.user].role /\ row.state = user[a.user].state /\ row.active = user[a.user].active
    BY <2>3 DEF Account
  <2>5. row \in Account
    <3> DEFINE left == IF a.code = NoCode THEN user[a.user].resetCode ELSE NoCode
    <3>1. row = [user[a.user] EXCEPT !.password = a.password, !.resetCode = left]
      OBVIOUS
    <3>2. a.password \in Password \cup {NoPassword} /\ left \in Code \cup {NoCode}
      BY <2>3 DEF Account, Args
    <3> HIDE DEF row, a, left
    <3> QED
      BY <2>3, <3>1, <3>2 DEF Account
  <2> HIDE DEF row, a
  <2> QED
    BY <2>1, <2>4, <2>5, UserMoves DEF a, UserUpdates
<1>2. CASE Verify(r)
  <2> DEFINE row == [user[a.user] EXCEPT !.verified = TRUE, !.verifyCode = NoCode]
  <2>1. SetUser(r, "verify", row)
    BY <1>2 DEF Verify
  <2>2. At(r, "verify")
    BY <2>1 DEF SetUser
  <2>3. a.user \in User /\ a \in Args /\ user[a.user] \in Account
    BY <2>2, AtAccount DEF Draws, Inserts
  <2>4. /\ row.role = user[a.user].role /\ row.state = user[a.user].state
        /\ row.password = user[a.user].password /\ row.active = user[a.user].active
    BY <2>3 DEF Account
  <2>5. row \in Account
    BY <2>3 DEF Account, Args
  <2> HIDE DEF row, a
  <2> QED
    BY <2>1, <2>4, <2>5, UserMoves DEF a, UserUpdates
<1>3. CASE SetActive(r)
  <2> DEFINE row == [user[a.user] EXCEPT !.active = a.active]
  <2>1. SetUser(r, "setActive", row)
    BY <1>3 DEF SetActive
  <2>2. At(r, "setActive")
    BY <2>1 DEF SetUser
  <2>3. a.user \in User /\ a \in Args /\ user[a.user] \in Account
    BY <2>2, AtAccount DEF Draws, Inserts
  <2>4. row.role = user[a.user].role /\ row.state = user[a.user].state /\ row.password = user[a.user].password /\ row.active = a.active
    BY <2>3 DEF Account
  <2>5. row \in Account
    BY <2>3 DEF Account, Args
  <2> HIDE DEF row, a
  <2> QED
    BY <2>1, <2>4, <2>5, UserMoves DEF a, UserUpdates
<1>4. CASE Erase(r)
  <2> DEFINE row == [user[a.user] EXCEPT !.state = "deleted", !.active = FALSE,
                                               !.email = NoEmail]
  <2>1. SetUser(r, "erase", row)
    BY <1>4 DEF Erase
  <2>2. At(r, "erase")
    BY <2>1 DEF SetUser
  <2>3. a.user \in User /\ a \in Args /\ user[a.user] \in Account
    BY <2>2, AtAccount DEF Draws, Inserts
  <2>4. row.role = user[a.user].role /\ row.password = user[a.user].password /\ row.state = "deleted"
    BY <2>3 DEF Account
  <2>5. row \in Account
    BY <2>3, ZenonT(40) DEF Account, Args
  <2> HIDE DEF row, a
  <2> QED
    BY <2>1, <2>4, <2>5, UserMoves DEF a, UserUpdates
<1> QED
  BY <1>1, <1>2, <1>3, <1>4

LEMMA PrimaryMoves ==
    ASSUME Base, NEW r \in Slot, AddPrimary(r), UNCHANGED svVars
    PROVE  Moved(r)
<1> DEFINE a == req[r].arg  s == "addPrimary"
<1>1. At(r, s) /\ Advance(r) /\ UNCHANGED <<user, profile, token, accountLog>>
  BY DEF AddPrimary
<1>2. WroteSeller(s, a)
  BY <1>1 DEF AddPrimary, WroteSeller, svVars
<1>3. WroteUser(s, a, a) /\ WroteToken(s, a) /\ WroteLogs(s, a)
  BY <1>1 DEF WroteUser, WroteToken, WroteLogs, svVars, UserUpdates, CodeStores, Inserts
<1> QED
  BY <1>1, <1>2, <1>3, IsRun DEF Draws

LEMMA LogMoves ==
    ASSUME Base, NEW r \in Slot, LogAccount(r), UNCHANGED svVars
    PROVE  Moved(r)
<1> DEFINE a == req[r].arg
<1>1. /\ Advance(r) /\ UNCHANGED <<user, profile, primary, token>>
      /\ accountLog' = [accountLog EXCEPT ![a.user] = Append(@,
            IF At(r, "logDeleted") THEN "USER_DELETED" ELSE SwitchAction(a.active))]
  BY DEF LogAccount
<1>2. ASSUME NEW s \in {"logDeleted", "logActive"}, At(r, s) PROVE Moved(r)
  <2>1. At(r, "logDeleted") <=> s = "logDeleted"
    BY <1>2 DEF At
  <2>2. WroteLogs(s, a)
    BY <1>1, <1>2, <2>1 DEF WroteLogs, svVars
  <2>3. WroteUser(s, a, a) /\ WroteToken(s, a) /\ WroteSeller(s, a)
    BY <1>1, <1>2 DEF WroteUser, WroteToken, WroteSeller, svVars, UserUpdates, CodeStores, Inserts
  <2> QED
    BY <1>1, <1>2, <2>2, <2>3, IsRun DEF Draws
<1> QED
  BY <1>2 DEF LogAccount

LEMMA VerificationMoves ==
    ASSUME Base, NEW r \in Slot, VerificationStep(r)
    PROVE  Moved(r)
<1> DEFINE a == req[r].arg
<1>1. ASSUME NEW s, s \notin UserUpdates \cup Inserts \cup Draws \cup {"spend", "open", "revokeAll", "check"},
             At(r, s), Advance(r), UNCHANGED <<user, token>>, WroteSeller(s, a), WroteLogs(s, a)
      PROVE  Moved(r)
  <2>1. WroteUser(s, a, a) /\ WroteToken(s, a)
    BY <1>1 DEF WroteUser, WroteToken
  <2> QED
    BY <1>1, <2>1, IsRun DEF Inserts
<1>2. \A s \in {"setStatus", "reopen", "upsertIdentity", "setIdentity", "logStatus", "notify"} :
         s \notin UserUpdates \cup Inserts \cup Draws \cup {"spend", "open", "revokeAll", "check"}
  BY DEF UserUpdates, CodeStores, Inserts, Draws
<1>3. CASE SetStatus(r, "setStatus", a.status) \/ SetStatus(r, "reopen", "PENDING")
  <2>1. PICK s \in {"setStatus", "reopen"} :
            SetStatus(r, s, IF s = "reopen" THEN "PENDING" ELSE a.status)
    BY <1>3
  <2>2. At(r, s) /\ Advance(r) /\ UNCHANGED <<user, token>>
    BY <2>1 DEF SetStatus
  <2>3. WroteSeller(s, a) /\ WroteLogs(s, a)
    BY <2>1 DEF SetStatus, WroteSeller, WroteLogs, svVars
  <2> QED
    BY <1>1, <1>2, <2>2, <2>3
<1>4. CASE SetIdentity(r, "upsertIdentity", "PENDING") \/ SetIdentity(r, "setIdentity", a.status)
  <2>1. PICK s \in {"upsertIdentity", "setIdentity"} :
            SetIdentity(r, s, IF s = "upsertIdentity" THEN "PENDING" ELSE a.status)
    BY <1>4
  <2>2. At(r, s) /\ Advance(r) /\ UNCHANGED <<user, token>>
    BY <2>1 DEF SetIdentity, accVars
  <2>3. WroteSeller(s, a) /\ WroteLogs(s, a)
    BY <2>1 DEF SetIdentity, WroteSeller, WroteLogs, accVars
  <2> QED
    BY <1>1, <1>2, <2>2, <2>3
<1>5. CASE LogStatus(r)
  <2>1. At(r, "logStatus") /\ Advance(r) /\ UNCHANGED <<user, token>>
    BY <1>5 DEF LogStatus, accVars
  <2>2. WroteSeller("logStatus", a) /\ WroteLogs("logStatus", a)
    BY <1>5 DEF LogStatus, WroteSeller, WroteLogs, accVars
  <2> QED
    BY <1>1, <1>2, <2>1, <2>2
<1>6. CASE Notify(r)
  <2>1. At(r, "notify") /\ Advance(r) /\ UNCHANGED <<user, token>>
    BY <1>6 DEF Notify, accVars
  <2>2. WroteSeller("notify", a) /\ WroteLogs("notify", a)
    BY <1>6 DEF Notify, WroteSeller, WroteLogs, accVars
  <2> QED
    BY <1>1, <1>2, <2>1, <2>2
<1> QED
  BY <1>3, <1>4, <1>5, <1>6 DEF VerificationStep

LEMMA LogoutMoves ==
    ASSUME Base, (\E t \in Token : Logout(t)) \/ (\E u \in User : LogoutAll(u)), UNCHANGED svVars
    PROVE  Plans' /\ SignedOut
<1>1. UNCHANGED <<req, user, profile, primary, accountLog, svVars>> /\ smooth' = (smooth /\ AllRest)
  BY DEF Logout, LogoutAll, AtOnce, Count
<1>2. token \in [Token -> Session] /\ NoUser \notin User
  BY AccountsAssumption DEF Base, AccTypeOK
<1> DEFINE Closed == /\ token' \in [Token -> Session]
                     /\ \A t \in Token : \/ token'[t] = token[t]
                                         \/ Issued(t) /\ token'[t] = [token[t] EXCEPT !.revoked = TRUE]
<1>3. Closed
  <2>1. ASSUME NEW t \in Token, Logout(t) PROVE Closed
    BY <1>2, <2>1, ZenonT(40) DEF Logout, Revoked, Session, Issued
  <2>2. ASSUME NEW u \in User, LogoutAll(u) PROVE Closed
    BY <1>2, <2>2, ZenonT(40) DEF LogoutAll, AllRevoked, Session, Issued
  <2> QED
    BY <2>1, <2>2
<1>4. Plans'
  BY <1>1 DEF Base, Plans, PlansOK, Resting
<1> QED
  BY <1>1, <1>3, <1>4 DEF SignedOut

\* Every step is one of those.
LEMMA Steps == ASSUME Base, [SVNext]_allVars PROVE Plans' /\ Step
<1>1. CASE UNCHANGED allVars
  BY <1>1 DEF allVars, reqVars, Base, Plans, PlansOK, Resting, Step
<1>2. ASSUME NEW r \in Slot, Moved(r) PROVE Plans' /\ Step
  BY <1>2 DEF Moved, Step
<1>3. ASSUME NEW r \in Slot, StartAccount(r), UNCHANGED accVars, UNCHANGED svVars PROVE Plans' /\ Step
  BY <1>3, AccountStarts DEF Step, tables
<1>4. ASSUME NEW r \in Slot, AccountStep(r), UNCHANGED svVars PROVE Moved(r)
  <2>1. "chooseVerify" \in Draws /\ "chooseReset" \in Draws
    BY DEF Draws
  <2> QED
    BY <1>4, <2>1, ChooseMoves, InsertMoves, InsertSellerMoves, LinkMoves, CheckMoves, SessionMoves,
       CodeMoves, AccountMoves, PrimaryMoves, LogMoves DEF AccountStep
<1>5. ASSUME NEW r \in Slot, Break(r), UNCHANGED accVars, UNCHANGED svVars PROVE Plans' /\ Step
  BY <1>5, Breaks DEF Step, tables
<1>6. ASSUME (\E t \in Token : Logout(t)) \/ (\E u \in User : LogoutAll(u)), UNCHANGED svVars
      PROVE  Plans' /\ Step
  BY <1>6, LogoutMoves DEF Step
<1>7. ASSUME NEW r \in Slot, StartVerification(r), UNCHANGED <<accVars, svVars>> PROVE Plans' /\ Step
  BY <1>7, VerificationStarts DEF Step, tables
<1>8. ASSUME NEW r \in Slot, VerificationStep(r) PROVE Moved(r)
  BY <1>8, VerificationMoves
<1>9. CASE AccNext /\ UNCHANGED svVars
  BY <1>2, <1>3, <1>4, <1>5, <1>6, <1>9 DEF AccNext
<1> QED
  BY <1>1, <1>2, <1>7, <1>8, <1>9 DEF SVNext

---------------------------------------------------------------------------
(* The base is an invariant.                                               *)

\* A request in flight whose statements all come after its rows are inserted.
LEMMA RanAccount ==
    ASSUME Base, NEW r \in Slot, NEW s \in Statement, NEW arg, Ran(r, s, arg), s \notin Draws \cup Inserts
    PROVE  /\ Left(r) \cap Inserts = {} /\ Left(r) # {}
           /\ req[r].arg.user \in User /\ Row(req[r].arg.user)
<1>1. Later[s] \cap Inserts = {}
  BY DEF Later, Successors, Statement, Inserts, Draws, CodeStores
<1>2. s \in Left(r) /\ Left(r) \subseteq {s} \cup Later[s]
  BY DEF Ran
<1> QED
  BY <1>1, <1>2 DEF Base, Subject, SubjectOf

LEMMA LogNeeds == UserUpdates \cup {"spend", "open", "revokeAll", "check", "logDeleted", "logActive", "setStatus",
                                    "reopen", "addPrimary", "upsertIdentity", "setIdentity", "logStatus", "notify"}
                      \subseteq Statement \ (Draws \cup Inserts)
  BY DEF UserUpdates, Statement, Draws, Inserts, CodeStores

LEMMA UserTypeKept ==
    ASSUME AccTypeOK, NEW s, NEW a \in Args, NEW arg, WroteUser(s, a, arg)
    PROVE  user' \in [User -> Account]
<1>1. CASE s \notin UserUpdates \cup Inserts
  BY <1>1 DEF WroteUser, AccTypeOK
<1>2. CASE s \in UserUpdates
  BY <1>2 DEF WroteUser, AccTypeOK
<1>3. CASE s \in Inserts
  <2>1. PICK v \in User : user' = [user EXCEPT ![v] = a.new]
    BY <1>3 DEF WroteUser
  <2> QED
    BY <2>1 DEF AccTypeOK, Args
<1> QED
  BY <1>1, <1>2, <1>3

LEMMA TokenTypeKept ==
    ASSUME AccTypeOK, NEW s, NEW a \in Args, s = "open" => a.user \in User, WroteToken(s, a)
    PROVE  token' \in [Token -> Session]
<1>1. token \in [Token -> Session] /\ user \in [User -> Account]
  BY DEF AccTypeOK
<1>2. CASE s = "open"
  <2>1. PICK t \in Token : token' = [token EXCEPT ![t] =
                [user |-> a.user, revoked |-> FALSE, from |-> a.token,
                 login |-> IF a.token = NoToken THEN t ELSE token[a.token].login,
                 password |-> a.password, late |-> user[a.user].state = "deleted"]]
    BY <1>2 DEF WroteToken
  <2>2. a.token \in Token \cup {NoToken} /\ a.password \in Password \cup {NoPassword}
    BY <1>1, <1>2 DEF Args, Account
  <2>3. (IF a.token = NoToken THEN t ELSE token[a.token].login) \in Token \cup {NoToken}
    BY <1>1, <2>2 DEF Session
  <2> QED
    BY <1>1, <1>2, <2>1, <2>2, <2>3 DEF Session
<1>3. CASE s = "spend"
  <2>1. token' = [token EXCEPT ![a.token] = [token[a.token] EXCEPT !.revoked = TRUE]]
    BY <1>3 DEF WroteToken, Revoked
  <2>2. a.token \in Token => [token[a.token] EXCEPT !.revoked = TRUE] \in Session
    BY <1>1, ZenonT(40) DEF Session
  <2> QED
    BY <1>1, <2>1, <2>2
<1>4. CASE s = "revokeAll"
  <2>1. \A t \in Token : [token[t] EXCEPT !.revoked = TRUE] \in Session
    BY <1>1 DEF Session
  <2> QED
    BY <1>1, <1>4, <2>1 DEF WroteToken, AllRevoked
<1> QED
  BY <1>1, <1>2, <1>3, <1>4 DEF WroteToken

LEMMA SellerTypeKept ==
    ASSUME AccTypeOK, NEW s, NEW a \in Args, NEW arg, WroteUser(s, a, arg), WroteSeller(s, a)
    PROVE  /\ profile' \in [User -> SellerProfile]
           /\ primary' \in [User -> Nat]
           /\ identity' \in [User -> VerificationStatus \cup {"NONE"}]
<1>1. identity' \in [User -> VerificationStatus \cup {"NONE"}]
  BY DEF WroteSeller, AccTypeOK, Args, VerificationStatus
<1>2. CASE s = "insertSeller"
  <2>1. PICK v \in User : /\ profile' = [profile EXCEPT ![v].dni = a.dni]
                          /\ primary' = [primary EXCEPT ![v] = 1]
    BY <1>2 DEF WroteUser, Inserts
  <2>2. /\ profile \in [User -> SellerProfile] /\ primary \in [User -> Nat]
        /\ a.dni \in Dni \cup {NoDni}
    BY DEF AccTypeOK, Args
  <2>3. [profile[v] EXCEPT !.dni = a.dni] \in SellerProfile
    BY <2>2 DEF SellerProfile
  <2>4. profile' \in [User -> SellerProfile]
    BY <2>1, <2>2, <2>3
  <2>5. primary' \in [User -> Nat]
    BY <2>1, <2>2
  <2> QED
    BY <1>1, <2>4, <2>5
<1>3. CASE s # "insertSeller"
  <2>1. primary' \in [User -> Nat]
    <3>1. primary \in [User -> Nat]
      BY DEF AccTypeOK
    <3>2. primary' = primary \/ primary' = [primary EXCEPT ![a.user] = @ + 1]
      BY <1>3 DEF WroteSeller
    <3> QED
      BY <3>1, <3>2
  <2>2. profile' \in [User -> SellerProfile]
    <3> DEFINE status == IF s = "reopen" THEN "PENDING" ELSE a.status
    <3>1. status \in VerificationStatus
      BY DEF Args, VerificationStatus
    <3>2. profile' = profile \/ profile' = [profile EXCEPT ![a.user].status = status]
      BY <1>3 DEF WroteSeller
    <3> HIDE DEF status
    <3>3. profile \in [User -> SellerProfile]
      BY DEF AccTypeOK
    <3>4. \A u \in User : [profile[u] EXCEPT !.status = status] \in SellerProfile
      BY <3>1, <3>3 DEF SellerProfile
    <3>5. [profile EXCEPT ![a.user].status = status] \in [User -> SellerProfile]
      <4> DEFINE u == a.user
      <4> HIDE DEF u
      <4>1. CASE u \in User
        BY <3>1, <3>3, <3>4, <4>1 DEF u
      <4>2. CASE u \notin User
        BY <3>3, <4>2 DEF u
      <4> QED
        BY <4>1, <4>2
    <3> QED
      BY <3>2, <3>3, <3>5
  <2> QED
    BY <1>1, <2>1, <2>2
<1> QED
  BY <1>2, <1>3

LEMMA LogTypeKept ==
    ASSUME AccTypeOK, NEW s, NEW a \in Args, WroteLogs(s, a),
           s \in {"logDeleted", "logActive", "logStatus", "notify", "setStatus", "reopen"} =>
               a.user \in User
    PROVE  /\ accountLog' \in [User -> Seq(AccountAction)]
           /\ sellerLog' \in [User -> Seq(Transition)]
           /\ told' \in [User -> Seq(VerificationStatus)]
           /\ past' \in [User -> Seq(VerificationStatus)]
<1>1. accountLog' \in [User -> Seq(AccountAction)]
  <2> DEFINE entry == IF s = "logDeleted" THEN "USER_DELETED" ELSE SwitchAction(a.active)
  <2>1. entry \in AccountAction
    BY DEF AccountAction, SwitchAction
  <2>2. \/ accountLog' = accountLog
        \/ a.user \in User /\ accountLog' = [accountLog EXCEPT ![a.user] = Append(accountLog[a.user], entry)]
    BY DEF WroteLogs
  <2> HIDE DEF entry
  <2>3. \A u \in User : Append(accountLog[u], entry) \in Seq(AccountAction)
    BY <2>1 DEF AccTypeOK
  <2> QED
    BY <2>2, <2>3 DEF AccTypeOK
<1>2. sellerLog' \in [User -> Seq(Transition)]
  <2> DEFINE row == [from |-> a.previous, to |-> a.status]
  <2>1. row \in Transition
    BY DEF Args, Transition
  <2>2. \/ sellerLog' = sellerLog
        \/ a.user \in User /\ sellerLog' = [sellerLog EXCEPT ![a.user] = Append(sellerLog[a.user], row)]
    BY DEF WroteLogs
  <2> HIDE DEF row
  <2>3. \A u \in User : Append(sellerLog[u], row) \in Seq(Transition)
    BY <2>1 DEF AccTypeOK
  <2> QED
    BY <2>2, <2>3 DEF AccTypeOK
<1>3. told' \in [User -> Seq(VerificationStatus)]
  <2>1. a.status \in VerificationStatus
    BY DEF Args
  <2>2. \/ told' = told
        \/ a.user \in User /\ told' = [told EXCEPT ![a.user] = Append(told[a.user], a.status)]
    BY DEF WroteLogs
  <2>3. \A u \in User : Append(told[u], a.status) \in Seq(VerificationStatus)
    BY <2>1 DEF AccTypeOK
  <2> QED
    BY <2>2, <2>3 DEF AccTypeOK
<1>4. past' \in [User -> Seq(VerificationStatus)]
  <2> DEFINE status == IF s = "reopen" THEN "PENDING" ELSE a.status
  <2>1. status \in VerificationStatus
    BY DEF Args, VerificationStatus
  <2>2. \/ past' = past
        \/ a.user \in User /\ past' = [past EXCEPT ![a.user] = Append(past[a.user], status)]
    BY DEF WroteLogs
  <2> HIDE DEF status
  <2>3. \A u \in User : Append(past[u], status) \in Seq(VerificationStatus)
    BY <2>1 DEF AccTypeOK
  <2> QED
    BY <2>2, <2>3 DEF AccTypeOK
<1> QED
  BY <1>1, <1>2, <1>3, <1>4

LEMMA TypesKept == ASSUME Base, Step PROVE AccTypeOK'
<1>1. CASE UNCHANGED tables
  BY <1>1 DEF Base, AccTypeOK, tables, accVars, svVars
<1>2. CASE SignedOut
  BY <1>2 DEF Base, AccTypeOK, SignedOut, svVars
<1>3. ASSUME NEW r \in Slot, NEW s \in Statement, NEW arg \in Args, Ran(r, s, arg),
             Wrote(s, req[r].arg, arg)
      PROVE  AccTypeOK'
  <2> DEFINE a == req[r].arg
  <2>1. s \in {"open", "logDeleted", "logActive", "logStatus", "notify", "setStatus", "reopen"} =>
            a.user \in User
    BY <1>3, RanAccount, LogNeeds
  <2>2. a \in Args /\ WroteUser(s, a, arg) /\ WroteToken(s, a) /\ WroteSeller(s, a) /\ WroteLogs(s, a)
    BY <1>3 DEF Wrote
  <2> HIDE DEF a
  <2> QED
    BY <2>1, <2>2, UserTypeKept, TokenTypeKept, SellerTypeKept, LogTypeKept DEF Base, AccTypeOK
<1> QED
  BY <1>1, <1>2, <1>3 DEF Step, Started, Stopped, allVars, tables, reqVars

\* Rows stay, and a session that was issued changes only by being closed.
RowsStay ==
    \A u \in User :
        /\ Row(u) => Row(u)' /\ user'[u].role = user[u].role /\ (HasProfile(u)' => HasProfile(u))
        /\ user[u].state = "deleted" => user'[u].state = "deleted"
        /\ HasProfile(u) => profile'[u].dni = profile[u].dni
        /\ Row(u)' \/ (HasProfile(u)' => HasProfile(u))
SessionsStay ==
    \A t \in Token : Issued(t) =>
        /\ Issued(t)'
        /\ token'[t].user = token[t].user /\ token'[t].from = token[t].from
        /\ token'[t].login = token[t].login /\ token'[t].password = token[t].password
        /\ token'[t].late = token[t].late
        /\ token[t].revoked => token'[t].revoked

LEMMA UserRows ==
    ASSUME Base, NEW s \in Statement, NEW a \in Args, NEW arg, WroteUser(s, a, arg), WroteSeller(s, a),
           s \in Inserts => a.new.state = "live"
    PROVE  RowsStay
<1>1. user \in [User -> Account] /\ profile \in [User -> SellerProfile]
  BY DEF Base, AccTypeOK
<1>2. CASE s \in Inserts
  <2>1. PICK v \in User : /\ ~Row(v)
                          /\ user' = [user EXCEPT ![v] = a.new]
                          /\ s = "insertSeller" => profile' = [profile EXCEPT ![v].dni = a.dni]
    BY <1>2 DEF WroteUser
  <2>2. s = "insert" => profile' = profile
    BY DEF WroteSeller
  <2>3. \A u \in User \ {v} : user'[u] = user[u] /\ profile'[u] = profile[u]
    BY <1>1, <1>2, <2>1, <2>2 DEF Inserts
  <2>4. user'[v] = a.new /\ a.new.state = "live"
    BY <1>1, <1>2, <2>1
  <2>5. ~HasProfile(v) /\ user[v].state = "none"
    BY <2>1 DEF Base, Row
  <2> QED
    BY <2>3, <2>4, <2>5 DEF RowsStay, Row, HasProfile
<1>3. CASE s \notin Inserts
  <2>1. \A u \in User : profile'[u].dni = profile[u].dni
    <3>1. profile' = profile \/ \E status : profile' = [profile EXCEPT ![a.user].status = status]
      BY <1>3 DEF WroteSeller, Inserts
    <3>2. ASSUME NEW status, profile' = [profile EXCEPT ![a.user].status = status], NEW u \in User
          PROVE  profile'[u].dni = profile[u].dni
      <4>1. profile'[u] = profile[u] \/ profile'[u] = [profile[u] EXCEPT !.status = status]
        BY <1>1, <3>2
      <4> QED
        BY <1>1, <4>1 DEF SellerProfile
    <3> QED
      BY <3>1, <3>2
  <2>2. CASE s \notin UserUpdates
    <3>1. UNCHANGED user
      BY <1>3, <2>2 DEF WroteUser
    <3> QED
      BY <2>1, <3>1 DEF RowsStay, Row, HasProfile
  <2>3. CASE s \in UserUpdates
    <3>1. PICK row \in Account :
              /\ user' = [user EXCEPT ![a.user] = row]
              /\ row.role = user[a.user].role
              /\ row.state = IF s = "erase" THEN "deleted" ELSE user[a.user].state
      BY <2>3 DEF WroteUser
    <3>2. \A u \in User : /\ user'[u].role = user[u].role
                          /\ user'[u].state \in {user[u].state, "deleted"}
      BY <1>1, <3>1
    <3> QED
      BY <2>1, <3>2 DEF RowsStay, Row, HasProfile
  <2> QED
    BY <2>2, <2>3
<1> QED
  BY <1>2, <1>3

LEMMA TokenRows ==
    ASSUME AccTypeOK, NEW s \in Statement, NEW a \in Args, WroteToken(s, a)
    PROVE  SessionsStay
<1>1. token \in [Token -> Session]
  BY DEF AccTypeOK
<1>2. CASE s \notin {"spend", "open", "revokeAll"}
  BY <1>2 DEF WroteToken, SessionsStay, Issued
<1>3. CASE s = "spend"
  <2>1. token' = [token EXCEPT ![a.token] = [token[a.token] EXCEPT !.revoked = TRUE]]
    BY <1>3 DEF WroteToken, Revoked
  <2>2. \A t \in Token : token'[t] \in {token[t], [token[t] EXCEPT !.revoked = TRUE]}
    BY <1>1, <2>1
  <2> QED
    BY <1>1, <2>2 DEF SessionsStay, Issued, Session
<1>4. CASE s = "revokeAll"
  <2>1. \A t \in Token : token'[t] \in {token[t], [token[t] EXCEPT !.revoked = TRUE]}
    BY <1>4 DEF WroteToken, AllRevoked
  <2> QED
    BY <1>1, <2>1 DEF SessionsStay, Issued, Session
<1>5. CASE s = "open"
  <2>1. PICK t \in Token : ~Issued(t) /\ \E row : token' = [token EXCEPT ![t] = row]
    BY <1>5 DEF WroteToken
  <2>2. \A i \in Token : Issued(i) => token'[i] = token[i]
    BY <1>1, <2>1
  <2> QED
    BY <2>2 DEF SessionsStay, Issued
<1> QED
  BY <1>2, <1>3, <1>4, <1>5

LEMMA RowsAndSessionsStay == ASSUME Base, Step PROVE RowsStay /\ SessionsStay
<1>1. CASE UNCHANGED tables
  BY <1>1 DEF RowsStay, SessionsStay, Row, HasProfile, Issued, tables, accVars
<1>2. CASE SignedOut
  <2>1. token \in [Token -> Session]
    BY DEF Base, AccTypeOK
  <2> QED
    BY <1>2, <2>1 DEF SignedOut, RowsStay, SessionsStay, Row, HasProfile, Issued, Session
<1>3. ASSUME NEW r \in Slot, NEW s \in Statement, NEW arg \in Args, Ran(r, s, arg),
             Wrote(s, req[r].arg, arg)
      PROVE  RowsStay /\ SessionsStay
  <2> DEFINE a == req[r].arg
  <2>1. s \in Inserts => a.new.state = "live"
    BY <1>3 DEF Base, Subject, SubjectOf, Ran
  <2>2. a \in Args /\ WroteUser(s, a, arg) /\ WroteToken(s, a) /\ WroteSeller(s, a)
    BY <1>3 DEF Wrote
  <2> HIDE DEF a
  <2> QED
    BY <2>1, <2>2, UserRows, TokenRows DEF Base
<1> QED
  BY <1>1, <1>2, <1>3 DEF Step, Started, Stopped, allVars, tables

LEMMA ProfilesKept == ASSUME Base, Step PROVE \A u \in User : HasProfile(u)' => Row(u)'
<1>1. \A u \in User : HasProfile(u) => Row(u)
  BY DEF Base
<1> QED
  BY <1>1, RowsAndSessionsStay DEF RowsStay

LEMMA TokensKept == ASSUME Base, Step PROVE TokensOK'
<1>1. RowsStay /\ SessionsStay
  BY RowsAndSessionsStay
<1>2. token \in [Token -> Session] /\ TokensOK
  BY DEF Base, AccTypeOK
<1>3. \A t \in Token : Issued(t) => token[t].user \in User
  BY <1>2 DEF Issued, Session
\* The sessions there were stay good.
<1>4. ASSUME NEW t \in Token, Issued(t)
      PROVE  /\ Issued(t)'
             /\ Row(token[t].user)' /\ token'[t].user = token[t].user
             /\ token'[t].login \in Token /\ Issued(token[t].login)' /\ token'[t].login = token[t].login
             /\ token'[t].late => user'[token'[t].user].state = "deleted"
             /\ token'[t].from # NoToken => Issued(token[t].from)' /\ ~token'[token'[t].from].late
  <2>1. /\ Row(token[t].user) /\ token[t].user \in User
        /\ token[t].login \in Token /\ Issued(token[t].login)
        /\ token[t].late => user[token[t].user].state = "deleted"
        /\ token[t].from # NoToken => Issued(token[t].from) /\ ~token[token[t].from].late
        /\ token[t].from \in Token \cup {NoToken}
    BY <1>2, <1>3, <1>4 DEF TokensOK, Session
  <2> QED
    BY <1>1, <1>4, <2>1 DEF RowsStay, SessionsStay
<1>5. ASSUME \A t \in Token : ~Issued(t) => token'[t] = token[t]
      PROVE  TokensOK'
  <2>1. \A t \in Token : ~Issued(t) => ~Issued(t)' /\ token'[t] = NoSession
    BY <1>2, <1>5 DEF TokensOK, Issued, NoSession
  <2> QED
    BY <1>4, <2>1 DEF TokensOK, Issued, Row
<1>6. CASE UNCHANGED tables
  BY <1>5, <1>6 DEF tables, accVars
<1>7. CASE SignedOut
  BY <1>5, <1>7 DEF SignedOut
<1>8. ASSUME NEW r \in Slot, NEW s \in Statement, NEW arg \in Args, Ran(r, s, arg),
             Wrote(s, req[r].arg, arg)
      PROVE  TokensOK'
  <2> DEFINE a == req[r].arg
  <2>1. a \in Args /\ WroteToken(s, a) /\ WroteUser(s, a, arg)
    BY <1>8 DEF Wrote
  <2>2. CASE s \notin {"spend", "open", "revokeAll"}
    BY <1>5, <2>1, <2>2 DEF WroteToken
  <2>3. CASE s \in {"spend", "revokeAll"}
    <3>1. a.user \in User /\ Left(r) # {}
      BY <1>8, <2>3, RanAccount, LogNeeds
    <3>2. a.token \in Token => Issued(a.token)
      <4>1. a.token # NoToken => token[a.token].user = a.user
        BY <3>1 DEF Base, Subject, SubjectOf
      <4> QED
        BY <3>1, <4>1, AccountsAssumption DEF Issued, Token, NoToken
    <3>3. \A t \in Token : ~Issued(t) => token'[t] = token[t]
      BY <1>2, <2>1, <2>3, <3>1, <3>2, AccountsAssumption DEF WroteToken, Revoked, AllRevoked, Issued
    <3> QED
      BY <1>5, <3>3
  <2>4. CASE s = "open"
    <3>1. a.user \in User /\ Row(a.user) /\ Left(r) # {} /\ a.token \in Token \cup {NoToken}
      BY <1>8, <2>1, <2>4, RanAccount, LogNeeds DEF Args
    <3>2. UNCHANGED user
      BY <2>1, <2>4 DEF WroteUser, UserUpdates, CodeStores, Inserts
    <3>3. "open" \in Left(r) /\ "check" \notin Left(r)
      BY <1>8, <2>4 DEF Ran, Later, Successors
    <3>4. a.token # NoToken => a.token \in Token /\ Issued(a.token) /\ ~token[a.token].late
      BY <3>1, <3>3, AccountsAssumption DEF Base, Subject, SubjectOf, Issued
    <3>5. PICK t \in Token :
            /\ ~Issued(t)
            /\ token' = [token EXCEPT ![t] =
                [user |-> a.user, revoked |-> FALSE, from |-> a.token,
                 login |-> IF a.token = NoToken THEN t ELSE token[a.token].login,
                 password |-> a.password, late |-> user[a.user].state = "deleted"]]
      BY <2>1, <2>4 DEF WroteToken
    <3>6. \A i \in Token \ {t} : token'[i] = token[i]
      BY <1>2, <3>5
    <3>7. /\ token'[t].user = a.user /\ token'[t].from = a.token
          /\ token'[t].login = IF a.token = NoToken THEN t ELSE token[a.token].login
          /\ token'[t].late = (user[a.user].state = "deleted")
      BY <1>2, <3>5
    <3>8. Issued(t)'
      BY <3>1, <3>7, AccountsAssumption DEF Issued
    <3>9. /\ Row(token[t].user)'
          /\ token'[t].login \in Token /\ Issued(token[t].login)'
          /\ token'[t].late => user'[token'[t].user].state = "deleted"
          /\ token'[t].from # NoToken => Issued(token[t].from)' /\ ~token'[token'[t].from].late
      <4>1. Row(token[t].user)' /\ (token'[t].late => user'[token'[t].user].state = "deleted")
        BY <3>1, <3>2, <3>7 DEF Row
      <4>2. CASE a.token = NoToken
        BY <3>7, <3>8, <4>1, <4>2 DEF Issued
      <4>3. CASE a.token # NoToken
        <5>1. /\ token'[a.token].user # NoUser /\ ~token'[a.token].late
              /\ token[a.token].login \in Token /\ token'[token[a.token].login].user # NoUser
          <6>1. a.token \in Token /\ Issued(a.token) /\ ~token[a.token].late
            BY <3>4, <4>3
          <6>2. token[a.token].login \in Token /\ Issued(token[a.token].login)
            BY <1>2, <6>1 DEF TokensOK
          <6> QED
            BY <1>1, <6>1, <6>2 DEF SessionsStay, Issued
        <5>2. token'[t].login = token[a.token].login /\ token'[t].from = a.token
          BY <3>7, <4>3
        <5> QED
          BY <4>1, <5>1, <5>2 DEF Issued
      <4> QED
        BY <4>2, <4>3
    <3>10. \A i \in Token \ {t} : ~Issued(i) => ~Issued(i)' /\ token'[i] = NoSession
      BY <1>2, <3>6 DEF TokensOK, Issued, NoSession
    <3> QED
      BY <1>4, <3>8, <3>9, <3>10 DEF TokensOK, Issued, Row
  <2> QED
    BY <2>2, <2>3, <2>4
<1> QED
  BY <1>6, <1>7, <1>8 DEF Step, Started, Stopped, allVars, tables

\* Which statements come first in their plans, and what an insertion leaves.
LEMMA FirstStatements ==
    ASSUME NEW s \in Statement
    PROVE  /\ Later[s] \cap {"check", "setPassword", "setActive", "setStatus", "erase", "addPrimary"} = {}
           /\ Later[s] \cap Inserts # {} => s = "chooseVerify"
           /\ s = "insert" => Later[s] = {"open"}
           /\ s = "insertSeller" => Later[s] = {}
<1>1. Later[s] \cap {"check", "setPassword", "setActive", "setStatus", "erase", "addPrimary"} = {}
  BY DEF Later, Successors
<1>2. Later[s] \cap Inserts # {} => s = "chooseVerify"
  BY DEF Later, Successors, Inserts
<1>3. (s = "insert" => Later[s] = {"open"}) /\ (s = "insertSeller" => Later[s] = {})
  BY DEF Later, Successors
<1> QED
  BY <1>1, <1>2, <1>3

LEMMA InFlight ==
    ASSUME Base, NEW q \in Slot, Left(q) # {}
    PROVE  req[q].arg \in Args
<1>1. ~Resting(q)
  BY RestingLeft DEF Base, Plans
<1> QED
  BY <1>1 DEF Base, Plans, PlansOK

\* What was true of a request stays true while others move.
LEMMA SubjectOfStays ==
    ASSUME RowsStay, SessionsStay, NEW left, NEW arg, left # {} => arg \in Args, SubjectOf(left, arg)
    PROVE  SubjectOf(left, arg)'
<1>1. left # {} /\ left \cap Inserts = {} => arg.user \in User /\ Row(arg.user) /\ Row(arg.user)'
  BY DEF SubjectOf, RowsStay
<1>2. left # {} /\ arg.token # NoToken =>
          token'[arg.token].user = arg.user /\ token'[arg.token].password = arg.password
  <2>1. left # {} /\ arg.token # NoToken =>
            /\ arg.token \in Token /\ arg.user \in User
            /\ token[arg.token].user = arg.user /\ token[arg.token].password = arg.password
    BY DEF SubjectOf, Args
  <2> QED
    BY <2>1, AccountsAssumption DEF SessionsStay, Issued
<1>3. "open" \in left /\ "check" \notin left /\ arg.token # NoToken => ~token'[arg.token].late
  <2>1. "open" \in left /\ arg.token # NoToken => arg.token \in Token /\ Issued(arg.token)
    BY AccountsAssumption DEF SubjectOf, Args, Issued
  <2> QED
    BY <2>1 DEF SessionsStay, SubjectOf
<1>4. "logDeleted" \in left /\ "erase" \notin left => user'[arg.user].state = "deleted"
  <2>1. "logDeleted" \in left => arg.user \in User
    BY DEF SubjectOf, Inserts
  <2> QED
    BY <2>1 DEF SubjectOf, RowsStay
<1> QED
  BY <1>1, <1>2, <1>3, <1>4 DEF SubjectOf

LEMMA SubjectStays ==
    ASSUME Base, RowsStay, SessionsStay, NEW q \in Slot, req'[q] = req[q], Left(q)' = Left(q)
    PROVE  Subject(q)'
<1>1. SubjectOf(Left(q), req[q].arg)
  BY DEF Base, Subject
<1>2. Left(q) # {} => req[q].arg \in Args
  BY InFlight
<1>3. PICK left, arg : left = Left(q) /\ arg = req[q].arg
  OBVIOUS
<1>4. SubjectOf(left, arg)'
  BY <1>1, <1>2, <1>3, SubjectOfStays
<1> QED
  BY <1>3, <1>4 DEF Subject

\* And it stays true as the request itself goes on.
LEMMA SubjectOfRuns ==
    ASSUME RowsStay, SessionsStay, NEW s \in Statement, NEW a, NEW arg \in Args, NEW left,
           SubjectOf(left, a), Wrote(s, a, arg), user \in [User -> Account],
           TokensOK, s \in left, left \subseteq {s} \cup Later[s]
    PROVE  SubjectOf(left \ {s}, arg)'
<1> DEFINE rest == left \ {s}
<1>1. a \in Args /\ rest \subseteq Later[s] /\ s \notin rest
  BY DEF Wrote
<1>2. CASE rest = {}
  BY <1>2 DEF SubjectOf
<1>3. CASE rest # {} /\ s \in Draws
  <2>1. /\ arg.new.state = a.new.state /\ arg.new.role = a.new.role /\ arg.password = a.password
        /\ arg.token = a.token /\ arg.user = a.user /\ arg.dni = a.dni /\ arg.status = a.status
    <3>1. PICK c \in Code : arg = [a EXCEPT !.code = c, !.new.verifyCode = c]
      BY <1>3 DEF Wrote
    <3>2. a.new \in Account
      BY <1>1 DEF Args
    <3> QED
      BY <1>1, <3>1, <3>2 DEF Args, Account
  <2>2. rest \subseteq {"insert", "insertSeller", "setVerify", "setReset"}
    BY <1>1, <1>3 DEF Later, Successors, Statement, Draws
  <2>3. SubjectOf(rest, arg)
    BY <1>1, <1>3, <2>1, <2>2 DEF SubjectOf, Draws, Inserts
  <2> HIDE DEF rest
  <2> QED
    BY <2>3, SubjectOfStays DEF rest
<1>4. CASE rest # {} /\ s \in Inserts
  <2>1. s = "insert" /\ rest = {"open"}
    <3>1. s # "insertSeller"
      BY <1>1, <1>4, FirstStatements
    <3>2. Later["insert"] = {"open"}
      BY <1>4, <3>1, FirstStatements DEF Inserts
    <3> QED
      BY <1>1, <1>4, <3>1, <3>2 DEF Inserts
  <2>2. a.new.state = "live" /\ a.token = NoToken
    BY <1>4 DEF SubjectOf
  <2>3. PICK v \in User : user' = [user EXCEPT ![v] = a.new] /\ arg = [a EXCEPT !.user = v]
    BY <1>4, <2>1 DEF Wrote, WroteUser
  <2>4. arg.user = v /\ arg.token = NoToken /\ user'[v].state = "live"
    BY <1>1, <2>2, <2>3 DEF Args
  <2> QED
    BY <2>1, <2>4 DEF SubjectOf, Inserts, Row
<1>5. CASE rest # {} /\ s \notin Draws \cup Inserts
  <2>1. arg = a
    BY <1>5 DEF Wrote, Inserts
  <2>2. Later[s] \cap Inserts = {} /\ left \cap Inserts = {}
    BY <1>5, FirstStatements DEF Draws
  <2>3. a.user \in User /\ Row(a.user)
    BY <1>5, <2>2 DEF SubjectOf
  <2>4. rest \cap {"check", "setPassword", "setActive", "setStatus", "erase"} = {}
    BY <1>1, FirstStatements
  <2>5. /\ Row(a.user)'
        /\ a.token # NoToken => token'[a.token].user = a.user /\ token'[a.token].password = a.password
    <3>1. SubjectOf(left, a)'
      BY <1>1, SubjectOfStays
    <3> QED
      BY <2>2, <3>1 DEF SubjectOf
  <2>6. "open" \in rest /\ a.token # NoToken => ~token'[a.token].late
    <3> SUFFICES ASSUME "open" \in rest, a.token # NoToken PROVE ~token'[a.token].late
      OBVIOUS
    <3>1. a.token \in Token /\ token[a.token].user = a.user /\ Issued(a.token)
      BY <1>1, <2>3, AccountsAssumption DEF SubjectOf, Args, Issued
    <3>2. ~token[a.token].late
      <4>1. CASE "check" \in left
        <5>1. s = "check"
          BY <2>4, <4>1
        <5>2. Live(a.user)
          BY <5>1 DEF Wrote, MayRenew
        <5> QED
          BY <3>1, <5>2 DEF TokensOK, Live
      <4>2. CASE "check" \notin left
        BY <4>2 DEF SubjectOf
      <4> QED
        BY <4>1, <4>2
    <3> QED
      BY <3>1, <3>2 DEF SessionsStay
  <2>7. "logDeleted" \in rest => user'[a.user].state = "deleted"
    <3>1. CASE s = "erase"
      BY <2>3, <3>1 DEF Wrote, WroteUser, UserUpdates
    <3>2. CASE s # "erase" /\ "logDeleted" \in rest
      <4>1. user[a.user].state = "deleted"
        BY <2>4, <3>2 DEF SubjectOf
      <4> QED
        BY <2>3, <4>1 DEF RowsStay
    <3> QED
      BY <3>1, <3>2
  <2> HIDE DEF rest
  <2>8. SubjectOf(rest, a)'
    BY <2>2, <2>3, <2>4, <2>5, <2>6, <2>7 DEF SubjectOf, rest
  <2> QED
    BY <2>1, <2>8 DEF rest
<1> QED
  BY <1>2, <1>3, <1>4, <1>5

LEMMA SubjectsKept == ASSUME Base, Step PROVE \A q \in Slot : Subject(q)'
<1> SUFFICES ASSUME NEW q \in Slot PROVE Subject(q)'
  OBVIOUS
<1>1. RowsStay /\ SessionsStay
  BY RowsAndSessionsStay
<1>2. CASE UNCHANGED req
  <2>1. req'[q] = req[q] /\ Left(q)' = Left(q)
    BY <1>2 DEF Left
  <2> QED
    BY <1>1, <2>1, SubjectStays
<1>3. ASSUME NEW r \in Slot, Started(r) PROVE Subject(q)'
  BY <1>1, <1>3, SubjectStays DEF Started, Others
<1>4. ASSUME NEW r \in Slot, Stopped(r) PROVE Subject(q)'
  <2>1. CASE q = r
    BY <1>4, <2>1 DEF Stopped, Subject, SubjectOf
  <2> QED
    BY <1>1, <1>4, <2>1, SubjectStays DEF Stopped, Others
<1>5. ASSUME NEW r \in Slot, NEW s \in Statement, NEW arg \in Args, Ran(r, s, arg),
             Wrote(s, req[r].arg, arg)
      PROVE  Subject(q)'
  <2>1. CASE q = r
    <3>1. PICK left, a : left = Left(r) /\ a = req[r].arg
      OBVIOUS
    <3>2. SubjectOf(left \ {s}, arg)'
      BY <1>1, <1>5, <3>1, SubjectOfRuns DEF Base, AccTypeOK, Subject, Ran
    <3>3. Left(r)' = left \ {s} /\ (left \ {s} # {} => req'[r].arg = arg)
      BY <1>5, <3>1 DEF Ran
    <3>4. CASE left \ {s} = {}
      BY <2>1, <3>3, <3>4 DEF Subject, SubjectOf
    <3>5. CASE left \ {s} # {}
      BY <2>1, <3>2, <3>3, <3>5 DEF Subject
    <3> QED
      BY <3>4, <3>5
  <2>2. CASE q # r
    BY <1>1, <1>5, <2>2, SubjectStays DEF Ran, Others
  <2> QED
    BY <2>1, <2>2
<1> QED
  BY <1>2, <1>3, <1>4, <1>5 DEF Step, SignedOut, allVars, reqVars

LEMMA BaseKept == ASSUME Base, [SVNext]_allVars PROVE Base'
<1>1. Plans' /\ Step
  BY Steps
<1> QED
  BY <1>1, TypesKept, TokensKept, ProfilesKept, SubjectsKept DEF Base

LEMMA NothingIssued == ASSUME SVInit PROVE \A t \in Token : ~Issued(t)
  BY DEF SVInit, AccInit, NoSession, Issued

LEMMA NothingInFlight ==
    ASSUME SVInit
    PROVE  Plans /\ AllRest /\ \A r \in Slot : Left(r) = {}
<1>1. req = [r \in Slot |-> Idle]
  BY DEF SVInit, AccInit, ReqInit
<1>2. \A r \in Slot : Resting(r) /\ Left(r) = {}
  BY <1>1 DEF Resting, Idle, Left, Statements
<1> QED
  BY <1>1, <1>2 DEF Plans, PlansOK, AllRest

LEMMA BaseInit == SVInit => Base
<1> SUFFICES ASSUME SVInit PROVE Base
  OBVIOUS
<1>1. PICK t \in InitialTables : user = t.user /\ profile = t.profile /\ primary = t.primary
  BY DEF SVInit, AccInit
<1>2. NoSession \in Session
  BY DEF NoSession, Session
<1>3. AccTypeOK
  <2>1. profile \in [User -> SellerProfile] /\ past = [u \in User |-> <<profile[u].status>>]
    BY <1>1, InitialTablesAssumption DEF SVInit
  <2>2. past \in [User -> Seq(VerificationStatus)]
    <3>1. \A u \in User : profile[u].status \in VerificationStatus
      BY <2>1 DEF SellerProfile
    <3>2. \A u \in User : <<profile[u].status>> \in Seq(VerificationStatus)
      BY <3>1
    <3> QED
      BY <2>1, <3>2
  <2> QED
    BY <1>1, <1>2, <2>2, InitialTablesAssumption, SMTT(30) DEF SVInit, AccInit, AccTypeOK
<1>4. \A u \in User : HasProfile(u) => Row(u)
  BY <1>1, InitialTablesAssumption DEF HasProfile, Row
<1>5. TokensOK
  BY NothingIssued DEF TokensOK, SVInit, AccInit
<1>6. \A r \in Slot : Subject(r)
  BY NothingInFlight DEF Subject, SubjectOf
<1> QED
  BY <1>3, <1>4, <1>5, <1>6, NothingInFlight DEF Base

LEMMA BaseCorrect == SVSpec => []Base
<1>1. Base /\ [SVNext]_allVars => Base'
  BY BaseKept
<1> QED
  BY <1>1, BaseInit, PTL DEF SVSpec

\* The tables always hold rows of the shape the schema declares, and requests
\* that overlap and fail always hold the values their statements need.
THEOREM AccountsTypeCorrect == SVSpec => []AccTypeOK
<1>1. Base => AccTypeOK
  BY DEF Base
<1> QED
  BY <1>1, BaseCorrect, PTL

\* However requests interleave and fail, a session that was issued after its
\* account was deleted is never exchanged for another.
THEOREM NoHeirs == SVSpec => []NoHeirAfterDeletion
<1>1. Base => NoHeirAfterDeletion
  BY DEF Base, TokensOK, NoHeirAfterDeletion, NoSession
<1> QED
  BY <1>1, BaseCorrect, PTL

---------------------------------------------------------------------------
(* While requests neither overlap nor fail: one is in flight at most, what *)
(* it has read still stands, and what it has still to write is all that    *)
(* the tables lack.                                                        *)

OneInFlight == \A r, q \in Slot : Left(r) # {} /\ Left(q) # {} => r = q

\* The password of u is set, and its sessions are still to be closed.
PasswordPending(u) ==
    \E q \in Slot : "revokeAll" \in Left(q) /\ "setPassword" \notin Left(q) /\ req[q].arg.user = u

\* The status of u is set, and still to be logged.
StatusPending(u) ==
    \E q \in Slot : "logStatus" \in Left(q) /\ "setStatus" \notin Left(q) /\ req[q].arg.user = u

\* The account of u is opened or closed, and that is still to be logged.
ActivePending(u) ==
    \E q \in Slot : "logActive" \in Left(q) /\ "setActive" \notin Left(q) /\ req[q].arg.user = u

OneSession == \A t, s \in Token : Works(t) /\ Works(s) /\ token[t].login = token[s].login => t = s

PasswordsMatch ==
    \A t \in Token : Works(t) =>
        \/ token[t].password = user[token[t].user].password
        \/ PasswordPending(token[t].user)

OnePrimary == \A u \in User : primary[u] <= 1

LogIsChain ==
    \A u \in User : \A i \in 1 .. Len(sellerLog[u]) - 1 :
        Continues(sellerLog[u][i + 1].from, sellerLog[u][i])

LogReachesStatus ==
    \A u \in User : sellerLog[u] # <<>> =>
        Continues(profile[u].status, Last(sellerLog[u])) \/ StatusPending(u)

LogTellsActive ==
    \A u \in User : accountLog[u] # <<>> /\ Live(u) =>
        user[u].active = (Last(accountLog[u]) = "USER_ACTIVATED") \/ ActivePending(u)

AloneInv ==
    smooth =>
        /\ OneInFlight
        /\ \A r \in Slot : Alone(r)
        /\ OneSession /\ PasswordsMatch
        /\ OnePrimary
        /\ LogIsChain /\ LogReachesStatus /\ LogTellsActive

LEMMA StaysSmooth == ASSUME Step, smooth' PROVE smooth
  BY DEF Step, allVars, reqVars, SignedOut, Started, Stopped, Ran

LEMMA AtRest == ASSUME Base, AllRest PROVE \A q \in Slot : Left(q) = {}
  BY RestingLeft DEF Base, Plans, AllRest

LEMMA OneInFlightKept == ASSUME Base, smooth => OneInFlight, Step, smooth' PROVE OneInFlight'
<1>1. OneInFlight
  BY StaysSmooth
<1>2. CASE UNCHANGED req
  BY <1>1, <1>2 DEF OneInFlight, Left
<1>3. ASSUME NEW r \in Slot, Started(r) PROVE OneInFlight'
  <2>1. \A q \in Slot \ {r} : Left(q)' = {}
    BY <1>3, AtRest DEF Started, Others
  <2> QED
    BY <2>1 DEF OneInFlight
<1>4. ASSUME NEW r \in Slot, Stopped(r) \/ \E s, arg : Ran(r, s, arg) PROVE OneInFlight'
  <2>1. \A q \in Slot : Left(q)' # {} => Left(q) # {}
    BY <1>4 DEF Stopped, Ran, Others
  <2> QED
    BY <1>1, <2>1 DEF OneInFlight
<1> QED
  BY <1>2, <1>3, <1>4 DEF Step, allVars, reqVars, SignedOut

\* What a request has still to write keeps pending: it is not refused there.
LEMMA PendingStays ==
    ASSUME Base, Step, smooth', NEW u,
           ~ \E r \in Slot, s \in Statement, arg \in Args : Ran(r, s, arg) /\ Wrote(s, req[r].arg, arg)
    PROVE  /\ PasswordPending(u) => PasswordPending(u)'
           /\ StatusPending(u) => StatusPending(u)'
           /\ ActivePending(u) => ActivePending(u)'
<1> DEFINE Goal == /\ PasswordPending(u) => PasswordPending(u)'
                   /\ StatusPending(u) => StatusPending(u)'
                   /\ ActivePending(u) => ActivePending(u)'
<1>1. CASE UNCHANGED req
  BY <1>1 DEF PasswordPending, StatusPending, ActivePending, Left
<1>2. ASSUME NEW r \in Slot, Started(r) PROVE Goal
  <2>1. \A q \in Slot : Left(q) = {}
    BY <1>2, AtRest DEF Started
  <2> QED
    BY <2>1 DEF PasswordPending, StatusPending, ActivePending
<1>3. ASSUME NEW r \in Slot, Stopped(r) PROVE Goal
  <2>1. {"revokeAll", "logStatus", "logActive"} \cap Left(r) = {}
    BY <1>3 DEF Stopped, Refusable, Inserts, Draws, CodeStores
  <2>2. \A q \in Slot \ {r} : req'[q] = req[q] /\ Left(q)' = Left(q)
    BY <1>3 DEF Stopped, Others
  <2> QED
    BY <2>1, <2>2 DEF PasswordPending, StatusPending, ActivePending
<1> QED
  BY <1>1, <1>2, <1>3 DEF Step, allVars, reqVars, SignedOut

\* Only the statement that writes it ends it.
LEMMA PendingRuns ==
    ASSUME NEW r \in Slot, NEW s \in Statement, NEW arg, Ran(r, s, arg), Wrote(s, req[r].arg, arg), NEW u
    PROVE  /\ s # "revokeAll" /\ PasswordPending(u) => PasswordPending(u)'
           /\ s # "logStatus" /\ StatusPending(u) => StatusPending(u)'
           /\ s # "logActive" /\ ActivePending(u) => ActivePending(u)'
<1>1. \A q \in Slot \ {r} : req'[q] = req[q] /\ Left(q)' = Left(q)
  BY DEF Ran, Others
<1>2. /\ Left(r)' = Left(r) \ {s} /\ Left(r) \subseteq {s} \cup Later[s]
      /\ Left(r)' # {} => req'[r].arg = arg
  BY DEF Ran
<1>3. Left(r)' \cap {"revokeAll", "logStatus", "logActive"} # {} => req'[r].arg = req[r].arg
  <2>1. s \in Draws \cup {"insert"} => Later[s] \cap {"revokeAll", "logStatus", "logActive"} = {}
    BY DEF Later, Successors, Draws, Inserts
  <2>2. s \notin Draws \cup {"insert"} => arg = req[r].arg
    BY DEF Wrote
  <2> QED
    BY <1>2, <2>1, <2>2
<1> QED
  BY <1>1, <1>2, <1>3 DEF PasswordPending, StatusPending, ActivePending

\* What it ends with is what it was the only one to lack.
LEMMA PendingIsMine ==
    ASSUME OneInFlight, NEW r \in Slot, NEW s, NEW arg, Ran(r, s, arg), NEW u
    PROVE  /\ PasswordPending(u) => req[r].arg.user = u /\ "setPassword" \notin Left(r) /\ "revokeAll" \in Left(r)
           /\ StatusPending(u) => req[r].arg.user = u /\ "setStatus" \notin Left(r) /\ "logStatus" \in Left(r)
           /\ ActivePending(u) => req[r].arg.user = u /\ "setActive" \notin Left(r) /\ "logActive" \in Left(r)
<1>1. Left(r) # {}
  BY DEF Ran
<1> QED
  BY <1>1 DEF OneInFlight, PasswordPending, StatusPending, ActivePending

\* What it has read still stands, after its own statements too.
LEMMA AloneOfRuns ==
    ASSUME AccTypeOK, OneSession,
           NEW s \in Statement, NEW a, NEW arg, NEW left,
           SubjectOf(left, a), AloneOf(left, a), Wrote(s, a, arg),
           s \in left, left \subseteq {s} \cup Later[s],
           s = "spend" /\ a.token \in Token /\ Works(a.token) => token[a.token].password = user[a.user].password,
           s = "setStatus" /\ sellerLog[a.user] # <<>> => Continues(a.previous, Last(sellerLog[a.user]))
    PROVE  AloneOf(left \ {s}, arg)'
<1> DEFINE rest == left \ {s}
<1>1. /\ a \in Args /\ rest \subseteq Later[s] /\ s \notin rest
      /\ WroteUser(s, a, arg) /\ WroteToken(s, a) /\ WroteSeller(s, a) /\ WroteLogs(s, a)
      /\ s \notin Draws \cup {"insert"} => arg = a
  BY DEF Wrote
<1>2. s \notin Draws \cup Inserts => a.user \in User
  <2>1. s \notin Draws => left \cap Inserts = {} \/ s \in Inserts
    BY FirstStatements DEF Draws
  <2> QED
    BY <2>1 DEF SubjectOf
<1>3. user \in [User -> Account] /\ profile \in [User -> SellerProfile] /\ token \in [Token -> Session]
  BY DEF AccTypeOK
<1> HIDE DEF rest
<1>4. CASE rest \cap {"open", "addPrimary", "reopen", "setStatus", "logStatus", "logActive"} = {}
  BY <1>4 DEF AloneOf, rest
<1>5. CASE s = "insert"
  <2>1. rest \subseteq {"open"}
    BY <1>1, <1>5, FirstStatements
  <2>2. CASE "open" \in rest
    <3>1. a.token = NoToken /\ a.password = a.new.password
      BY <1>5, <2>2 DEF SubjectOf, AloneOf, Inserts, rest
    <3>2. PICK v \in User : user' = [user EXCEPT ![v] = a.new] /\ arg = [a EXCEPT !.user = v]
      BY <1>1, <1>5 DEF WroteUser, Inserts
    <3>3. arg.token = NoToken /\ arg.password = user'[arg.user].password
      BY <1>1, <1>3, <3>1, <3>2 DEF Args
    <3> QED
      BY <2>1, <3>3 DEF AloneOf, rest
  <2> QED
    BY <1>4, <2>1, <2>2
<1>6. CASE s = "link"
  <2>1. rest \subseteq {"open"} /\ left \subseteq {"link", "open"} /\ arg = a
    BY <1>1, <1>6 DEF Later, Successors, Draws, rest
  <2>2. token' = token /\ user'[a.user].password = user[a.user].password
    BY <1>1, <1>2, <1>3, <1>6 DEF WroteToken, WroteUser, UserUpdates, Draws, Inserts
  <2> QED
    BY <1>6, <2>1, <2>2 DEF AloneOf, Works, rest
<1>7. CASE s = "check"
  <2>1. rest \subseteq {"spend", "open"} /\ left = {"check"} \cup rest /\ arg = a
    BY <1>1, <1>7 DEF Later, Successors, Draws, rest
  <2>2. UNCHANGED <<token, user>>
    BY <1>1, <1>7 DEF WroteToken, WroteUser, UserUpdates, CodeStores, Inserts
  <2> QED
    BY <1>7, <2>1, <2>2 DEF AloneOf, Works, rest
<1>8. CASE s = "spend"
  <2>1. rest \subseteq {"open"} /\ left = {"spend"} \cup rest /\ arg = a
    BY <1>1, <1>8 DEF Later, Successors, Draws, rest
  <2>2. UNCHANGED user /\ token' = [token EXCEPT ![a.token].revoked = TRUE]
    BY <1>1, <1>8 DEF WroteToken, Revoked, WroteUser, UserUpdates, CodeStores, Inserts
  <2>3. CASE "open" \in rest
    <3> DEFINE k == a.token
    <3>1. CASE k = NoToken
      <4>1. a.password = user[a.user].password
        BY <1>8, <2>1, <2>3, <3>1 DEF AloneOf
      <4> QED
        BY <2>1, <2>2, <3>1, <4>1 DEF AloneOf, rest
    <3>2. CASE k # NoToken
      <4>1. k \in Token /\ Works(k) /\ token[k].password = a.password
        BY <1>1, <1>8, <2>1, <2>3, <3>2 DEF AloneOf, SubjectOf, Args
      <4>2. a.password = user[a.user].password
        BY <1>8, <4>1
      <4>3. token'[k].revoked /\ token'[k].login = token[k].login /\ \A t \in Token \ {k} : token'[t] = token[t]
        BY <1>3, <2>2, <4>1 DEF Session
      <4>4. \A t \in Token : token'[t].user # NoUser /\ ~token'[t].revoked => token'[t].login # token'[k].login
        BY <4>1, <4>3 DEF OneSession, Works
      <4> HIDE DEF k
      <4>5. a.token = k
        BY DEF k
      <4> QED
        BY <2>1, <2>2, <3>2, <4>2, <4>4, <4>5 DEF AloneOf, Works, rest
    <3> QED
      BY <3>1, <3>2
  <2> QED
    BY <1>4, <2>1, <2>3
<1>9. CASE s = "setActive"
  <2>1. rest \subseteq {"revokeAll", "logActive"} /\ arg = a
    BY <1>1, <1>9 DEF Later, Successors, Draws, rest
  <2>2. user'[a.user].active = a.active
    BY <1>1, <1>2, <1>3, <1>9 DEF WroteUser, UserUpdates, Draws, Inserts
  <2> QED
    BY <2>1, <2>2 DEF AloneOf, rest
<1>10. CASE s = "revokeAll"
  <2>1. rest \subseteq {"logDeleted", "logActive"} /\ left = {"revokeAll"} \cup rest /\ arg = a
    BY <1>1, <1>10 DEF Later, Successors, Draws, rest
  <2>2. UNCHANGED user
    BY <1>1, <1>10 DEF WroteUser, UserUpdates, CodeStores, Inserts
  <2> QED
    BY <2>1, <2>2 DEF AloneOf, Live, rest
<1>11. CASE s = "upsertIdentity"
  <2>1. rest \subseteq {"reopen"} /\ left = {"upsertIdentity"} \cup rest /\ arg = a
    BY <1>1, <1>11 DEF Later, Successors, Draws, rest
  <2>2. UNCHANGED profile
    BY <1>1, <1>11 DEF WroteSeller
  <2> QED
    BY <2>1, <2>2 DEF AloneOf, rest
<1>12. CASE s = "setStatus"
  <2>1. rest \subseteq {"setIdentity", "logStatus", "notify", "revokeAll"} /\ arg = a
    BY <1>1, <1>12 DEF Later, Successors, Draws, rest
  <2>2. UNCHANGED sellerLog
    BY <1>1, <1>12 DEF WroteLogs
  <2>3. profile'[a.user].status = a.status
    <3>1. a.user \in User /\ profile' = [profile EXCEPT ![a.user].status = a.status]
      BY <1>1, <1>2, <1>12 DEF WroteSeller, Draws, Inserts
    <3> QED
      BY <1>3, <3>1 DEF SellerProfile
  <2> QED
    BY <1>12, <2>1, <2>2, <2>3 DEF AloneOf, rest
<1>13. CASE s = "setIdentity"
  <2>1. rest \subseteq {"logStatus", "notify", "revokeAll"} /\ left = {"setIdentity"} \cup rest /\ arg = a
    BY <1>1, <1>13 DEF Later, Successors, Draws, rest
  <2>2. UNCHANGED <<profile, sellerLog>>
    BY <1>1, <1>13 DEF WroteSeller, WroteLogs
  <2> QED
    BY <2>1, <2>2 DEF AloneOf, rest
<1>14. CASE s \notin {"insert", "link", "check", "spend", "setActive", "revokeAll", "upsertIdentity",
                      "setStatus", "setIdentity"}
  <2>1. Later[s] \cap {"open", "addPrimary", "reopen", "setStatus", "logStatus", "logActive"} = {}
    BY <1>14 DEF Later, Successors
  <2> QED
    BY <1>1, <1>4, <2>1
<1> QED
  BY <1>5, <1>6, <1>7, <1>8, <1>9, <1>10, <1>11, <1>12, <1>13, <1>14
LEMMA AloneStays ==
    ASSUME NEW q \in Slot, req'[q] = req[q], Left(q)' = Left(q), Alone(q),
           UNCHANGED <<user, profile, primary, token, sellerLog>>
    PROVE  Alone(q)'
  BY DEF Alone, AloneOf, Works, Live

LEMMA AloneIfDone == ASSUME NEW q \in Slot, Left(q)' = {} PROVE Alone(q)'
  BY DEF Alone, AloneOf

LEMMA StillAlone ==
    ASSUME Base, AloneInv, Step, smooth'
    PROVE  \A q \in Slot : Alone(q)'
<1>1. /\ smooth /\ OneInFlight /\ OneSession /\ PasswordsMatch /\ LogReachesStatus
      /\ \A q \in Slot : Alone(q)
  BY StaysSmooth DEF AloneInv
<1> SUFFICES ASSUME NEW q \in Slot PROVE Alone(q)'
  OBVIOUS
<1>2. CASE UNCHANGED allVars
  BY <1>1, <1>2, AloneStays DEF allVars, reqVars, accVars, svVars, Left
<1>3. CASE SignedOut
  <2>1. Left(q) = {} /\ Left(q)' = Left(q)
    BY <1>3, AtRest DEF SignedOut, Left
  <2> QED
    BY <2>1, AloneIfDone
<1>4. ASSUME NEW r \in Slot, Started(r) PROVE Alone(q)'
  <2>1. CASE q = r
    BY <1>4, <2>1 DEF Started
  <2>2. CASE q # r
    <3>1. Left(q)' = {}
      BY <1>4, <2>2, AtRest DEF Started, Others
    <3> QED
      BY <3>1, AloneIfDone
  <2> QED
    BY <2>1, <2>2
<1>5. ASSUME NEW r \in Slot, Stopped(r) PROVE Alone(q)'
  <2>1. CASE q = r
    BY <1>5, <2>1, AloneIfDone DEF Stopped
  <2>2. CASE q # r
    <3>1. req'[q] = req[q] /\ Left(q)' = Left(q)
      BY <1>5, <2>2 DEF Stopped, Others
    <3> QED
      BY <1>1, <1>5, <3>1, AloneStays DEF Stopped, tables, accVars, svVars
  <2> QED
    BY <2>1, <2>2
<1>6. ASSUME NEW r \in Slot, NEW s \in Statement, NEW arg \in Args, Ran(r, s, arg),
             Wrote(s, req[r].arg, arg)
      PROVE  Alone(q)'
  <2>1. CASE q # r
    <3>1. Left(r) # {} /\ Left(q)' = Left(q)
      BY <1>6, <2>1 DEF Ran, Others
    <3>2. Left(q) = {}
      BY <1>1, <2>1, <3>1 DEF OneInFlight
    <3> QED
      BY <3>1, <3>2, AloneIfDone
  <2>2. CASE q = r
    <3>1. PICK left, a : left = Left(r) /\ a = req[r].arg
      OBVIOUS
    <3>2. /\ s \in left /\ left \subseteq {s} \cup Later[s] /\ a \in Args
          /\ SubjectOf(left, a) /\ AloneOf(left, a) /\ Wrote(s, a, arg)
      BY <1>1, <1>6, <3>1 DEF Ran, Base, Subject, Alone, Wrote
    <3>3. s = "spend" /\ a.token \in Token /\ Works(a.token) =>
              token[a.token].password = user[a.user].password
      <4> SUFFICES ASSUME s = "spend", a.token \in Token, Works(a.token)
                   PROVE  token[a.token].password = user[a.user].password
        OBVIOUS
      <4>1. token[a.token].user = a.user
        BY <3>2 DEF SubjectOf, NoToken, Token
      <4>2. "revokeAll" \notin left
        BY <3>2 DEF Later, Successors
      <4>3. ~PasswordPending(a.user)
        BY <1>1, <1>6, <3>1, <4>2, PendingIsMine
      <4> QED
        BY <1>1, <4>1, <4>3 DEF PasswordsMatch
    <3>4. s = "setStatus" /\ sellerLog[a.user] # <<>> => Continues(a.previous, Last(sellerLog[a.user]))
      <4> SUFFICES ASSUME s = "setStatus", sellerLog[a.user] # <<>>
                   PROVE  Continues(a.previous, Last(sellerLog[a.user]))
        OBVIOUS
      <4>1. a.user \in User /\ a.previous = profile[a.user].status
        <5>1. left \cap Inserts = {}
          BY <3>2 DEF Later, Successors, Inserts
        <5> QED
          BY <3>2, <5>1 DEF SubjectOf, AloneOf
      <4>2. ~StatusPending(a.user)
        BY <1>1, <1>6, <3>1, <3>2, PendingIsMine
      <4> QED
        BY <1>1, <4>1, <4>2 DEF LogReachesStatus
    <3>5. AloneOf(left \ {s}, arg)'
      BY <1>1, <3>2, <3>3, <3>4, AloneOfRuns DEF Base
    <3>6. Left(r)' = left \ {s} /\ (left \ {s} # {} => req'[r].arg = arg)
      BY <1>6, <3>1 DEF Ran
    <3>7. CASE left \ {s} = {}
      BY <2>2, <3>6, <3>7, AloneIfDone
    <3>8. CASE left \ {s} # {}
      BY <2>2, <3>5, <3>6, <3>8 DEF Alone
    <3> QED
      BY <3>7, <3>8
  <2> QED
    BY <2>1, <2>2
<1> QED
  BY <1>2, <1>3, <1>4, <1>5, <1>6 DEF Step
\* How a statement changes the row and the status of one account.
LEMMA RowAfter ==
    ASSUME user \in [User -> Account], NEW s, NEW a, NEW arg, WroteUser(s, a, arg), NEW u \in User
    PROVE  \/ s \in Inserts /\ ~Row(u)
           \/ /\ user'[u].role = user[u].role
              /\ (s = "setPassword" /\ u = a.user) \/ user'[u].password = user[u].password
              /\ \/ s = "erase" /\ u = a.user /\ user'[u].state = "deleted"
                 \/ user'[u].state = user[u].state
              /\ \/ s = "setActive" /\ u = a.user /\ user'[u].active = a.active
                 \/ s = "erase" /\ u = a.user
                 \/ user'[u].active = user[u].active
<1>1. CASE s \in Inserts
  <2>1. PICK v \in User : ~Row(v) /\ user' = [user EXCEPT ![v] = a.new]
    BY <1>1 DEF WroteUser
  <2>2. u = v \/ user'[u] = user[u]
    BY <2>1
  <2> QED
    BY <1>1, <2>1, <2>2
<1>2. CASE s \in UserUpdates
  <2>1. PICK row \in Account :
            /\ user' = [user EXCEPT ![a.user] = row]
            /\ row.role = user[a.user].role
            /\ row.state = IF s = "erase" THEN "deleted" ELSE user[a.user].state
            /\ s # "setPassword" => row.password = user[a.user].password
            /\ s = "setActive" => row.active = a.active
            /\ s \notin {"setActive", "erase"} => row.active = user[a.user].active
    BY <1>2 DEF WroteUser
  <2>2. CASE u = a.user
    <3>1. user'[u] = row
      BY <2>1, <2>2
    <3> QED
      BY <2>1, <2>2, <3>1
  <2>3. CASE u # a.user
    <3>1. user'[u] = user[u]
      BY <2>1, <2>3
    <3> QED
      BY <3>1
  <2> QED
    BY <2>2, <2>3
<1>3. CASE s \notin UserUpdates \cup Inserts
  BY <1>3 DEF WroteUser
<1> QED
  BY <1>1, <1>2, <1>3

LEMMA StatusAfter ==
    ASSUME profile \in [User -> SellerProfile], NEW s, NEW a, NEW arg,
           WroteUser(s, a, arg), WroteSeller(s, a), NEW u \in User
    PROVE  \/ s = "setStatus" /\ u = a.user /\ profile'[u].status = a.status
           \/ s = "reopen" /\ u = a.user /\ profile'[u].status = "PENDING"
           \/ profile'[u].status = profile[u].status
<1>1. CASE s = "insertSeller"
  <2>1. PICK v \in User : profile' = [profile EXCEPT ![v].dni = a.dni]
    BY <1>1 DEF WroteUser, Inserts
  <2>2. profile'[u] \in {profile[u], [profile[u] EXCEPT !.dni = a.dni]}
    BY <2>1
  <2> QED
    BY <2>2 DEF SellerProfile
<1>2. CASE s \in {"setStatus", "reopen"}
  <2> DEFINE status == IF s = "reopen" THEN "PENDING" ELSE a.status
  <2>1. profile' = [profile EXCEPT ![a.user].status = status]
    BY <1>2 DEF WroteSeller
  <2>2. u = a.user => profile'[u] = [profile[u] EXCEPT !.status = status]
    BY <2>1
  <2>3. u # a.user => profile'[u] = profile[u]
    BY <2>1
  <2>4. u = a.user => profile'[u].status = status
    BY <2>2 DEF SellerProfile
  <2> QED
    BY <1>2, <2>3, <2>4
<1>3. CASE s \notin {"insertSeller", "setStatus", "reopen"}
  BY <1>3 DEF WroteSeller
<1> QED
  BY <1>1, <1>2, <1>3

\* A session that works did before, or has just been opened.
Opened(r, t) ==
    /\ Left(r) = {"open"} /\ ~Issued(t)
    /\ \A s \in Token \ {t} : token'[s] = token[s]
    /\ token'[t].user = req[r].arg.user /\ token'[t].password = req[r].arg.password
    /\ token'[t].login = IF req[r].arg.token = NoToken THEN t ELSE token[req[r].arg.token].login
    /\ UNCHANGED user
Worked(t) ==
    /\ Works(t)
    /\ token'[t].user = token[t].user /\ token'[t].login = token[t].login
    /\ token'[t].password = token[t].password

LEMMA WorkedOrOpened ==
    ASSUME Base, Step, NEW t \in Token, Works(t)'
    PROVE  Worked(t) \/ \E r \in Slot : Opened(r, t)
<1>1. CASE Issued(t)
  BY <1>1, RowsAndSessionsStay DEF SessionsStay, Worked, Works, Issued
<1>2. CASE ~Issued(t)
  <2>1. token'[t].user # NoUser /\ token' # token
    BY <1>2 DEF Works, Issued
  <2>2. ~UNCHANGED tables
    BY <2>1 DEF tables, accVars
  <2>3. ~SignedOut
    BY <1>2, <2>1 DEF SignedOut, Issued
  <2>4. PICK r \in Slot, s \in Statement, arg \in Args : Ran(r, s, arg) /\ Wrote(s, req[r].arg, arg)
    BY <2>2, <2>3 DEF Step, Started, Stopped, allVars, tables
  <2> DEFINE a == req[r].arg
  <2>5. WroteToken(s, a) /\ token \in [Token -> Session]
    BY <2>4 DEF Wrote, Base, AccTypeOK
  <2>6. s = "open"
    <3>1. CASE s = "spend"
      <4>1. token' = [token EXCEPT ![a.token] = [token[a.token] EXCEPT !.revoked = TRUE]]
        BY <2>5, <3>1 DEF WroteToken, Revoked
      <4>2. token'[t] \in {token[t], [token[t] EXCEPT !.revoked = TRUE]}
        BY <2>5, <4>1
      <4> QED
        BY <1>2, <2>1, <2>5, <4>2 DEF Issued, Session
    <3>2. CASE s = "revokeAll"
      <4>1. token'[t] \in {token[t], [token[t] EXCEPT !.revoked = TRUE]}
        BY <2>5, <3>2 DEF WroteToken, AllRevoked
      <4> QED
        BY <1>2, <2>1, <2>5, <4>1 DEF Issued, Session
    <3> QED
      BY <2>1, <2>5, <3>1, <3>2 DEF WroteToken
  <2>7. PICK k \in Token :
            token' = [token EXCEPT ![k] =
                [user |-> a.user, revoked |-> FALSE, from |-> a.token,
                 login |-> IF a.token = NoToken THEN k ELSE token[a.token].login,
                 password |-> a.password, late |-> user[a.user].state = "deleted"]]
    BY <2>5, <2>6 DEF WroteToken
  <2>8. k = t
    BY <1>2, <2>1, <2>5, <2>7 DEF Issued
  <2>9. UNCHANGED user
    BY <2>4, <2>6 DEF Wrote, WroteUser, UserUpdates, CodeStores, Inserts
  <2>10. Left(r) = {"open"}
    BY <2>4, <2>6 DEF Ran, Later, Successors
  <2> QED
    BY <1>2, <2>5, <2>7, <2>8, <2>9, <2>10 DEF Opened
<1> QED
  BY <1>1, <1>2

LEMMA OneSessionKept ==
    ASSUME Base, AloneInv, Step, smooth'
    PROVE  OneSession'
<1>1. OneSession /\ \A r \in Slot : Alone(r)
  BY StaysSmooth DEF AloneInv
<1> SUFFICES ASSUME NEW t \in Token, NEW k \in Token, Works(t)', Works(k)',
                    token'[t].login = token'[k].login
             PROVE  t = k
  BY DEF OneSession
\* A session just opened belongs to a login that has no other.
<1>2. ASSUME NEW r \in Slot, NEW i \in Token, NEW j \in Token, Opened(r, i), Worked(j)
      PROVE  token'[i].login # token'[j].login
  <2> DEFINE a == req[r].arg
  <2>1. Issued(token[j].login) /\ Works(j) /\ token'[j].login = token[j].login
    BY <1>2 DEF Base, TokensOK, Worked, Works, Issued
  <2>2. CASE a.token = NoToken
    BY <1>2, <2>1, <2>2 DEF Opened
  <2>3. CASE a.token # NoToken
    BY <1>1, <1>2, <2>1, <2>3 DEF Opened, Alone, AloneOf
  <2> QED
    BY <2>2, <2>3
<1>3. CASE Worked(t) /\ Worked(k)
  BY <1>1, <1>3 DEF OneSession, Worked
<1>4. ASSUME NEW r \in Slot, NEW q \in Slot, Opened(r, t), Opened(q, k) PROVE t = k
  BY <1>4 DEF Opened, Issued, Works
<1> QED
  BY <1>2, <1>3, <1>4, WorkedOrOpened

LEMMA PasswordsKept ==
    ASSUME Base, AloneInv, Step, smooth'
    PROVE  PasswordsMatch'
<1>1. PasswordsMatch /\ OneInFlight /\ \A r \in Slot : Alone(r)
  BY StaysSmooth DEF AloneInv
<1> SUFFICES ASSUME NEW t \in Token, Works(t)'
             PROVE  (token[t].password = user[token[t].user].password \/ PasswordPending(token[t].user))'
  BY DEF PasswordsMatch
<1>2. ASSUME NEW r \in Slot, Opened(r, t)
      PROVE  token'[t].password = user'[token'[t].user].password
  BY <1>1, <1>2 DEF Opened, Alone, AloneOf
<1>3. CASE Worked(t)
  <2>0. PICK u : u = token[t].user
    OBVIOUS
  <2>1. u \in User /\ Row(u) /\ token'[t].user = u /\ token'[t].password = token[t].password
    BY <1>3, <2>0 DEF Base, AccTypeOK, TokensOK, Session, Worked, Works, Issued
  <2>2. token[t].password = user[u].password \/ PasswordPending(u)
    BY <1>1, <1>3, <2>0 DEF PasswordsMatch, Worked, PasswordPending
  <2>3. CASE ~ \E r \in Slot, s \in Statement, arg \in Args : Ran(r, s, arg) /\ Wrote(s, req[r].arg, arg)
    <3>1. UNCHANGED user
      BY <2>3 DEF Step, SignedOut, Started, Stopped, allVars, tables, accVars
    <3> QED
      BY <2>1, <2>2, <2>3, <3>1, PendingStays DEF PasswordPending
  <2>4. ASSUME NEW r \in Slot, NEW s \in Statement, NEW arg \in Args, Ran(r, s, arg),
               Wrote(s, req[r].arg, arg)
        PROVE  token[t].password = user'[u].password \/ PasswordPending(u)'
    <3> DEFINE a == req[r].arg
    <3>1. WroteUser(s, a, arg) /\ WroteToken(s, a)
      BY <2>4 DEF Wrote
    <3>2. CASE PasswordPending(u)
      <4>1. CASE s = "revokeAll"
        <5>1. a.user = u
          BY <1>1, <2>4, <3>2, PendingIsMine
        <5>2. token'[t] = [token[t] EXCEPT !.revoked = TRUE]
          BY <2>0, <3>1, <4>1, <5>1 DEF WroteToken, AllRevoked
        <5>3. token'[t].revoked
          BY <5>2 DEF Base, AccTypeOK, Session
        <5> QED
          BY <5>3 DEF Works
      <4> QED
        BY <2>4, <3>2, <4>1, PendingRuns
    <3>3. CASE token[t].password = user[u].password
      <4>1. CASE s = "setPassword" /\ u = a.user
        <5>1. "revokeAll" \in Left(r) /\ "setPassword" \in Left(r)
          BY <2>4, <4>1 DEF Ran, Base, Subject, SubjectOf
        <5>2. "revokeAll" \in Left(r)' /\ "setPassword" \notin Left(r)' /\ arg = a
          BY <2>4, <4>1, <5>1 DEF Ran, Wrote, Draws
        <5>3. req'[r].arg = a
          BY <2>4, <5>2 DEF Ran
        <5> QED
          BY <4>1, <5>2, <5>3 DEF PasswordPending
      <4>2. CASE ~(s = "setPassword" /\ u = a.user)
        <5>1. user'[u].password = user[u].password
          BY <2>1, <3>1, <4>2, RowAfter DEF Base, AccTypeOK
        <5> QED
          BY <3>3, <5>1
      <4> QED
        BY <4>1, <4>2
    <3> QED
      BY <2>2, <3>2, <3>3
  <2> QED
    BY <2>1, <2>3, <2>4 DEF PasswordPending
<1> QED
  BY <1>2, <1>3, WorkedOrOpened
\* How a statement changes what else is kept about an account.
LEMMA DniAfter ==
    ASSUME profile \in [User -> SellerProfile], NEW s, NEW a, WroteSeller(s, a), s # "insertSeller",
           NEW u \in User
    PROVE  profile'[u].dni = profile[u].dni
<1>1. profile' = profile \/ \E status : profile' = [profile EXCEPT ![a.user].status = status]
  BY DEF WroteSeller
<1>2. ASSUME NEW status, profile' = [profile EXCEPT ![a.user].status = status]
      PROVE  profile'[u].dni = profile[u].dni
  <2>1. profile'[u] = profile[u] \/ profile'[u] = [profile[u] EXCEPT !.status = status]
    BY <1>2
  <2> QED
    BY <2>1 DEF SellerProfile
<1> QED
  BY <1>1, <1>2

LEMMA PrimaryAfter ==
    ASSUME primary \in [User -> Nat], NEW s, NEW a, NEW arg, WroteUser(s, a, arg), WroteSeller(s, a),
           NEW u \in User
    PROVE  \/ s = "addPrimary" /\ u = a.user /\ primary'[u] = primary[u] + 1
           \/ s = "insertSeller" /\ primary'[u] = 1
           \/ primary'[u] = primary[u]
<1>1. CASE s = "insertSeller"
  BY <1>1 DEF WroteUser, Inserts
<1>2. CASE s # "insertSeller"
  BY <1>2 DEF WroteSeller
<1> QED
  BY <1>1, <1>2

LEMMA AccountLogAfter ==
    ASSUME AccTypeOK, NEW s, NEW a, WroteLogs(s, a), NEW u \in User
    PROVE  \/ /\ s \in {"logDeleted", "logActive"} /\ u = a.user
              /\ accountLog'[u] = Append(accountLog[u],
                     IF s = "logDeleted" THEN "USER_DELETED" ELSE SwitchAction(a.active))
           \/ accountLog'[u] = accountLog[u]
BY DEF AccTypeOK, WroteLogs

LEMMA SellerLogAfter ==
    ASSUME AccTypeOK, NEW s, NEW a, WroteLogs(s, a), NEW u \in User
    PROVE  \/ /\ s = "logStatus" /\ u = a.user
              /\ sellerLog'[u] = Append(sellerLog[u], [from |-> a.previous, to |-> a.status])
           \/ sellerLog'[u] = sellerLog[u] /\ ~(s = "logStatus" /\ u = a.user)
BY DEF AccTypeOK, WroteLogs

LEMMA ToldAfter ==
    ASSUME AccTypeOK, NEW s, NEW a, WroteLogs(s, a), NEW u \in User
    PROVE  \/ s = "notify" /\ u = a.user /\ told'[u] = Append(told[u], a.status)
           \/ told'[u] = told[u] /\ ~(s = "notify" /\ u = a.user)
BY DEF AccTypeOK, WroteLogs

\* However requests interleave and fail: a seller has its rows, DNIs differ, and
\* there are entries about accounts only.
Complete ==
    \A u \in User :
        /\ user[u].role = "SELLER" => HasProfile(u) /\ primary[u] >= 1
        /\ \A v \in User \ {u} : HasProfile(u) => profile[u].dni # profile[v].dni
        /\ accountLog[u] # <<>> => Row(u)

LEMMA CompleteInit == SVInit => Complete
<1> SUFFICES ASSUME SVInit PROVE Complete
  OBVIOUS
<1>1. PICK t \in InitialTables : user = t.user /\ profile = t.profile /\ primary = t.primary
  BY DEF SVInit, AccInit
<1>2. \A u \in User : accountLog[u] = <<>>
  BY DEF SVInit, AccInit
<1> QED
  BY <1>1, <1>2, InitialTablesAssumption DEF Complete, HasProfile

LEMMA CompleteKept ==
    ASSUME Base, Complete, Step
    PROVE  Complete'
<1>1. CASE UNCHANGED tables \/ SignedOut
  BY <1>1 DEF Complete, HasProfile, Row, tables, accVars, SignedOut
<1>2. ASSUME NEW r \in Slot, NEW s \in Statement, NEW arg \in Args, Ran(r, s, arg),
             Wrote(s, req[r].arg, arg)
      PROVE  Complete'
  <2>1. PICK a \in Args : a = req[r].arg
    BY <1>2 DEF Wrote
  <2>2. /\ WroteUser(s, a, arg) /\ WroteSeller(s, a) /\ WroteLogs(s, a)
        /\ s \in Left(r) /\ SubjectOf(Left(r), a) /\ Left(r) \subseteq {s} \cup Later[s]
    BY <1>2, <2>1 DEF Wrote, Ran, Base, Subject
  <2>3. /\ user \in [User -> Account] /\ profile \in [User -> SellerProfile] /\ primary \in [User -> Nat]
        /\ AccTypeOK
    BY DEF Base, AccTypeOK
  <2>4. RowsStay
    BY RowsAndSessionsStay
  <2>5. ASSUME NEW u \in User, accountLog'[u] # <<>> PROVE Row(u)'
    <3>1. CASE s \in {"logDeleted", "logActive"} /\ u = a.user
      <4>1. Left(r) \cap Inserts = {}
        BY <2>2, <3>1 DEF Later, Successors, Inserts
      <4> QED
        BY <2>2, <2>4, <3>1, <4>1 DEF SubjectOf, RowsStay
    <3>2. CASE ~(s \in {"logDeleted", "logActive"} /\ u = a.user)
      <4>1. WroteLogs(s, a) /\ AccTypeOK
        BY <2>2, <2>3
      <4>2. (s \in {"logDeleted", "logActive"} /\ u = a.user) \/ accountLog'[u] = accountLog[u]
        BY <4>1, AccountLogAfter, Zenon
      <4> QED
        BY <2>4, <2>5, <3>2, <4>2 DEF Complete, RowsStay
    <3> QED
      BY <3>1, <3>2
  <2>6. CASE s = "insertSeller"
    <3>1. PICK v \in User : /\ ~Row(v)
                            /\ user' = [user EXCEPT ![v] = a.new]
                            /\ \A w \in User : profile[w].dni # a.dni
                            /\ profile' = [profile EXCEPT ![v] = [profile[v] EXCEPT !.dni = a.dni]]
                            /\ primary' = [primary EXCEPT ![v] = 1]
      BY <2>2, <2>6 DEF WroteUser, Inserts
    <3>2. profile'[v].dni = a.dni /\ a.dni # NoDni /\ primary'[v] = 1
      <4>1. a.dni \in Dni
        BY <2>2, <2>6 DEF SubjectOf
      <4> QED
        BY <2>3, <3>1, <4>1, AccountsAssumption DEF SellerProfile
    <3>3. \A u \in User \ {v} : user'[u] = user[u] /\ profile'[u] = profile[u] /\ primary'[u] = primary[u]
      BY <2>3, <3>1
    <3> QED
      BY <2>5, <3>1, <3>2, <3>3 DEF Complete, HasProfile
  <2>7. CASE s # "insertSeller"
    <3>1. \A u \in User : profile'[u].dni = profile[u].dni
      BY <2>2, <2>3, <2>7, DniAfter
    <3>2. \A u \in User : primary[u] \in Nat /\ primary'[u] \in {primary[u], primary[u] + 1}
      BY <2>2, <2>3, <2>7, PrimaryAfter
    <3>3. \A u \in User : user'[u].role = "SELLER" => user[u].role = "SELLER"
      <4>1. CASE s = "insert"
        <5>1. a.new.role = "CUSTOMER"
          BY <2>2, <4>1 DEF SubjectOf
        <5>2. PICK v \in User : user' = [user EXCEPT ![v] = a.new]
          BY <2>2, <4>1 DEF WroteUser, Inserts
        <5>3. user'[v] = a.new /\ \A u \in User \ {v} : user'[u] = user[u]
          BY <2>3, <5>2
        <5> QED
          BY <5>1, <5>3
      <4>2. CASE s # "insert"
        BY <2>2, <2>3, <2>7, <4>2, RowAfter DEF Inserts
      <4> QED
        BY <4>1, <4>2
    <3> QED
      BY <2>5, <3>1, <3>2, <3>3 DEF Complete, HasProfile
  <2> QED
    BY <2>6, <2>7
<1> QED
  BY <1>1, <1>2 DEF Step, Started, Stopped, allVars, tables

\* While requests do not overlap nobody gets a second primary location.
LEMMA OnePrimaryKept ==
    ASSUME Base, AloneInv, Step, smooth'
    PROVE  OnePrimary'
<1>1. OnePrimary /\ \A r \in Slot : Alone(r)
  BY StaysSmooth DEF AloneInv
<1>2. CASE UNCHANGED tables \/ SignedOut
  BY <1>1, <1>2 DEF OnePrimary, tables, accVars, SignedOut
<1>3. ASSUME NEW r \in Slot, NEW s \in Statement, NEW arg \in Args, Ran(r, s, arg),
             Wrote(s, req[r].arg, arg), NEW u \in User
      PROVE  primary'[u] <= 1
  <2>1. s = "addPrimary" => primary[req[r].arg.user] = 0
    BY <1>1, <1>3 DEF Ran, Alone, AloneOf
  <2>2. WroteUser(s, req[r].arg, arg) /\ WroteSeller(s, req[r].arg)
    BY <1>3 DEF Wrote
  <2>3. \/ s = "addPrimary" /\ u = req[r].arg.user /\ primary'[u] = primary[u] + 1
        \/ s = "insertSeller" /\ primary'[u] = 1
        \/ primary'[u] = primary[u]
    BY <2>2, PrimaryAfter DEF Base, AccTypeOK
  <2> QED
    BY <1>1, <2>1, <2>3 DEF OnePrimary
<1> QED
  BY <1>2, <1>3 DEF Step, Started, Stopped, allVars, tables, OnePrimary
\* What a request has still to write is what the logs lack.
NoneRuns == ~ \E r \in Slot, s \in Statement, arg \in Args : Ran(r, s, arg) /\ Wrote(s, req[r].arg, arg)

LEMMA ChainKept ==
    ASSUME Base, AloneInv, Step, smooth'
    PROVE  LogIsChain'
<1>1. LogIsChain /\ \A r \in Slot : Alone(r)
  BY StaysSmooth DEF AloneInv
<1>2. CASE UNCHANGED tables \/ SignedOut
  <2>1. UNCHANGED sellerLog
    BY <1>2 DEF tables, svVars, SignedOut
  <2> QED
    BY <1>1, <2>1 DEF LogIsChain, Continues
<1>3. ASSUME NEW r \in Slot, NEW s \in Statement, NEW arg \in Args, Ran(r, s, arg),
             Wrote(s, req[r].arg, arg), NEW u \in User, NEW i \in 1 .. Len(sellerLog'[u]) - 1
      PROVE  Continues(sellerLog[u][i + 1].from, sellerLog[u][i])'
  <2>1. PICK a : a = req[r].arg
    OBVIOUS
  <2>2. a \in Args /\ WroteLogs(s, a) /\ AccTypeOK
    BY <1>3, <2>1 DEF Wrote, Base
  <2>3. sellerLog[u] \in Seq(Transition)
    BY <2>2 DEF AccTypeOK
  <2>4. PICK log : log = sellerLog[u]
    OBVIOUS
  <2>5. CASE sellerLog'[u] = sellerLog[u]
    BY <1>1, <1>3, <2>5 DEF LogIsChain, Continues
  <2>6. CASE sellerLog'[u] # sellerLog[u]
    <3>1. s = "logStatus" /\ u = a.user /\ sellerLog'[u] = Append(log, [from |-> a.previous, to |-> a.status])
      BY <2>2, <2>4, <2>6, SellerLogAfter, Zenon
    <3>2. log # <<>> => Continues(a.previous, Last(log))
      <4>1. "logStatus" \in Left(r) /\ "setStatus" \notin Left(r)
        BY <1>3, <3>1 DEF Ran, Later, Successors
      <4> QED
        BY <1>1, <2>1, <2>4, <3>1, <4>1 DEF Alone, AloneOf
    <3>3. CASE i < Len(log)
      <4>1. sellerLog'[u][i + 1] = log[i + 1] /\ sellerLog'[u][i] = log[i] /\ i \in 1 .. Len(log) - 1
        BY <1>3, <2>3, <2>4, <3>1, <3>3
      <4> QED
        BY <1>1, <2>4, <4>1 DEF LogIsChain, Continues
    <3>4. CASE ~(i < Len(log))
      <4>1. /\ i = Len(log) /\ log # <<>>
            /\ sellerLog'[u][i + 1] = [from |-> a.previous, to |-> a.status] /\ sellerLog'[u][i] = log[Len(log)]
        BY <1>3, <2>3, <2>4, <3>1, <3>4
      <4> QED
        BY <3>2, <4>1 DEF Continues, Last
    <3> QED
      BY <3>3, <3>4
  <2> QED
    BY <2>5, <2>6
<1> QED
  BY <1>2, <1>3 DEF Step, Started, Stopped, allVars, tables, LogIsChain

LEMMA LogReaches ==
    ASSUME Base, AloneInv, Step, smooth'
    PROVE  LogReachesStatus'
<1>1. LogReachesStatus /\ OneInFlight /\ \A r \in Slot : Alone(r)
  BY StaysSmooth DEF AloneInv
<1> SUFFICES ASSUME NEW u \in User, sellerLog'[u] # <<>>
             PROVE  (Continues(profile[u].status, Last(sellerLog[u])) \/ StatusPending(u))'
  BY DEF LogReachesStatus
<1>2. CASE NoneRuns
  <2>1. UNCHANGED <<profile, sellerLog>>
    BY <1>2 DEF NoneRuns, Step, SignedOut, Started, Stopped, allVars, tables, accVars, svVars
  <2>2. Continues(profile[u].status, Last(sellerLog[u])) \/ StatusPending(u)
    BY <1>1, <2>1 DEF LogReachesStatus
  <2> QED
    BY <1>2, <2>1, <2>2, PendingStays DEF NoneRuns, Continues, Last
<1>3. ASSUME NEW r \in Slot, NEW s \in Statement, NEW arg \in Args, Ran(r, s, arg),
             Wrote(s, req[r].arg, arg)
      PROVE  (Continues(profile[u].status, Last(sellerLog[u])) \/ StatusPending(u))'
  <2>1. PICK left, a : left = Left(r) /\ a = req[r].arg
    OBVIOUS
  <2>2. /\ a \in Args /\ WroteUser(s, a, arg) /\ WroteSeller(s, a) /\ WroteLogs(s, a) /\ AccTypeOK
        /\ user \in [User -> Account] /\ profile \in [User -> SellerProfile]
        /\ SubjectOf(left, a) /\ AloneOf(left, a) /\ s \in left /\ left \subseteq {s} \cup Later[s]
    BY <1>1, <1>3, <2>1 DEF Wrote, Base, AccTypeOK, Subject, Alone, Ran
  <2>3. sellerLog[u] \in Seq(Transition)
    BY <2>2 DEF AccTypeOK
  <2>4. CASE s = "logStatus" /\ u = a.user
    <3>1. sellerLog'[u] = Append(sellerLog[u], [from |-> a.previous, to |-> a.status])
      BY <2>2, <2>4, SellerLogAfter
    <3>2. Last(sellerLog'[u]) = [from |-> a.previous, to |-> a.status]
      BY <2>3, <3>1 DEF Last
    <3>3. "setStatus" \notin left
      BY <2>2, <2>4 DEF Later, Successors
    <3>4. profile'[u].status = a.status
      <4>1. profile[u].status = a.status /\ profile' = profile
        BY <2>2, <2>4, <3>3 DEF AloneOf, WroteSeller
      <4> QED
        BY <4>1
    <3> QED
      BY <3>2, <3>4 DEF Continues, Last
  <2>5. CASE ~(s = "logStatus" /\ u = a.user)
    <3>1. sellerLog'[u] = sellerLog[u]
      BY <2>2, <2>5, SellerLogAfter, Zenon
    <3>2. Continues(profile[u].status, Last(sellerLog[u])) \/ StatusPending(u)
      BY <1>1, <3>1 DEF LogReachesStatus
    <3>3. StatusPending(u) => StatusPending(u)'
      <4>1. s = "logStatus" => ~StatusPending(u)
        BY <1>1, <1>3, <2>1, <2>5, PendingIsMine
      <4> QED
        BY <1>3, <4>1, PendingRuns
    <3>4. CASE s = "setStatus" /\ u = a.user
      <4>1. "logStatus" \in left
        BY <2>2, <3>4 DEF SubjectOf
      <4>2. Left(r)' = left \ {s} /\ arg = a /\ (Left(r)' # {} => req'[r].arg = arg)
        BY <1>3, <2>1, <3>4 DEF Ran, Wrote, Draws
      <4> QED
        BY <3>4, <4>1, <4>2 DEF StatusPending
    <3>5. CASE s = "reopen" /\ u = a.user
      <4>1. left = {"reopen"}
        BY <2>2, <3>5 DEF Later, Successors
      <4>2. ~StatusPending(u)
        <5>1. "logStatus" \notin Left(r)
          BY <2>1, <4>1
        <5> QED
          BY <1>1, <1>3, <5>1, PendingIsMine
      <4>3. profile[u].status = "REJECTED"
        BY <2>2, <3>5 DEF AloneOf
      <4>4. profile'[u].status = "PENDING"
        BY <2>2, <3>5, <4>3, StatusAfter, RowAfter DEF WroteSeller, SellerProfile
      <4> QED
        BY <3>1, <3>2, <4>2, <4>3, <4>4 DEF Continues, Last
    <3>6. CASE ~(s \in {"setStatus", "reopen"} /\ u = a.user)
      <4>1. profile'[u].status = profile[u].status
        BY <2>2, <3>6, StatusAfter
      <4> QED
        BY <3>1, <3>2, <3>3, <4>1 DEF Continues, Last
    <3> QED
      BY <3>4, <3>5, <3>6
  <2> QED
    BY <2>4, <2>5
<1> QED
  BY <1>2, <1>3 DEF NoneRuns

LEMMA LogTells ==
    ASSUME Base, Complete, AloneInv, Step, smooth'
    PROVE  LogTellsActive'
<1>1. LogTellsActive /\ OneInFlight /\ \A r \in Slot : Alone(r)
  BY StaysSmooth DEF AloneInv
<1> SUFFICES ASSUME NEW u \in User, accountLog'[u] # <<>>, Live(u)'
             PROVE  (user[u].active = (Last(accountLog[u]) = "USER_ACTIVATED") \/ ActivePending(u))'
  BY DEF LogTellsActive
<1>2. CASE NoneRuns
  <2>1. UNCHANGED <<user, accountLog>>
    BY <1>2 DEF NoneRuns, Step, SignedOut, Started, Stopped, allVars, tables, accVars, svVars
  <2>2. user[u].active = (Last(accountLog[u]) = "USER_ACTIVATED") \/ ActivePending(u)
    BY <1>1, <2>1 DEF LogTellsActive, Live
  <2> QED
    BY <1>2, <2>1, <2>2, PendingStays DEF NoneRuns, Last
<1>3. ASSUME NEW r \in Slot, NEW s \in Statement, NEW arg \in Args, Ran(r, s, arg),
             Wrote(s, req[r].arg, arg)
      PROVE  (user[u].active = (Last(accountLog[u]) = "USER_ACTIVATED") \/ ActivePending(u))'
  <2>1. PICK left, a : left = Left(r) /\ a = req[r].arg
    OBVIOUS
  <2>2. /\ a \in Args /\ WroteUser(s, a, arg) /\ WroteLogs(s, a) /\ AccTypeOK
        /\ user \in [User -> Account]
        /\ SubjectOf(left, a) /\ AloneOf(left, a) /\ s \in left /\ left \subseteq {s} \cup Later[s]
    BY <1>1, <1>3, <2>1 DEF Wrote, Base, AccTypeOK, Subject, Alone, Ran
  <2>3. accountLog[u] \in Seq(AccountAction)
    BY <2>2 DEF AccTypeOK
  <2>4. CASE s = "logActive" /\ u = a.user
    <3>1. accountLog'[u] = Append(accountLog[u], SwitchAction(a.active))
      <4>1. accountLog' = [accountLog EXCEPT ![a.user] = Append(@, SwitchAction(a.active))]
        BY <2>2, <2>4 DEF WroteLogs
      <4> QED
        BY <2>2, <2>4, <4>1 DEF AccTypeOK
    <3>2. Last(accountLog'[u]) = SwitchAction(a.active)
      BY <2>3, <3>1 DEF Last
    <3>3. user' = user /\ "setActive" \notin left
      BY <2>2, <2>4 DEF WroteUser, UserUpdates, CodeStores, Inserts, Later, Successors
    <3>4. user'[u].active = a.active /\ a.active \in BOOLEAN
      BY <2>2, <2>4, <3>3 DEF AloneOf, Live, Args
    <3> QED
      BY <3>2, <3>4 DEF SwitchAction, Last
  <2>5. CASE s = "logDeleted" /\ u = a.user
    <3>1. user' = user /\ "erase" \notin left
      BY <2>2, <2>5 DEF WroteUser, UserUpdates, CodeStores, Inserts, Later, Successors
    <3>2. user[u].state = "deleted"
      BY <2>2, <2>5, <3>1 DEF SubjectOf
    <3> QED
      BY <3>1, <3>2 DEF Live
  <2>6. CASE ~(s \in {"logDeleted", "logActive"} /\ u = a.user)
    <3>1. accountLog'[u] = accountLog[u]
      <4>1. WroteLogs(s, a) /\ AccTypeOK
        BY <2>2
      <4> QED
        BY <2>6, <4>1, AccountLogAfter, Zenon
    <3>2. Row(u)
      BY <3>1 DEF Complete
    <3>3. s = "logActive" => ~ActivePending(u)
      BY <1>1, <1>3, <2>1, <2>6, PendingIsMine
    <3>4. ActivePending(u) => ActivePending(u)'
      BY <1>3, <3>3, PendingRuns
    <3>5. CASE s = "setActive" /\ u = a.user
      <4>1. "logActive" \in left
        BY <2>2, <3>5 DEF SubjectOf
      <4>2. Left(r)' = left \ {s} /\ arg = a /\ (Left(r)' # {} => req'[r].arg = arg)
        BY <1>3, <2>1, <3>5 DEF Ran, Wrote, Draws
      <4> QED
        BY <3>5, <4>1, <4>2 DEF ActivePending
    <3>6. CASE s = "erase" /\ u = a.user
      BY <2>2, <3>2, <3>6, RowAfter DEF Live, Row, Inserts, WroteUser, UserUpdates
    <3>7. CASE ~(s \in {"setActive", "erase"} /\ u = a.user)
      <4>1. user'[u].active = user[u].active /\ user'[u].state = user[u].state
        BY <2>2, <3>2, <3>7, RowAfter
      <4>2. user[u].active = (Last(accountLog[u]) = "USER_ACTIVATED") \/ ActivePending(u)
        BY <1>1, <3>1, <4>1 DEF LogTellsActive, Live
      <4> QED
        BY <3>1, <3>4, <4>1, <4>2 DEF Last
    <3> QED
      BY <3>5, <3>6, <3>7
  <2> QED
    BY <2>4, <2>5, <2>6
<1> QED
  BY <1>2, <1>3 DEF NoneRuns
LEMMA AloneKept ==
    ASSUME Base, Complete, AloneInv, Step
    PROVE  AloneInv'
<1> SUFFICES ASSUME smooth' PROVE AloneInv'
  BY DEF AloneInv
<1>1. smooth => OneInFlight
  BY DEF AloneInv
<1> QED
  BY <1>1, OneInFlightKept, StillAlone, OneSessionKept, PasswordsKept, OnePrimaryKept,
     ChainKept, LogReaches, LogTells DEF AloneInv

LEMMA AloneInit == SVInit => AloneInv
<1> SUFFICES ASSUME SVInit PROVE AloneInv
  OBVIOUS
<1>1. \A r \in Slot : Left(r) = {}
  BY NothingInFlight
<1>2. \A t \in Token : ~Works(t)
  BY NothingIssued DEF Works, Issued
<1>3. OnePrimary
  BY InitialTablesAssumption DEF SVInit, AccInit, OnePrimary
<1>4. \A u \in User : sellerLog[u] = <<>> /\ accountLog[u] = <<>>
  BY DEF SVInit, AccInit
<1>5. LogIsChain
  BY <1>4 DEF LogIsChain
<1> QED
  BY <1>1, <1>2, <1>3, <1>4, <1>5
     DEF AloneInv, OneInFlight, Alone, AloneOf, OneSession, PasswordsMatch, LogReachesStatus, LogTellsActive

AccountsInv == Base /\ Complete /\ AloneInv

LEMMA AccountsInvCorrect == SVSpec => []AccountsInv
<1>1. SVInit => AccountsInv
  BY BaseInit, CompleteInit, AloneInit DEF AccountsInv
<1>2. AccountsInv /\ [SVNext]_allVars => AccountsInv'
  <2> SUFFICES ASSUME AccountsInv, [SVNext]_allVars PROVE AccountsInv'
    OBVIOUS
  <2>1. Base /\ Complete /\ AloneInv
    BY DEF AccountsInv
  <2>2. Base' /\ Step
    BY <2>1, BaseKept, Steps
  <2> QED
    BY <2>1, <2>2, CompleteKept, AloneKept DEF AccountsInv
<1> QED
  BY <1>1, <1>2, PTL DEF SVSpec

\* Refresh tokens rotate: while requests do not overlap, a login has at most one
\* session that still works, however often it is renewed.
THEOREM SessionsRotate == SVSpec => []OneSessionPerLogin
<1>1. AccountsInv => OneSessionPerLogin
  BY DEF AccountsInv, AloneInv, OneSession, OneSessionPerLogin
<1> QED
  BY <1>1, AccountsInvCorrect, PTL

\* While requests do not overlap, a session that works once all are done was
\* opened by a login with the password its account has now.
THEOREM PasswordsCloseSessions == SVSpec => []SessionsDieWithPassword
<1>1. ASSUME AccountsInv, smooth, AllRest, NEW t \in Token, Works(t)
      PROVE  token[t].password = user[token[t].user].password
  <2>1. \A q \in Slot : Left(q) = {}
    BY <1>1, AtRest DEF AccountsInv
  <2> QED
    BY <1>1, <2>1 DEF AccountsInv, AloneInv, PasswordsMatch, PasswordPending
<1>2. AccountsInv => SessionsDieWithPassword
  BY <1>1 DEF SessionsDieWithPassword
<1> QED
  BY <1>2, AccountsInvCorrect, PTL

\* A seller's account has its profile and its location whatever fails, no two
\* DNIs are equal whatever two registrations have read, and nobody has two
\* primary locations while requests do not overlap.
THEOREM SellersComplete == SVSpec => []SellersAreComplete
<1>1. AccountsInv => SellersAreComplete
  BY DEF AccountsInv, Complete, AloneInv, OnePrimary, SellersAreComplete
<1> QED
  BY <1>1, AccountsInvCorrect, PTL

---------------------------------------------------------------------------
(* Why a profile is back to PENDING, and what becomes of its documents.    *)

\* How a statement changes the statuses a profile has had, and its documents.
LEMMA PastAfter ==
    ASSUME AccTypeOK, NEW s, NEW a, NEW arg, WroteUser(s, a, arg), WroteSeller(s, a), WroteLogs(s, a),
           NEW u \in User
    PROVE  \/ /\ s = "setStatus" /\ u = a.user
              /\ past'[u] = Append(past[u], a.status) /\ profile'[u].status = a.status
           \/ /\ s = "reopen" /\ u = a.user
              /\ past'[u] = Append(past[u], "PENDING") /\ profile'[u].status = "PENDING"
           \/ /\ ~(s \in {"setStatus", "reopen"} /\ u = a.user)
              /\ past'[u] = past[u] /\ profile'[u].status = profile[u].status
<1>1. profile \in [User -> SellerProfile] /\ past \in [User -> Seq(VerificationStatus)]
  BY DEF AccTypeOK
<1>2. CASE s \in {"setStatus", "reopen"} /\ u = a.user
  <2> DEFINE status == IF s = "reopen" THEN "PENDING" ELSE a.status
  <2>1. past' = [past EXCEPT ![a.user] = Append(past[a.user], status)]
    BY <1>2 DEF WroteLogs
  <2>2. profile' = [profile EXCEPT ![u] = [profile[u] EXCEPT !.status = status]]
    BY <1>2 DEF WroteSeller
  <2>3. past'[u] = Append(past[u], status) /\ profile'[u] = [profile[u] EXCEPT !.status = status]
    BY <1>1, <1>2, <2>1, <2>2
  <2> HIDE DEF status
  <2>4. profile'[u].status = status
    BY <1>1, <2>3 DEF SellerProfile
  <2> QED
    BY <1>2, <2>3, <2>4 DEF status
<1>3. CASE ~(s \in {"setStatus", "reopen"} /\ u = a.user)
  <2>1. past'[u] = past[u]
    BY <1>1, <1>3 DEF WroteLogs
  <2>2. profile'[u].status = profile[u].status
    BY <1>1, <1>3, StatusAfter
  <2> QED
    BY <1>3, <2>1, <2>2
<1> QED
  BY <1>2, <1>3

LEMMA IdentityAfter ==
    ASSUME AccTypeOK, NEW s, NEW a, WroteSeller(s, a), NEW u \in User
    PROVE  \/ s = "upsertIdentity" /\ u = a.user /\ identity'[u] = "PENDING"
           \/ s = "setIdentity" /\ u = a.user /\ identity'[u] = a.status
           \/ identity'[u] = identity[u] /\ ~(s \in {"upsertIdentity", "setIdentity"} /\ u = a.user)
BY DEF AccTypeOK, WroteSeller

\* What a profile has been stays on record, and so do its documents.
LEMMA HistoryStays ==
    ASSUME Base, NEW s, NEW a \in Args, NEW arg, WroteUser(s, a, arg), WroteSeller(s, a), WroteLogs(s, a),
           NEW u \in User
    PROVE  /\ past'[u] = past[u] \/ \E status : past'[u] = Append(past[u], status)
           /\ Len(past[u]) \in Nat /\ Len(past'[u]) \in {Len(past[u]), Len(past[u]) + 1}
           /\ \A k \in 1 .. Len(past[u]) : past'[u][k] = past[u][k]
           /\ identity[u] # "NONE" => identity'[u] # "NONE"
<1>1. AccTypeOK /\ past[u] \in Seq(VerificationStatus)
  BY DEF Base, AccTypeOK
<1>2. past'[u] = past[u] \/ \E status : past'[u] = Append(past[u], status)
  BY <1>1, PastAfter
<1>3. identity[u] # "NONE" => identity'[u] # "NONE"
  <2>1. a.status \in VerificationStatus /\ "NONE" \notin VerificationStatus
    BY DEF Args, VerificationStatus
  <2> QED
    BY <1>1, <2>1, IdentityAfter
<1>4. ASSUME NEW status, past'[u] = Append(past[u], status)
      PROVE  /\ Len(past'[u]) = Len(past[u]) + 1
             /\ \A k \in 1 .. Len(past[u]) : past'[u][k] = past[u][k]
  BY <1>1, <1>4
<1>5. CASE past'[u] = past[u]
  BY <1>1, <1>3, <1>5
<1>6. ASSUME NEW status, past'[u] = Append(past[u], status)
      PROVE  /\ Len(past[u]) \in Nat /\ Len(past'[u]) = Len(past[u]) + 1
             /\ \A k \in 1 .. Len(past[u]) : past'[u][k] = past[u][k]
  BY <1>1, <1>4, <1>6
<1> QED
  BY <1>2, <1>3, <1>5, <1>6

Rejected(u, n) == \E k \in 1 .. n : past[u][k] = "REJECTED"

\* However requests interleave and fail: the last of those statuses is the
\* profile's; each reopening is founded, and so is each that is still to come.
PastReaches == \A u \in User : past[u] # <<>> /\ past[u][Len(past[u])] = profile[u].status
PastFounded ==
    \A u \in User : \A i \in 2 .. Len(past[u]) : past[u][i] = "PENDING" =>
        identity[u] # "NONE" /\ Rejected(u, i - 1) /\ (smooth => past[u][i - 1] = "REJECTED")
ComingFounded ==
    \A r \in Slot : "reopen" \in Left(r) =>
        LET u == req[r].arg.user IN
        /\ u \in User /\ Rejected(u, Len(past[u]))
        /\ "upsertIdentity" \in Left(r) \/ identity[u] # "NONE"
Founded == PastReaches /\ PastFounded /\ ComingFounded

LEMMA FoundedInit == SVInit => Founded
<1> SUFFICES ASSUME SVInit PROVE Founded
  OBVIOUS
<1>1. past = [u \in User |-> <<profile[u].status>>]
  BY DEF SVInit
<1>2. PastReaches /\ PastFounded
  BY <1>1 DEF PastReaches, PastFounded
<1>3. ComingFounded
  BY NothingInFlight DEF ComingFounded
<1> QED
  BY <1>2, <1>3 DEF Founded

LEMMA ReopenUser ==
    ASSUME NEW r \in Slot, Subject(r), "reopen" \in Left(r)
    PROVE  req[r].arg.user \in User
BY DEF Subject, SubjectOf, Inserts

LEMMA FoundedAside ==
    ASSUME Base, Base', Founded, Step, NoneRuns
    PROVE  Founded'
<1>1. UNCHANGED <<past, profile, identity>> /\ (smooth' => smooth)
  BY StaysSmooth DEF NoneRuns, Step, SignedOut, Started, Stopped, allVars, tables, accVars, svVars
<1>2. PastReaches' /\ PastFounded'
  BY <1>1 DEF Founded, PastReaches, PastFounded, Rejected
<1>3. ASSUME NEW q \in Slot, req'[q] = req[q], Left(q)' = Left(q), "reopen" \in Left(q)'
      PROVE  LET u == req'[q].arg.user IN
             /\ u \in User /\ Rejected(u, Len(past[u]))
             /\ "upsertIdentity" \in Left(q)' \/ identity[u] # "NONE"
  BY <1>3 DEF Founded, ComingFounded
<1>4. ASSUME NEW q \in Slot, Started(q), "reopen" \in Left(q)'
      PROVE  LET u == req'[q].arg.user IN
             /\ u \in User /\ Rejected(u, Len(past[u]))
             /\ "upsertIdentity" \in Left(q)' \/ identity[u] # "NONE"
  <2> DEFINE u == req'[q].arg.user
  <2>1. u \in User
    BY <1>4, ReopenUser DEF Started, Subject, SubjectOf, Inserts
  <2>2. profile'[u].status = "REJECTED"
    BY <1>4 DEF Started, Alone, AloneOf
  <2>3. "upsertIdentity" \in Left(q)' \/ identity'[u] = "PENDING"
    BY <1>4 DEF Started, Documents, DocumentsOf
  <2> HIDE DEF u
  <2>4. past[u] # <<>> /\ past[u][Len(past[u])] = "REJECTED" /\ past[u] \in Seq(VerificationStatus)
    BY <1>1, <2>1, <2>2 DEF Founded, PastReaches, Base, AccTypeOK
  <2>5. Len(past[u]) \in 1 .. Len(past[u])
    BY <2>4
  <2>6. Rejected(u, Len(past[u]))
    BY <2>4, <2>5 DEF Rejected
  <2> QED
    BY <1>1, <2>1, <2>3, <2>6 DEF u
<1>5. ASSUME NEW q \in Slot, "reopen" \in Left(q)'
      PROVE  (req'[q] = req[q] /\ Left(q)' = Left(q)) \/ Started(q)
  <2>1. CASE UNCHANGED req
    BY <2>1 DEF Left
  <2>2. ASSUME NEW r \in Slot, Started(r) \/ Stopped(r)
        PROVE  (req'[q] = req[q] /\ Left(q)' = Left(q)) \/ Started(q)
    BY <1>5, <2>2 DEF Started, Stopped, Others
  <2> QED
    BY <2>1, <2>2 DEF NoneRuns, Step, SignedOut, allVars, reqVars
<1>6. ComingFounded'
  <2> SUFFICES ASSUME NEW q \in Slot, "reopen" \in Left(q)'
               PROVE  LET u == req'[q].arg.user IN
                      /\ u \in User /\ Rejected(u, Len(past[u]))
                      /\ "upsertIdentity" \in Left(q)' \/ identity[u] # "NONE"
    BY <1>1 DEF ComingFounded, Rejected
  <2> QED
    BY <1>3, <1>4, <1>5
<1> QED
  BY <1>2, <1>6 DEF Founded

LEMMA FoundedRuns ==
    ASSUME Base, Founded, smooth => \A q \in Slot : Alone(q), NEW r \in Slot, NEW s \in Statement,
           NEW arg \in Args, Ran(r, s, arg), Wrote(s, req[r].arg, arg)
    PROVE  Founded'
<1>1. PICK left, a : left = Left(r) /\ a = req[r].arg
  OBVIOUS
<1>2. /\ a \in Args /\ AccTypeOK /\ WroteUser(s, a, arg) /\ WroteSeller(s, a) /\ WroteLogs(s, a)
      /\ s \in left /\ left \subseteq {s} \cup Later[s] /\ SubjectOf(left, a) /\ (smooth => AloneOf(left, a))
      /\ Left(r)' = left \ {s} /\ (Left(r)' # {} => req'[r].arg = arg) /\ smooth' = smooth
      /\ \A q \in Slot \ {r} : req'[q] = req[q] /\ Left(q)' = Left(q)
  BY <1>1 DEF Wrote, Ran, Others, Base, Subject, Alone
<1>3. ASSUME NEW u \in User
      PROVE  /\ past[u] \in Seq(VerificationStatus) /\ past[u] # <<>>
             /\ past[u][Len(past[u])] = profile[u].status
             /\ Len(past[u]) \in Nat /\ Len(past'[u]) \in {Len(past[u]), Len(past[u]) + 1}
             /\ \A k \in 1 .. Len(past[u]) : past'[u][k] = past[u][k]
             /\ identity[u] # "NONE" => identity'[u] # "NONE"
  <2>1. past[u] \in Seq(VerificationStatus) /\ past[u] # <<>> /\ past[u][Len(past[u])] = profile[u].status
    BY <1>2 DEF AccTypeOK, Founded, PastReaches
  <2> QED
    BY <1>2, <2>1, HistoryStays
<1>4. ASSUME NEW u \in User, NEW n \in 0 .. Len(past[u]), Rejected(u, n)
      PROVE  \E k \in 1 .. n : past'[u][k] = "REJECTED"
  BY <1>3, <1>4 DEF Rejected
<1>5. PastReaches'
  <2> SUFFICES ASSUME NEW u \in User
               PROVE  past'[u] # <<>> /\ past'[u][Len(past'[u])] = profile'[u].status
    BY DEF PastReaches
  <2>1. ASSUME NEW status, past'[u] = Append(past[u], status), profile'[u].status = status
        PROVE  past'[u] # <<>> /\ past'[u][Len(past'[u])] = profile'[u].status
    BY <1>3, <2>1
  <2>2. CASE past'[u] = past[u] /\ profile'[u].status = profile[u].status
    BY <1>3, <2>2
  <2> QED
    BY <1>2, <2>1, <2>2, PastAfter
<1>6. PastFounded'
  <2> SUFFICES ASSUME NEW u \in User, NEW i \in 2 .. Len(past'[u]), past'[u][i] = "PENDING"
               PROVE  /\ identity'[u] # "NONE"
                      /\ \E k \in 1 .. i - 1 : past'[u][k] = "REJECTED"
                      /\ smooth => past'[u][i - 1] = "REJECTED"
    BY <1>2 DEF PastFounded, Rejected
  <2>1. CASE i <= Len(past[u])
    <3>1. i \in 2 .. Len(past[u]) /\ past[u][i] = "PENDING" /\ i - 1 \in 1 .. Len(past[u])
      BY <1>3, <2>1
    <3>2. identity[u] # "NONE" /\ Rejected(u, i - 1) /\ (smooth => past[u][i - 1] = "REJECTED")
      BY <3>1 DEF Founded, PastFounded
    <3> QED
      BY <1>3, <1>4, <3>1, <3>2
  <2>2. CASE ~(i <= Len(past[u]))
    <3>1. i = Len(past[u]) + 1 /\ Len(past'[u]) = i
      BY <1>3, <2>2
    <3>2. past'[u] # past[u]
      BY <1>3, <3>1
    <3>3. s \in {"setStatus", "reopen"} /\ u = a.user
          /\ past'[u] = Append(past[u], IF s = "reopen" THEN "PENDING" ELSE a.status)
      BY <1>2, <3>2, PastAfter
    <3>4. s = "setStatus" => a.status = "PENDING"
      BY <1>3, <3>1, <3>3
    <3>5. s = "reopen"
      BY <1>2, <3>3, <3>4 DEF SubjectOf
    <3>6. Rejected(u, Len(past[u])) /\ identity[u] # "NONE"
      <4>1. "reopen" \in Left(r) /\ "upsertIdentity" \notin Left(r)
        BY <1>1, <1>2, <3>5 DEF Later, Successors
      <4> QED
        BY <1>1, <3>3, <4>1 DEF Founded, ComingFounded
    <3>7. smooth => past[u][Len(past[u])] = "REJECTED"
      BY <1>2, <1>3, <3>3, <3>5 DEF AloneOf
    <3>8. Len(past[u]) \in 1 .. Len(past[u]) /\ i - 1 = Len(past[u])
      BY <1>3, <3>1
    <3> QED
      BY <1>3, <1>4, <3>6, <3>7, <3>8
  <2> QED
    BY <2>1, <2>2
<1>7. ComingFounded'
  <2> SUFFICES ASSUME NEW q \in Slot, "reopen" \in Left(q)'
               PROVE  LET u == req'[q].arg.user IN
                      /\ u \in User /\ \E k \in 1 .. Len(past'[u]) : past'[u][k] = "REJECTED"
                      /\ "upsertIdentity" \in Left(q)' \/ identity'[u] # "NONE"
    BY DEF ComingFounded, Rejected
  <2>1. PICK u : u = req[q].arg.user
    OBVIOUS
  <2>2. "reopen" \in Left(q) /\ req'[q].arg.user = u
    <3>1. CASE q # r
      BY <1>2, <2>1, <3>1
    <3>2. CASE q = r
      <4>1. "reopen" \in left /\ "reopen" \in Later[s]
        BY <1>2, <3>2
      <4>2. s \notin Draws \cup {"insert"}
        BY <4>1 DEF Later, Successors, Draws
      <4> QED
        BY <1>1, <1>2, <2>1, <3>2, <4>1, <4>2 DEF Wrote
    <3> QED
      BY <3>1, <3>2
  <2>3. /\ u \in User /\ Rejected(u, Len(past[u]))
        /\ "upsertIdentity" \in Left(q) \/ identity[u] # "NONE"
    BY <2>1, <2>2 DEF Founded, ComingFounded
  <2>4. \E k \in 1 .. Len(past'[u]) : past'[u][k] = "REJECTED"
    <3>1. PICK k \in 1 .. Len(past[u]) : past'[u][k] = "REJECTED"
      BY <1>3, <1>4, <2>3
    <3>2. k \in 1 .. Len(past'[u])
      BY <1>3, <2>3, <3>1
    <3> QED
      BY <3>1, <3>2
  <2>5. "upsertIdentity" \in Left(q)' \/ identity'[u] # "NONE"
    <3>1. CASE identity[u] # "NONE"
      BY <1>3, <2>3, <3>1
    <3>2. CASE "upsertIdentity" \in Left(q) /\ "upsertIdentity" \notin Left(q)'
      <4>1. q = r /\ s = "upsertIdentity" /\ u = a.user
        BY <1>1, <1>2, <2>1, <3>2
      <4>2. identity'[u] = "PENDING"
        BY <1>2, <2>3, <4>1, IdentityAfter
      <4> QED
        BY <4>2
    <3> QED
      BY <2>3, <3>1, <3>2
  <2> QED
    BY <2>2, <2>3, <2>4, <2>5
<1> QED
  BY <1>5, <1>6, <1>7 DEF Founded

\* While requests neither overlap nor fail, documents and profile agree, unless
\* the request in flight has written one and is still to write the other.
DocumentsAgree(u) ==
    \/ identity[u] \in {"NONE", profile[u].status}
    \/ identity[u] = "PENDING" /\ profile[u].status # "REJECTED"
DocumentsPending(u) ==
    \E q \in Slot :
        /\ req[q].arg.user = u
        /\ \/ "setIdentity" \in Left(q) /\ "setStatus" \notin Left(q)
           \/ "reopen" \in Left(q) /\ "upsertIdentity" \notin Left(q)
Orderly ==
    smooth => /\ \A r \in Slot : Documents(r)
              /\ \A u \in User : DocumentsAgree(u) \/ DocumentsPending(u)

LEMMA OrderlyInit == SVInit => Orderly
<1> SUFFICES ASSUME SVInit PROVE Orderly
  OBVIOUS
<1>1. \A u \in User : identity[u] = "NONE"
  BY DEF SVInit
<1> QED
  BY <1>1, NothingInFlight DEF Orderly, Documents, DocumentsOf, DocumentsAgree

LEMMA OrderlyAside ==
    ASSUME Base, Orderly, Step, NoneRuns, smooth'
    PROVE  Orderly'
<1>1. /\ \A q \in Slot : Documents(q)
      /\ \A u \in User : DocumentsAgree(u) \/ DocumentsPending(u)
  BY StaysSmooth DEF Orderly
<1>2. UNCHANGED <<profile, identity>>
  BY DEF NoneRuns, Step, SignedOut, Started, Stopped, allVars, tables, accVars, svVars
<1>3. \A u \in User : DocumentsAgree(u)' <=> DocumentsAgree(u)
  BY <1>2 DEF DocumentsAgree
<1> DEFINE Goal == /\ \A q \in Slot : Documents(q)'
                   /\ \A u \in User : DocumentsPending(u) => DocumentsPending(u)'
<1>4. ASSUME NEW q \in Slot, req'[q] = req[q], Left(q)' = Left(q) PROVE Documents(q)'
  BY <1>1, <1>2, <1>4 DEF Documents, DocumentsOf
<1>5. ASSUME NEW q \in Slot, Left(q)' = {} PROVE Documents(q)'
  BY <1>5 DEF Documents, DocumentsOf
<1>6. ASSUME UNCHANGED req PROVE Goal
  <2>1. \A q \in Slot : req'[q] = req[q] /\ Left(q)' = Left(q)
    BY <1>6 DEF Left
  <2> QED
    BY <1>4, <2>1 DEF DocumentsPending
<1>7. ASSUME NEW r \in Slot, Started(r) PROVE Goal
  <2>1. \A q \in Slot \ {r} : req'[q] = req[q] /\ Left(q)' = Left(q)
    BY <1>7 DEF Started, Others
  <2>2. \A q \in Slot : Left(q) = {}
    BY <1>7, AtRest DEF Started
  <2>3. Documents(r)'
    BY <1>7 DEF Started
  <2> QED
    BY <1>4, <2>1, <2>2, <2>3 DEF DocumentsPending
<1>8. ASSUME NEW r \in Slot, Stopped(r) PROVE Goal
  <2>1. \A q \in Slot \ {r} : req'[q] = req[q] /\ Left(q)' = Left(q)
    BY <1>8 DEF Stopped, Others
  <2>2. Left(r)' = {} /\ {"setIdentity", "reopen"} \cap Left(r) = {}
    BY <1>8 DEF Stopped, Refusable, Inserts, Draws, CodeStores
  <2> QED
    BY <1>4, <1>5, <2>1, <2>2 DEF DocumentsPending
<1>9. Goal
  BY <1>6, <1>7, <1>8 DEF NoneRuns, Step, SignedOut, allVars, reqVars
<1> QED
  BY <1>1, <1>3, <1>9 DEF Orderly

LEMMA OrderlyRuns ==
    ASSUME Base, AloneInv, Orderly, smooth, NEW r \in Slot, NEW s \in Statement,
           NEW arg \in Args, Ran(r, s, arg), Wrote(s, req[r].arg, arg)
    PROVE  Orderly'
<1>1. PICK left, a : left = Left(r) /\ a = req[r].arg
  OBVIOUS
<1>2. /\ a \in Args /\ AccTypeOK /\ WroteUser(s, a, arg) /\ WroteSeller(s, a) /\ WroteLogs(s, a)
      /\ s \in left /\ left \subseteq {s} \cup Later[s]
      /\ SubjectOf(left, a) /\ AloneOf(left, a) /\ DocumentsOf(left, a)
      /\ Left(r)' = left \ {s} /\ (Left(r)' # {} => req'[r].arg = arg)
      /\ s \notin Draws \cup {"insert"} => arg = a
      /\ \A q \in Slot \ {r} : req'[q] = req[q] /\ Left(q)' = Left(q)
  BY <1>1 DEF Wrote, Ran, Others, Base, Subject, AloneInv, Alone, Orderly, Documents
<1>3. \A q \in Slot \ {r} : Left(q) = {} /\ Left(q)' = {}
  BY <1>1, <1>2 DEF AloneInv, OneInFlight
<1>5. /\ "setStatus" \notin Later[s] /\ "upsertIdentity" \notin Later[s]
      /\ "setIdentity" \in Later[s] => s = "setStatus"
      /\ "reopen" \in Later[s] => s = "upsertIdentity"
  BY DEF Later, Successors
<1>6. s \in {"setStatus", "reopen", "upsertIdentity", "setIdentity"} => arg = a /\ a.user \in User
  <2>1. s \in {"setStatus", "reopen", "upsertIdentity", "setIdentity"} => s \notin Draws \cup Inserts
    BY DEF Draws, Inserts
  <2> QED
    BY <1>1, <1>2, <2>1, RanAccount DEF Inserts
<1>7. ASSUME NEW u \in User
      PROVE  /\ \/ s = "setStatus" /\ u = a.user /\ profile'[u].status = a.status
                \/ s = "reopen" /\ u = a.user /\ profile'[u].status = "PENDING"
                \/ /\ ~(s \in {"setStatus", "reopen"} /\ u = a.user)
                   /\ profile'[u].status = profile[u].status
             /\ \/ s = "upsertIdentity" /\ u = a.user /\ identity'[u] = "PENDING"
                \/ s = "setIdentity" /\ u = a.user /\ identity'[u] = a.status
                \/ /\ ~(s \in {"upsertIdentity", "setIdentity"} /\ u = a.user)
                   /\ identity'[u] = identity[u]
  BY <1>2, PastAfter, IdentityAfter
<1>8. \A q \in Slot : Documents(q)'
  <2>1. ASSUME NEW q \in Slot \ {r} PROVE Documents(q)'
    BY <1>3 DEF Documents, DocumentsOf
  <2>2. Documents(r)'
    <3>1. "setStatus" \notin Left(r)' /\ "upsertIdentity" \notin Left(r)'
      BY <1>2, <1>5
    <3>2. "setIdentity" \in Left(r)' => "logStatus" \in Left(r)'
      BY <1>2, <1>5 DEF DocumentsOf
    <3>3. "reopen" \in Left(r)' => identity'[req'[r].arg.user] = "PENDING"
      BY <1>2, <1>5, <1>6, <1>7
    <3> QED
      BY <3>1, <3>2, <3>3 DEF Documents, DocumentsOf
  <2> QED
    BY <2>1, <2>2
<1>9. ASSUME NEW u \in User PROVE DocumentsAgree(u)' \/ DocumentsPending(u)'
  <2>1. DocumentsAgree(u) \/ DocumentsPending(u)
    BY DEF Orderly
  <2>2. DocumentsPending(u) => /\ u = a.user
                               /\ \/ "setIdentity" \in left /\ "setStatus" \notin left
                                  \/ "reopen" \in left /\ "upsertIdentity" \notin left
    BY <1>1, <1>3 DEF DocumentsPending
  <2>3. CASE s = "setStatus" /\ u = a.user
    <3>1. CASE "setIdentity" \in left
      <4>1. "setIdentity" \in Left(r)' /\ "setStatus" \notin Left(r)' /\ req'[r].arg.user = u
        BY <1>2, <1>6, <2>3, <3>1
      <4> QED
        BY <4>1 DEF DocumentsPending
    <3>2. CASE "setIdentity" \notin left
      BY <1>2, <1>7, <2>3, <3>2 DEF DocumentsOf, DocumentsAgree
    <3> QED
      BY <3>1, <3>2
  <2>4. CASE s = "setIdentity" /\ u = a.user
    <3>1. "logStatus" \in left /\ "setStatus" \notin left
      BY <1>2, <1>5, <2>4 DEF DocumentsOf
    <3>2. identity'[u] = a.status /\ profile'[u].status = a.status
      BY <1>2, <1>7, <2>4, <3>1 DEF AloneOf
    <3> QED
      BY <3>2 DEF DocumentsAgree
  <2>5. CASE s = "upsertIdentity" /\ u = a.user
    <3>1. CASE "reopen" \in left
      <4>1. "reopen" \in Left(r)' /\ "upsertIdentity" \notin Left(r)' /\ req'[r].arg.user = u
        BY <1>2, <1>6, <2>5, <3>1
      <4> QED
        BY <4>1 DEF DocumentsPending
    <3>2. CASE "reopen" \notin left
      BY <1>2, <1>7, <2>5, <3>2 DEF DocumentsOf, DocumentsAgree
    <3> QED
      BY <3>1, <3>2
  <2>6. CASE s = "reopen" /\ u = a.user
    <3>1. "upsertIdentity" \notin left
      BY <1>2, <1>5, <2>6
    <3> QED
      BY <1>2, <1>7, <2>6, <3>1 DEF DocumentsOf, DocumentsAgree
  <2>7. CASE ~(s \in {"setStatus", "setIdentity", "upsertIdentity", "reopen"} /\ u = a.user)
    <3>1. profile'[u].status = profile[u].status /\ identity'[u] = identity[u]
      BY <1>7, <2>7
    <3>2. ~DocumentsPending(u)
      <4>1. "setIdentity" \in left => s \in {"setStatus", "setIdentity"}
        BY <1>2, <1>5
      <4>2. "reopen" \in left => s \in {"upsertIdentity", "reopen"}
        BY <1>2, <1>5
      <4> QED
        BY <2>2, <2>7, <4>1, <4>2
    <3> QED
      BY <2>1, <3>1, <3>2 DEF DocumentsAgree
  <2> QED
    BY <2>3, <2>4, <2>5, <2>6, <2>7
<1> QED
  BY <1>8, <1>9 DEF Orderly

\* A profile is reopened only after a rejection and with documents on record,
\* however requests interleave and fail; while they do neither, the rejection is
\* the last decision, and documents never await review under a rejected profile.
THEOREM ReopeningsFounded == SVSpec => []ReopeningsAreFounded
<1>1. ASSUME AccountsInv, Founded, Orderly, [SVNext]_allVars PROVE Founded' /\ Orderly'
  <2>1. Base /\ Base' /\ AloneInv /\ Step
    BY <1>1, Steps, BaseKept DEF AccountsInv
  <2>2. smooth => \A q \in Slot : Alone(q)
    BY <2>1 DEF AloneInv
  <2>3. CASE NoneRuns
    <3>1. Founded'
      BY <1>1, <2>1, <2>3, FoundedAside
    <3>2. smooth' => Orderly'
      BY <1>1, <2>1, <2>3, OrderlyAside
    <3> QED
      BY <3>1, <3>2 DEF Orderly
  <2>4. ASSUME NEW r \in Slot, NEW s \in Statement, NEW arg \in Args, Ran(r, s, arg),
               Wrote(s, req[r].arg, arg)
        PROVE  Founded' /\ Orderly'
    <3>1. Founded'
      BY <1>1, <2>1, <2>2, <2>4, FoundedRuns
    <3>2. smooth => Orderly'
      BY <1>1, <2>1, <2>4, OrderlyRuns
    <3>3. smooth' = smooth
      BY <2>4 DEF Ran
    <3> QED
      BY <3>1, <3>2, <3>3 DEF Orderly
  <2> QED
    BY <2>3, <2>4 DEF NoneRuns
<1>2. AccountsInv /\ Founded /\ Orderly /\ [SVNext]_allVars => Founded' /\ Orderly'
  BY <1>1
<1>3. SVSpec => [](Founded /\ Orderly)
  BY <1>2, FoundedInit, OrderlyInit, AccountsInvCorrect, PTL DEF SVSpec
<1>4. ASSUME AccountsInv, Founded, Orderly PROVE ReopeningsAreFounded
  <2>1. ASSUME smooth, AllRest, NEW u \in User PROVE DocumentsAgree(u)
    <3>1. \A q \in Slot : Left(q) = {}
      BY <1>4, <2>1, AtRest DEF AccountsInv
    <3> QED
      BY <1>4, <2>1, <3>1 DEF Orderly, DocumentsPending
  <2>2. PastFounded
    BY <1>4 DEF Founded
  <2> QED
    BY <2>1, <2>2 DEF ReopeningsAreFounded, PastFounded, Rejected, DocumentsAgree
<1>5. AccountsInv /\ Founded /\ Orderly => ReopeningsAreFounded
  BY <1>4
<1> QED
  BY <1>3, <1>5, AccountsInvCorrect, PTL
---------------------------------------------------------------------------
(* A seller is told only of what was audited, whatever fails.              *)

LEMMA TimesAppended ==
    ASSUME NEW S, NEW seq \in Seq(S), NEW e \in S, NEW x
    PROVE  /\ Times(x, seq) \in Nat
           /\ Times(x, Append(seq, e)) = Times(x, seq) + (IF e = x THEN 1 ELSE 0)
<1> DEFINE now == {i \in DOMAIN seq : seq[i] = x}
           next == {i \in DOMAIN Append(seq, e) : Append(seq, e)[i] = x}
           n == Len(seq) + 1
<1>1. n \in Nat /\ DOMAIN seq = 1 .. Len(seq) /\ n \notin now
  OBVIOUS
<1>2. next = IF e = x THEN now \cup {n} ELSE now
  <2>1. DOMAIN Append(seq, e) = 1 .. n /\ Append(seq, e)[n] = e
        /\ \A i \in 1 .. Len(seq) : Append(seq, e)[i] = seq[i]
    OBVIOUS
  <2> QED
    BY <1>1, <2>1
<1>3. IsFiniteSet(now)
  <2>1. IsFiniteSet(1 .. Len(seq))
    BY FS_Interval
  <2> QED
    BY <1>1, <2>1, FS_Subset
<1>4. Cardinality(now) \in Nat /\ Cardinality(now \cup {n}) = Cardinality(now) + 1
  BY <1>1, <1>3, FS_CardinalityType, FS_AddElement
<1>5. Times(x, seq) = Cardinality(now) /\ Times(x, Append(seq, e)) = Cardinality(next)
  BY DEF Times
<1> HIDE DEF now, next, n
<1> QED
  BY <1>2, <1>4, <1>5

\* How many entries of a log end in status.
Ending(log, status) == Cardinality({i \in DOMAIN log : log[i].to = status})

LEMMA EndingAppended ==
    ASSUME NEW log \in Seq(Transition), NEW e \in Transition, NEW status
    PROVE  /\ Ending(log, status) \in Nat
           /\ Ending(Append(log, e), status) = Ending(log, status) + (IF e.to = status THEN 1 ELSE 0)
<1> DEFINE now == {i \in DOMAIN log : log[i].to = status}
           next == {i \in DOMAIN Append(log, e) : Append(log, e)[i].to = status}
           n == Len(log) + 1
<1>1. n \in Nat /\ DOMAIN log = 1 .. Len(log) /\ n \notin now
  OBVIOUS
<1>2. next = IF e.to = status THEN now \cup {n} ELSE now
  <2>1. DOMAIN Append(log, e) = 1 .. n /\ Append(log, e)[n] = e
        /\ \A i \in 1 .. Len(log) : Append(log, e)[i] = log[i]
    OBVIOUS
  <2> QED
    BY <1>1, <2>1
<1>3. IsFiniteSet(now)
  <2>1. IsFiniteSet(1 .. Len(log))
    BY FS_Interval
  <2> QED
    BY <1>1, <2>1, FS_Subset
<1>4. Cardinality(now) \in Nat /\ Cardinality(now \cup {n}) = Cardinality(now) + 1
  BY <1>1, <1>3, FS_CardinalityType, FS_AddElement
<1>5. Ending(log, status) = Cardinality(now) /\ Ending(Append(log, e), status) = Cardinality(next)
  BY DEF Ending
<1> HIDE DEF now, next, n
<1> QED
  BY <1>2, <1>4, <1>5

\* The requests that have audited the decision for status, and are still to tell u.
ToTell(u, status) ==
    {r \in Slot : /\ "notify" \in Left(r) /\ "logStatus" \notin Left(r)
                  /\ req[r].arg.user = u /\ req[r].arg.status = status}

Audited ==
    \A u \in User, status \in VerificationStatus :
        Times(status, told[u]) + Cardinality(ToTell(u, status)) <= Ending(sellerLog[u], status)

LEMMA ToTellFinite ==
    ASSUME NEW u, NEW status
    PROVE  /\ IsFiniteSet(ToTell(u, status)) /\ Cardinality(ToTell(u, status)) \in Nat
           /\ IsFiniteSet(ToTell(u, status)') /\ Cardinality(ToTell(u, status)') \in Nat
<1>1. IsFiniteSet(Slot) /\ ToTell(u, status) \subseteq Slot /\ ToTell(u, status)' \subseteq Slot
  BY RequestsAssumption DEF ToTell
<1> QED
  BY <1>1, FS_Subset, FS_CardinalityType

\* One request joins those that are to tell, or leaves them.
LEMMA TellersRun ==
    ASSUME NEW r \in Slot, NEW s \in Statement, NEW a, NEW arg, a = req[r].arg,
           Ran(r, s, arg), Wrote(s, a, arg), NEW u, NEW status
    PROVE  LET mine == a.user = u /\ a.status = status
               now == ToTell(u, status)
               next == ToTell(u, status)'
           IN  /\ ~(s = "logStatus" /\ mine) => next \subseteq now
               /\ s = "logStatus" /\ mine => next \subseteq now \cup {r}
               /\ s = "notify" /\ mine => r \in now /\ r \notin next
<1>1. \A q \in Slot \ {r} : req'[q] = req[q] /\ Left(q)' = Left(q)
  BY DEF Ran, Others
<1>2. /\ s \in Left(r) /\ Left(r) \subseteq {s} \cup Later[s]
      /\ Left(r)' = Left(r) \ {s} /\ (Left(r)' # {} => req'[r].arg = arg)
  BY DEF Ran
<1>3. "notify" \in Left(r)' => req'[r].arg = a
  <2>1. s \in Draws \cup {"insert"} => "notify" \notin Later[s]
    BY DEF Later, Successors, Draws, Inserts
  <2> QED
    BY <1>2, <2>1 DEF Wrote
<1>4. s = "notify" => "logStatus" \notin Left(r)
  BY <1>2 DEF Later, Successors
<1> QED
  BY <1>1, <1>2, <1>3, <1>4 DEF ToTell

LEMMA FewerTellers ==
    ASSUME NEW now, NEW next, IsFiniteSet(now)
    PROVE  /\ next \subseteq now => Cardinality(next) <= Cardinality(now)
           /\ \A r : next \subseteq now \cup {r} => Cardinality(next) <= Cardinality(now) + 1
           /\ \A r : next \subseteq now /\ r \in now /\ r \notin next =>
                        Cardinality(next) <= Cardinality(now) - 1
<1>1. next \subseteq now => Cardinality(next) <= Cardinality(now)
  BY FS_Subset, FS_CardinalityType
<1>2. ASSUME NEW r, next \subseteq now \cup {r} PROVE Cardinality(next) <= Cardinality(now) + 1
  <2>1. /\ IsFiniteSet(now \cup {r}) /\ Cardinality(now) \in Nat
        /\ Cardinality(now \cup {r}) \in {Cardinality(now), Cardinality(now) + 1}
    BY FS_AddElement, FS_CardinalityType
  <2>2. Cardinality(next) <= Cardinality(now \cup {r}) /\ Cardinality(next) \in Nat
    BY <1>2, <2>1, FS_Subset, FS_CardinalityType
  <2> QED
    BY <2>1, <2>2
<1>3. ASSUME NEW r, next \subseteq now, r \in now, r \notin next
      PROVE  Cardinality(next) <= Cardinality(now) - 1
  <2>1. /\ IsFiniteSet(now \ {r}) /\ Cardinality(now \ {r}) = Cardinality(now) - 1
        /\ next \subseteq now \ {r}
    BY <1>3, FS_RemoveElement
  <2> QED
    BY <2>1, FS_Subset, FS_CardinalityType
<1> QED
  BY <1>1, <1>2, <1>3

LEMMA AuditedKept ==
    ASSUME Base, Audited, Step
    PROVE  Audited'
<1> SUFFICES ASSUME NEW u \in User, NEW status \in VerificationStatus
             PROVE  Times(status, told'[u]) + Cardinality(ToTell(u, status)') <= Ending(sellerLog'[u], status)
  BY DEF Audited
<1>1. /\ told[u] \in Seq(VerificationStatus) /\ sellerLog[u] \in Seq(Transition) /\ AccTypeOK
      /\ Times(status, told[u]) + Cardinality(ToTell(u, status)) <= Ending(sellerLog[u], status)
  BY DEF Base, AccTypeOK, Audited
<1>2. Times(status, told[u]) \in Nat /\ Ending(sellerLog[u], status) \in Nat
  <2>1. [from |-> status, to |-> status] \in Transition
    BY DEF Transition
  <2> QED
    BY <1>1, <2>1, TimesAppended, EndingAppended
<1>3. PICK now, next : /\ now = ToTell(u, status) /\ next = ToTell(u, status)'
                       /\ IsFiniteSet(now) /\ Cardinality(now) \in Nat /\ Cardinality(next) \in Nat
  BY ToTellFinite
<1>4. CASE NoneRuns
  <2>1. UNCHANGED <<told, sellerLog>>
    BY <1>4 DEF NoneRuns, Step, SignedOut, Started, Stopped, allVars, tables, svVars
  <2>2. next \subseteq now
    <3>1. CASE UNCHANGED req
      BY <1>3, <3>1 DEF ToTell, Left
    <3>2. ASSUME NEW r \in Slot, Started(r) \/ Stopped(r) PROVE next \subseteq now
      <4>1. /\ \A q \in Slot \ {r} : req'[q] = req[q] /\ Left(q)' = Left(q)
            /\ "notify" \in Left(r)' => "logStatus" \in Left(r)'
        BY <3>2 DEF Started, Stopped, Others
      <4> QED
        BY <1>3, <4>1 DEF ToTell
    <3> QED
      BY <1>4, <3>1, <3>2 DEF NoneRuns, Step, SignedOut, allVars, reqVars
  <2>3. Cardinality(next) <= Cardinality(now)
    BY <1>3, <2>2, FewerTellers
  <2> QED
    BY <1>1, <1>2, <1>3, <2>1, <2>3
<1>5. ASSUME NEW r \in Slot, NEW s \in Statement, NEW arg \in Args, Ran(r, s, arg),
             Wrote(s, req[r].arg, arg)
      PROVE  Times(status, told'[u]) + Cardinality(ToTell(u, status)') <= Ending(sellerLog'[u], status)
  <2>1. PICK a \in Args : a = req[r].arg
    BY <1>5 DEF Wrote
  <2> DEFINE mine == a.user = u /\ a.status = status
  <2>2. /\ ~(s = "logStatus" /\ mine) => next \subseteq now
        /\ s = "logStatus" /\ mine => next \subseteq now \cup {r}
        /\ s = "notify" /\ mine => r \in now /\ r \notin next
    BY <1>3, <1>5, <2>1, TellersRun
  <2>3. \/ s = "notify" /\ u = a.user /\ told'[u] = Append(told[u], a.status)
        \/ told'[u] = told[u] /\ ~(s = "notify" /\ u = a.user)
    <3>1. WroteLogs(s, a)
      BY <1>5, <2>1 DEF Wrote
    <3> QED
      BY <1>1, <3>1, ToldAfter, Zenon
  <2>4. \/ /\ s = "logStatus" /\ u = a.user
           /\ sellerLog'[u] = Append(sellerLog[u], [from |-> a.previous, to |-> a.status])
        \/ sellerLog'[u] = sellerLog[u] /\ ~(s = "logStatus" /\ u = a.user)
    <3>1. WroteLogs(s, a)
      BY <1>5, <2>1 DEF Wrote
    <3> QED
      BY <1>1, <3>1, SellerLogAfter, Zenon
  <2>5. Times(status, told'[u]) = Times(status, told[u]) + (IF s = "notify" /\ mine THEN 1 ELSE 0)
    <3>1. a.status \in VerificationStatus
      BY DEF Args
    <3>2. CASE s = "notify" /\ u = a.user
      <4>1. told'[u] = Append(told[u], a.status)
        BY <2>3, <3>2
      <4>2. Times(status, told'[u]) = Times(status, told[u]) + (IF a.status = status THEN 1 ELSE 0)
        BY <1>1, <3>1, <4>1, TimesAppended
      <4> QED
        BY <3>2, <4>2
    <3>3. CASE ~(s = "notify" /\ u = a.user)
      BY <1>2, <2>3, <3>3
    <3> QED
      BY <3>2, <3>3
  <2>6. Ending(sellerLog'[u], status) = Ending(sellerLog[u], status) + (IF s = "logStatus" /\ mine THEN 1 ELSE 0)
    <3> DEFINE e == [from |-> a.previous, to |-> a.status]
    <3>1. e \in Transition /\ e.to = a.status
      BY DEF Args, Transition
    <3> HIDE DEF e
    <3>2. CASE s = "logStatus" /\ u = a.user
      <4>1. sellerLog'[u] = Append(sellerLog[u], e)
        BY <2>4, <3>2 DEF e
      <4> QED
        BY <1>1, <3>1, <3>2, <4>1, EndingAppended
    <3>3. CASE ~(s = "logStatus" /\ u = a.user)
      BY <1>2, <2>4, <3>3
    <3> QED
      BY <3>2, <3>3
  <2> HIDE DEF mine
  <2>7. CASE s = "logStatus" /\ mine
    <3>1. Cardinality(next) <= Cardinality(now) + 1
      BY <1>3, <2>2, <2>7, FewerTellers
    <3> QED
      BY <1>1, <1>2, <1>3, <2>5, <2>6, <2>7, <3>1
  <2>8. CASE s = "notify" /\ mine
    <3>1. Cardinality(next) <= Cardinality(now) - 1
      BY <1>3, <2>2, <2>8, FewerTellers
    <3> QED
      BY <1>1, <1>2, <1>3, <2>5, <2>6, <2>8, <3>1
  <2>9. CASE ~(s = "logStatus" /\ mine) /\ ~(s = "notify" /\ mine)
    <3>1. Cardinality(next) <= Cardinality(now)
      BY <1>3, <2>2, <2>9, FewerTellers
    <3> QED
      BY <1>1, <1>2, <1>3, <2>5, <2>6, <2>9, <3>1
  <2> QED
    BY <2>7, <2>8, <2>9
<1> QED
  BY <1>4, <1>5 DEF NoneRuns

LEMMA AuditedInit == SVInit => Audited
<1> SUFFICES ASSUME SVInit, NEW u \in User, NEW status \in VerificationStatus
             PROVE  Times(status, told[u]) + Cardinality(ToTell(u, status)) <= Ending(sellerLog[u], status)
  BY DEF Audited
<1>1. told[u] = <<>> /\ sellerLog[u] = <<>>
  BY DEF SVInit
<1>2. ToTell(u, status) = {}
  BY NothingInFlight DEF ToTell
<1>3. Times(status, <<>>) = 0 /\ Ending(<<>>, status) = 0 /\ Cardinality({}) = 0
  <2>1. {i \in DOMAIN <<>> : <<>>[i] = status} = {} /\ {i \in DOMAIN <<>> : <<>>[i].to = status} = {}
    OBVIOUS
  <2> QED
    BY <2>1, FS_EmptySet DEF Times, Ending
<1> QED
  BY <1>1, <1>2, <1>3

\* A seller is told of a decision only after it was audited, whatever fails; and
\* while requests neither overlap nor fail, its audit log is a chain that ends at
\* its status, and the last entry about an account says whether it is open.
THEOREM DecisionsAudited == SVSpec => []DecisionsAreAudited
<1>1. Audited /\ [SVNext]_allVars /\ AccountsInv => Audited'
  <2>1. ASSUME Audited, [SVNext]_allVars, AccountsInv PROVE Audited'
    BY <2>1, Steps, AuditedKept DEF AccountsInv
  <2> QED
    BY <2>1
<1>2. SVSpec => []Audited
  BY <1>1, AuditedInit, AccountsInvCorrect, PTL DEF SVSpec
<1>3. ASSUME AccountsInv, Audited, NEW u \in User
      PROVE  \A status \in VerificationStatus : Times(status, told[u]) <= LoggedAs(u, status)
  <2> SUFFICES ASSUME NEW status \in VerificationStatus PROVE Times(status, told[u]) <= LoggedAs(u, status)
    OBVIOUS
  <2>1. Times(status, told[u]) + Cardinality(ToTell(u, status)) <= Ending(sellerLog[u], status)
    BY <1>3 DEF Audited
  <2>2. LoggedAs(u, status) = Ending(sellerLog[u], status)
    BY DEF LoggedAs, Ending
  <2>3. Times(status, told[u]) \in Nat /\ Ending(sellerLog[u], status) \in Nat
    <3>1. told[u] \in Seq(VerificationStatus) /\ sellerLog[u] \in Seq(Transition)
      BY <1>3 DEF AccountsInv, Base, AccTypeOK
    <3>2. [from |-> status, to |-> status] \in Transition
      BY DEF Transition
    <3> QED
      BY <3>1, <3>2, TimesAppended, EndingAppended
  <2>4. Cardinality(ToTell(u, status)) \in Nat
    BY ToTellFinite
  <2> QED
    BY <2>1, <2>2, <2>3, <2>4
<1>4. ASSUME AccountsInv, smooth, AllRest, NEW u \in User
      PROVE  /\ \A i \in 1 .. Len(sellerLog[u]) - 1 : Continues(sellerLog[u][i + 1].from, sellerLog[u][i])
             /\ sellerLog[u] # <<>> => Continues(profile[u].status, Last(sellerLog[u]))
             /\ accountLog[u] # <<>> /\ Live(u) => user[u].active = (Last(accountLog[u]) = "USER_ACTIVATED")
  <2>1. \A q \in Slot : Left(q) = {}
    BY <1>4, AtRest DEF AccountsInv
  <2>2. LogIsChain /\ LogReachesStatus /\ LogTellsActive
    BY <1>4 DEF AccountsInv, AloneInv
  <2> QED
    BY <2>1, <2>2 DEF LogIsChain, LogReachesStatus, LogTellsActive, StatusPending, ActivePending
<1>5. AccountsInv /\ Audited => DecisionsAreAudited
  BY <1>3, <1>4 DEF DecisionsAreAudited, Continues
<1> QED
  BY <1>2, <1>5, AccountsInvCorrect, PTL

=============================================================================
