------------------------- MODULE PaypalClient_proofs -------------------------
(***************************************************************************)
(* The margin of the token cache is enough, for any lifetimes, any delay   *)
(* up to half the margin and any number of overlapping requests.           *)
(***************************************************************************)
EXTENDS PaypalClient, TLAPS

ToRenew == <<"issue", "cache", "call">>
ToCache == <<"cache", "call">>
ToCall == <<"call">>

PaypalArg == [good : Nat, lives : Nat, since : Nat]
PaypalRequest == {Idle} \cup [todo : {ToRenew, ToCache, ToCall}, arg : PaypalArg]

RequestsOK == req \in [Slot -> PaypalRequest]

\* A leg under way has not taken longer than it may.
LegsOK ==
    \A r \in Slot : ~Resting(r) =>
        req[r].arg.since <= clock /\ clock <= req[r].arg.since + MaxDelay

\* A token that is on its way was issued after its leg began.
IssuesOK ==
    \A r \in Slot : At(r, "cache") =>
        /\ req[r].arg.lives \in Lifetime
        /\ req[r].arg.since + req[r].arg.lives <= req[r].arg.good

\* A call has a token that outlives its leg.
CallsOK == \A r \in Slot : At(r, "call") => req[r].arg.since + MaxDelay <= req[r].arg.good

\* The client uses a token until the margin before its end, give or take the
\* delay of the answer that brought it.
CacheOK ==
    \/ cachedToken.expiresAt <= 0
    \/ cachedToken.expiresAt + Margin <= cachedToken.good + MaxDelay

PaypalInv ==
    /\ PaypalTypeOK
    /\ RequestsOK
    /\ LegsOK
    /\ IssuesOK
    /\ CallsOK
    /\ CacheOK

---------------------------------------------------------------------------
\* What the three plans of a request begin with and leave.
LEMMA Plans ==
    /\ ToRenew # <<>> /\ Head(ToRenew) = "issue" /\ Tail(ToRenew) = ToCache
    /\ ToCache # <<>> /\ Head(ToCache) = "cache" /\ Tail(ToCache) = ToCall
    /\ ToCall # <<>> /\ Head(ToCall) = "call" /\ Tail(ToCall) = <<>>
BY DEF ToRenew, ToCache, ToCall

\* A request that is under way has one of the three plans.
LEMMA Underway ==
    ASSUME RequestsOK, NEW r \in Slot, ~Resting(r)
    PROVE  /\ req[r] \in [todo : {ToRenew, ToCache, ToCall}, arg : PaypalArg]
           /\ At(r, "issue") => req[r].todo = ToRenew
           /\ At(r, "cache") => req[r].todo = ToCache
           /\ At(r, "call") => req[r].todo = ToCall
<1>1. req[r] \in [todo : {ToRenew, ToCache, ToCall}, arg : PaypalArg]
  BY DEF RequestsOK, PaypalRequest, Resting, Idle
<1> QED
  BY <1>1, Plans DEF At

\* A state that a request may go to while the clock stands still.
MayFollow(new) ==
    /\ new \in [todo : {ToRenew, ToCache, ToCall}, arg : PaypalArg]
    /\ new.arg.since <= clock
    /\ clock <= new.arg.since + MaxDelay
    /\ new.todo = ToCache => /\ new.arg.lives \in Lifetime
                             /\ new.arg.since + new.arg.lives <= new.arg.good
    /\ new.todo = ToCall => new.arg.since + MaxDelay <= new.arg.good

\* One request gets a new state and the others keep theirs: what is to be shown
\* of the new one is enough, if neither the clock nor the cache moves.
LEMMA OneMoves ==
    ASSUME PaypalInv, NEW r \in Slot,
           NEW new, MayFollow(new),
           req' = [req EXCEPT ![r] = new],
           clock' = clock,
           PaypalTypeOK', CacheOK'
    PROVE  PaypalInv'
<1>1. RequestsOK'
  BY DEF PaypalInv, RequestsOK, PaypalRequest, MayFollow
<1>2. /\ req'[r] = new
      /\ \A s \in Slot \ {r} : req'[s] = req[s]
  BY DEF PaypalInv, RequestsOK
<1>3. LegsOK'
  BY <1>2 DEF PaypalInv, MayFollow, LegsOK, Resting
<1>4. IssuesOK'
  BY <1>2, Plans DEF PaypalInv, MayFollow, IssuesOK, At, Resting
<1>5. CallsOK'
  BY <1>2, Plans DEF PaypalInv, MayFollow, CallsOK, At, Resting
<1> QED
  BY <1>1, <1>3, <1>4, <1>5 DEF PaypalInv

\* A request that ends takes nothing with it.
LEMMA OneEnds ==
    ASSUME PaypalInv, NEW r \in Slot,
           req' = [req EXCEPT ![r] = Idle],
           UNCHANGED ppVars
    PROVE  PaypalInv'
<1>1. /\ req'[r] = Idle
      /\ \A s \in Slot \ {r} : req'[s] = req[s]
      /\ RequestsOK'
  BY DEF PaypalInv, RequestsOK, PaypalRequest
<1>2. LegsOK' /\ IssuesOK' /\ CallsOK'
  BY <1>1 DEF PaypalInv, LegsOK, IssuesOK, CallsOK, At, Resting, Idle, ppVars
<1> QED
  BY <1>1, <1>2 DEF PaypalInv, PaypalTypeOK, CacheOK, ppVars

LEMMA PaypalStarts == ReqInit /\ PaypalInit => PaypalInv
<1> SUFFICES ASSUME ReqInit, PaypalInit PROVE PaypalInv
  OBVIOUS
<1>1. RequestsOK /\ \A r \in Slot : Resting(r)
  BY DEF ReqInit, RequestsOK, PaypalRequest, Resting, Idle
<1>2. PaypalTypeOK /\ CacheOK
  BY DEF PaypalInit, NoCachedToken, PaypalTypeOK, CachedToken, CacheOK
<1> QED
  BY <1>1, <1>2 DEF PaypalInv, LegsOK, IssuesOK, CallsOK, At

---------------------------------------------------------------------------
LEMMA CallKeeps ==
    ASSUME PaypalInv, NEW r \in Slot, CallPaypal(r), UNCHANGED ppVars
    PROVE  PaypalInv'
<1> USE PaypalClientAssumption
<1>1. /\ clock \in Nat /\ clock' = clock
      /\ cachedToken \in CachedToken /\ PaypalTypeOK' /\ CacheOK'
  BY DEF PaypalInv, PaypalTypeOK, CacheOK, ppVars
<1>2. CASE cachedToken.expiresAt > clock
  <2> DEFINE new == [todo |-> ToCall, arg |-> PaypalArgs(cachedToken.good)]
  <2>1. req' = [req EXCEPT ![r] = new]
    BY <1>2 DEF CallPaypal, Begin, ToCall
  <2>2. new \in [todo : {ToRenew, ToCache, ToCall}, arg : PaypalArg]
    BY <1>1 DEF PaypalArgs, PaypalArg, CachedToken
  <2>3. cachedToken.expiresAt + Margin <= cachedToken.good + MaxDelay
    BY <1>1, <1>2 DEF PaypalInv, CacheOK, CachedToken
  <2>4. clock + MaxDelay <= cachedToken.good
    BY <1>1, <1>2, <2>3 DEF CachedToken
  <2>5. new.arg.since = clock /\ new.arg.good = cachedToken.good /\ new.todo = ToCall
    BY DEF PaypalArgs
  <2>6. MayFollow(new)
    BY <1>1, <2>2, <2>4, <2>5, Plans DEF MayFollow
  <2> HIDE DEF new
  <2> QED
    BY <1>1, <2>1, <2>6, OneMoves
<1>3. CASE ~(cachedToken.expiresAt > clock)
  <2> DEFINE new == [todo |-> ToRenew, arg |-> PaypalArgs(0)]
  <2>1. req' = [req EXCEPT ![r] = new]
    BY <1>3 DEF CallPaypal, Begin, ToRenew
  <2>2. new \in [todo : {ToRenew, ToCache, ToCall}, arg : PaypalArg]
    BY <1>1 DEF PaypalArgs, PaypalArg
  <2>3. new.arg.since = clock /\ new.todo = ToRenew
    BY DEF PaypalArgs
  <2>4. MayFollow(new)
    BY <1>1, <2>2, <2>3, Plans DEF MayFollow
  <2> HIDE DEF new
  <2> QED
    BY <1>1, <2>1, <2>4, OneMoves
<1> QED
  BY <1>2, <1>3

\* The answer with a token, on top of what the request held.
Answer(old, good, lives) == [old EXCEPT !.good = good, !.lives = lives]

LEMMA Answered ==
    ASSUME NEW old \in PaypalArg, NEW good \in Nat, NEW lives \in Nat
    PROVE  LET new == Answer(old, good, lives)
           IN new \in PaypalArg /\ new.since = old.since /\ new.good = good /\ new.lives = lives
BY DEF PaypalArg, Answer

LEMMA IssueKeeps ==
    ASSUME PaypalInv, NEW r \in Slot, Issue(r)
    PROVE  PaypalInv'
<1> USE PaypalClientAssumption
<1>1. clock \in Nat /\ clock' = clock /\ PaypalTypeOK' /\ CacheOK'
  BY DEF PaypalInv, PaypalTypeOK, CacheOK, Issue, ppVars
<1>2. /\ ~Resting(r)
      /\ req[r].todo = ToRenew
      /\ req[r].arg \in PaypalArg
  BY Underway DEF PaypalInv, Issue, At
<1>3. req[r].arg.since <= clock /\ clock <= req[r].arg.since + MaxDelay
  BY <1>2 DEF PaypalInv, LegsOK
<1>4. PICK l \in Lifetime : AdvanceWith(r, Answer(req[r].arg, clock + l, l))
  BY DEF Issue, Answer
<1> DEFINE arg == Answer(req[r].arg, clock + l, l)
           new == [todo |-> ToCache, arg |-> arg]
<1>5. /\ arg \in PaypalArg
      /\ arg.since = req[r].arg.since /\ arg.good = clock + l /\ arg.lives = l
  <2> DEFINE good == clock + l
             old == req[r].arg
  <2>1. old \in PaypalArg /\ good \in Nat /\ l \in Nat
    BY <1>1, <1>2
  <2> HIDE DEF good, old
  <2>2. /\ Answer(old, good, l) \in PaypalArg
        /\ Answer(old, good, l).since = old.since
        /\ Answer(old, good, l).good = good
        /\ Answer(old, good, l).lives = l
    BY <2>1, Answered
  <2> QED
    BY <2>2 DEF good, old
<1>6. req' = [req EXCEPT ![r] = new]
  BY <1>2, <1>4, Plans DEF AdvanceWith, Proceed
<1>7. arg.since + arg.lives <= arg.good
  BY <1>1, <1>2, <1>3, <1>5 DEF PaypalArg
<1>8. /\ new \in [todo : {ToRenew, ToCache, ToCall}, arg : PaypalArg]
      /\ new.arg = arg /\ new.todo = ToCache
  BY <1>5
<1> HIDE DEF arg
<1>9. MayFollow(new)
  BY <1>3, <1>4, <1>5, <1>7, <1>8, Plans DEF MayFollow
<1> HIDE DEF new
<1> QED
  BY <1>1, <1>6, <1>9, OneMoves

LEMMA CacheKeeps ==
    ASSUME PaypalInv, NEW r \in Slot, CacheToken(r)
    PROVE  PaypalInv'
<1> USE PaypalClientAssumption
<1>1. /\ ~Resting(r)
      /\ req[r].todo = ToCache
      /\ req[r].arg \in PaypalArg
  BY Underway DEF PaypalInv, CacheToken, At
<1> DEFINE arg == req[r].arg
           new == [todo |-> ToCall, arg |-> PaypalArgs(arg.good)]
<1>2. /\ clock \in Nat /\ clock' = clock
      /\ arg.since \in Nat /\ arg.lives \in Nat /\ arg.good \in Nat
  BY <1>1 DEF PaypalInv, PaypalTypeOK, CacheToken, PaypalArg
<1>3. /\ arg.since <= clock /\ clock <= arg.since + MaxDelay
      /\ 2 * MaxDelay <= arg.lives
      /\ arg.since + arg.lives <= arg.good
  BY <1>1 DEF PaypalInv, LegsOK, IssuesOK, CacheToken
<1>4. cachedToken' = [good |-> arg.good, expiresAt |-> clock + arg.lives - Margin]
  BY DEF CacheToken, UsableUntil
<1>5. PaypalTypeOK' /\ CacheOK'
  BY <1>2, <1>3, <1>4 DEF PaypalTypeOK, CachedToken, CacheOK
<1>6. req' = [req EXCEPT ![r] = new]
  BY <1>1, Plans DEF CacheToken, AdvanceWith, Proceed
<1>7. /\ new \in [todo : {ToRenew, ToCache, ToCall}, arg : PaypalArg]
      /\ new.todo = ToCall /\ new.arg.since = clock /\ new.arg.good = arg.good
  BY <1>2 DEF PaypalArgs, PaypalArg
<1>8. clock + MaxDelay <= arg.good
  BY <1>2, <1>3
<1> HIDE DEF arg
<1>9. MayFollow(new)
  BY <1>2, <1>7, <1>8, Plans DEF MayFollow
<1> HIDE DEF new
<1> QED
  BY <1>2, <1>5, <1>6, <1>9, OneMoves

LEMMA ArriveKeeps ==
    ASSUME PaypalInv, NEW r \in Slot, Arrive(r)
    PROVE  PaypalInv'
<1>1. req[r].todo = ToCall
  BY Underway DEF PaypalInv, Arrive, At
<1>2. req' = [req EXCEPT ![r] = Idle]
  BY <1>1, Plans DEF Arrive, Advance, AdvanceWith, Proceed
<1> QED
  BY <1>2, OneEnds DEF Arrive

LEMMA TickKeeps ==
    ASSUME PaypalInv, Tick
    PROVE  PaypalInv'
<1>1. PaypalTypeOK' /\ CacheOK' /\ RequestsOK'
  BY DEF PaypalInv, PaypalTypeOK, CacheOK, RequestsOK, Tick, reqVars
<1>2. ASSUME NEW r \in Slot, ~Resting(r)
      PROVE  req[r].arg.since <= clock + 1 /\ clock + 1 <= req[r].arg.since + MaxDelay
  <2>1. req[r].arg.since \in Nat /\ clock \in Nat
    BY <1>2, Underway DEF PaypalInv, PaypalTypeOK, PaypalArg
  <2> QED
    BY <1>2, <2>1, PaypalClientAssumption DEF PaypalInv, LegsOK, Tick
<1>3. LegsOK'
  BY <1>2 DEF LegsOK, Resting, Tick, reqVars
<1>4. IssuesOK' /\ CallsOK'
  BY DEF PaypalInv, IssuesOK, CallsOK, At, Resting, Tick, reqVars
<1> QED
  BY <1>1, <1>3, <1>4 DEF PaypalInv

LEMMA RestartKeeps ==
    ASSUME PaypalInv, Restart
    PROVE  PaypalInv'
<1>1. RequestsOK' /\ \A r \in Slot : Resting(r)'
  BY DEF Restart, RequestsOK, PaypalRequest, Resting, Idle
<1>2. PaypalTypeOK' /\ CacheOK'
  BY DEF PaypalInv, PaypalTypeOK, CacheOK, Restart, NoCachedToken, CachedToken
<1> QED
  BY <1>1, <1>2 DEF PaypalInv, LegsOK, IssuesOK, CallsOK, At

\* Every step keeps the invariant.
LEMMA PaypalSteps == PaypalInv /\ [PaypalNext]_<<reqVars, ppVars>> => PaypalInv'
<1> SUFFICES ASSUME PaypalInv, [PaypalNext]_<<reqVars, ppVars>> PROVE PaypalInv'
  OBVIOUS
<1>1. ASSUME NEW r \in Slot, CallPaypal(r), UNCHANGED ppVars PROVE PaypalInv'
  BY <1>1, CallKeeps
<1>2. ASSUME NEW r \in Slot, Break(r), UNCHANGED ppVars PROVE PaypalInv'
  BY <1>2, OneEnds DEF Break
<1>3. ASSUME NEW r \in Slot, Issue(r) PROVE PaypalInv'
  BY <1>3, IssueKeeps
<1>4. ASSUME NEW r \in Slot, CacheToken(r) PROVE PaypalInv'
  BY <1>4, CacheKeeps
<1>5. ASSUME NEW r \in Slot, Arrive(r) PROVE PaypalInv'
  BY <1>5, ArriveKeeps
<1>6. CASE UNCHANGED <<reqVars, ppVars>>
  BY <1>6 DEF PaypalInv, PaypalTypeOK, RequestsOK, LegsOK, IssuesOK, CallsOK, CacheOK,
              At, Resting, reqVars, ppVars
<1> QED
  BY <1>1, <1>2, <1>3, <1>4, <1>5, <1>6, TickKeeps, RestartKeeps DEF PaypalNext

\* No call reaches PayPal with an expired token (PaypalClientService.getAccessToken),
\* however many requests share the cache, and whatever fails or restarts.
THEOREM TokensAreGood == PaypalSpec => []TokenIsGood
<1>1. PaypalInv => TokenIsGood
  <2> SUFFICES ASSUME PaypalInv, NEW r \in Slot, At(r, "call")
               PROVE  clock <= req[r].arg.good
    BY DEF TokenIsGood
  <2>1. /\ clock \in Nat
        /\ req[r].arg.since \in Nat /\ req[r].arg.good \in Nat
    BY Underway DEF PaypalInv, PaypalTypeOK, PaypalArg, At
  <2> QED
    BY <2>1, PaypalClientAssumption DEF PaypalInv, LegsOK, CallsOK, At
<1> QED
  BY <1>1, PaypalStarts, PaypalSteps, PTL DEF PaypalSpec

=============================================================================
