---------------------------- MODULE PaypalClient ----------------------------
(***************************************************************************)
(* The token cache of PaypalClientService.  createOrder and captureOrder   *)
(* get a token, cached or new, and call PayPal with it; requests share the *)
(* cache.  PayPal is external: it issues tokens that it accepts for a      *)
(* time.  A leg over the network takes MaxDelay ticks of the clock at most *)
(* when it succeeds.  A token is known by the time until which PayPal      *)
(* accepts it.                                                             *)
(***************************************************************************)
EXTENDS Requests

CONSTANTS
    Lifetime,       \* for how long PayPal may accept a new token
    Margin,         \* how much of that the client leaves unused: 60 s
    MaxDelay,       \* how long a leg takes at most
    MaxTime         \* bound: when the clock stops

ASSUME PaypalClientAssumption ==
    /\ Margin \in Nat /\ MaxDelay \in Nat /\ MaxTime \in Nat
    /\ 2 * MaxDelay <= Margin
    /\ Lifetime \subseteq Nat /\ \A l \in Lifetime : 2 * MaxDelay <= l

VARIABLES
    clock,
    cachedToken     \* the token, and until when the client uses it

ppVars == <<clock, cachedToken>>

CachedToken == [good : Nat, expiresAt : Int]

\* No token is a token that has expired.
NoCachedToken == [good |-> 0, expiresAt |-> 0]

PaypalInit == clock = 0 /\ cachedToken = NoCachedToken

\* since: when the leg the request waits for began; lives: expires_in.
PaypalArgs(good) == [good |-> good, lives |-> 0, since |-> clock]

\* Mutation: the client uses a token until it expires.
UsableUntilLast(lives) == clock + lives

UsableUntil(lives) == clock + lives - Margin

\* createOrder or captureOrder: the cached token, or a new one.
CallPaypal(r) ==
    IF cachedToken.expiresAt > clock
    THEN Begin(r, <<"call">>, PaypalArgs(cachedToken.good))
    ELSE Begin(r, <<"issue", "cache", "call">>, PaypalArgs(0))

\* PayPal issues a token; the answer is on its way, with expires_in.
Issue(r) ==
    /\ At(r, "issue")
    /\ \E l \in Lifetime :
          AdvanceWith(r, [req[r].arg EXCEPT !.good = clock + l, !.lives = l])
    /\ UNCHANGED ppVars

\* The answer arrives.
CacheToken(r) ==
    LET arg == req[r].arg IN
    /\ At(r, "cache")
    /\ cachedToken' = [good |-> arg.good, expiresAt |-> UsableUntil(arg.lives)]
    /\ AdvanceWith(r, PaypalArgs(arg.good))
    /\ UNCHANGED clock

\* The call reaches PayPal.
Arrive(r) ==
    /\ At(r, "call")
    /\ Advance(r)
    /\ UNCHANGED ppVars

\* Time passes, but not past the delay of a leg under way.
Tick ==
    /\ clock < MaxTime
    /\ \A r \in Slot : ~Resting(r) => clock < req[r].arg.since + MaxDelay
    /\ clock' = clock + 1
    /\ UNCHANGED <<cachedToken, reqVars>>

\* The cache is the process's memory.
Restart ==
    /\ Faults
    /\ req' = [r \in Slot |-> Idle]
    /\ smooth' = FALSE
    /\ cachedToken' = NoCachedToken
    /\ UNCHANGED <<clock, begun>>

PaypalNext ==
    \/ \E r \in Slot : ((CallPaypal(r) \/ Break(r)) /\ UNCHANGED ppVars)
                       \/ Issue(r) \/ CacheToken(r) \/ Arrive(r)
    \/ Tick
    \/ Restart

PaypalSpec == ReqInit /\ PaypalInit /\ [][PaypalNext]_<<reqVars, ppVars>>

---------------------------------------------------------------------------
\* The clock and the cache are what the client keeps.
PaypalTypeOK ==
    /\ clock \in Nat
    /\ cachedToken \in CachedToken

\* A call never reaches PayPal with a token that has expired, whoever else has
\* renewed the cache meanwhile: the margin covers the answer that brought the
\* token and the call that uses it.
TokenIsGood ==
    \A r \in Slot : At(r, "call") => clock <= req[r].arg.good

=============================================================================
