---------------------------- MODULE Market_proofs ----------------------------
(***************************************************************************)
(* What is proved of the parts of the market that handle requests over     *)
(* Requests: Cart, Community and Images, and of the script that seeds the  *)
(* database, Seed.  For each an invariant that its steps keep: what every  *)
(* request has left to do and what its statements may rely on whatever     *)
(* else goes on, and, while requests neither overlap nor fail, that what   *)
(* it has read still holds.                                                *)
(***************************************************************************)
EXTENDS MCMarket, PaypalClient_proofs, FiniteSetTheorems, SequenceTheorems, WellFoundedInduction

---------------------------------------------------------------------------
(* Requests that neither overlap nor fail.                                 *)

\* At most one request is under way.
Alone == \A r, q \in Slot : ~Resting(r) /\ ~Resting(q) => r = q

\* What is asked of r's step, when it keeps the requests from overlapping.
StillAlone(r) == smooth' => smooth /\ \A q \in Slot \ {r} : Resting(q)

LEMMA StepsOfOne ==
    ASSUME smooth => Alone, NEW r \in Slot, ~Resting(r), smooth' => smooth
    PROVE  StillAlone(r)
BY DEF Alone, StillAlone

LEMMA BeginsAlone ==
    ASSUME NEW r \in Slot, Count
    PROVE  StillAlone(r)
BY DEF Count, AllRest, StillAlone

LEMMA KeepsAlone ==
    ASSUME NEW r \in Slot, StillAlone(r), \A q \in Slot \ {r} : req'[q] = req[q]
    PROVE  smooth' => Alone'
BY DEF Alone, StillAlone, Resting

---------------------------------------------------------------------------
(* The cart.                                                               *)

\* What the requests of a cart may have left to do.
ToAdd == <<"findCart", "findItem", "writeItem">>
ToLook == <<"findCart">>
ToPrice == <<"findCart", "quote">>
FindItemOn == <<"findItem", "writeItem">>
WriteOn == <<"writeItem">>
SetOn == <<"setItem">>
QuoteOn == <<"quote">>
CreateToAdd == <<"createCart">> \o FindItemOn
CreateToLook == <<"createCart">> \o <<>>
CreateToPrice == <<"createCart">> \o QuoteOn
CaptureOn == <<"capture", "checkout", "convert">>
CheckoutOn == <<"checkout", "convert">>
ConvertOn == <<"convert">>

CartPlans == {ToAdd, ToLook, ToPrice, CreateToAdd, CreateToLook, CreateToPrice, FindItemOn,
              WriteOn, SetOn, QuoteOn, CaptureOn, CheckoutOn, ConvertOn}

CartArg == [buyer : Buyer, product : Product \cup {None}, quantity : Nat, stock : Nat,
            cart : Cart \cup {None}, item : Item \cup {None}, held : Nat, paid : BOOLEAN]

CartUnderway == [todo : CartPlans, arg : CartArg]

\* A row that is there is of a cart that is there, and the only one of its product in it.
ItemsOK ==
    /\ \A i \in Item : item[i].quantity > 0 =>
          /\ item[i].cart \in Cart /\ item[i].product \in Product
          /\ cart[item[i].cart].status # "NONE"
    /\ \A i, j \in Item :
          /\ item[i].quantity > 0 /\ item[j].quantity > 0
          /\ item[i].cart = item[j].cart /\ item[i].product = item[j].product
          => i = j

\* What the statements of a plan need, whatever else goes on.
Knows(todo, arg) ==
    /\ todo \in {ToAdd, CreateToAdd, FindItemOn, WriteOn} => arg.product \in Product /\ arg.quantity > 0
    /\ todo \in {ToAdd, CreateToAdd, FindItemOn} => arg.item = None
    /\ todo \in {FindItemOn, WriteOn, QuoteOn, ConvertOn} =>
          arg.cart \in Cart /\ cart[arg.cart].status # "NONE"
    /\ todo = SetOn => arg.item \in Item

CartFits(r) ==
    ~Resting(r) => req[r] \in CartUnderway /\ Knows(req[r].todo, req[r].arg)

\* Without overlaps and failures: a buyer's cart holds what the answers say.
CartsAgree ==
    \A b \in Buyer :
        /\ \A c, d \in ActiveCarts(b) : c = d
        /\ ActiveCarts(b) = {} => \A p \in Product : wanted[b][p] = 0
        /\ \A c \in ActiveCarts(b) :
              /\ \A i \in ItemsOf(c) : item[i].quantity = wanted[b][item[i].product]
              /\ \A p \in Product : wanted[b][p] # 0 => \E i \in ItemsOf(c) : item[i].product = p

\* ... and what it is priced at, until something is changed.
PricesAgree ==
    \A b \in Buyer : ~bill[b].stirred /\ bill[b].quoted > 0 =>
        \A c \in ActiveCarts(b) : ItemsOf(c) = {} \/ Total(c) = bill[b].quoted

\* ... and what a request has read still holds.
StillTrue(todo, arg) ==
    /\ todo \in {CreateToAdd, CreateToLook, CreateToPrice} => ActiveCarts(arg.buyer) = {}
    /\ todo \in {FindItemOn, WriteOn, QuoteOn, ConvertOn} => arg.cart \in ActiveCarts(arg.buyer)
    /\ todo = WriteOn /\ arg.item # None =>
          /\ item[arg.item].cart = arg.cart /\ item[arg.item].product = arg.product
          /\ item[arg.item].quantity = arg.held
    /\ todo = SetOn =>
          item[arg.item].quantity > 0 /\ cart[item[arg.item].cart].owner = arg.buyer
    /\ todo = CheckoutOn /\ arg.paid /\ ~bill[arg.buyer].stirred =>
          \A c \in ActiveCarts(arg.buyer) : ItemsOf(c) = {} \/ Total(c) = bill[arg.buyer].paid
    /\ todo = ConvertOn /\ arg.paid /\ ~bill[arg.buyer].stirred =>
          arg.held = bill[arg.buyer].paid

CartRead(r) == ~Resting(r) => StillTrue(req[r].todo, req[r].arg)

CartInv ==
    /\ CartTypeOK
    /\ ItemsOK
    /\ req \in [Slot -> {Idle} \cup CartUnderway]
    /\ \A r \in Slot : CartFits(r)
    /\ smooth \in BOOLEAN
    /\ smooth => Alone /\ CartsAgree /\ PricesAgree /\ \A r \in Slot : CartRead(r)

---------------------------------------------------------------------------
\* A plan with one more statement at its front.
LEMMA OneMoreFirst ==
    ASSUME NEW S, NEW a \in S, NEW s \in Seq(S)
    PROVE  <<a>> \o s # <<>> /\ Head(<<a>> \o s) = a /\ Tail(<<a>> \o s) = s
<1> DEFINE t == <<a>> \o s
<1>1. /\ t \in Seq(S) /\ Len(t) = 1 + Len(s) /\ Len(s) \in Nat
      /\ t[1] = a /\ \A i \in 2 .. 1 + Len(s) : t[i] = s[i - 1]
  OBVIOUS
<1> HIDE DEF t
<1>2. t # <<>> /\ Head(t) = a
  BY <1>1
<1>3. Tail(t) \in Seq(S) /\ Len(Tail(t)) = Len(s) /\ \A i \in 1 .. Len(s) : Tail(t)[i] = t[i + 1]
  BY <1>1, <1>2
<1>4. \A i \in 1 .. Len(s) : Tail(t)[i] = s[i]
  BY <1>1, <1>3
<1>5. Tail(t) = s
  BY <1>3, <1>4, SeqEqual
<1> QED
  BY <1>2, <1>5 DEF t

LEMMA CartHeads ==
    /\ ToAdd # <<>> /\ Head(ToAdd) = "findCart" /\ Tail(ToAdd) = FindItemOn
    /\ ToLook # <<>> /\ Head(ToLook) = "findCart" /\ Tail(ToLook) = <<>>
    /\ ToPrice # <<>> /\ Head(ToPrice) = "findCart" /\ Tail(ToPrice) = QuoteOn
    /\ FindItemOn # <<>> /\ Head(FindItemOn) = "findItem" /\ Tail(FindItemOn) = WriteOn
    /\ WriteOn # <<>> /\ Head(WriteOn) = "writeItem" /\ Tail(WriteOn) = <<>>
    /\ SetOn # <<>> /\ Head(SetOn) = "setItem" /\ Tail(SetOn) = <<>>
    /\ QuoteOn # <<>> /\ Head(QuoteOn) = "quote" /\ Tail(QuoteOn) = <<>>
    /\ CaptureOn # <<>> /\ Head(CaptureOn) = "capture" /\ Tail(CaptureOn) = CheckoutOn
    /\ CheckoutOn # <<>> /\ Head(CheckoutOn) = "checkout" /\ Tail(CheckoutOn) = ConvertOn
    /\ ConvertOn # <<>> /\ Head(ConvertOn) = "convert" /\ Tail(ConvertOn) = <<>>
    /\ CreateToAdd # <<>> /\ Head(CreateToAdd) = "createCart" /\ Tail(CreateToAdd) = FindItemOn
    /\ CreateToLook # <<>> /\ Head(CreateToLook) = "createCart" /\ Tail(CreateToLook) = <<>>
    /\ CreateToPrice # <<>> /\ Head(CreateToPrice) = "createCart" /\ Tail(CreateToPrice) = QuoteOn
<1> DEFINE S == {"createCart", "findItem", "writeItem", "quote"}
<1>1. FindItemOn \in Seq(S) /\ QuoteOn \in Seq(S) /\ <<>> \in Seq(S) /\ "createCart" \in S
  BY DEF FindItemOn, QuoteOn
<1> HIDE DEF S
<1>2. /\ CreateToAdd # <<>> /\ Head(CreateToAdd) = "createCart" /\ Tail(CreateToAdd) = FindItemOn
      /\ CreateToLook # <<>> /\ Head(CreateToLook) = "createCart" /\ Tail(CreateToLook) = <<>>
      /\ CreateToPrice # <<>> /\ Head(CreateToPrice) = "createCart" /\ Tail(CreateToPrice) = QuoteOn
  BY <1>1, OneMoreFirst DEF CreateToAdd, CreateToLook, CreateToPrice
<1> QED
  BY <1>2 DEF ToAdd, ToLook, ToPrice, FindItemOn, WriteOn, SetOn, QuoteOn,
              CaptureOn, CheckoutOn, ConvertOn

\* Which plan a request has, by the statement it is at.
LEMMA CartAt ==
    ASSUME CartInv, NEW r \in Slot, NEW s, At(r, s)
    PROVE  /\ ~Resting(r) /\ req[r] \in CartUnderway /\ req[r].todo \in CartPlans
           /\ req[r].arg \in CartArg
           /\ s = "findCart" => req[r].todo \in {ToAdd, ToLook, ToPrice}
           /\ s = "createCart" => req[r].todo \in {CreateToAdd, CreateToLook, CreateToPrice}
           /\ s = "findItem" => req[r].todo = FindItemOn
           /\ s = "writeItem" => req[r].todo = WriteOn
           /\ s = "setItem" => req[r].todo = SetOn
           /\ s = "quote" => req[r].todo = QuoteOn
           /\ s = "capture" => req[r].todo = CaptureOn
           /\ s = "checkout" => req[r].todo = CheckoutOn
           /\ s = "convert" => req[r].todo = ConvertOn
<1>1. ~Resting(r) /\ req[r] \in CartUnderway /\ Head(req[r].todo) = s
  BY DEF At, CartInv, CartFits
<1>2. req[r].todo \in CartPlans /\ req[r].arg \in CartArg
  BY <1>1 DEF CartUnderway
<1> QED
  BY <1>1, <1>2, CartHeads DEF CartPlans

\* The plans differ where it matters.
LEMMA PlansDiffer ==
    /\ \A p \in {ToAdd, ToLook, ToPrice} :
          p \notin {CreateToAdd, CreateToLook, CreateToPrice, FindItemOn, WriteOn, SetOn, QuoteOn,
                    CaptureOn, CheckoutOn, ConvertOn}
    /\ \A p \in {CreateToAdd, CreateToLook, CreateToPrice} :
          p \notin {FindItemOn, WriteOn, SetOn, QuoteOn, CaptureOn, CheckoutOn, ConvertOn}
    /\ FindItemOn \notin {WriteOn, SetOn, QuoteOn, CaptureOn, CheckoutOn, ConvertOn}
    /\ WriteOn \notin {SetOn, QuoteOn, CaptureOn, CheckoutOn, ConvertOn}
    /\ SetOn \notin {QuoteOn, CaptureOn, CheckoutOn, ConvertOn}
    /\ QuoteOn \notin {CaptureOn, CheckoutOn, ConvertOn}
    /\ CaptureOn \notin {CheckoutOn, ConvertOn} /\ CheckoutOn # ConvertOn
    /\ ToAdd # ToPrice /\ ToLook \notin {ToAdd, ToPrice}
    /\ CreateToAdd # CreateToPrice /\ CreateToLook \notin {CreateToAdd, CreateToPrice}
<1>1. Tail(ToAdd) # Tail(ToPrice) /\ Tail(ToLook) # Tail(ToAdd) /\ Tail(ToLook) # Tail(ToPrice)
  BY CartHeads
<1> QED
  BY ZenonT(40), <1>1, CartHeads

\* A total is a number, whatever is in the cart.
LEMMA TotalIsNat ==
    ASSUME CartTypeOK, ItemsOK, NEW c
    PROVE  Total(c) \in Nat
<1>1. IsFiniteSet(ItemsOf(c))
  <2>1. IsFiniteSet(1 .. MaxItems) /\ ItemsOf(c) \subseteq 1 .. MaxItems
    BY FS_Interval, CartAssumption DEF ItemsOf, Item
  <2> QED
    BY <2>1, FS_Subset
<1>2. ASSUME NEW i \in ItemsOf(c) PROVE IsFiniteSet(Cents(i))
  <2>1. item[i].product \in Product /\ item[i].quantity \in Nat
    BY DEF ItemsOf, ItemsOK, CartTypeOK, ItemRow
  <2>2. shelf[item[i].product].price \in Nat
    BY <2>1, CartAssumption DEF CartTypeOK, Shelf
  <2>3. \A n, m \in Nat : n * m \in Int
    OBVIOUS
  <2>4. item[i].quantity * shelf[item[i].product].price \in Int
    BY <2>1, <2>2, <2>3
  <2>5. IsFiniteSet(1 .. item[i].quantity * shelf[item[i].product].price)
    BY <2>4, FS_Interval
  <2>6. IsFiniteSet({i})
    BY FS_Singleton
  <2> QED
    BY <2>5, <2>6, FS_Product DEF Cents
<1>3. IsFiniteSet({Cents(i) : i \in ItemsOf(c)})
  <2> DEFINE f == [i \in ItemsOf(c) |-> Cents(i)]
             T == {Cents(i) : i \in ItemsOf(c)}
  <2>1. f \in Surjection(ItemsOf(c), T)
    BY DEF Surjection
  <2> HIDE DEF f, T
  <2>2. IsFiniteSet(T)
    BY <1>1, <2>1, FS_Surjection
  <2> QED
    BY <2>2 DEF T
<1>4. IsFiniteSet(UNION {Cents(i) : i \in ItemsOf(c)})
  BY <1>2, <1>3, FS_UNION
<1> QED
  BY <1>4, FS_CardinalityType DEF Total

---------------------------------------------------------------------------
\* A step of one request: what is to be shown of it and of the tables is enough.
LEMMA CartMoves ==
    ASSUME CartInv, NEW r \in Slot,
           req' \in [Slot -> {Idle} \cup CartUnderway],
           \A q \in Slot \ {r} : req'[q] = req[q],
           CartFits(r)', CartTypeOK', ItemsOK',
           \A c \in Cart : cart[c].status # "NONE" => cart'[c].status # "NONE",
           smooth' \in BOOLEAN, StillAlone(r),
           smooth' => CartsAgree' /\ PricesAgree' /\ CartRead(r)'
    PROVE  CartInv'
<1>1. ASSUME NEW q \in Slot PROVE CartFits(q)'
  <2>1. CASE q = r
    BY <2>1
  <2>2. CASE q # r
    <3>1. req'[q] = req[q] /\ CartFits(q)
      BY <2>2 DEF CartInv
    <3> QED
      BY <3>1 DEF CartFits, Knows, Resting
  <2> QED
    BY <2>1, <2>2
<1>2. ASSUME smooth', NEW q \in Slot PROVE CartRead(q)'
  <2>1. CASE q = r
    BY <1>2, <2>1
  <2>2. CASE q # r
    BY <1>2, <2>2 DEF StillAlone, CartRead, Resting
  <2> QED
    BY <2>1, <2>2
<1>3. smooth' => Alone'
  BY KeepsAlone
<1> QED
  BY <1>1, <1>2, <1>3 DEF CartInv

\* A step that only reads.
LEMMA CartReads ==
    ASSUME CartInv, NEW r \in Slot, NEW todo \in CartPlans, NEW arg \in CartArg,
           req' = [req EXCEPT ![r] = [todo |-> todo, arg |-> arg]],
           UNCHANGED cartVars,
           smooth' \in BOOLEAN, StillAlone(r),
           Knows(todo, arg), smooth' => StillTrue(todo, arg)
    PROVE  CartInv'
<1> DEFINE new == [todo |-> todo, arg |-> arg]
<1>1. new \in CartUnderway /\ new.todo = todo /\ new.arg = arg
  BY DEF CartUnderway
<1>2. /\ req' \in [Slot -> {Idle} \cup CartUnderway]
      /\ req'[r] = new /\ \A q \in Slot \ {r} : req'[q] = req[q]
  BY <1>1 DEF CartInv
<1> HIDE DEF new
<1>3. /\ shelf' = shelf /\ cart' = cart /\ item' = item /\ wanted' = wanted /\ bill' = bill
  BY DEF cartVars
<1>4. CartFits(r)'
  BY <1>1, <1>2, <1>3 DEF CartFits, Knows
<1>5. smooth' => CartRead(r)'
  BY <1>1, <1>2, <1>3 DEF CartRead, StillTrue, ActiveCarts, ItemsOf, Total, Cents
<1>6. CartTypeOK' /\ ItemsOK'
  BY <1>3 DEF CartInv, CartTypeOK, ItemsOK
<1>7. smooth' => CartsAgree' /\ PricesAgree'
  BY <1>3 DEF CartInv, StillAlone, CartsAgree, PricesAgree, ActiveCarts, ItemsOf, Total, Cents
<1> QED
  BY <1>2, <1>3, <1>4, <1>5, <1>6, <1>7, CartMoves

\* A request that ends without having done anything more.
LEMMA CartEnds ==
    ASSUME CartInv, NEW r \in Slot, ~Resting(r), req' = [req EXCEPT ![r] = Idle],
           UNCHANGED cartVars, smooth' \in BOOLEAN, smooth' => smooth
    PROVE  CartInv'
<1>2. /\ req' \in [Slot -> {Idle} \cup CartUnderway]
      /\ req'[r] = Idle /\ \A q \in Slot \ {r} : req'[q] = req[q]
  BY DEF CartInv
<1>3. /\ shelf' = shelf /\ cart' = cart /\ item' = item /\ wanted' = wanted /\ bill' = bill
  BY DEF cartVars
<1>4. CartFits(r)' /\ CartRead(r)'
  BY <1>2 DEF CartFits, CartRead, Resting, Idle
<1>5. StillAlone(r)
  BY StepsOfOne DEF CartInv
<1>6. CartTypeOK' /\ ItemsOK'
  BY <1>3 DEF CartInv, CartTypeOK, ItemsOK
<1>7. smooth' => CartsAgree' /\ PricesAgree'
  BY <1>3 DEF CartInv, CartsAgree, PricesAgree, ActiveCarts, ItemsOf, Total, Cents
<1> QED
  BY <1>2, <1>3, <1>4, <1>5, <1>6, <1>7, CartMoves

\* The last statement of a request, which writes.
LEMMA CartWrites ==
    ASSUME CartInv, NEW r \in Slot, ~Resting(r), req' = [req EXCEPT ![r] = Idle],
           UNCHANGED smooth,
           \A c \in Cart : cart[c].status # "NONE" => cart'[c].status # "NONE",
           CartTypeOK', ItemsOK', smooth => CartsAgree' /\ PricesAgree'
    PROVE  CartInv'
<1>2. /\ req' \in [Slot -> {Idle} \cup CartUnderway]
      /\ req'[r] = Idle /\ \A q \in Slot \ {r} : req'[q] = req[q]
  BY DEF CartInv
<1>4. CartFits(r)' /\ CartRead(r)'
  BY <1>2 DEF CartFits, CartRead, Resting, Idle
<1>5. StillAlone(r) /\ smooth' \in BOOLEAN
  BY StepsOfOne DEF CartInv
<1> QED
  BY <1>2, <1>4, <1>5, CartMoves

\* A cart whose rows and their prices stay is worth what it was.
LEMMA TotalStays ==
    ASSUME NEW c, ItemsOf(c)' = ItemsOf(c),
           \A i \in ItemsOf(c) :
               /\ item'[i] = item[i]
               /\ shelf'[item[i].product].price = shelf[item[i].product].price
    PROVE  Total(c)' = Total(c)
<1>1. \A i \in ItemsOf(c) : Cents(i)' = Cents(i)
  BY DEF Cents
<1>2. {Cents(i) : i \in ItemsOf(c)}' = {Cents(i) : i \in ItemsOf(c)}
  BY <1>1
<1> QED
  BY <1>2 DEF Total

---------------------------------------------------------------------------
LEMMA CartStarts == ReqInit /\ CartInit => CartInv
<1> SUFFICES ASSUME ReqInit, CartInit PROVE CartInv
  OBVIOUS
<1> USE CartAssumption
<1>1. /\ req \in [Slot -> {Idle} \cup CartUnderway] /\ smooth = TRUE
      /\ \A r \in Slot : Resting(r)
  BY DEF ReqInit, Resting, Idle
<1>2. PICK b \in Buyer, p \in Product, q \in {0, 1} :
          /\ cart = [c \in Cart |-> IF q = 1 /\ c = 1 THEN [owner |-> b, status |-> "ACTIVE"]
                                    ELSE [owner |-> None, status |-> "NONE"]]
          /\ item = [i \in Item |-> IF q = 1 /\ i = 1
                                    THEN [cart |-> 1, product |-> p, quantity |-> q]
                                    ELSE [cart |-> None, product |-> None, quantity |-> 0]]
          /\ wanted = [x \in Buyer |-> [y \in Product |-> IF x = b /\ y = p THEN q ELSE 0]]
  BY DEF CartInit
<1>3. /\ bill = [x \in Buyer |-> [quoted |-> 0, paid |-> 0, ordered |-> 0, stirred |-> FALSE]]
      /\ shelf \in [Product -> Shelf]
  BY DEF CartInit
<1>4. CASE q = 0
  <2>1. CartTypeOK
    BY <1>2, <1>3, <1>4 DEF CartTypeOK, CartRow, ItemRow, CartStatus, Bill
  <2>2. ItemsOK
    BY <1>2, <1>4 DEF ItemsOK
  <2>3. \A x : ActiveCarts(x) = {}
    BY <1>2, <1>4 DEF ActiveCarts
  <2>4. CartsAgree /\ PricesAgree
    BY <1>2, <1>4, <2>3 DEF CartsAgree, PricesAgree
  <2> QED
    BY <1>1, <2>1, <2>2, <2>4 DEF CartInv, CartFits, CartRead, Alone
<1>5. CASE q = 1
  <2>1. 1 \in Cart /\ 1 \in Item
    BY DEF Cart, Item
  <2>2. /\ cart[1] = [owner |-> b, status |-> "ACTIVE"]
        /\ item[1] = [cart |-> 1, product |-> p, quantity |-> 1]
        /\ \A c \in Cart \ {1} : cart[c].status = "NONE"
        /\ \A i \in Item \ {1} : item[i].quantity = 0
        /\ \A x \in Buyer : \A y \in Product : wanted[x][y] = (IF x = b /\ y = p THEN 1 ELSE 0)
    BY <1>2, <1>5, <2>1
  <2>3. CartTypeOK
    <3>1. shelf \in [Product -> Shelf] /\ bill \in [Buyer -> Bill]
      BY <1>3 DEF Bill
    <3>2. cart \in [Cart -> CartRow]
      BY <1>2 DEF CartRow, CartStatus
    <3>3. item \in [Item -> ItemRow]
      BY <1>2, <1>5, <2>1 DEF ItemRow
    <3>4. wanted \in [Buyer -> [Product -> Nat]]
      BY <1>2, <1>5
    <3> QED
      BY <3>1, <3>2, <3>3, <3>4 DEF CartTypeOK
  <2>4. ItemsOK
    BY <2>1, <2>2 DEF ItemsOK
  <2>5. ActiveCarts(b) = {1} /\ \A x \in Buyer : x # b => ActiveCarts(x) = {}
    BY <2>1, <2>2 DEF ActiveCarts
  <2>6. ItemsOf(1) = {1}
    BY <2>1, <2>2 DEF ItemsOf
  <2>7. CartsAgree
    <3> SUFFICES ASSUME NEW x \in Buyer
                 PROVE  /\ \A c, d \in ActiveCarts(x) : c = d
                        /\ ActiveCarts(x) = {} => \A y \in Product : wanted[x][y] = 0
                        /\ \A c \in ActiveCarts(x) :
                              /\ \A i \in ItemsOf(c) : item[i].quantity = wanted[x][item[i].product]
                              /\ \A y \in Product : wanted[x][y] # 0 => \E i \in ItemsOf(c) : item[i].product = y
      BY DEF CartsAgree
    <3>1. CASE x = b
      BY <2>2, <2>5, <2>6, <3>1
    <3>2. CASE x # b
      BY <2>2, <2>5, <3>2
    <3> QED
      BY <3>1, <3>2
  <2>8. PricesAgree
    BY <1>3 DEF PricesAgree
  <2> QED
    BY <1>1, <2>3, <2>4, <2>7, <2>8 DEF CartInv, CartFits, CartRead, Alone
<1> QED
  BY <1>4, <1>5

---------------------------------------------------------------------------
(* Requests begin.                                                         *)

LEMMA CartBegins ==
    ASSUME CartInv, NEW r \in Slot, NEW todo \in CartPlans, NEW arg \in CartArg,
           Begin(r, todo, arg), UNCHANGED cartVars,
           Knows(todo, arg), StillTrue(todo, arg)
    PROVE  CartInv'
<1>1. /\ req' = [req EXCEPT ![r] = [todo |-> todo, arg |-> arg]]
      /\ smooth' \in BOOLEAN /\ Count
  BY DEF Begin, Count, CartInv, AllRest
<1>2. StillAlone(r)
  BY <1>1, BeginsAlone
<1> QED
  BY <1>1, <1>2, CartReads

LEMMA StartCartKeeps ==
    ASSUME CartInv, NEW r \in Slot, StartCart(r), UNCHANGED cartVars
    PROVE  CartInv'
<1> USE CartAssumption
<1>1. PICK b \in Buyer :
        \/ GetCart(r, b) \/ CheckoutCart(r, b)
        \/ CreateCheckoutOrder(r, b) \/ CaptureCheckoutOrder(r, b)
        \/ \E q \in 1 .. MaxUnits :
              \/ \E p \in Product : AddItem(r, b, p, q)
              \/ \E i \in Item : UpdateItemQuantity(r, b, i, q)
        \/ \E i \in Item : RemoveItem(r, b, i)
  BY DEF StartCart
<1>2. CartTypeOK
  BY DEF CartInv
<1>3. CASE GetCart(r, b)
  <2> DEFINE arg == [CartArgs EXCEPT !.buyer = b]
  <2>1. Begin(r, ToLook, arg) /\ arg \in CartArg /\ ToLook \in CartPlans
    BY <1>3 DEF CartArgs, CartArg, GetCart, ToLook, CartPlans
  <2>2. Knows(ToLook, arg) /\ StillTrue(ToLook, arg)
    BY PlansDiffer DEF Knows, StillTrue
  <2> HIDE DEF arg
  <2> QED
    BY <2>1, <2>2, CartBegins
<1>4. CASE CheckoutCart(r, b)
  <2> DEFINE arg == [CartArgs EXCEPT !.buyer = b]
  <2>1. Begin(r, CheckoutOn, arg) /\ arg \in CartArg /\ CheckoutOn \in CartPlans /\ arg.paid = FALSE
    BY <1>4 DEF CartArgs, CartArg, CheckoutCart, CheckoutOn, CartPlans
  <2> HIDE DEF arg
  <2>2. Knows(CheckoutOn, arg) /\ StillTrue(CheckoutOn, arg)
    BY <2>1, PlansDiffer DEF Knows, StillTrue
  <2> QED
    BY <2>1, <2>2, CartBegins
<1>5. CASE CreateCheckoutOrder(r, b)
  <2> DEFINE arg == [CartArgs EXCEPT !.buyer = b]
  <2>1. Begin(r, ToPrice, arg) /\ arg \in CartArg /\ ToPrice \in CartPlans
    BY <1>5 DEF CartArgs, CartArg, CreateCheckoutOrder, ToPrice, CartPlans
  <2>2. Knows(ToPrice, arg) /\ StillTrue(ToPrice, arg)
    BY PlansDiffer DEF Knows, StillTrue
  <2> HIDE DEF arg
  <2> QED
    BY <2>1, <2>2, CartBegins
<1>6. CASE CaptureCheckoutOrder(r, b)
  <2> DEFINE arg == [CartArgs EXCEPT !.buyer = b, !.paid = TRUE]
  <2>1. Begin(r, CaptureOn, arg) /\ arg \in CartArg /\ CaptureOn \in CartPlans
    BY <1>6 DEF CartArgs, CartArg, CaptureCheckoutOrder, CaptureOn, CartPlans
  <2>2. Knows(CaptureOn, arg) /\ StillTrue(CaptureOn, arg)
    BY PlansDiffer DEF Knows, StillTrue
  <2> HIDE DEF arg
  <2> QED
    BY <2>1, <2>2, CartBegins
<1>7. ASSUME NEW q \in 1 .. MaxUnits, NEW p \in Product, AddItem(r, b, p, q) PROVE CartInv'
  <2> DEFINE arg == [CartArgs EXCEPT !.buyer = b, !.product = p, !.quantity = q,
                                     !.stock = shelf[p].stock]
  <2>1. Begin(r, ToAdd, arg) /\ ToAdd \in CartPlans
    BY <1>7 DEF AddItem, ToAdd, CartPlans
  <2>2. shelf[p].stock \in Nat /\ q \in Nat /\ q > 0
    BY <1>2 DEF CartTypeOK, Shelf
  <2>3. arg \in CartArg /\ arg.product = p /\ arg.quantity = q /\ arg.item = None
    BY <2>2 DEF CartArgs, CartArg
  <2> HIDE DEF arg
  <2>4. Knows(ToAdd, arg) /\ StillTrue(ToAdd, arg)
    BY <2>2, <2>3, PlansDiffer DEF Knows, StillTrue
  <2> QED
    BY <2>1, <2>3, <2>4, CartBegins
<1>8. ASSUME NEW q \in 1 .. MaxUnits, NEW i \in Item, UpdateItemQuantity(r, b, i, q) PROVE CartInv'
  <2> DEFINE arg == [CartArgs EXCEPT !.buyer = b, !.item = i, !.quantity = q]
  <2>1. Begin(r, SetOn, arg) /\ SetOn \in CartPlans /\ Owned(b, i)
    BY <1>8 DEF UpdateItemQuantity, SetOn, CartPlans
  <2>2. q \in Nat
    OBVIOUS
  <2>3. arg \in CartArg /\ arg.item = i /\ arg.buyer = b
    BY <2>2 DEF CartArgs, CartArg
  <2> HIDE DEF arg
  <2>4. Knows(SetOn, arg) /\ StillTrue(SetOn, arg)
    BY <2>1, <2>3, PlansDiffer DEF Knows, StillTrue, Owned
  <2> QED
    BY <2>1, <2>3, <2>4, CartBegins
<1>9. ASSUME NEW i \in Item, RemoveItem(r, b, i) PROVE CartInv'
  <2> DEFINE arg == [CartArgs EXCEPT !.buyer = b, !.item = i]
  <2>1. Begin(r, SetOn, arg) /\ SetOn \in CartPlans /\ Owned(b, i)
    BY <1>9 DEF RemoveItem, SetOn, CartPlans
  <2>3. arg \in CartArg /\ arg.item = i /\ arg.buyer = b
    BY DEF CartArgs, CartArg
  <2> HIDE DEF arg
  <2>4. Knows(SetOn, arg) /\ StillTrue(SetOn, arg)
    BY <2>1, <2>3, PlansDiffer DEF Knows, StillTrue, Owned
  <2> QED
    BY <2>1, <2>3, <2>4, CartBegins
<1> QED
  BY <1>1, <1>3, <1>4, <1>5, <1>6, <1>7, <1>8, <1>9

---------------------------------------------------------------------------
(* Statements.                                                             *)

\* A statement is its request's own, while requests do not overlap.
LEMMA CartStepAlone ==
    ASSUME CartInv, NEW r \in Slot, ~Resting(r), UNCHANGED smooth
    PROVE  smooth' \in BOOLEAN /\ StillAlone(r)
BY StepsOfOne DEF CartInv

\* With a new cart, or an item, or an amount in hand.
WithCart(arg, c) == [arg EXCEPT !.cart = c]
WithItem(arg, i, n) == [arg EXCEPT !.item = i, !.held = n]
WithTotal(arg, c, n) == [arg EXCEPT !.cart = c, !.held = n]

LEMMA WithTyped ==
    ASSUME NEW arg \in CartArg
    PROVE  /\ \A c \in Cart :
                 /\ WithCart(arg, c) \in CartArg /\ WithCart(arg, c).cart = c
                 /\ WithCart(arg, c).buyer = arg.buyer /\ WithCart(arg, c).product = arg.product
                 /\ WithCart(arg, c).quantity = arg.quantity /\ WithCart(arg, c).item = arg.item
                 /\ WithCart(arg, c).held = arg.held /\ WithCart(arg, c).paid = arg.paid
           /\ \A i \in Item, n \in Nat :
                 /\ WithItem(arg, i, n) \in CartArg /\ WithItem(arg, i, n).item = i
                 /\ WithItem(arg, i, n).held = n /\ WithItem(arg, i, n).cart = arg.cart
                 /\ WithItem(arg, i, n).buyer = arg.buyer /\ WithItem(arg, i, n).product = arg.product
                 /\ WithItem(arg, i, n).quantity = arg.quantity
           /\ \A c \in Cart, n \in Nat :
                 /\ WithTotal(arg, c, n) \in CartArg /\ WithTotal(arg, c, n).cart = c
                 /\ WithTotal(arg, c, n).held = n /\ WithTotal(arg, c, n).buyer = arg.buyer
                 /\ WithTotal(arg, c, n).paid = arg.paid
<1>1. ASSUME NEW c \in Cart
      PROVE  /\ WithCart(arg, c) \in CartArg /\ WithCart(arg, c).cart = c
             /\ WithCart(arg, c).buyer = arg.buyer /\ WithCart(arg, c).product = arg.product
             /\ WithCart(arg, c).quantity = arg.quantity /\ WithCart(arg, c).item = arg.item
             /\ WithCart(arg, c).held = arg.held /\ WithCart(arg, c).paid = arg.paid
  BY DEF WithCart, CartArg
<1>2. ASSUME NEW i \in Item, NEW n \in Nat
      PROVE  /\ WithItem(arg, i, n) \in CartArg /\ WithItem(arg, i, n).item = i
             /\ WithItem(arg, i, n).held = n /\ WithItem(arg, i, n).cart = arg.cart
             /\ WithItem(arg, i, n).buyer = arg.buyer /\ WithItem(arg, i, n).product = arg.product
             /\ WithItem(arg, i, n).quantity = arg.quantity
  BY DEF WithItem, CartArg
<1>3. ASSUME NEW c \in Cart, NEW n \in Nat
      PROVE  /\ WithTotal(arg, c, n) \in CartArg /\ WithTotal(arg, c, n).cart = c
             /\ WithTotal(arg, c, n).held = n /\ WithTotal(arg, c, n).buyer = arg.buyer
             /\ WithTotal(arg, c, n).paid = arg.paid
  BY DEF WithTotal, CartArg
<1> QED
  BY <1>1, <1>2, <1>3

LEMMA FindCartKeeps ==
    ASSUME CartInv, NEW r \in Slot, FindCart(r)
    PROVE  CartInv'
<1> DEFINE arg == req[r].arg
           todo == req[r].todo
<1>1. /\ ~Resting(r) /\ todo \in {ToAdd, ToLook, ToPrice} /\ arg \in CartArg
      /\ UNCHANGED cartVars
  BY CartAt DEF FindCart
<1>2. todo = ToAdd => arg.product \in Product /\ arg.quantity > 0 /\ arg.item = None
  BY <1>1 DEF CartInv, CartFits, Knows
<1>3. CASE ActiveCarts(arg.buyer) = {}
  <2> DEFINE new == <<"createCart">> \o Tail(todo)
  <2>1. Proceed(r, new, arg)
    BY <1>3 DEF FindCart
  <2>2. /\ new \in {CreateToAdd, CreateToLook, CreateToPrice} /\ new # <<>>
        /\ new = CreateToAdd => todo = ToAdd
    BY <1>1, CartHeads, PlansDiffer DEF CreateToAdd, CreateToLook, CreateToPrice
  <2> HIDE DEF new
  <2>3. req' = [req EXCEPT ![r] = [todo |-> new, arg |-> arg]] /\ UNCHANGED smooth
    BY <2>1, <2>2 DEF Proceed
  <2>4. Knows(new, arg) /\ StillTrue(new, arg)
    BY <1>2, <1>3, <2>2, PlansDiffer DEF Knows, StillTrue
  <2>5. new \in CartPlans
    BY <2>2 DEF CartPlans
  <2> HIDE DEF arg
  <2> QED
    BY <1>1, <2>3, <2>4, <2>5, CartStepAlone, CartReads
<1>4. ASSUME NEW c \in ActiveCarts(arg.buyer), AdvanceWith(r, WithCart(arg, c)) PROVE CartInv'
  <2>1. c \in Cart /\ cart[c].status = "ACTIVE"
    BY DEF ActiveCarts
  <2>2. CASE todo = ToLook
    <3>1. req' = [req EXCEPT ![r] = Idle] /\ UNCHANGED smooth
      BY <1>4, <2>2, CartHeads DEF AdvanceWith, Proceed
    <3> QED
      BY <1>1, <3>1, CartEnds DEF CartInv
  <2>3. CASE todo \in {ToAdd, ToPrice}
    <3> DEFINE new == Tail(todo)
               given == WithCart(arg, c)
    <3>1. /\ new \in {FindItemOn, QuoteOn} /\ new # <<>> /\ new \in CartPlans
          /\ new = FindItemOn => todo = ToAdd
      BY <2>3, CartHeads, PlansDiffer DEF CartPlans
    <3>2. req' = [req EXCEPT ![r] = [todo |-> new, arg |-> given]] /\ UNCHANGED smooth
      BY <1>4, <3>1 DEF AdvanceWith, Proceed
    <3>3. /\ given \in CartArg /\ given.cart = c /\ given.buyer = arg.buyer
          /\ given.product = arg.product /\ given.quantity = arg.quantity
          /\ given.item = arg.item
      BY <1>1, <2>1, WithTyped
    <3> HIDE DEF new, given
    <3>4. Knows(new, given) /\ StillTrue(new, given)
      BY <1>2, <1>4, <2>1, <3>1, <3>3, PlansDiffer DEF Knows, StillTrue
    <3> QED
      BY <1>1, <3>1, <3>2, <3>3, <3>4, CartStepAlone, CartReads
  <2> QED
    BY <1>1, <2>2, <2>3
<1> QED
  BY <1>3, <1>4 DEF FindCart, WithCart

LEMMA FindItemKeeps ==
    ASSUME CartInv, NEW r \in Slot, FindItem(r)
    PROVE  CartInv'
<1> DEFINE arg == req[r].arg
           same == {i \in ItemsOf(arg.cart) : item[i].product = arg.product}
<1>1. /\ ~Resting(r) /\ req[r].todo = FindItemOn /\ arg \in CartArg
      /\ UNCHANGED cartVars
  BY CartAt DEF FindItem
<1>2. /\ arg.product \in Product /\ arg.quantity > 0 /\ arg.item = None
      /\ arg.cart \in Cart /\ cart[arg.cart].status # "NONE"
  BY <1>1 DEF CartInv, CartFits, Knows
<1>3. smooth => arg.cart \in ActiveCarts(arg.buyer)
  BY <1>1 DEF CartInv, CartRead, StillTrue
<1>4. WriteOn \in CartPlans /\ WriteOn # <<>> /\ Tail(FindItemOn) = WriteOn
  BY CartHeads DEF CartPlans
<1>5. CASE Quit(r)
  BY <1>1, <1>5, CartEnds DEF Quit, CartInv
<1>6. ASSUME same = {}, Advance(r) PROVE CartInv'
  <2>1. req' = [req EXCEPT ![r] = [todo |-> WriteOn, arg |-> arg]] /\ UNCHANGED smooth
    BY <1>1, <1>4, <1>6 DEF Advance, AdvanceWith, Proceed
  <2>3. Knows(WriteOn, arg) /\ (smooth' => StillTrue(WriteOn, arg))
    BY <1>2, <1>3, <2>1, PlansDiffer DEF Knows, StillTrue
  <2> HIDE DEF arg
  <2> QED
    BY <1>1, <1>4, <2>1, <2>3, CartStepAlone, CartReads
<1>7. ASSUME NEW i \in same, AdvanceWith(r, WithItem(arg, i, item[i].quantity)) PROVE CartInv'
  <2> DEFINE given == WithItem(arg, i, item[i].quantity)
  <2>1. /\ i \in Item /\ item[i].cart = arg.cart /\ item[i].product = arg.product
        /\ item[i].quantity \in Nat
    BY DEF ItemsOf, CartInv, CartTypeOK, ItemRow
  <2>2. req' = [req EXCEPT ![r] = [todo |-> WriteOn, arg |-> given]] /\ UNCHANGED smooth
    BY <1>1, <1>4, <1>7 DEF AdvanceWith, Proceed
  <2>3. /\ given \in CartArg /\ given.item = i /\ given.held = item[i].quantity
        /\ given.cart = arg.cart /\ given.buyer = arg.buyer
        /\ given.product = arg.product /\ given.quantity = arg.quantity
    BY <1>1, <2>1, WithTyped
  <2> HIDE DEF given
  <2>4. Knows(WriteOn, given) /\ (smooth' => StillTrue(WriteOn, given))
    BY <1>2, <1>3, <2>1, <2>2, <2>3, PlansDiffer DEF Knows, StillTrue
  <2> QED
    BY <1>1, <1>4, <2>2, <2>3, <2>4, CartStepAlone, CartReads
<1> QED
  BY <1>5, <1>6, <1>7 DEF FindItem, WithItem

LEMMA CreateCartKeeps ==
    ASSUME CartInv, NEW r \in Slot, CreateCart(r)
    PROVE  CartInv'
<1> DEFINE arg == req[r].arg
           todo == req[r].todo
<1>1. /\ ~Resting(r) /\ todo \in {CreateToAdd, CreateToLook, CreateToPrice} /\ arg \in CartArg
      /\ shelf' = shelf /\ item' = item /\ wanted' = wanted /\ bill' = bill
  BY CartAt DEF CreateCart
<1>0. PICK b \in Buyer : b = arg.buyer
  BY <1>1 DEF CartArg
<1>2. /\ b \in Buyer
      /\ todo = CreateToAdd => arg.product \in Product /\ arg.quantity > 0 /\ arg.item = None
      /\ smooth => ActiveCarts(b) = {}
  BY <1>0, <1>1 DEF CartInv, CartFits, CartRead, Knows, StillTrue
<1>3. PICK c \in Cart :
          /\ \A d \in Cart : cart[d].status = "NONE" <=> d >= c
          /\ cart' = [cart EXCEPT ![c] = [owner |-> b, status |-> "ACTIVE"]]
          /\ AdvanceWith(r, WithCart(arg, c))
  BY <1>0 DEF CreateCart, WithCart
<1>4. cart[c].status = "NONE"
  BY <1>3 DEF Cart
<1>5. /\ cart'[c] = [owner |-> b, status |-> "ACTIVE"]
      /\ \A d \in Cart \ {c} : cart'[d] = cart[d]
      /\ cart' \in [Cart -> CartRow]
  BY <1>2, <1>3 DEF CartInv, CartTypeOK, CartRow, CartStatus
<1>6. \A d \in Cart : cart[d].status # "NONE" => cart'[d].status # "NONE"
  BY <1>4, <1>5
<1>7. CartTypeOK' /\ ItemsOK'
  BY <1>1, <1>5, <1>6 DEF CartInv, CartTypeOK, ItemsOK
<1>8. UNCHANGED smooth /\ smooth' \in BOOLEAN /\ StillAlone(r)
  BY <1>1, <1>3, CartStepAlone DEF AdvanceWith, Proceed
<1>9. \A d : ItemsOf(d)' = ItemsOf(d) /\ Total(d)' = Total(d)
  BY <1>1 DEF ItemsOf, Total, Cents
<1>10. ItemsOf(c) = {}
  BY <1>4 DEF ItemsOf, CartInv, ItemsOK
<1>11. ASSUME smooth
       PROVE  /\ ActiveCarts(b) = {}
              /\ \A d \in Cart : d \in ActiveCarts(b)' <=> d = c
              /\ \A x \in Buyer : x # b => ActiveCarts(x)' = ActiveCarts(x)
  <2>1. ActiveCarts(b) = {}
    BY <1>2, <1>11
  <2>2. ASSUME NEW d \in Cart PROVE cart'[d].owner = b /\ cart'[d].status = "ACTIVE" <=> d = c
    BY <1>5, <2>1 DEF ActiveCarts
  <2>3. ASSUME NEW x \in Buyer, x # b, NEW d \in Cart
        PROVE  cart'[d].owner = x /\ cart'[d].status = "ACTIVE" <=> cart[d].owner = x /\ cart[d].status = "ACTIVE"
    BY <1>4, <1>5, <2>3
  <2> QED
    BY <2>1, <2>2, <2>3 DEF ActiveCarts
<1>12. ASSUME smooth PROVE CartsAgree'
  <2> SUFFICES ASSUME NEW x \in Buyer
               PROVE  /\ \A e, d \in ActiveCarts(x)' : e = d
                      /\ ActiveCarts(x)' = {} => \A p \in Product : wanted[x][p] = 0
                      /\ \A e \in ActiveCarts(x)' :
                            /\ \A i \in ItemsOf(e) : item[i].quantity = wanted[x][item[i].product]
                            /\ \A p \in Product : wanted[x][p] # 0 => \E i \in ItemsOf(e) : item[i].product = p
    BY <1>1, <1>9 DEF CartsAgree
  <2>1. CartsAgree
    BY <1>12 DEF CartInv
  <2>2. CASE x = b
    <3>1. \A p \in Product : wanted[b][p] = 0
      BY <1>2, <1>11, <1>12, <2>1 DEF CartsAgree
    <3> QED
      <4>1. b \in Buyer /\ \A e \in ActiveCarts(b)' : e = c
        BY <1>2, <1>11, <1>12 DEF ActiveCarts
      <4>2. c \in ActiveCarts(b)'
        BY <1>11, <1>12
      <4> QED
        BY <1>10, <2>2, <3>1, <4>1, <4>2
  <2>3. CASE x # b
    BY <1>11, <1>12, <2>1, <2>3 DEF CartsAgree
  <2> QED
    BY <2>2, <2>3
<1>13. ASSUME smooth PROVE PricesAgree'
  <2> SUFFICES ASSUME NEW x \in Buyer, ~bill[x].stirred, bill[x].quoted > 0, NEW e \in ActiveCarts(x)'
               PROVE  ItemsOf(e) = {} \/ Total(e) = bill[x].quoted
    BY <1>1, <1>9 DEF PricesAgree
  <2> QED
    <3>1. CASE x = b
      BY <1>10, <1>11, <1>13, <3>1 DEF ActiveCarts
    <3>2. CASE x # b
      BY <1>11, <1>13, <3>2 DEF CartInv, PricesAgree
    <3> QED
      BY <3>1, <3>2
<1>14. CASE todo = CreateToLook
  <2>1. req' = [req EXCEPT ![r] = Idle]
    BY <1>3, <1>14, CartHeads DEF AdvanceWith, Proceed
  <2> QED
    BY <1>1, <1>6, <1>7, <1>8, <1>12, <1>13, <2>1, CartWrites
<1>15. CASE todo \in {CreateToAdd, CreateToPrice}
  <2> DEFINE new == Tail(todo)
             given == WithCart(arg, c)
             moved == [todo |-> new, arg |-> given]
  <2>1. /\ new \in {FindItemOn, QuoteOn} /\ new # <<>> /\ new \in CartPlans
        /\ new = FindItemOn => todo = CreateToAdd
    BY <1>15, CartHeads, PlansDiffer DEF CartPlans
  <2>2. req' = [req EXCEPT ![r] = moved]
    BY <1>3, <2>1 DEF AdvanceWith, Proceed
  <2>3. /\ given \in CartArg /\ given.cart = c /\ given.buyer = b
        /\ given.product = arg.product /\ given.quantity = arg.quantity /\ given.item = arg.item
    BY <1>0, <1>1, WithTyped
  <2>4. moved \in CartUnderway /\ moved.todo = new /\ moved.arg = given
    BY <2>1, <2>3 DEF CartUnderway
  <2> HIDE DEF new, given, moved
  <2>5. /\ req'[r] = moved /\ \A q \in Slot \ {r} : req'[q] = req[q]
        /\ req' \in [Slot -> {Idle} \cup CartUnderway]
    BY <2>2, <2>4 DEF CartInv
  <2>6. CartFits(r)'
    BY <1>2, <1>5, <2>1, <2>3, <2>4, <2>5, PlansDiffer DEF CartFits, Knows
  <2>7. ASSUME smooth PROVE CartRead(r)'
    BY <1>11, <2>7, <2>1, <2>3, <2>4, <2>5, PlansDiffer DEF CartRead, StillTrue
  <2> QED
    BY <1>6, <1>7, <1>8, <1>12, <1>13, <2>5, <2>6, <2>7, CartMoves
<1> QED
  BY <1>1, <1>14, <1>15

\* Row i of cart k changes: the other carts hold what they held.
RowChanges(i, k, row) ==
    /\ row.cart = k
    /\ item[i].quantity = 0 \/ item[i].cart = k
    /\ item' = [item EXCEPT ![i] = row] /\ shelf' = shelf

LEMMA OtherCarts ==
    ASSUME CartInv, NEW i \in Item, NEW k, NEW row, RowChanges(i, k, row)
    PROVE  /\ item'[i] = row /\ \A j \in Item \ {i} : item'[j] = item[j]
           /\ \A c : c # k => ItemsOf(c)' = ItemsOf(c) /\ Total(c)' = Total(c)
           /\ ItemsOf(k)' = IF row.quantity > 0 THEN ItemsOf(k) \cup {i} ELSE ItemsOf(k) \ {i}
<1> USE DEF RowChanges
<1>1. item'[i] = row /\ \A j \in Item \ {i} : item'[j] = item[j]
  BY DEF CartInv, CartTypeOK
<1>2. item[i].quantity = 0 => ~(item[i].quantity > 0)
  OBVIOUS
<1>3. ASSUME NEW c, c # k PROVE ItemsOf(c)' = ItemsOf(c)
  BY <1>1, <1>2, <1>3 DEF ItemsOf
<1>4. ASSUME NEW c, c # k PROVE Total(c)' = Total(c)
  <2>1. ItemsOf(c)' = ItemsOf(c)
    BY <1>3, <1>4
  <2>2. \A j \in ItemsOf(c) : item'[j] = item[j]
    BY <1>1, <1>2, <1>4 DEF ItemsOf
  <2> QED
    BY <2>1, <2>2, TotalStays
<1>5. ItemsOf(k)' = IF row.quantity > 0 THEN ItemsOf(k) \cup {i} ELSE ItemsOf(k) \ {i}
  BY <1>1 DEF ItemsOf
<1> QED
  BY <1>1, <1>3, <1>4, <1>5

\* Who stirs: the others' bills stay.
LEMMA Stirred ==
    ASSUME CartInv, NEW b \in Buyer, bill' = Stir({b})
    PROVE  /\ bill' \in [Buyer -> Bill] /\ bill'[b].stirred
           /\ \A x \in Buyer \ {b} : bill'[x] = bill[x]
           /\ \A x \in Buyer : bill'[x].ordered = bill[x].ordered
<1>1. /\ bill' = [x \in Buyer |-> IF x \in {b} THEN [bill[x] EXCEPT !.stirred = TRUE] ELSE bill[x]]
      /\ bill \in [Buyer -> Bill]
  BY DEF Stir, CartInv, CartTypeOK
<1> QED
  BY <1>1 DEF Bill

\* A buyer's item changes in one of the buyer's carts, and what is wanted with it.
ItemChange(b, i, k, p, row) ==
    /\ row \in ItemRow /\ row.cart = k /\ row.product = p
    /\ item[i].quantity = 0 \/ (item[i].cart = k /\ item[i].product = p)
    /\ \A j \in ItemsOf(k) : item[j].product = p => j = i
    /\ cart[k].status # "NONE"
    /\ item' = [item EXCEPT ![i] = row] /\ shelf' = shelf /\ cart' = cart /\ bill' = Stir({b})
    /\ wanted' \in [Buyer -> [Product -> Nat]]
    /\ smooth => /\ cart[k].owner = b
                 /\ \A x \in Buyer, y \in Product :
                       wanted'[x][y] = IF x = b /\ y = p /\ cart[k].status = "ACTIVE"
                                       THEN row.quantity ELSE wanted[x][y]

LEMMA ItemChanges ==
    ASSUME CartInv, NEW b \in Buyer, NEW i \in Item, NEW k \in Cart, NEW p \in Product, NEW row,
           ItemChange(b, i, k, p, row)
    PROVE  /\ CartTypeOK' /\ ItemsOK'
           /\ \A c \in Cart : cart[c].status # "NONE" => cart'[c].status # "NONE"
           /\ smooth => CartsAgree' /\ PricesAgree'
<1>1. /\ item'[i] = row /\ \A j \in Item \ {i} : item'[j] = item[j]
      /\ \A c : c # k => ItemsOf(c)' = ItemsOf(c) /\ Total(c)' = Total(c)
      /\ ItemsOf(k)' = IF row.quantity > 0 THEN ItemsOf(k) \cup {i} ELSE ItemsOf(k) \ {i}
  <2>1. RowChanges(i, k, row)
    BY DEF ItemChange, RowChanges
  <2> QED
    BY <2>1, OtherCarts
<1> USE DEF ItemChange
<1>2. /\ bill' \in [Buyer -> Bill] /\ bill'[b].stirred
      /\ \A x \in Buyer \ {b} : bill'[x] = bill[x]
  BY Stirred
<1>3. CartTypeOK'
  BY <1>2 DEF CartInv, CartTypeOK
<1>4. ItemsOK'
  <2>1. \A j \in Item : item'[j].quantity > 0 =>
          /\ item'[j].cart \in Cart /\ item'[j].product \in Product
          /\ cart'[item'[j].cart].status # "NONE"
    BY <1>1 DEF CartInv, ItemsOK
  <2>2. ASSUME NEW j \in Item, NEW l \in Item,
               item'[j].quantity > 0, item'[l].quantity > 0,
               item'[j].cart = item'[l].cart, item'[j].product = item'[l].product
        PROVE  j = l
    <3>1. CASE j # i /\ l # i
      BY <1>1, <2>2, <3>1 DEF CartInv, ItemsOK
    <3>2. CASE j = i
      BY <1>1, <2>2, <3>2 DEF ItemsOf
    <3>3. CASE l = i
      BY <1>1, <2>2, <3>3 DEF ItemsOf
    <3> QED
      BY <3>1, <3>2, <3>3
  <2> QED
    BY <2>1, <2>2 DEF ItemsOK
<1>5. ActiveCarts(b)' = ActiveCarts(b) /\ \A x : ActiveCarts(x)' = ActiveCarts(x)
  BY DEF ActiveCarts
<1>6. ASSUME smooth PROVE CartsAgree'
  <2> SUFFICES ASSUME NEW x \in Buyer
               PROVE  /\ \A c, d \in ActiveCarts(x) : c = d
                      /\ ActiveCarts(x) = {} => \A y \in Product : wanted'[x][y] = 0
                      /\ \A c \in ActiveCarts(x) :
                            /\ \A j \in ItemsOf(c)' : item'[j].quantity = wanted'[x][item'[j].product]
                            /\ \A y \in Product : wanted'[x][y] # 0 => \E j \in ItemsOf(c)' : item'[j].product = y
    BY <1>5 DEF CartsAgree
  <2>1. /\ \A c, d \in ActiveCarts(x) : c = d
        /\ ActiveCarts(x) = {} => \A y \in Product : wanted[x][y] = 0
        /\ \A c \in ActiveCarts(x) :
              /\ \A j \in ItemsOf(c) : item[j].quantity = wanted[x][item[j].product]
              /\ \A y \in Product : wanted[x][y] # 0 => \E j \in ItemsOf(c) : item[j].product = y
    BY <1>6 DEF CartInv, CartsAgree
  <2>2. cart[k].status = "ACTIVE" <=> k \in ActiveCarts(b)
    BY <1>6 DEF ActiveCarts
  <2>3. \A c \in ActiveCarts(x) : \A j \in ItemsOf(c) : item[j].product \in Product /\ item[j].cart = c
    BY DEF ItemsOf, CartInv, ItemsOK
  <2>4. CASE k \notin ActiveCarts(x)
    <3>1. \A y \in Product : wanted'[x][y] = wanted[x][y]
      BY <1>6, <2>2, <2>4
    <3>2. ASSUME NEW c \in ActiveCarts(x)
          PROVE  /\ ItemsOf(c)' = ItemsOf(c)
                 /\ \A j \in ItemsOf(c) : item'[j] = item[j]
      <4>1. ItemsOf(c)' = ItemsOf(c)
        BY <1>1, <2>4
      <4>2. i \notin ItemsOf(c)
        BY <2>4 DEF ItemsOf
      <4> QED
        BY <1>1, <4>1, <4>2 DEF ItemsOf
    <3> QED
      BY <2>1, <2>3, <3>1, <3>2
  <2>5. CASE k \in ActiveCarts(x)
    <3>1. x = b /\ cart[k].status = "ACTIVE"
      BY <1>6, <2>5 DEF ActiveCarts
    <3>2. \A y \in Product : wanted'[b][y] = IF y = p THEN row.quantity ELSE wanted[b][y]
      BY <1>6, <3>1
    <3>3. \A c \in ActiveCarts(x) : c = k
      BY <2>1, <2>5
    <3>4. row.quantity \in Nat
      BY DEF ItemRow
    <3>5. ASSUME NEW j \in ItemsOf(k)' PROVE item'[j].quantity = wanted'[b][item'[j].product]
      <4>1. CASE j = i
        BY <1>1, <3>2, <4>1
      <4>2. CASE j # i
        <5>1. j \in ItemsOf(k) /\ item'[j] = item[j] /\ item[j].product # p
          BY <1>1, <4>2 DEF ItemsOf
        <5> QED
          BY <2>1, <2>3, <2>5, <3>1, <3>2, <5>1
      <4> QED
        BY <4>1, <4>2
    <3>6. ASSUME NEW y \in Product, wanted'[b][y] # 0 PROVE \E j \in ItemsOf(k)' : item'[j].product = y
      <4>1. CASE y = p
        BY <1>1, <3>2, <3>4, <3>6, <4>1
      <4>2. CASE y # p
        <5>1. PICK j \in ItemsOf(k) : item[j].product = y
          BY <2>1, <2>5, <3>1, <3>2, <3>6, <4>2
        <5>2. j # i /\ j \in Item
          BY <4>2, <5>1 DEF ItemsOf
        <5> QED
          BY <1>1, <5>1, <5>2
      <4> QED
        BY <4>1, <4>2
    <3> QED
      BY <2>1, <2>5, <3>1, <3>3, <3>5, <3>6
  <2> QED
    BY <2>4, <2>5
<1>7. ASSUME smooth PROVE PricesAgree'
  <2> SUFFICES ASSUME NEW x \in Buyer, ~bill'[x].stirred, bill'[x].quoted > 0, NEW c \in ActiveCarts(x)
               PROVE  ItemsOf(c)' = {} \/ Total(c)' = bill'[x].quoted
    BY <1>5 DEF PricesAgree
  <2>1. x # b /\ bill'[x] = bill[x]
    BY <1>2
  <2>2. c # k
    BY <1>7, <2>1 DEF ActiveCarts
  <2> QED
    BY <1>1, <1>7, <2>1, <2>2 DEF CartInv, PricesAgree
<1> QED
  BY <1>3, <1>4, <1>6, <1>7

LEMMA WriteItemKeeps ==
    ASSUME CartInv, NEW r \in Slot, WriteItem(r)
    PROVE  CartInv' /\ \A x \in Buyer : bill'[x].ordered = bill[x].ordered
<1> DEFINE arg == req[r].arg
<1>1. /\ ~Resting(r) /\ req[r].todo = WriteOn /\ arg \in CartArg
      /\ shelf' = shelf /\ cart' = cart
  BY CartAt DEF WriteItem
<1>2. PICK b \in Buyer, p \in Product, k \in Cart, n \in Nat :
          b = arg.buyer /\ p = arg.product /\ k = arg.cart /\ n = arg.quantity
          /\ n > 0 /\ cart[k].status # "NONE"
  BY <1>1 DEF CartInv, CartFits, Knows, CartArg
<1>3. smooth => /\ cart[k].owner = b /\ cart[k].status = "ACTIVE" /\ k \in ActiveCarts(b)
                /\ arg.item # None =>
                      /\ item[arg.item].cart = k /\ item[arg.item].product = p
                      /\ item[arg.item].quantity = arg.held
  BY <1>1, <1>2 DEF CartInv, CartRead, StillTrue, ActiveCarts
<1> DEFINE kept == [wanted EXCEPT ![b][p] = IF cart[k].status = "ACTIVE" THEN @ + n ELSE @]
<1>4. /\ kept \in [Buyer -> [Product -> Nat]]
      /\ \A x \in Buyer, y \in Product :
            kept[x][y] = IF x = b /\ y = p /\ cart[k].status = "ACTIVE"
                         THEN wanted[b][p] + n ELSE wanted[x][y]
  <2>1. wanted \in [Buyer -> [Product -> Nat]]
    BY DEF CartInv, CartTypeOK
  <2>2. (IF cart[k].status = "ACTIVE" THEN wanted[b][p] + n ELSE wanted[b][p]) \in Nat
    BY <1>2, <2>1
  <2> QED
    BY <1>2, <2>1, <2>2
<1>5. ASSUME Quit(r), UNCHANGED <<item, wanted, bill>> PROVE CartInv'
  BY <1>1, <1>5, CartEnds DEF Quit, CartInv, cartVars
<1>6. ASSUME Advance(r) PROVE req' = [req EXCEPT ![r] = Idle] /\ UNCHANGED smooth
  BY <1>1, <1>6, CartHeads DEF Advance, AdvanceWith, Proceed
<1>7. ASSUME NEW i \in Item, arg.item = None,
             \A j \in ItemsOf(k) : item[j].product # p,
             \A j \in Item : item[j].cart = None <=> j >= i,
             item' = [item EXCEPT ![i] = [cart |-> k, product |-> p, quantity |-> n]],
             wanted' = kept, bill' = Stir({b}), Advance(r)
      PROVE  CartInv'
  <2> DEFINE row == [cart |-> k, product |-> p, quantity |-> n]
  <2>1. row \in ItemRow /\ row.cart = k /\ row.product = p /\ row.quantity = n
    BY DEF ItemRow
  <2>2. item[i].quantity = 0
    <3>1. item[i].cart = None /\ None \notin Cart
      BY <1>7 DEF Item, None, Cart
    <3> QED
      BY <3>1 DEF CartInv, ItemsOK, CartTypeOK, ItemRow
  <2>3. ASSUME smooth PROVE wanted[b][p] = 0
    BY <1>2, <1>3, <1>7, <2>3 DEF CartInv, CartsAgree
  <2>4. smooth => /\ cart[k].owner = b
                  /\ \A x \in Buyer, y \in Product :
                        wanted'[x][y] = IF x = b /\ y = p /\ cart[k].status = "ACTIVE"
                                        THEN row.quantity ELSE wanted[x][y]
    BY <1>3, <1>4, <1>7, <2>1, <2>3
  <2> HIDE DEF row, arg, kept
  <2>5. item' = [item EXCEPT ![i] = row]
    BY <1>7 DEF row
  <2>6. /\ CartTypeOK' /\ ItemsOK'
        /\ \A c \in Cart : cart[c].status # "NONE" => cart'[c].status # "NONE"
        /\ smooth => CartsAgree' /\ PricesAgree'
    <3>1. ItemChange(b, i, k, p, row)
      <4>1. \A j \in ItemsOf(k) : item[j].product = p => j = i
        BY <1>7
      <4>2. wanted' \in [Buyer -> [Product -> Nat]] /\ cart[k].status # "NONE"
        BY <1>2, <1>4, <1>7
      <4>3. /\ item' = [item EXCEPT ![i] = row] /\ shelf' = shelf /\ cart' = cart /\ bill' = Stir({b})
        BY <1>1, <1>7, <2>5
      <4>4. item[i].quantity = 0 \/ (item[i].cart = k /\ item[i].product = p)
        BY <2>2
      <4>5. row \in ItemRow /\ row.cart = k /\ row.product = p
        BY <2>1
      <4> QED
        BY <2>4, <4>1, <4>2, <4>3, <4>4, <4>5, ZenonT(30) DEF ItemChange
    <3> QED
      BY <3>1, ItemChanges
  <2> QED
    BY <1>1, <1>6, <1>7, <2>6, CartWrites
<1>8. ASSUME arg.item # None, item[arg.item].quantity # 0,
             item' = [item EXCEPT ![arg.item].quantity = arg.held + n],
             wanted' = kept, bill' = Stir({b}), Advance(r)
      PROVE  CartInv'
  <2>1. PICK i \in Item : i = arg.item
    BY <1>1, <1>8 DEF CartArg
  <2>2. /\ item[i].quantity > 0 /\ item[i] \in ItemRow
        /\ item[i].cart \in Cart /\ item[i].product \in Product
        /\ cart[item[i].cart].status # "NONE"
    BY <1>8, <2>1 DEF CartInv, ItemsOK, CartTypeOK, ItemRow
  <2> DEFINE row == [item[i] EXCEPT !.quantity = arg.held + n]
  <2>3. /\ row \in ItemRow /\ row.cart = item[i].cart /\ row.product = item[i].product
        /\ row.quantity = arg.held + n /\ arg.held + n \in Nat
    BY <1>1, <2>2 DEF ItemRow, CartArg
  <2>4. \A j \in ItemsOf(item[i].cart) : item[j].product = item[i].product => j = i
    BY <2>2 DEF CartInv, ItemsOK, ItemsOf
  <2>5. ASSUME smooth PROVE item[i].cart = k /\ item[i].product = p /\ wanted[b][p] = arg.held
    <3>1. item[i].cart = k /\ item[i].product = p /\ item[i].quantity = arg.held
      BY <1>3, <1>8, <2>1, <2>5
    <3>2. i \in ItemsOf(k)
      BY <2>2, <3>1 DEF ItemsOf
    <3> QED
      BY <1>3, <2>5, <3>1, <3>2 DEF CartInv, CartsAgree
  <2>6. smooth => /\ cart[item[i].cart].owner = b
                  /\ \A x \in Buyer, y \in Product :
                        wanted'[x][y] = IF x = b /\ y = item[i].product /\ cart[item[i].cart].status = "ACTIVE"
                                        THEN row.quantity ELSE wanted[x][y]
    BY <1>3, <1>4, <1>8, <2>3, <2>5
  <2> HIDE DEF row, kept
  <2>7. item' = [item EXCEPT ![i] = row]
    BY <1>8, <2>1 DEF row
  <2>8. /\ CartTypeOK' /\ ItemsOK'
        /\ \A c \in Cart : cart[c].status # "NONE" => cart'[c].status # "NONE"
        /\ smooth => CartsAgree' /\ PricesAgree'
    <3>1. PICK k2 \in Cart, p2 \in Product : k2 = item[i].cart /\ p2 = item[i].product
      BY <2>2
    <3> HIDE DEF arg
    <3>2. ItemChange(b, i, k2, p2, row)
      BY ZenonT(40), <1>1, <1>4, <1>8, <2>2, <2>3, <2>4, <2>6, <2>7, <3>1 DEF ItemChange
    <3> QED
      BY <3>2, ItemChanges
  <2> HIDE DEF arg
  <2> QED
    BY <1>1, <1>6, <1>8, <2>8, CartWrites
<1>9. \/ Quit(r) /\ UNCHANGED <<item, wanted, bill>>
      \/ /\ arg.item = None /\ \A j \in ItemsOf(k) : item[j].product # p
         /\ \E i \in Item :
               /\ \A j \in Item : item[j].cart = None <=> j >= i
               /\ item' = [item EXCEPT ![i] = [cart |-> k, product |-> p, quantity |-> n]]
               /\ wanted' = kept /\ bill' = Stir({b}) /\ Advance(r)
      \/ /\ arg.item # None /\ item[arg.item].quantity # 0
         /\ item' = [item EXCEPT ![arg.item].quantity = arg.held + n]
         /\ wanted' = kept /\ bill' = Stir({b}) /\ Advance(r)
  BY <1>2 DEF WriteItem, Added
<1>10. CartInv'
  BY <1>5, <1>7, <1>8, <1>9
<1>11. bill' = bill \/ bill' = Stir({b})
  BY <1>9
<1> QED
  BY <1>10, <1>11, Stirred

LEMMA SetItemKeeps ==
    ASSUME CartInv, NEW r \in Slot, SetItem(r)
    PROVE  CartInv' /\ \A x \in Buyer : bill'[x].ordered = bill[x].ordered
<1> DEFINE arg == req[r].arg
<1>1. /\ ~Resting(r) /\ req[r].todo = SetOn /\ arg \in CartArg
      /\ shelf' = shelf /\ cart' = cart
  BY CartAt DEF SetItem
<1>2. PICK b \in Buyer, i \in Item, n \in Nat : b = arg.buyer /\ i = arg.item /\ n = arg.quantity
  BY <1>1 DEF CartInv, CartFits, Knows, CartArg
<1>3. CASE Quit(r) /\ UNCHANGED <<item, wanted, bill>>
  BY <1>1, <1>3, CartEnds DEF Quit, CartInv, cartVars
<1>4. ASSUME item[i].quantity # 0,
             item' = [item EXCEPT ![i].quantity = n],
             wanted' = [wanted EXCEPT ![b][item[i].product] =
                           IF cart[item[i].cart].status = "ACTIVE" THEN n ELSE @],
             bill' = Stir({b}), Advance(r)
      PROVE  CartInv' /\ \A x \in Buyer : bill'[x].ordered = bill[x].ordered
  <2>1. item[i].quantity > 0
    BY <1>4 DEF CartInv, CartTypeOK, ItemRow
  <2>2. PICK k \in Cart, p \in Product :
            k = item[i].cart /\ p = item[i].product /\ cart[k].status # "NONE"
    BY <2>1 DEF CartInv, ItemsOK
  <2>3. smooth => cart[k].owner = b
    BY <1>1, <1>2, <2>2 DEF CartInv, CartRead, StillTrue
  <2> DEFINE row == [item[i] EXCEPT !.quantity = n]
  <2>4. row \in ItemRow /\ row.cart = k /\ row.product = p /\ row.quantity = n
    BY <2>2 DEF CartInv, CartTypeOK, ItemRow
  <2>5. \A j \in ItemsOf(k) : item[j].product = p => j = i
    BY <2>1, <2>2 DEF CartInv, ItemsOK, ItemsOf
  <2>6. /\ wanted' \in [Buyer -> [Product -> Nat]]
        /\ \A x \in Buyer, y \in Product :
              wanted'[x][y] = IF x = b /\ y = p /\ cart[k].status = "ACTIVE" THEN n ELSE wanted[x][y]
    BY <1>4, <2>2 DEF CartInv, CartTypeOK
  <2>7. smooth => /\ cart[k].owner = b
                  /\ \A x \in Buyer, y \in Product :
                        wanted'[x][y] = IF x = b /\ y = p /\ cart[k].status = "ACTIVE"
                                        THEN row.quantity ELSE wanted[x][y]
    BY <2>3, <2>4, <2>6
  <2> HIDE DEF row, arg
  <2>8. item' = [item EXCEPT ![i] = row]
    BY <1>4 DEF row
  <2>9. item[i].quantity = 0 \/ (item[i].cart = k /\ item[i].product = p)
    BY <2>2
  <2>10. /\ CartTypeOK' /\ ItemsOK'
         /\ \A c \in Cart : cart[c].status # "NONE" => cart'[c].status # "NONE"
         /\ smooth => CartsAgree' /\ PricesAgree'
    <3>1. ItemChange(b, i, k, p, row)
      BY <1>1, <1>4, <2>2, <2>4, <2>5, <2>6, <2>7, <2>8, <2>9 DEF ItemChange
    <3> QED
      BY <3>1, ItemChanges
  <2>11. req' = [req EXCEPT ![r] = Idle] /\ UNCHANGED smooth
    BY <1>1, <1>4, CartHeads DEF Advance, AdvanceWith, Proceed
  <2> QED
    BY <1>1, <1>4, <2>10, <2>11, CartWrites, Stirred
<1>5. \/ Quit(r) /\ UNCHANGED <<item, wanted, bill>>
      \/ /\ item[i].quantity # 0
         /\ item' = [item EXCEPT ![i].quantity = n]
         /\ wanted' = [wanted EXCEPT ![b][item[i].product] =
                          IF cart[item[i].cart].status = "ACTIVE" THEN n ELSE @]
         /\ bill' = Stir({b}) /\ Advance(r)
  BY <1>2 DEF SetItem
<1> QED
  BY <1>3, <1>4, <1>5

\* Only a buyer's bill changes: the carts hold what they held.
LEMMA BillChanges ==
    ASSUME CartInv, NEW b \in Buyer, NEW new \in Bill, bill' = [bill EXCEPT ![b] = new],
           shelf' = shelf, cart' = cart, item' = item, wanted' = wanted
    PROVE  /\ bill'[b] = new /\ \A x \in Buyer \ {b} : bill'[x] = bill[x]
           /\ CartTypeOK' /\ ItemsOK'
           /\ \A x : ActiveCarts(x)' = ActiveCarts(x)
           /\ \A c : ItemsOf(c)' = ItemsOf(c) /\ Total(c)' = Total(c)
           /\ smooth => CartsAgree'
<1>1. bill'[b] = new /\ (\A x \in Buyer \ {b} : bill'[x] = bill[x]) /\ bill' \in [Buyer -> Bill]
  BY DEF CartInv, CartTypeOK
<1>2. CartTypeOK' /\ ItemsOK'
  BY <1>1 DEF CartInv, CartTypeOK, ItemsOK
<1>3. /\ \A x : ActiveCarts(x)' = ActiveCarts(x)
      /\ \A c : ItemsOf(c)' = ItemsOf(c) /\ Total(c)' = Total(c)
  BY DEF ActiveCarts, ItemsOf, Total, Cents
<1>4. smooth => CartsAgree'
  BY DEF CartInv, CartsAgree, ActiveCarts, ItemsOf
<1> QED
  BY <1>1, <1>2, <1>3, <1>4

LEMMA QuoteKeeps ==
    ASSUME CartInv, NEW r \in Slot, Quote(r)
    PROVE  CartInv' /\ \A x \in Buyer : bill'[x].ordered = bill[x].ordered
<1> DEFINE arg == req[r].arg
<1>1. /\ ~Resting(r) /\ req[r].todo = QuoteOn /\ arg \in CartArg
      /\ shelf' = shelf /\ cart' = cart /\ item' = item /\ wanted' = wanted
  BY CartAt DEF Quote
<1>2. PICK b \in Buyer, k \in Cart : b = arg.buyer /\ k = arg.cart
  BY <1>1 DEF CartInv, CartFits, Knows, CartArg
<1>3. smooth => k \in ActiveCarts(b)
  BY <1>1, <1>2 DEF CartInv, CartRead, StillTrue
<1>4. CASE Quit(r) /\ UNCHANGED bill
  BY <1>1, <1>4, CartEnds DEF Quit, CartInv, cartVars
<1> DEFINE new == [bill[b] EXCEPT !.quoted = Total(k), !.stirred = FALSE]
<1>5. ASSUME bill' = [bill EXCEPT ![b] = new], Advance(r)
      PROVE  CartInv' /\ \A x \in Buyer : bill'[x].ordered = bill[x].ordered
  <2>1. bill[b] \in Bill /\ Total(k) \in Nat
    BY TotalIsNat DEF CartInv, CartTypeOK
  <2>2. new \in Bill /\ new.quoted = Total(k) /\ new.ordered = bill[b].ordered
    BY <2>1 DEF Bill
  <2> HIDE DEF new, arg
  <2>3. /\ bill'[b] = new /\ \A x \in Buyer \ {b} : bill'[x] = bill[x]
        /\ CartTypeOK' /\ ItemsOK'
        /\ \A x : ActiveCarts(x)' = ActiveCarts(x)
        /\ \A c : ItemsOf(c)' = ItemsOf(c) /\ Total(c)' = Total(c)
        /\ smooth => CartsAgree'
    BY <1>1, <1>5, <2>2, BillChanges
  <2>4. ASSUME smooth PROVE PricesAgree'
    <3> SUFFICES ASSUME NEW x \in Buyer, ~bill'[x].stirred, bill'[x].quoted > 0, NEW c \in ActiveCarts(x)
                 PROVE  ItemsOf(c) = {} \/ Total(c) = bill'[x].quoted
      BY <2>3 DEF PricesAgree
    <3>1. CASE x = b
      <4>1. c = k
        BY <1>3, <2>4, <3>1 DEF CartInv, CartsAgree
      <4> QED
        BY <2>2, <2>3, <3>1, <4>1
    <3>2. CASE x # b
      BY <2>3, <2>4, <3>2 DEF CartInv, PricesAgree
    <3> QED
      BY <3>1, <3>2
  <2>5. req' = [req EXCEPT ![r] = Idle] /\ UNCHANGED smooth
    BY <1>1, <1>5, CartHeads DEF Advance, AdvanceWith, Proceed
  <2>6. \A x \in Buyer : bill'[x].ordered = bill[x].ordered
    BY <2>2, <2>3
  <2> QED
    BY <1>1, <2>3, <2>4, <2>5, <2>6, CartWrites
<1>6. \/ Quit(r) /\ UNCHANGED bill
      \/ bill' = [bill EXCEPT ![b] = new] /\ Advance(r)
  BY <1>2 DEF Quote, PriceOf
<1> QED
  BY <1>4, <1>5, <1>6

LEMMA CaptureKeeps ==
    ASSUME CartInv, NEW r \in Slot, Capture(r)
    PROVE  CartInv' /\ \A x \in Buyer : bill'[x].ordered # 0 => bill'[x].ordered = bill[x].ordered
<1> DEFINE arg == req[r].arg
<1>1. /\ ~Resting(r) /\ req[r].todo = CaptureOn /\ arg \in CartArg
      /\ shelf' = shelf /\ cart' = cart /\ item' = item /\ wanted' = wanted
  BY CartAt DEF Capture
<1>2. PICK b \in Buyer : b = arg.buyer
  BY <1>1 DEF CartArg
<1>4. CASE Quit(r) /\ UNCHANGED bill
  BY <1>1, <1>4, CartEnds DEF Quit, CartInv, cartVars
<1> DEFINE new == [bill[b] EXCEPT !.paid = bill[b].quoted, !.quoted = 0, !.ordered = 0]
<1>5. ASSUME bill[b].quoted # 0, bill' = [bill EXCEPT ![b] = new], Advance(r)
      PROVE  CartInv' /\ \A x \in Buyer : bill'[x].ordered # 0 => bill'[x].ordered = bill[x].ordered
  <2>1. bill[b] \in Bill /\ bill[b].quoted > 0
    BY <1>5 DEF CartInv, CartTypeOK, Bill
  <2>2. /\ new \in Bill /\ new.paid = bill[b].quoted /\ new.quoted = 0 /\ new.ordered = 0
        /\ new.stirred = bill[b].stirred
    BY <2>1 DEF Bill
  <2> DEFINE moved == [todo |-> CheckoutOn, arg |-> arg]
  <2>3. req' = [req EXCEPT ![r] = moved] /\ UNCHANGED smooth
    BY <1>1, <1>5, CartHeads DEF Advance, AdvanceWith, Proceed
  <2>4. moved \in CartUnderway /\ moved.todo = CheckoutOn /\ moved.arg = arg
    BY <1>1 DEF CartUnderway, CartPlans
  <2> HIDE DEF new, moved
  <2>5. /\ req'[r] = moved /\ \A q \in Slot \ {r} : req'[q] = req[q]
        /\ req' \in [Slot -> {Idle} \cup CartUnderway]
    BY <2>3, <2>4 DEF CartInv
  <2>6. /\ bill'[b] = new /\ \A x \in Buyer \ {b} : bill'[x] = bill[x]
        /\ CartTypeOK' /\ ItemsOK'
        /\ \A x : ActiveCarts(x)' = ActiveCarts(x)
        /\ \A c : ItemsOf(c)' = ItemsOf(c) /\ Total(c)' = Total(c)
        /\ smooth => CartsAgree'
    <3> HIDE DEF arg
    <3> QED
      BY <1>1, <1>5, <2>2, BillChanges
  <2>7. ASSUME smooth PROVE PricesAgree'
    <3> SUFFICES ASSUME NEW x \in Buyer, ~bill'[x].stirred, bill'[x].quoted > 0, NEW c \in ActiveCarts(x)
                 PROVE  ItemsOf(c) = {} \/ Total(c) = bill'[x].quoted
      BY <2>6 DEF PricesAgree
    <3>1. x # b
      BY <2>2, <2>6
    <3> QED
      BY <2>6, <2>7, <3>1 DEF CartInv, PricesAgree
  <2>8. CartFits(r)'
    BY <2>4, <2>5, PlansDiffer DEF CartFits, Knows
  <2>9. ASSUME smooth PROVE CartRead(r)'
    <3>1. req'[r].todo = CheckoutOn /\ req'[r].arg.buyer = b
      BY <1>2, <2>4, <2>5
    <3>2. ~bill'[b].stirred => \A c \in ActiveCarts(b) : ItemsOf(c) = {} \/ Total(c) = bill'[b].paid
      BY <2>1, <2>2, <2>6, <2>9 DEF CartInv, PricesAgree
    <3>3. ~bill'[b].stirred => \A c \in ActiveCarts(b)' : ItemsOf(c)' = {} \/ Total(c)' = bill'[b].paid
      BY <2>6, <3>2
    <3> QED
      BY <3>1, <3>3, PlansDiffer DEF CartRead, StillTrue
  <2>10. \A x \in Buyer : bill'[x].ordered # 0 => bill'[x].ordered = bill[x].ordered
    BY <2>2, <2>6
  <2>11. smooth' \in BOOLEAN /\ StillAlone(r)
    BY <1>1, <2>3, CartStepAlone
  <2> QED
    BY <1>1, <2>3, <2>5, <2>6, <2>7, <2>8, <2>9, <2>10, <2>11, CartMoves
<1>6. \/ Quit(r) /\ UNCHANGED bill
      \/ bill[b].quoted # 0 /\ bill' = [bill EXCEPT ![b] = new] /\ Advance(r)
  <2>1. \/ Quit(r) /\ UNCHANGED bill
        \/ /\ bill[b].quoted # 0 /\ Advance(r)
           /\ bill' = [bill EXCEPT ![b].paid = bill[b].quoted, ![b].quoted = 0, ![b].ordered = 0]
    BY <1>2 DEF Capture
  <2>2. bill \in [Buyer -> Bill]
    BY DEF CartInv, CartTypeOK
  <2>3. [bill EXCEPT ![b].paid = bill[b].quoted, ![b].quoted = 0, ![b].ordered = 0]
         = [bill EXCEPT ![b] = new]
    BY <2>2 DEF Bill
  <2> QED
    BY <2>1, <2>3
<1> QED
  BY <1>4, <1>5, <1>6

LEMMA CheckoutKeeps ==
    ASSUME CartInv, NEW r \in Slot, Checkout(r)
    PROVE  CartInv'
<1> DEFINE arg == req[r].arg
<1>1. /\ ~Resting(r) /\ req[r].todo = CheckoutOn /\ arg \in CartArg /\ UNCHANGED cartVars
  BY CartAt DEF Checkout
<1>2. CASE Quit(r)
  BY <1>1, <1>2, CartEnds DEF Quit, CartInv
<1>3. ASSUME NEW c \in ActiveCarts(arg.buyer), ItemsOf(c) # {},
             AdvanceWith(r, WithTotal(arg, c, Total(c)))
      PROVE  CartInv'
  <2> DEFINE given == WithTotal(arg, c, Total(c))
  <2>1. c \in Cart /\ cart[c].status # "NONE" /\ Total(c) \in Nat
    BY TotalIsNat DEF ActiveCarts, CartInv
  <2>2. req' = [req EXCEPT ![r] = [todo |-> ConvertOn, arg |-> given]] /\ UNCHANGED smooth
    BY <1>1, <1>3, CartHeads DEF AdvanceWith, Proceed
  <2>3. /\ given \in CartArg /\ given.cart = c /\ given.held = Total(c)
        /\ given.buyer = arg.buyer /\ given.paid = arg.paid
    BY <1>1, <2>1, WithTyped
  <2>4. ASSUME smooth, arg.paid, ~bill[arg.buyer].stirred PROVE Total(c) = bill[arg.buyer].paid
    BY <1>1, <1>3, <2>4 DEF CartInv, CartRead, StillTrue
  <2> HIDE DEF given
  <2>5. Knows(ConvertOn, given) /\ (smooth' => StillTrue(ConvertOn, given))
    <3>1. c \in ActiveCarts(arg.buyer)
      BY <1>3
    <3>2. Knows(ConvertOn, given)
      BY <2>1, <2>3, PlansDiffer DEF Knows
    <3> HIDE DEF arg
    <3>3. smooth' => StillTrue(ConvertOn, given)
      BY <2>2, <2>3, <2>4, <3>1, PlansDiffer DEF StillTrue
    <3> QED
      BY <3>2, <3>3
  <2>6. ConvertOn \in CartPlans
    BY DEF CartPlans
  <2> QED
    BY <1>1, <2>2, <2>3, <2>5, <2>6, CartStepAlone, CartReads
<1> QED
  BY <1>2, <1>3 DEF Checkout, WithTotal

\* What PaidIsOrdered says of a step.
PaidOrdered ==
    \A b \in Buyer :
        smooth' /\ ~bill[b].stirred /\ bill[b].ordered = 0 /\ bill'[b].ordered # 0
            => bill'[b].ordered = bill'[b].paid

LEMMA ConvertKeeps ==
    ASSUME CartInv, NEW r \in Slot, Convert(r)
    PROVE  CartInv' /\ PaidOrdered
<1> DEFINE arg == req[r].arg
<1>1. /\ ~Resting(r) /\ req[r].todo = ConvertOn /\ arg \in CartArg
      /\ shelf' = shelf /\ item' = item /\ Advance(r)
  BY CartAt DEF Convert
<1>2. PICK b \in Buyer, k \in Cart : b = arg.buyer /\ k = arg.cart
  BY <1>1 DEF CartInv, CartFits, Knows, CartArg
<1>3. smooth => /\ k \in ActiveCarts(b)
                /\ arg.paid /\ ~bill[b].stirred => arg.held = bill[b].paid
  BY <1>1, <1>2 DEF CartInv, CartRead, StillTrue
<1>4. /\ cart' = [cart EXCEPT ![k].status = "CONVERTED"]
      /\ bill' = [bill EXCEPT ![b].ordered = IF arg.paid THEN arg.held ELSE @]
      /\ wanted' = [wanted EXCEPT ![b] = [p \in Product |-> 0]]
  BY <1>2 DEF Convert
<1>5. /\ cart' \in [Cart -> CartRow] /\ cart'[k].status = "CONVERTED"
      /\ \A c \in Cart \ {k} : cart'[c] = cart[c]
  BY <1>4 DEF CartInv, CartTypeOK, CartRow, CartStatus
<1>6. /\ bill' \in [Buyer -> Bill]
      /\ \A x \in Buyer : /\ bill'[x].quoted = bill[x].quoted /\ bill'[x].paid = bill[x].paid
                          /\ bill'[x].stirred = bill[x].stirred
                          /\ x # b => bill'[x].ordered = bill[x].ordered
      /\ bill'[b].ordered = IF arg.paid THEN arg.held ELSE bill[b].ordered
  <2>1. arg.held \in Nat /\ bill \in [Buyer -> Bill]
    BY <1>1 DEF CartArg, CartInv, CartTypeOK
  <2> DEFINE n == IF arg.paid THEN arg.held ELSE bill[b].ordered
             new == [bill[b] EXCEPT !.ordered = n]
  <2>2. n \in Nat
    BY <2>1 DEF Bill
  <2>3. bill' = [bill EXCEPT ![b] = new]
    BY <1>4, <2>1
  <2> HIDE DEF n
  <2>4. /\ new \in Bill /\ new.quoted = bill[b].quoted /\ new.paid = bill[b].paid
        /\ new.stirred = bill[b].stirred /\ new.ordered = n
    BY <2>1, <2>2 DEF Bill
  <2> HIDE DEF new
  <2>5. bill'[b] = new /\ (\A x \in Buyer \ {b} : bill'[x] = bill[x]) /\ bill' \in [Buyer -> Bill]
    BY <2>1, <2>3, <2>4
  <2> QED
    BY <2>4, <2>5 DEF n
<1>7. /\ wanted' \in [Buyer -> [Product -> Nat]]
      /\ \A p \in Product : wanted'[b][p] = 0
      /\ \A x \in Buyer \ {b} : wanted'[x] = wanted[x]
  BY <1>4 DEF CartInv, CartTypeOK
<1>8. PaidOrdered
  <2>1. smooth' => smooth
    BY <1>1 DEF Advance, AdvanceWith, Proceed
  <2> HIDE DEF arg
  <2> QED
    BY <1>3, <1>6, <2>1 DEF PaidOrdered
<1> HIDE DEF arg
<1>9. CartTypeOK' /\ ItemsOK' /\ \A c \in Cart : cart[c].status # "NONE" => cart'[c].status # "NONE"
  <2>1. \A c \in Cart : cart[c].status # "NONE" => cart'[c].status # "NONE"
    BY <1>5
  <2>2. CartTypeOK'
    BY <1>1, <1>5, <1>6, <1>7 DEF CartInv, CartTypeOK
  <2>3. ItemsOK'
    BY <1>1, <2>1 DEF CartInv, ItemsOK
  <2> QED
    BY <2>1, <2>2, <2>3
<1>10. \A c : ItemsOf(c)' = ItemsOf(c) /\ Total(c)' = Total(c)
  BY <1>1 DEF ItemsOf, Total, Cents
<1>11. ASSUME smooth
       PROVE  ActiveCarts(b)' = {} /\ \A x \in Buyer \ {b} : ActiveCarts(x)' = ActiveCarts(x)
  <2>1. cart[k].owner = b /\ \A c \in ActiveCarts(b) : c = k
    BY <1>3, <1>11 DEF CartInv, CartsAgree, ActiveCarts
  <2>2. cart'[k].owner = b /\ cart'[k].status # "ACTIVE"
    BY <1>4, <1>5, <2>1 DEF CartInv, CartTypeOK, CartRow
  <2>3. ActiveCarts(b)' = {}
    <3>1. ASSUME NEW c \in Cart, cart'[c].owner = b, cart'[c].status = "ACTIVE" PROVE FALSE
      <4>1. c # k
        BY <2>2, <3>1
      <4>2. c \in ActiveCarts(b)
        BY <1>5, <3>1, <4>1 DEF ActiveCarts
      <4> QED
        BY <2>1, <4>1, <4>2
    <3> QED
      BY <3>1 DEF ActiveCarts
  <2>4. ASSUME NEW x \in Buyer \ {b}, NEW c \in Cart
        PROVE  cart'[c].owner = x /\ cart'[c].status = "ACTIVE" <=> cart[c].owner = x /\ cart[c].status = "ACTIVE"
    <3>1. CASE c = k
      BY <2>1, <2>2, <3>1
    <3>2. CASE c # k
      BY <1>5, <3>2
    <3> QED
      BY <3>1, <3>2
  <2>5. \A x \in Buyer \ {b} : ActiveCarts(x)' = ActiveCarts(x)
    BY <2>4 DEF ActiveCarts
  <2> QED
    BY <2>3, <2>5
<1>12. ASSUME smooth PROVE CartsAgree' /\ PricesAgree'
  <2>1. CartsAgree'
    <3> SUFFICES ASSUME NEW x \in Buyer
                 PROVE  /\ \A e, d \in ActiveCarts(x)' : e = d
                        /\ ActiveCarts(x)' = {} => \A p \in Product : wanted'[x][p] = 0
                        /\ \A e \in ActiveCarts(x)' :
                              /\ \A i \in ItemsOf(e) : item[i].quantity = wanted'[x][item[i].product]
                              /\ \A p \in Product : wanted'[x][p] # 0 => \E i \in ItemsOf(e) : item[i].product = p
      BY <1>1, <1>10 DEF CartsAgree
    <3>1. CASE x = b
      BY <1>7, <1>11, <1>12, <3>1
    <3>2. CASE x # b
      BY <1>7, <1>11, <1>12, <3>2 DEF CartInv, CartsAgree
    <3> QED
      BY <3>1, <3>2
  <2>2. PricesAgree'
    <3> SUFFICES ASSUME NEW x \in Buyer, ~bill[x].stirred, bill[x].quoted > 0, NEW c \in ActiveCarts(x)'
                 PROVE  ItemsOf(c) = {} \/ Total(c) = bill[x].quoted
      BY <1>6, <1>10 DEF PricesAgree
    <3> QED
      BY <1>11, <1>12 DEF CartInv, PricesAgree
  <2> QED
    BY <2>1, <2>2
<1>13. req' = [req EXCEPT ![r] = Idle] /\ UNCHANGED smooth
  BY <1>1, CartHeads DEF Advance, AdvanceWith, Proceed
<1> QED
  BY <1>1, <1>8, <1>9, <1>12, <1>13, CartWrites

---------------------------------------------------------------------------
(* Products change; requests fail.                                         *)

LEMMA EditProductKeeps ==
    ASSUME CartInv, NEW p \in Product, EditProduct(p)
    PROVE  CartInv' /\ \A x \in Buyer : bill'[x].ordered = bill[x].ordered
<1>1. /\ req' = req /\ cart' = cart /\ item' = item /\ wanted' = wanted
      /\ smooth' \in BOOLEAN
      /\ smooth' => smooth /\ \A r \in Slot : Resting(r)
  <2>1. /\ req' = req /\ cart' = cart /\ item' = item /\ wanted' = wanted
        /\ smooth' = (smooth /\ AllRest)
    BY DEF EditProduct, AtOnce, Count
  <2>2. smooth \in BOOLEAN
    BY DEF CartInv
  <2> QED
    BY <2>1, <2>2 DEF AllRest
<1>2. /\ shelf' \in [Product -> Shelf] /\ bill' \in [Buyer -> Bill]
      /\ \A x \in Buyer :
            /\ bill'[x].ordered = bill[x].ordered /\ bill'[x].quoted = bill[x].quoted
            /\ ~bill'[x].stirred =>
                  ~bill[x].stirred /\ \A y \in Product : shelf'[y].price = shelf[y].price
  <2>1. shelf \in [Product -> Shelf] /\ bill \in [Buyer -> Bill]
    BY DEF CartInv, CartTypeOK
  <2>2. CASE shelf' = [shelf EXCEPT ![p].suspended = ~@] /\ UNCHANGED bill
    <3>1. /\ [shelf[p] EXCEPT !.suspended = ~shelf[p].suspended] \in Shelf
          /\ [shelf[p] EXCEPT !.suspended = ~shelf[p].suspended].price = shelf[p].price
      BY <2>1, ZenonT(30) DEF Shelf
    <3>2. shelf' = [shelf EXCEPT ![p] = [shelf[p] EXCEPT !.suspended = ~shelf[p].suspended]]
      BY <2>2
    <3> DEFINE new == [shelf[p] EXCEPT !.suspended = ~shelf[p].suspended]
    <3>3. new \in Shelf /\ new.price = shelf[p].price /\ shelf' = [shelf EXCEPT ![p] = new]
      BY <3>1, <3>2
    <3> HIDE DEF new
    <3>4. shelf' \in [Product -> Shelf] /\ \A y \in Product : shelf'[y].price = shelf[y].price
      BY <2>1, <3>3
    <3> QED
      BY <2>1, <2>2, <3>4
  <2>3. ASSUME NEW row \in Shelf, shelf' = [shelf EXCEPT ![p] = row],
               bill' = IF row.price # shelf[p].price THEN Stir(Buyer) ELSE bill
        PROVE  /\ shelf' \in [Product -> Shelf] /\ bill' \in [Buyer -> Bill]
               /\ \A x \in Buyer :
                     /\ bill'[x].ordered = bill[x].ordered /\ bill'[x].quoted = bill[x].quoted
                     /\ ~bill'[x].stirred =>
                           ~bill[x].stirred /\ \A y \in Product : shelf'[y].price = shelf[y].price
    <3>1. shelf' \in [Product -> Shelf] /\ shelf'[p] = row /\ \A y \in Product \ {p} : shelf'[y] = shelf[y]
      BY <2>1, <2>3
    <3>2. CASE row.price = shelf[p].price
      <4>1. bill' = bill /\ \A y \in Product : shelf'[y].price = shelf[y].price
        BY <2>3, <3>1, <3>2
      <4> QED
        BY <2>1, <3>1, <4>1
    <3>3. CASE row.price # shelf[p].price
      <4>1. bill' = [x \in Buyer |-> [bill[x] EXCEPT !.stirred = TRUE]]
        BY <2>3, <3>3 DEF Stir
      <4>2. /\ bill' \in [Buyer -> Bill]
            /\ \A x \in Buyer : /\ bill'[x].ordered = bill[x].ordered
                                /\ bill'[x].quoted = bill[x].quoted /\ bill'[x].stirred
        BY <2>1, <4>1 DEF Bill
      <4> QED
        BY <3>1, <4>2
    <3> QED
      BY <3>2, <3>3
  <2> QED
    BY <2>2, <2>3 DEF EditProduct
<1>3. CartTypeOK' /\ ItemsOK'
  BY <1>1, <1>2 DEF CartInv, CartTypeOK, ItemsOK
<1>4. \A r \in Slot : CartFits(r)'
  BY <1>1 DEF CartInv, CartFits, Knows, Resting
<1>5. /\ \A x : ActiveCarts(x)' = ActiveCarts(x)
      /\ \A c : ItemsOf(c)' = ItemsOf(c)
  BY <1>1 DEF ActiveCarts, ItemsOf
<1>6. ASSUME smooth' PROVE CartsAgree' /\ PricesAgree' /\ Alone' /\ \A r \in Slot : CartRead(r)'
  <2>1. CartsAgree /\ PricesAgree /\ Alone
    BY <1>1, <1>6 DEF CartInv
  <2>2. CartsAgree'
    BY <1>1, <1>5, <2>1 DEF CartsAgree
  <2>3. PricesAgree'
    <3> SUFFICES ASSUME NEW x \in Buyer, ~bill'[x].stirred, bill'[x].quoted > 0,
                        NEW c \in ActiveCarts(x), ItemsOf(c) # {}
                 PROVE  Total(c)' = bill'[x].quoted
      BY <1>5 DEF PricesAgree
    <3>1. Total(c) = bill[x].quoted
      BY <1>2, <2>1 DEF PricesAgree
    <3>2. \A i \in ItemsOf(c) : item[i].product \in Product
      BY DEF CartInv, ItemsOK, ItemsOf
    <3>3. Total(c)' = Total(c)
      BY <1>1, <1>2, <1>5, <3>2, TotalStays
    <3> QED
      BY <1>2, <3>1, <3>3
  <2>4. Alone' /\ \A r \in Slot : CartRead(r)'
    BY <1>1, <1>6 DEF Alone, CartRead, Resting
  <2> QED
    BY <2>2, <2>3, <2>4
<1>7. req' \in [Slot -> {Idle} \cup CartUnderway]
  BY <1>1 DEF CartInv
<1>8. CartInv'
  <2>1. smooth' \in BOOLEAN
    BY <1>1
  <2>2. smooth' => Alone' /\ CartsAgree' /\ PricesAgree' /\ \A r \in Slot : CartRead(r)'
    BY <1>6
  <2> QED
    BY <1>3, <1>4, <1>7, <2>1, <2>2 DEF CartInv
<1> QED
  BY <1>2, <1>8

LEMMA CartStepKeeps ==
    ASSUME CartInv, NEW r \in Slot, CartStep(r)
    PROVE  CartInv' /\ PaidOrdered
<1>1. CASE FindCart(r) \/ CreateCart(r) \/ FindItem(r) \/ Checkout(r)
  <2>1. CartInv'
    BY <1>1, FindCartKeeps, CreateCartKeeps, FindItemKeeps, CheckoutKeeps
  <2>2. bill' = bill
    BY <1>1 DEF FindCart, CreateCart, FindItem, Checkout, cartVars
  <2> QED
    BY <2>1, <2>2 DEF PaidOrdered
<1>2. CASE WriteItem(r) \/ SetItem(r) \/ Quote(r)
  <2>1. CartInv' /\ \A x \in Buyer : bill'[x].ordered = bill[x].ordered
    BY <1>2, WriteItemKeeps, SetItemKeeps, QuoteKeeps
  <2> QED
    BY <2>1 DEF PaidOrdered
<1>3. CASE Capture(r)
  BY <1>3, CaptureKeeps DEF PaidOrdered
<1>4. CASE Convert(r)
  BY <1>4, ConvertKeeps
<1> QED
  BY <1>1, <1>2, <1>3, <1>4 DEF CartStep

LEMMA CartSteps ==
    ASSUME CartInv, [CartNext]_<<reqVars, cartVars>>
    PROVE  CartInv' /\ PaidOrdered
<1>1. ASSUME NEW r \in Slot, StartCart(r), UNCHANGED cartVars PROVE CartInv' /\ PaidOrdered
  <2>1. bill' = bill
    BY <1>1 DEF cartVars
  <2> QED
    BY <1>1, <2>1, StartCartKeeps DEF PaidOrdered
<1>2. ASSUME NEW r \in Slot, Break(r), UNCHANGED cartVars PROVE CartInv' /\ PaidOrdered
  <2>1. bill' = bill
    BY <1>2 DEF cartVars
  <2>2. ~Resting(r) /\ req' = [req EXCEPT ![r] = Idle] /\ smooth' = FALSE
    BY <1>2 DEF Break
  <2>3. smooth' \in BOOLEAN /\ (smooth' => smooth)
    BY <2>2
  <2>4. CartInv'
    BY <1>2, <2>2, <2>3, CartEnds
  <2> QED
    BY <2>1, <2>4 DEF PaidOrdered
<1>3. ASSUME NEW p \in Product, EditProduct(p) PROVE CartInv' /\ PaidOrdered
  BY <1>3, EditProductKeeps DEF PaidOrdered
<1>4. CASE UNCHANGED <<reqVars, cartVars>>
  <2>1. /\ req' = req /\ smooth' = smooth
        /\ shelf' = shelf /\ cart' = cart /\ item' = item /\ wanted' = wanted /\ bill' = bill
    BY <1>4 DEF reqVars, cartVars
  <2>2. CartTypeOK' /\ ItemsOK' /\ \A r \in Slot : CartFits(r)'
    BY <2>1 DEF CartInv, CartTypeOK, ItemsOK, CartFits, Knows, Resting
  <2>3. smooth => Alone' /\ CartsAgree' /\ PricesAgree' /\ \A r \in Slot : CartRead(r)'
    <3>1. /\ \A b : ActiveCarts(b)' = ActiveCarts(b)
          /\ \A c : ItemsOf(c)' = ItemsOf(c) /\ Total(c)' = Total(c)
      BY <2>1 DEF ActiveCarts, ItemsOf, Total, Cents
    <3>2. Alone => Alone'
      BY <2>1 DEF Alone, Resting
    <3>3. CartsAgree => CartsAgree'
      BY <2>1, <3>1 DEF CartsAgree
    <3>4. PricesAgree => PricesAgree'
      BY <2>1, <3>1 DEF PricesAgree
    <3>5. ASSUME NEW todo, NEW arg, StillTrue(todo, arg) PROVE StillTrue(todo, arg)'
      BY <2>1, <3>1, <3>5 DEF StillTrue
    <3>6. ASSUME NEW r \in Slot, CartRead(r) PROVE CartRead(r)'
      BY <2>1, <3>5, <3>6 DEF CartRead, Resting
    <3> QED
      BY <3>2, <3>3, <3>4, <3>6 DEF CartInv
  <2>4. CartInv'
    BY <2>1, <2>2, <2>3 DEF CartInv
  <2> QED
    BY <2>1, <2>4 DEF PaidOrdered
<1>5. ASSUME NEW r \in Slot, CartStep(r) PROVE CartInv' /\ PaidOrdered
  BY <1>5, CartStepKeeps
<1> QED
  BY <1>1, <1>2, <1>3, <1>4, <1>5 DEF CartNext

LEMMA CartHeld == CartInv => CartHoldsWhatWasAdded
<1> SUFFICES ASSUME CartInv, smooth, NEW b \in Buyer
             PROVE  /\ Cardinality(ActiveCarts(b)) <= 1
                    /\ \A c \in ActiveCarts(b), p \in Product :
                          LET held == {i \in ItemsOf(c) : item[i].product = p}
                          IN IF wanted[b][p] = 0 THEN held = {}
                             ELSE \E i \in held : held = {i} /\ item[i].quantity = wanted[b][p]
  BY DEF CartHoldsWhatWasAdded
<1>1. /\ \A c, d \in ActiveCarts(b) : c = d
      /\ \A c \in ActiveCarts(b) :
            /\ \A i \in ItemsOf(c) : item[i].quantity = wanted[b][item[i].product]
            /\ \A p \in Product : wanted[b][p] # 0 => \E i \in ItemsOf(c) : item[i].product = p
  BY DEF CartInv, CartsAgree
<1>2. Cardinality(ActiveCarts(b)) <= 1
  <2>1. CASE ActiveCarts(b) = {}
    BY <2>1, FS_EmptySet
  <2>2. CASE ActiveCarts(b) # {}
    <3>1. PICK c \in ActiveCarts(b) : TRUE
      BY <2>2
    <3>2. ActiveCarts(b) = {c}
      BY <1>1, <3>1
    <3>3. Cardinality(ActiveCarts(b)) = 1
      BY <3>2, FS_Singleton
    <3> QED
      BY <3>3
  <2> QED
    BY <2>1, <2>2
<1>3. ASSUME NEW c \in ActiveCarts(b), NEW p \in Product
      PROVE  LET held == {i \in ItemsOf(c) : item[i].product = p}
             IN IF wanted[b][p] = 0 THEN held = {}
                ELSE \E i \in held : held = {i} /\ item[i].quantity = wanted[b][p]
  <2> DEFINE held == {i \in ItemsOf(c) : item[i].product = p}
  <2>1. CASE wanted[b][p] = 0
    <3>1. \A i \in ItemsOf(c) : item[i].quantity > 0
      BY DEF ItemsOf
    <3>2. \A i \in ItemsOf(c) : item[i].product = p => item[i].quantity = wanted[b][p]
      BY <1>1
    <3>3. held = {}
      BY <2>1, <3>1, <3>2
    <3> QED
      BY <2>1, <3>3
  <2>2. CASE wanted[b][p] # 0
    <3>1. PICK i \in ItemsOf(c) : item[i].product = p
      BY <1>1, <2>2
    <3>2. item[i].quantity = wanted[b][p]
      BY <1>1, <3>1
    <3>3. \A j \in ItemsOf(c) : item[j].product = p => j = i
      BY <3>1 DEF ItemsOf, CartInv, ItemsOK
    <3>4. i \in held /\ held = {i}
      BY <3>1, <3>3
    <3> QED
      BY <2>2, <3>2, <3>4
  <2> QED
    BY <2>1, <2>2
<1> QED
  BY <1>2, <1>3

\* However requests overlap, fail and are repeated before, a buyer whose
\* requests do neither has one active cart, with one row for each product that
\* the answers promised, of the promised quantity (CartService).
THEOREM CartHoldsIt == CartSpec => []CartHoldsWhatWasAdded
<1>1. ReqInit /\ CartInit => CartInv
  BY CartStarts
<1>2. CartInv /\ [CartNext]_<<reqVars, cartVars>> => CartInv'
  BY CartSteps
<1>3. CartInv => CartHoldsWhatWasAdded
  BY CartHeld
<1> QED
  BY <1>1, <1>2, <1>3, PTL DEF CartSpec

\* The amount PayPal has captured is the amount of the orders the checkout
\* makes, unless the cart or a price has changed in between (createCheckoutOrder,
\* captureCheckoutOrder).
THEOREM PaidIsWhatIsOrdered == CartSpec => PaidIsOrdered
<1> DEFINE vars == <<reqVars, cartVars>>
<1>1. ReqInit /\ CartInit => CartInv
  BY CartStarts
<1>2. CartInv /\ [CartNext]_vars => CartInv'
  BY CartSteps
<1>3. CartInv /\ [CartNext]_vars =>
          [\A b \in Buyer :
              smooth' /\ ~bill[b].stirred /\ bill[b].ordered = 0 /\ bill'[b].ordered # 0
                  => bill'[b].ordered = bill'[b].paid]_vars
  BY CartSteps DEF PaidOrdered
<1> QED
  BY <1>1, <1>2, <1>3, PTL DEF CartSpec, PaidIsOrdered

---------------------------------------------------------------------------
(* Reviews, reports and the rest.                                          *)

\* What the requests of these services may have left to do.
ToReview == <<"insert", "tellSeller">>
ToOpen == <<"insert", "log">>
ToModerate == <<"set", "log">>
ToReport == <<"insertReport", "findAdmins", "tellAdmins">>
ToRate == <<"rate">>
ToRetire == <<"retire">>
ToLike == <<"insertFavorite">>
ToUnlike == <<"dropFavorite">>
ToRead == <<"markRead">>
ToDrop == <<"dropNotice">>
TellSellerOn == <<"tellSeller">>
LogOn == <<"log">>
FindAdminsOn == <<"findAdmins", "tellAdmins">>
TellAdminsOn == <<"tellAdmins">>

Tellings == {TellSellerOn, FindAdminsOn, TellAdminsOn}

ComPlans == {ToReview, ToOpen, ToModerate, ToReport, ToRate, ToRetire, ToLike, ToUnlike, ToRead,
             ToDrop, LogOn} \cup Tellings

ComArg == [entity : Entity \cup {NoArgs}, value : Value, previous : Value,
           rating : Rating \cup {0}, admins : SUBSET Admin, member : Member \cup {NoArgs},
           thing : Thing \cup {NoArgs}, notice : Nat]

ComUnderway == [todo : ComPlans, arg : ComArg]

\* Requests that have yet to tell of e, and to log what they did to it.
Telling(r) == ~Resting(r) /\ req[r].todo \in Tellings
Announcing(e) == \E r \in Slot : Telling(r) /\ req[r].arg.entity = e
Logs(r) == ~Resting(r) /\ req[r].todo = LogOn
Logging(e) == \E r \in Slot : Logs(r) /\ req[r].arg.entity = e

\* No two requests have the same news to tell.
OneTells ==
    \A r, q \in Slot :
        Telling(r) /\ Telling(q) /\ req[r].arg.entity = req[q].arg.entity => r = q

\* Nobody has been told of what is not there, nor twice.
NewsOnce ==
    /\ \A n \in DOMAIN notice : entry[notice[n].about] # "NONE"
    /\ \A n, m \in DOMAIN notice :
          notice[n].about = notice[m].about /\ notice[n].to = notice[m].to => n = m
    /\ \A m \in Member, x \in Thing : favorite[m][x] <= 1

Untold(e) == \A n \in DOMAIN notice : notice[n].about # e

\* What the statements of a plan need, whatever else goes on.
ComKnows(todo, arg) ==
    /\ todo = ToReview => arg.entity \in Review /\ arg.value = "APPROVED"
    /\ todo = ToOpen => arg.entity \in Category /\ arg.value \in Visibility /\ arg.previous = "NONE"
    /\ todo \in {ToModerate, LogOn} =>
          arg.entity \in Entity /\ (arg.entity \notin Key => arg.value # "NONE")
    /\ todo \in {ToRate, ToRetire} => arg.entity \in Review
    /\ todo \in {ToLike, ToUnlike} => arg.member \in Member /\ arg.thing \in Thing
    /\ todo \in {ToRead, ToDrop} => arg.notice \in DOMAIN notice
    /\ todo = TellSellerOn => arg.entity \in Review
    /\ todo \in {FindAdminsOn, TellAdminsOn} => arg.entity \in Report
    /\ todo \in Tellings => entry[arg.entity] # "NONE" /\ Untold(arg.entity)

ComFits(r) == ~Resting(r) => req[r] \in ComUnderway /\ ComKnows(req[r].todo, req[r].arg)

\* Without overlaps and failures: the seller and the administrators hear ...
Heard(e, u) == \E n \in DOMAIN notice : notice[n].about = e /\ notice[n].to = u

SellerHears == \A x \in Review : entry[x] # "NONE" => Heard(x, Merchant) \/ Announcing(x)

AdminsHear ==
    \A t \in Report :
        /\ entry[t] = "NONE" => due[t] = {}
        /\ entry[t] # "NONE" /\ ~Announcing(t) => \A a \in Admin : Heard(t, a) <=> a \in due[t]

\* ... the log leads from value to value ...
LedTo(e, i) == IF i = 1 THEN FirstValue(e) ELSE journal[e][i - 1].to
LogEnd(e) == LedTo(e, Len(journal[e]) + 1)

LogsLead ==
    \A e \in Entity :
        /\ \A i \in DOMAIN journal[e] :
              \/ journal[e][i].from = LedTo(e, i)
              \/ e \in Category /\ journal[e][i] = [from |-> "ACTIVE", to |-> "INACTIVE"]
        /\ \/ Logging(e)
           \/ e \notin Key /\ entry[e] = "NONE" /\ journal[e] = <<>>
           \/ (e \in Key \/ entry[e] # "NONE") /\ entry[e] = LogEnd(e)

\* ... and what a request has read still holds.
Deactivates(arg) == arg.entity \in Category /\ arg.previous = "ACTIVE" /\ arg.value = "INACTIVE"

ComTrue(todo, arg) ==
    /\ todo = ToModerate =>
          /\ arg.entity \in Key \/ entry[arg.entity] # "NONE"
          /\ arg.previous = entry[arg.entity] \/ Deactivates(arg)
    /\ todo = LogOn =>
          /\ entry[arg.entity] = arg.value
          /\ arg.previous = LogEnd(arg.entity) \/ Deactivates(arg)
    /\ todo = FindAdminsOn => due[arg.entity] = world.admins
    /\ todo = TellAdminsOn => due[arg.entity] = arg.admins

ComRead(r) == ~Resting(r) => ComTrue(req[r].todo, req[r].arg)

ComInv ==
    /\ CommunityTypeOK
    /\ req \in [Slot -> {Idle} \cup ComUnderway]
    /\ \A r \in Slot : ComFits(r)
    /\ OneTells
    /\ NewsOnce
    /\ smooth \in BOOLEAN
    /\ smooth => /\ Alone
                 /\ SellerHears /\ AdminsHear /\ LogsLead
                 /\ \A r \in Slot : ComRead(r)

LEMMA ComHeads ==
    /\ ToReview # <<>> /\ Head(ToReview) = "insert" /\ Tail(ToReview) = TellSellerOn
    /\ ToOpen # <<>> /\ Head(ToOpen) = "insert" /\ Tail(ToOpen) = LogOn
    /\ ToModerate # <<>> /\ Head(ToModerate) = "set" /\ Tail(ToModerate) = LogOn
    /\ ToReport # <<>> /\ Head(ToReport) = "insertReport" /\ Tail(ToReport) = FindAdminsOn
    /\ FindAdminsOn # <<>> /\ Head(FindAdminsOn) = "findAdmins" /\ Tail(FindAdminsOn) = TellAdminsOn
    /\ TellAdminsOn # <<>> /\ Head(TellAdminsOn) = "tellAdmins" /\ Tail(TellAdminsOn) = <<>>
    /\ TellSellerOn # <<>> /\ Head(TellSellerOn) = "tellSeller" /\ Tail(TellSellerOn) = <<>>
    /\ LogOn # <<>> /\ Head(LogOn) = "log" /\ Tail(LogOn) = <<>>
    /\ ToRate # <<>> /\ Head(ToRate) = "rate" /\ Tail(ToRate) = <<>>
    /\ ToRetire # <<>> /\ Head(ToRetire) = "retire" /\ Tail(ToRetire) = <<>>
    /\ ToLike # <<>> /\ Head(ToLike) = "insertFavorite" /\ Tail(ToLike) = <<>>
    /\ ToUnlike # <<>> /\ Head(ToUnlike) = "dropFavorite" /\ Tail(ToUnlike) = <<>>
    /\ ToRead # <<>> /\ Head(ToRead) = "markRead" /\ Tail(ToRead) = <<>>
    /\ ToDrop # <<>> /\ Head(ToDrop) = "dropNotice" /\ Tail(ToDrop) = <<>>
BY DEF ToReview, ToOpen, ToModerate, ToReport, FindAdminsOn, TellAdminsOn, TellSellerOn, LogOn,
       ToRate, ToRetire, ToLike, ToUnlike, ToRead, ToDrop

\* Which plan a request has, by the statement it is at.
LEMMA ComAt ==
    ASSUME ComInv, NEW r \in Slot, NEW s, At(r, s)
    PROVE  /\ ~Resting(r) /\ req[r] \in ComUnderway /\ req[r].todo \in ComPlans
           /\ req[r].arg \in ComArg /\ ComKnows(req[r].todo, req[r].arg)
           /\ s = "insert" => req[r].todo \in {ToReview, ToOpen}
           /\ s = "set" => req[r].todo = ToModerate
           /\ s = "insertReport" => req[r].todo = ToReport
           /\ s = "findAdmins" => req[r].todo = FindAdminsOn
           /\ s = "tellAdmins" => req[r].todo = TellAdminsOn
           /\ s = "tellSeller" => req[r].todo = TellSellerOn
           /\ s = "log" => req[r].todo = LogOn
           /\ s = "rate" => req[r].todo = ToRate
           /\ s = "retire" => req[r].todo = ToRetire
           /\ s = "insertFavorite" => req[r].todo = ToLike
           /\ s = "dropFavorite" => req[r].todo = ToUnlike
           /\ s = "markRead" => req[r].todo = ToRead
           /\ s = "dropNotice" => req[r].todo = ToDrop
<1>1. /\ ~Resting(r) /\ req[r] \in ComUnderway /\ Head(req[r].todo) = s
      /\ ComKnows(req[r].todo, req[r].arg)
  BY DEF At, ComInv, ComFits
<1>2. req[r].todo \in ComPlans /\ req[r].arg \in ComArg
  BY <1>1 DEF ComUnderway
<1> QED
  BY <1>1, <1>2, ComHeads DEF ComPlans, Tellings

\* The plans differ.
LEMMA ComDiffer ==
    /\ Tellings \cap {ToReview, ToOpen, ToModerate, ToReport, ToRate, ToRetire, ToLike, ToUnlike,
                      ToRead, ToDrop, LogOn} = {}
    /\ LogOn \notin {ToReview, ToOpen, ToModerate, ToReport, ToRate, ToRetire, ToLike, ToUnlike,
                     ToRead, ToDrop}
    /\ TellSellerOn \notin {FindAdminsOn, TellAdminsOn} /\ FindAdminsOn # TellAdminsOn
    /\ ToModerate \notin {ToReview, ToOpen, ToReport, ToRate, ToRetire, ToLike, ToUnlike,
                          ToRead, ToDrop}
    /\ ToReview # ToOpen
    /\ \A s \in {ToReview, ToOpen} : s \notin {ToReport, ToRate, ToRetire, ToLike, ToUnlike,
                                               ToRead, ToDrop}
    /\ ToReport \notin {ToRate, ToRetire, ToLike, ToUnlike, ToRead, ToDrop}
    /\ \A s \in {ToRate, ToRetire} : s \notin {ToLike, ToUnlike, ToRead, ToDrop}
    /\ \A s \in {ToLike, ToUnlike} : s \notin {ToRead, ToDrop}
<1>1. Tail(ToReview) # Tail(ToOpen)
  BY ComHeads
<1> QED
  BY ZenonT(40), <1>1, ComHeads DEF Tellings

---------------------------------------------------------------------------
\* What a step of r adds to the tables: rows stay, and what is told of is r's news.
ComGrows(r) ==
    /\ \A e \in Review \cup Report : entry[e] # "NONE" => entry'[e] # "NONE"
    /\ DOMAIN notice \subseteq DOMAIN notice'
    /\ \A n \in DOMAIN notice' :
          \/ n \in DOMAIN notice /\ notice'[n].about = notice[n].about
          \/ Telling(r) /\ notice'[n].about = req[r].arg.entity

\* What r has to tell is what it had to tell before, or new.
StillTells(r) ==
    Telling(r)' => \/ Telling(r) /\ req'[r].arg.entity = req[r].arg.entity
                   \/ entry[req'[r].arg.entity] = "NONE"

LEMMA TellsAlone ==
    ASSUME ComInv, NEW r \in Slot, StillTells(r), \A q \in Slot \ {r} : req'[q] = req[q]
    PROVE  OneTells'
<1> SUFFICES ASSUME NEW x \in Slot, NEW y \in Slot, Telling(x)', Telling(y)',
                    req'[x].arg.entity = req'[y].arg.entity, x # y
             PROVE  FALSE
  BY DEF OneTells
<1>1. ASSUME NEW q \in Slot \ {r}
      PROVE  /\ req'[q] = req[q]
             /\ Telling(q)' => Telling(q) /\ entry[req[q].arg.entity] # "NONE"
  <2>1. req'[q] = req[q] /\ (Telling(q)' => Telling(q))
    BY DEF Telling, Resting
  <2>2. Telling(q) => entry[req[q].arg.entity] # "NONE"
    BY DEF ComInv, ComFits, ComKnows, Telling
  <2> QED
    BY <2>1, <2>2
<1>2. ASSUME NEW q \in Slot \ {r}, Telling(q)', Telling(r)', req'[q].arg.entity = req'[r].arg.entity
      PROVE  FALSE
  <2>1. /\ Telling(q) /\ entry[req[q].arg.entity] # "NONE"
        /\ req[q].arg.entity = req'[r].arg.entity
    BY <1>1, <1>2
  <2>2. Telling(r) /\ req[q].arg.entity = req[r].arg.entity
    BY <1>2, <2>1 DEF StillTells
  <2> QED
    BY <2>1, <2>2 DEF ComInv, OneTells
<1>3. CASE x = r
  BY <1>2, <1>3
<1>4. CASE y = r
  BY <1>2, <1>4
<1>5. CASE x # r /\ y # r
  BY <1>1, <1>5 DEF ComInv, OneTells
<1> QED
  BY <1>3, <1>4, <1>5

\* What the other requests need is still so.
LEMMA OthersFit ==
    ASSUME ComInv, NEW r \in Slot, ComGrows(r), NEW q \in Slot \ {r}, req'[q] = req[q]
    PROVE  ComFits(q)'
<1> SUFFICES ASSUME ~Resting(q) PROVE ComUnderway \subseteq ComUnderway' /\ ComKnows(req[q].todo, req[q].arg)'
  BY DEF ComFits, ComInv, Resting, ComUnderway, ComArg, Entity, Review, Value
<1> DEFINE todo == req[q].todo
           arg == req[q].arg
<1>1. ComKnows(todo, arg) /\ req[q] \in ComUnderway
  BY DEF ComInv, ComFits
<1>2. ASSUME todo \in Tellings PROVE entry'[req'[q].arg.entity] # "NONE" /\ Untold(req[q].arg.entity)'
  <2>1. PICK e \in Review \cup Report : e = req[q].arg.entity
    BY <1>1, <1>2 DEF ComKnows, Tellings
  <2>2. entry[e] # "NONE" /\ Untold(e)
    BY <1>1, <1>2, <2>1 DEF ComKnows
  <2>3. Telling(r) => req[r].arg.entity # e
    BY <1>2, <2>1 DEF ComInv, OneTells, Telling
  <2>4. entry'[e] # "NONE" /\ Untold(e)'
    BY <2>1, <2>2, <2>3 DEF ComGrows, Untold
  <2> QED
    BY <2>1, <2>4
<1>3. ComKnows(todo, arg)'
  BY <1>1, <1>2 DEF ComKnows, ComGrows
<1> QED
  BY <1>3

\* A step of one request: what is to be shown of it and of the tables is enough.
LEMMA ComMoves ==
    ASSUME ComInv, NEW r \in Slot,
           req' \in [Slot -> {Idle} \cup ComUnderway],
           \A q \in Slot \ {r} : req'[q] = req[q],
           ComFits(r)', CommunityTypeOK', NewsOnce', ComGrows(r), StillTells(r),
           smooth' \in BOOLEAN, StillAlone(r),
           smooth' => SellerHears' /\ AdminsHear' /\ LogsLead' /\ ComRead(r)'
    PROVE  ComInv'
<1>1. ASSUME NEW q \in Slot PROVE ComFits(q)'
  <2>1. CASE q = r
    BY <2>1
  <2>2. CASE q # r
    BY <2>2, OthersFit
  <2> QED
    BY <2>1, <2>2
<1>2. ASSUME smooth', NEW q \in Slot PROVE ComRead(q)'
  <2>1. CASE q = r
    BY <1>2, <2>1
  <2>2. CASE q # r
    BY <1>2, <2>2 DEF StillAlone, ComRead, Resting
  <2> QED
    BY <2>1, <2>2
<1>3. smooth' => Alone'
  BY KeepsAlone
<1>4. OneTells'
  BY TellsAlone
<1> QED
  BY <1>1, <1>2, <1>3, <1>4 DEF ComInv

---------------------------------------------------------------------------
(* Steps that bring no news and change no value.                           *)

LEMMA PendingStays ==
    ASSUME NEW r \in Slot, \A q \in Slot \ {r} : req'[q] = req[q]
    PROVE  /\ ~Telling(r) /\ ~Telling(r)' => \A e : Announcing(e)' <=> Announcing(e)
           /\ ~Logs(r) /\ ~Logs(r)' => \A e : Logging(e)' <=> Logging(e)
<1>1. \A q \in Slot \ {r} : /\ req'[q] = req[q] /\ (Telling(q)' <=> Telling(q))
                            /\ (Logs(q)' <=> Logs(q))
  BY DEF Telling, Logs, Resting
<1>2. ASSUME ~Telling(r), ~Telling(r)', NEW e PROVE Announcing(e)' <=> Announcing(e)
  BY <1>1, <1>2 DEF Announcing
<1>3. ASSUME ~Logs(r), ~Logs(r)', NEW e PROVE Logging(e)' <=> Logging(e)
  BY <1>1, <1>3 DEF Logging
<1> QED
  BY <1>2, <1>3

\* Rows of the inbox change only in what has been done with them.
NoticesKeep ==
    /\ DOMAIN notice' = DOMAIN notice
    /\ \A n \in DOMAIN notice : notice'[n].about = notice[n].about /\ notice'[n].to = notice[n].to

LEMMA HeardStays ==
    ASSUME NoticesKeep
    PROVE  \A e, u : Heard(e, u)' <=> Heard(e, u)
BY DEF Heard, NoticesKeep

\* The end of a log, when the log stays.
LEMMA LedStays ==
    ASSUME NEW e, journal'[e] = journal[e]
    PROVE  LogEnd(e)' = LogEnd(e) /\ \A i : LedTo(e, i)' = LedTo(e, i)
BY DEF LogEnd, LedTo, FirstValue, Review

\* Nothing is heard, due or logged that was not.
SameNews ==
    /\ entry' = entry /\ due' = due /\ journal' = journal
    /\ NoticesKeep
    /\ \A m \in Member, x \in Thing : favorite'[m][x] <= 1

LEMMA NewsStay ==
    ASSUME ComInv, SameNews
    PROVE  /\ NewsOnce'
           /\ \A r \in Slot : ComGrows(r)
           /\ smooth /\ (\A e : Announcing(e)' <=> Announcing(e)) /\ (\A e : Logging(e)' <=> Logging(e))
                 => SellerHears' /\ AdminsHear' /\ LogsLead'
<1>0. \A e, u : Heard(e, u)' <=> Heard(e, u)
  BY HeardStays DEF SameNews
<1>1. NewsOnce'
  BY DEF ComInv, NewsOnce, SameNews, NoticesKeep
<1>2. ASSUME NEW r \in Slot PROVE ComGrows(r)
  BY DEF SameNews, NoticesKeep, ComGrows
<1>3. ASSUME smooth, \A e : Announcing(e)' <=> Announcing(e), \A e : Logging(e)' <=> Logging(e)
      PROVE  SellerHears' /\ AdminsHear' /\ LogsLead'
  <2>1. SellerHears /\ AdminsHear /\ LogsLead
    BY <1>3 DEF ComInv
  <2>2. SellerHears'
    BY <1>0, <1>3, <2>1 DEF SellerHears, SameNews, Review
  <2>3. AdminsHear'
    BY <1>0, <1>3, <2>1 DEF AdminsHear, SameNews
  <2>4. LogsLead'
    <3>1. \A e \in Entity : LogEnd(e)' = LogEnd(e) /\ \A i : LedTo(e, i)' = LedTo(e, i)
      BY LedStays DEF SameNews
    <3>2. \A e \in Entity : journal'[e] = journal[e] /\ entry'[e] = entry[e]
      BY DEF SameNews
    <3> QED
      BY <1>3, <2>1, <3>1, <3>2 DEF LogsLead
  <2> QED
    BY <2>2, <2>3, <2>4
<1> QED
  BY <1>1, <1>2, <1>3

\* Neither telling nor logging, before and after.
ComQuiet(r) == ~Telling(r)' /\ (smooth' => ~Telling(r) /\ ~Logs(r) /\ ~Logs(r)')

LEMMA ComStays ==
    ASSUME ComInv, NEW r \in Slot,
           req' \in [Slot -> {Idle} \cup ComUnderway],
           \A q \in Slot \ {r} : req'[q] = req[q],
           ComFits(r)', CommunityTypeOK', SameNews, ComQuiet(r),
           smooth' \in BOOLEAN, StillAlone(r), smooth' => ComRead(r)'
    PROVE  ComInv'
<1>1. NewsOnce' /\ ComGrows(r) /\ StillTells(r)
  BY NewsStay DEF ComQuiet, StillTells
<1>2. ASSUME smooth' PROVE SellerHears' /\ AdminsHear' /\ LogsLead'
  <2>1. smooth
    BY <1>2 DEF StillAlone
  <2>2. (\A e : Announcing(e)' <=> Announcing(e)) /\ (\A e : Logging(e)' <=> Logging(e))
    BY <1>2, PendingStays DEF ComQuiet
  <2> QED
    BY <2>1, <2>2, NewsStay
<1> QED
  BY <1>1, <1>2, ComMoves

\* A request that ends, without news to tell or values to log.
LEMMA ComEnds ==
    ASSUME ComInv, NEW r \in Slot, ~Resting(r), req' = [req EXCEPT ![r] = Idle],
           CommunityTypeOK', SameNews, smooth' \in BOOLEAN, smooth' => smooth,
           smooth' => req[r].todo \notin Tellings /\ req[r].todo # LogOn
    PROVE  ComInv'
<1>1. /\ req' \in [Slot -> {Idle} \cup ComUnderway]
      /\ req'[r] = Idle /\ \A q \in Slot \ {r} : req'[q] = req[q]
  BY DEF ComInv
<1>2. ComFits(r)' /\ ComRead(r)'
  BY <1>1 DEF ComFits, ComRead, Resting, Idle
<1>3. StillAlone(r)
  BY StepsOfOne DEF ComInv
<1>4. ~Telling(r)' /\ ~Logs(r)'
  BY <1>1 DEF Telling, Logs, Resting, Idle
<1>5. ComQuiet(r)
  BY <1>4 DEF ComQuiet, Telling, Logs
<1> QED
  BY <1>1, <1>2, <1>3, <1>5, ComStays

LEMMA ComRests ==
    ASSUME ComInv, UNCHANGED comVars
    PROVE  CommunityTypeOK' /\ SameNews
<1>1. /\ world' = world /\ entry' = entry /\ retired' = retired /\ rating' = rating
      /\ favorite' = favorite /\ notice' = notice /\ journal' = journal /\ due' = due
  BY DEF comVars
<1>2. CommunityTypeOK'
  BY <1>1 DEF ComInv, CommunityTypeOK
<1>3. SameNews
  BY <1>1 DEF SameNews, NoticesKeep, ComInv, NewsOnce
<1> QED
  BY <1>2, <1>3

\* A request that begins.
LEMMA ComBegins ==
    ASSUME ComInv, NEW r \in Slot, NEW todo \in ComPlans, NEW arg \in ComArg,
           Begin(r, todo, arg), UNCHANGED comVars,
           todo \notin Tellings, todo # LogOn, ComKnows(todo, arg), smooth => ComTrue(todo, arg)
    PROVE  ComInv'
<1> DEFINE new == [todo |-> todo, arg |-> arg]
<1>1. new \in ComUnderway /\ new.todo = todo /\ new.arg = arg
  BY DEF ComUnderway
<1>2. req' = [req EXCEPT ![r] = new] /\ smooth' \in BOOLEAN /\ Count /\ Resting(r)
  BY DEF Begin, Count, ComInv, AllRest
<1> HIDE DEF new
<1>3. /\ req' \in [Slot -> {Idle} \cup ComUnderway]
      /\ req'[r] = new /\ \A q \in Slot \ {r} : req'[q] = req[q]
  BY <1>1, <1>2 DEF ComInv
<1>4. CommunityTypeOK' /\ SameNews
  BY ComRests
<1>5. StillAlone(r)
  BY <1>2, BeginsAlone
<1>6. ComQuiet(r)
  BY <1>1, <1>2, <1>3 DEF ComQuiet, Telling, Logs
<1>7. /\ world' = world /\ entry' = entry /\ notice' = notice /\ journal' = journal /\ due' = due
  BY DEF comVars
<1>8. ComFits(r)'
  BY <1>1, <1>3, <1>7 DEF ComFits, ComKnows, Untold
<1>9. smooth' => ComRead(r)'
  BY <1>1, <1>3, <1>5, <1>7 DEF StillAlone, ComRead, ComTrue, LogEnd, LedTo
<1> QED
  BY <1>2, <1>3, <1>4, <1>5, <1>6, <1>8, <1>9, ComStays

LEMMA StartCommunityKeeps ==
    ASSUME ComInv, NEW r \in Slot, StartCommunity(r), UNCHANGED comVars
    PROVE  ComInv'
<1>1. /\ CommunityTypeOK
      /\ \A e \in Entity : entry[e] \in Value
      /\ Review \subseteq Entity /\ Report \subseteq Entity /\ Category \subseteq Entity /\ Key \subseteq Entity
      /\ "NONE" \in Value /\ ModerationStatus \subseteq Value /\ ReportStatus \subseteq Value
      /\ Visibility \subseteq Value /\ Setting \subseteq Value
  BY DEF ComInv, CommunityTypeOK, Entity, Value
<1>2. ASSUME NEW e \in Entity \cup {NoArgs}
      PROVE  CommunityArgs(e) \in ComArg
  BY <1>1, <1>2 DEF CommunityArgs, ComArg
<1>3. ASSUME NEW x \in Review, NEW n \in Rating, CreateReview(r, x, n) PROVE ComInv'
  <2> DEFINE arg == [CommunityArgs(x) EXCEPT !.value = "APPROVED", !.rating = n]
  <2>1. Begin(r, ToReview, arg) /\ ToReview \in ComPlans
    BY <1>3 DEF CreateReview, ToReview, ComPlans
  <2>2. arg \in ComArg /\ arg.entity = x /\ arg.value = "APPROVED"
    BY <1>1 DEF CommunityArgs, ComArg, ModerationStatus
  <2> HIDE DEF arg
  <2>3. ComKnows(ToReview, arg) /\ ComTrue(ToReview, arg) /\ ToReview \notin Tellings /\ ToReview # LogOn
    BY <2>2, ComDiffer DEF ComKnows, ComTrue, Tellings
  <2> QED
    BY <2>1, <2>2, <2>3, ComBegins
<1>4. ASSUME NEW x \in Review, NEW n \in Rating, UpdateReview(r, x, n) PROVE ComInv'
  <2> DEFINE arg == [CommunityArgs(x) EXCEPT !.rating = n]
  <2>1. Begin(r, ToRate, arg) /\ ToRate \in ComPlans
    BY <1>4 DEF UpdateReview, ToRate, ComPlans
  <2>2. arg \in ComArg /\ arg.entity = x
    BY <1>1 DEF CommunityArgs, ComArg
  <2> HIDE DEF arg
  <2>3. ComKnows(ToRate, arg) /\ ComTrue(ToRate, arg) /\ ToRate \notin Tellings /\ ToRate # LogOn
    BY <2>2, ComDiffer DEF ComKnows, ComTrue, Tellings
  <2> QED
    BY <2>1, <2>2, <2>3, ComBegins
<1>5. ASSUME NEW x \in Review, DeleteReview(r, x) PROVE ComInv'
  <2> DEFINE arg == CommunityArgs(x)
  <2>1. Begin(r, ToRetire, arg) /\ ToRetire \in ComPlans
    BY <1>5 DEF DeleteReview, ToRetire, ComPlans
  <2>2. arg \in ComArg /\ arg.entity = x
    BY <1>1 DEF CommunityArgs, ComArg
  <2> HIDE DEF arg
  <2>3. ComKnows(ToRetire, arg) /\ ComTrue(ToRetire, arg) /\ ToRetire \notin Tellings /\ ToRetire # LogOn
    BY <2>2, ComDiffer DEF ComKnows, ComTrue, Tellings
  <2> QED
    BY <2>1, <2>2, <2>3, ComBegins
<1>6. ASSUME NEW e \in Entity, NEW previous \in Value, NEW v \in Value, Audited(r, e, previous, v),
             e \notin Key => v # "NONE" /\ entry[e] # "NONE",
             \/ previous = entry[e]
             \/ e \in Category /\ previous = "ACTIVE" /\ v = "INACTIVE"
      PROVE  ComInv'
  <2> DEFINE arg == [CommunityArgs(e) EXCEPT !.value = v, !.previous = previous]
  <2>1. Begin(r, ToModerate, arg) /\ ToModerate \in ComPlans
    BY <1>6 DEF Audited, ToModerate, ComPlans
  <2>2. arg \in ComArg /\ arg.entity = e /\ arg.value = v /\ arg.previous = previous
    BY <1>1 DEF CommunityArgs, ComArg
  <2> HIDE DEF arg
  <2>3. ComKnows(ToModerate, arg) /\ ToModerate \notin Tellings /\ ToModerate # LogOn
    BY <1>6, <2>2, ComDiffer DEF ComKnows, Tellings
  <2>4. ComTrue(ToModerate, arg)
    BY <1>6, <2>2, ComDiffer DEF ComTrue, Deactivates, Tellings
  <2> QED
    BY <2>1, <2>2, <2>3, <2>4, ComBegins
<1>7. ASSUME NEW x \in Review, NEW v \in ModerationStatus, ModerateReview(r, x, v) PROVE ComInv'
  <2>1. v # "NONE" /\ v \in Value
    BY <1>1 DEF ModerationStatus
  <2> QED
    BY <1>1, <1>6, <1>7, <2>1 DEF ModerateReview, Published
<1>8. ASSUME NEW t \in Report, NEW v \in ReportStatus, UpdateReport(r, t, v) PROVE ComInv'
  <2>1. v # "NONE" /\ v \in Value
    BY <1>1 DEF ReportStatus
  <2> QED
    BY <1>1, <1>6, <1>8, <2>1 DEF UpdateReport
<1>9. ASSUME NEW c \in Category, NEW v \in Visibility, UpdateCategory(r, c, v) PROVE ComInv'
  <2>1. v # "NONE" /\ v \in Value
    BY <1>1 DEF Visibility
  <2> QED
    BY <1>1, <1>6, <1>9, <2>1 DEF UpdateCategory
<1>10. ASSUME NEW c \in Category, RemoveCategory(r, c) PROVE ComInv'
  <2>1. "ACTIVE" \in Value /\ "INACTIVE" \in Value
    BY <1>1 DEF Visibility
  <2> QED
    BY <1>1, <1>6, <1>10, <2>1 DEF RemoveCategory
<1>11. ASSUME NEW k \in Key, NEW v \in Setting, UpsertSetting(r, k, v) PROVE ComInv'
  BY <1>1, <1>6, <1>11 DEF UpsertSetting
<1>12. ASSUME NEW c \in Category, NEW v \in Visibility, CreateCategory(r, c, v) PROVE ComInv'
  <2> DEFINE arg == [CommunityArgs(c) EXCEPT !.value = v]
  <2>1. Begin(r, ToOpen, arg) /\ ToOpen \in ComPlans
    BY <1>12 DEF CreateCategory, ToOpen, ComPlans
  <2>2. arg \in ComArg /\ arg.entity = c /\ arg.value = v /\ arg.previous = "NONE"
    BY <1>1 DEF CommunityArgs, ComArg
  <2> HIDE DEF arg
  <2>3. ComKnows(ToOpen, arg) /\ ComTrue(ToOpen, arg) /\ ToOpen \notin Tellings /\ ToOpen # LogOn
    BY <2>2, ComDiffer DEF ComKnows, ComTrue, Tellings
  <2> QED
    BY <2>1, <2>2, <2>3, ComBegins
<1>13. ASSUME NEW x, CreateReport(r, x) PROVE ComInv'
  <2> DEFINE arg == CommunityArgs(NoArgs)
  <2>1. Begin(r, ToReport, arg) /\ ToReport \in ComPlans /\ arg \in ComArg
    BY <1>2, <1>13 DEF CreateReport, ToReport, ComPlans
  <2> HIDE DEF arg
  <2>3. ComKnows(ToReport, arg) /\ ComTrue(ToReport, arg) /\ ToReport \notin Tellings /\ ToReport # LogOn
    BY ComDiffer DEF ComKnows, ComTrue, Tellings
  <2> QED
    BY <2>1, <2>3, ComBegins
<1>14. ASSUME NEW m \in Member, NEW x \in Thing, NEW s \in {ToLike, ToUnlike},
              Begin(r, s, [CommunityArgs(NoArgs) EXCEPT !.member = m, !.thing = x])
       PROVE  ComInv'
  <2> DEFINE arg == [CommunityArgs(NoArgs) EXCEPT !.member = m, !.thing = x]
  <2>1. Begin(r, s, arg) /\ s \in ComPlans
    BY <1>14 DEF ComPlans
  <2>2. arg \in ComArg /\ arg.member = m /\ arg.thing = x
    BY <1>1 DEF CommunityArgs, ComArg
  <2> HIDE DEF arg
  <2>3. ComKnows(s, arg) /\ ComTrue(s, arg) /\ s \notin Tellings /\ s # LogOn
    BY <2>2, ComDiffer DEF ComKnows, ComTrue, Tellings
  <2> QED
    BY <2>1, <2>2, <2>3, ComBegins
<1>15. ASSUME NEW n \in DOMAIN notice, NEW s \in {ToRead, ToDrop},
              Begin(r, s, [CommunityArgs(NoArgs) EXCEPT !.notice = n])
       PROVE  ComInv'
  <2> DEFINE arg == [CommunityArgs(NoArgs) EXCEPT !.notice = n]
  <2>1. Begin(r, s, arg) /\ s \in ComPlans
    BY <1>15 DEF ComPlans
  <2>2. n \in Nat
    BY <1>1 DEF CommunityTypeOK
  <2>3. arg \in ComArg /\ arg.notice = n
    BY <1>1, <2>2 DEF CommunityArgs, ComArg
  <2> HIDE DEF arg
  <2>4. ComKnows(s, arg) /\ ComTrue(s, arg) /\ s \notin Tellings /\ s # LogOn
    BY <2>3, ComDiffer DEF ComKnows, ComTrue, Tellings
  <2> QED
    BY <2>1, <2>3, <2>4, ComBegins
<1>16. ASSUME NEW m \in Member, NEW x \in Thing, AddFavorite(r, m, x) \/ RemoveFavorite(r, m, x)
       PROVE  ComInv'
  BY <1>14, <1>16 DEF AddFavorite, RemoveFavorite, ToLike, ToUnlike
<1>17. ASSUME NEW n \in DOMAIN notice, MarkAsRead(r, n) \/ RemoveNotice(r, n) PROVE ComInv'
  BY <1>15, <1>17 DEF MarkAsRead, RemoveNotice, ToRead, ToDrop
<1> QED
  BY <1>3, <1>4, <1>5, <1>7, <1>8, <1>9, <1>10, <1>11, <1>12, <1>13, <1>16, <1>17 DEF StartCommunity

---------------------------------------------------------------------------
(* Statements that bring no news and change no value.                      *)

LEMMA RateKeeps ==
    ASSUME ComInv, NEW r \in Slot, Rate(r) \/ Retire(r)
    PROVE  ComInv'
<1>1. /\ ~Resting(r) /\ req[r].todo \in {ToRate, ToRetire} /\ req[r].arg \in ComArg
      /\ req[r].arg.entity \in Review
      /\ Advance(r)
  BY ComAt DEF Rate, Retire, ComKnows
<1>2. PICK x \in Review, n \in Rating \cup {0} : x = req[r].arg.entity /\ n = req[r].arg.rating
  BY <1>1 DEF ComArg
<1>3. /\ world' = world /\ entry' = entry /\ favorite' = favorite /\ notice' = notice
      /\ journal' = journal /\ due' = due
      /\ rating' = rating \/ rating' = [rating EXCEPT ![x] = n]
      /\ retired' = retired \/ retired' = retired \cup {x}
  BY <1>2 DEF Rate, Retire
<1>4. CommunityTypeOK'
  BY <1>3 DEF ComInv, CommunityTypeOK
<1>5. SameNews
  BY <1>3 DEF SameNews, NoticesKeep, ComInv, NewsOnce
<1>6. req' = [req EXCEPT ![r] = Idle] /\ UNCHANGED smooth
  BY <1>1, ComHeads DEF Advance, AdvanceWith, Proceed
<1>7. req[r].todo \notin Tellings /\ req[r].todo # LogOn
  BY <1>1, ComDiffer
<1>8. smooth' \in BOOLEAN /\ (smooth' => smooth)
  BY <1>6 DEF ComInv
<1> QED
  BY <1>1, <1>4, <1>5, <1>6, <1>7, <1>8, ComEnds

LEMMA SetFavoriteKeeps ==
    ASSUME ComInv, NEW r \in Slot, SetFavorite(r)
    PROVE  ComInv'
<1>1. /\ ~Resting(r) /\ req[r].todo \in {ToLike, ToUnlike} /\ req[r].arg \in ComArg
      /\ req[r].arg.member \in Member /\ req[r].arg.thing \in Thing
      /\ Advance(r) \/ Quit(r)
  BY ComAt DEF SetFavorite, ComKnows
<1>2. PICK m \in Member, x \in Thing : m = req[r].arg.member /\ x = req[r].arg.thing
  BY <1>1
<1>3. /\ world' = world /\ entry' = entry /\ rating' = rating /\ retired' = retired
      /\ notice' = notice /\ journal' = journal /\ due' = due
      /\ \/ favorite' = favorite
         \/ favorite[m][x] = 0 /\ favorite' = [favorite EXCEPT ![m][x] = @ + 1]
         \/ favorite[m][x] > 0 /\ favorite' = [favorite EXCEPT ![m][x] = @ - 1]
  BY <1>2 DEF SetFavorite
<1>4. /\ favorite' \in [Member -> [Thing -> Nat]]
      /\ \A a \in Member, b \in Thing : favorite'[a][b] <= 1
  <2>1. /\ favorite \in [Member -> [Thing -> Nat]]
        /\ \A a \in Member, b \in Thing : favorite[a][b] <= 1
    BY DEF ComInv, CommunityTypeOK, NewsOnce
  <2>2. CASE favorite' = favorite
    BY <2>1, <2>2
  <2>3. CASE favorite[m][x] = 0 /\ favorite' = [favorite EXCEPT ![m][x] = @ + 1]
    BY <2>1, <2>3
  <2>4. CASE favorite[m][x] > 0 /\ favorite' = [favorite EXCEPT ![m][x] = @ - 1]
    BY <2>1, <2>4
  <2> QED
    BY <1>3, <2>2, <2>3, <2>4
<1>5. CommunityTypeOK'
  BY <1>3, <1>4 DEF ComInv, CommunityTypeOK
<1>6. SameNews
  BY <1>3, <1>4 DEF SameNews, NoticesKeep
<1>7. req' = [req EXCEPT ![r] = Idle] /\ UNCHANGED smooth
  BY <1>1, ComHeads DEF Advance, AdvanceWith, Proceed, Quit
<1>8. req[r].todo \notin Tellings /\ req[r].todo # LogOn
  BY <1>1, ComDiffer
<1>9. smooth' \in BOOLEAN /\ (smooth' => smooth)
  BY <1>7 DEF ComInv
<1> QED
  BY <1>1, <1>5, <1>6, <1>7, <1>8, <1>9, ComEnds

LEMMA SetNoticeKeeps ==
    ASSUME ComInv, NEW r \in Slot,
           SetNotice(r, "markRead", "read") \/ SetNotice(r, "dropNotice", "removed")
    PROVE  ComInv'
<1>1. /\ ~Resting(r) /\ req[r].todo \in {ToRead, ToDrop} /\ req[r].arg.notice \in DOMAIN notice
      /\ Advance(r) \/ Quit(r)
  BY ComAt DEF SetNotice, ComKnows
<1>2. PICK n \in DOMAIN notice : n = req[r].arg.notice
  BY <1>1
<1>3. PICK s \in {"read", "removed"} :
          notice' = notice \/ notice' = [notice EXCEPT ![n].state = s]
  BY <1>2 DEF SetNotice
<1>4. /\ world' = world /\ entry' = entry /\ rating' = rating /\ retired' = retired
      /\ favorite' = favorite /\ journal' = journal /\ due' = due
  BY DEF SetNotice
<1>5. notice' \in Seq(NoticeRow) /\ NoticesKeep
  <2>1. notice \in Seq(NoticeRow) /\ DOMAIN notice = 1 .. Len(notice)
    BY DEF ComInv, CommunityTypeOK
  <2>2. CASE notice' = notice
    BY <2>1, <2>2 DEF NoticesKeep
  <2>3. CASE notice' = [notice EXCEPT ![n].state = s]
    <3> DEFINE row == [notice[n] EXCEPT !.state = s]
    <3>1. notice[n] \in NoticeRow
      BY <2>1
    <3>2. row \in NoticeRow /\ row.about = notice[n].about /\ row.to = notice[n].to
      BY <3>1 DEF NoticeRow
    <3>3. notice' = [notice EXCEPT ![n] = row]
      BY <2>3
    <3> HIDE DEF row
    <3>4. notice' \in Seq(NoticeRow) /\ DOMAIN notice' = DOMAIN notice
      BY <2>1, <3>2, <3>3
    <3>5. \A m \in DOMAIN notice : notice'[m] = IF m = n THEN row ELSE notice[m]
      BY <2>1, <3>3
    <3> QED
      BY <3>2, <3>4, <3>5 DEF NoticesKeep
  <2> QED
    BY <1>3, <2>2, <2>3
<1>6. CommunityTypeOK'
  BY <1>4, <1>5 DEF ComInv, CommunityTypeOK
<1>7. SameNews
  BY <1>4, <1>5 DEF SameNews, ComInv, NewsOnce
<1>8. req' = [req EXCEPT ![r] = Idle] /\ UNCHANGED smooth
  BY <1>1, ComHeads DEF Advance, AdvanceWith, Proceed, Quit
<1>9. req[r].todo \notin Tellings /\ req[r].todo # LogOn
  BY <1>1, ComDiffer
<1>10. smooth' \in BOOLEAN /\ (smooth' => smooth)
  BY <1>8 DEF ComInv
<1> QED
  BY <1>1, <1>6, <1>7, <1>8, <1>9, <1>10, ComEnds

\* What happens at once, while no request is under way or without smoothness.
LEMMA ComAtOnce ==
    ASSUME ComInv, AtOnce, CommunityTypeOK', SameNews
    PROVE  ComInv'
<1>1. req' = req /\ smooth' = (smooth /\ AllRest)
  BY DEF AtOnce, Count
<1>2. smooth' \in BOOLEAN
  BY <1>1 DEF ComInv
<1>3. ASSUME smooth' PROVE smooth /\ \A r \in Slot : Resting(r)
  BY <1>1, <1>3 DEF AllRest
<1>4. NewsOnce' /\ \A r \in Slot : ComGrows(r)
  BY NewsStay
<1>5. \A r \in Slot : ComFits(r)'
  BY <1>1 DEF ComInv, ComFits, ComKnows, Resting, SameNews, NoticesKeep, Untold
<1>6. OneTells'
  BY <1>1 DEF ComInv, OneTells, Telling, Resting
<1>7. ASSUME smooth' PROVE Alone' /\ \A r \in Slot : ComRead(r)'
  BY <1>1, <1>3, <1>7 DEF Alone, ComRead, Resting
<1>8. (\A e : Announcing(e)' <=> Announcing(e)) /\ (\A e : Logging(e)' <=> Logging(e))
  BY <1>1 DEF Announcing, Telling, Logging, Logs, Resting
<1>9. smooth' => SellerHears' /\ AdminsHear' /\ LogsLead'
  BY <1>3, <1>8, NewsStay
<1>10. req' \in [Slot -> {Idle} \cup ComUnderway]
  BY <1>1 DEF ComInv
<1>11. smooth' => Alone' /\ SellerHears' /\ AdminsHear' /\ LogsLead' /\ \A r \in Slot : ComRead(r)'
  BY <1>7, <1>9
<1> QED
  BY <1>2, <1>4, <1>5, <1>6, <1>10, <1>11 DEF ComInv

LEMMA MarkAllKeeps ==
    ASSUME ComInv, NEW u, MarkAllAsRead(u)
    PROVE  ComInv'
<1>1. notice \in Seq(NoticeRow) /\ DOMAIN notice = 1 .. Len(notice)
  BY DEF ComInv, CommunityTypeOK
<1> DEFINE new == [n \in DOMAIN notice |->
                     IF notice[n].to = u /\ notice[n].state = "unread"
                     THEN [notice[n] EXCEPT !.state = "read"] ELSE notice[n]]
<1>2. /\ notice' = new
      /\ world' = world /\ entry' = entry /\ rating' = rating /\ retired' = retired
      /\ favorite' = favorite /\ journal' = journal /\ due' = due
  BY DEF MarkAllAsRead
<1>3. \A n \in 1 .. Len(notice) : /\ new[n] \in NoticeRow
                                  /\ new[n].about = notice[n].about /\ new[n].to = notice[n].to
  <2> TAKE n \in 1 .. Len(notice)
  <2>1. notice[n] \in NoticeRow
    BY <1>1
  <2>2. /\ [notice[n] EXCEPT !.state = "read"] \in NoticeRow
        /\ [notice[n] EXCEPT !.state = "read"].about = notice[n].about
        /\ [notice[n] EXCEPT !.state = "read"].to = notice[n].to
    BY <2>1 DEF NoticeRow
  <2>3. new[n] = notice[n] \/ new[n] = [notice[n] EXCEPT !.state = "read"]
    BY <1>1
  <2> HIDE DEF new
  <2> QED
    BY <2>1, <2>2, <2>3
<1>4. new \in Seq(NoticeRow)
  <2>1. Len(notice) \in Nat /\ new \in [1 .. Len(notice) -> NoticeRow]
    BY <1>1, <1>3
  <2> QED
    BY <2>1
<1>5. NoticesKeep
  BY <1>1, <1>2, <1>3 DEF NoticesKeep
<1>6. CommunityTypeOK'
  BY <1>2, <1>4 DEF ComInv, CommunityTypeOK
<1>7. SameNews
  BY <1>2, <1>5 DEF SameNews, ComInv, NewsOnce
<1> QED
  BY <1>6, <1>7, ComAtOnce DEF MarkAllAsRead

LEMMA ElsewhereKeeps ==
    ASSUME ComInv, Elsewhere
    PROVE  ComInv'
<1>1. /\ entry' = entry /\ rating' = rating /\ retired' = retired /\ notice' = notice
      /\ favorite' = favorite /\ journal' = journal /\ due' = due
  BY DEF Elsewhere
<1>2. world \in World
  BY DEF ComInv, CommunityTypeOK
<1>3. world' \in World
  <2>1. ASSUME NEW o \in OrderId, world' = [world EXCEPT !.delivered = @ \cup {o}] PROVE world' \in World
    BY <1>2, <2>1 DEF World
  <2>2. ASSUME NEW x \in Thing,
               world' = [world EXCEPT !.offered = IF x \in @ THEN @ \ {x} ELSE @ \cup {x}]
        PROVE  world' \in World
    BY <1>2, <2>2 DEF World
  <2>3. ASSUME NEW a \in Admin,
               world' = [world EXCEPT !.admins = IF a \in @ THEN @ \ {a} ELSE @ \cup {a}]
        PROVE  world' \in World
    BY <1>2, <2>3 DEF World
  <2> QED
    BY <2>1, <2>2, <2>3 DEF Elsewhere
<1>4. CommunityTypeOK'
  BY <1>1, <1>3 DEF ComInv, CommunityTypeOK
<1>5. SameNews
  BY <1>1 DEF SameNews, NoticesKeep, ComInv, NewsOnce
<1> QED
  BY <1>4, <1>5, ComAtOnce DEF Elsewhere

LEMMA ComBreaks ==
    ASSUME ComInv, NEW r \in Slot, Break(r), UNCHANGED comVars
    PROVE  ComInv'
<1>1. ~Resting(r) /\ req' = [req EXCEPT ![r] = Idle] /\ smooth' = FALSE
  BY DEF Break
<1>2. smooth' \in BOOLEAN /\ ~smooth'
  BY <1>1
<1> QED
  BY <1>1, <1>2, ComRests, ComEnds

---------------------------------------------------------------------------
(* Statements that write rows, tell of them and log what they did.         *)

\* While requests do not overlap, what is pending is what the only one has to do.
LEMMA OnlyPending ==
    ASSUME ComInv, NEW r \in Slot, ~Resting(r), UNCHANGED smooth,
           \A q \in Slot \ {r} : req'[q] = req[q]
    PROVE  smooth =>
               /\ \A e : Announcing(e) <=> Telling(r) /\ req[r].arg.entity = e
               /\ \A e : Logging(e) <=> Logs(r) /\ req[r].arg.entity = e
               /\ \A e : Announcing(e)' <=> Telling(r)' /\ req'[r].arg.entity = e
               /\ \A e : Logging(e)' <=> Logs(r)' /\ req'[r].arg.entity = e
<1> SUFFICES ASSUME smooth
             PROVE  /\ \A e : Announcing(e) <=> Telling(r) /\ req[r].arg.entity = e
                    /\ \A e : Logging(e) <=> Logs(r) /\ req[r].arg.entity = e
                    /\ \A e : Announcing(e)' <=> Telling(r)' /\ req'[r].arg.entity = e
                    /\ \A e : Logging(e)' <=> Logs(r)' /\ req'[r].arg.entity = e
  OBVIOUS
<1>1. \A q \in Slot \ {r} : Resting(q) /\ Resting(q)'
  BY DEF ComInv, Alone, Resting
<1>2. \A q \in Slot \ {r} : ~Telling(q) /\ ~Telling(q)' /\ ~Logs(q) /\ ~Logs(q)'
  BY <1>1 DEF Telling, Logs
<1>3. \A e : Announcing(e) <=> Telling(r) /\ req[r].arg.entity = e
  BY <1>2 DEF Announcing
<1>4. \A e : Logging(e) <=> Logs(r) /\ req[r].arg.entity = e
  BY <1>2 DEF Logging
<1>5. \A e : Announcing(e)' <=> Telling(r)' /\ req'[r].arg.entity = e
  BY <1>2 DEF Announcing
<1>6. \A e : Logging(e)' <=> Logs(r)' /\ req'[r].arg.entity = e
  BY <1>2 DEF Logging
<1> QED
  BY <1>3, <1>4, <1>5, <1>6

\* What r goes on with.
ComGoesOn(r, todo, arg) ==
    /\ todo \in ComPlans /\ arg \in ComArg
    /\ req' = [req EXCEPT ![r] = [todo |-> todo, arg |-> arg]] /\ UNCHANGED smooth

LEMMA ComGoesTo ==
    ASSUME ComInv, NEW r \in Slot, ~Resting(r), NEW todo, NEW arg, ComGoesOn(r, todo, arg)
    PROVE  /\ req' \in [Slot -> {Idle} \cup ComUnderway]
           /\ req'[r] = [todo |-> todo, arg |-> arg] /\ req'[r] \in ComUnderway
           /\ req'[r].todo = todo /\ req'[r].arg = arg
           /\ ~Resting(r)'
           /\ \A q \in Slot \ {r} : req'[q] = req[q]
           /\ smooth' \in BOOLEAN /\ StillAlone(r)
           /\ Telling(r)' <=> todo \in Tellings
           /\ Logs(r)' <=> todo = LogOn
<1> DEFINE new == [todo |-> todo, arg |-> arg]
<1>1. new \in ComUnderway /\ new.todo = todo /\ new.arg = arg /\ todo # <<>>
  BY ComHeads DEF ComGoesOn, ComUnderway, ComPlans, Tellings
<1>2. req' = [req EXCEPT ![r] = new] /\ UNCHANGED smooth
  BY DEF ComGoesOn
<1> HIDE DEF new
<1>3. /\ req' \in [Slot -> {Idle} \cup ComUnderway] /\ req'[r] = new
      /\ \A q \in Slot \ {r} : req'[q] = req[q]
  BY <1>1, <1>2 DEF ComInv
<1>4. ~Resting(r)' /\ req'[r].todo = todo /\ req'[r].arg = arg
  BY <1>1, <1>3 DEF Resting
<1>5. (Telling(r)' <=> todo \in Tellings) /\ (Logs(r)' <=> todo = LogOn)
  BY <1>4 DEF Telling, Logs, Tellings, TellSellerOn, FindAdminsOn, TellAdminsOn, LogOn
<1>6. smooth' \in BOOLEAN /\ StillAlone(r)
  BY <1>2, StepsOfOne DEF ComInv
<1> QED
  BY <1>1, <1>3, <1>4, <1>5, <1>6 DEF new

LEMMA NoticesAbout ==
    ASSUME ComInv
    PROVE  /\ notice \in Seq(NoticeRow) /\ DOMAIN notice = 1 .. Len(notice) /\ Len(notice) \in Nat
           /\ \A n \in DOMAIN notice : notice[n].about \in Review \cup Report
<1>1. /\ notice \in Seq(NoticeRow) /\ DOMAIN notice = 1 .. Len(notice) /\ Len(notice) \in Nat
      /\ \A n \in DOMAIN notice : notice[n] \in NoticeRow
  BY DEF ComInv, CommunityTypeOK
<1> QED
  BY <1>1 DEF NoticeRow

LEMMA FindAdminsKeeps ==
    ASSUME ComInv, NEW r \in Slot, FindAdmins(r)
    PROVE  ComInv'
<1>1. /\ ~Resting(r) /\ req[r].todo = FindAdminsOn /\ req[r].arg \in ComArg
      /\ ComKnows(req[r].todo, req[r].arg) /\ UNCHANGED comVars
  BY ComAt DEF FindAdmins
<1> DEFINE arg == [req[r].arg EXCEPT !.admins = world.admins]
<1>2. PICK t \in Report : t = req[r].arg.entity /\ entry[t] # "NONE" /\ Untold(t)
  BY <1>1 DEF ComKnows, Tellings
<1>3. PICK A \in SUBSET Admin : A = world.admins
  BY DEF ComInv, CommunityTypeOK, World
<1>4. /\ arg \in ComArg /\ arg.entity = t /\ arg.admins = A
  BY <1>1, <1>2, <1>3 DEF ComArg
<1>5. ComGoesOn(r, TellAdminsOn, arg)
  BY <1>1, <1>4, ComHeads DEF FindAdmins, AdvanceWith, Proceed, ComGoesOn, ComPlans, Tellings
<1> HIDE DEF arg
<1>6. PICK given \in ComArg : given = arg
  BY <1>4
<1>7. /\ req' \in [Slot -> {Idle} \cup ComUnderway] /\ req'[r] \in ComUnderway
      /\ req'[r].todo = TellAdminsOn /\ req'[r].arg = given /\ ~Resting(r)'
      /\ \A q \in Slot \ {r} : req'[q] = req[q]
      /\ smooth' \in BOOLEAN /\ StillAlone(r) /\ smooth' = smooth
      /\ Telling(r)' /\ ~Logs(r)'
  BY <1>1, <1>5, <1>6, ComGoesTo, ComDiffer DEF Tellings, ComGoesOn
<1>8. CommunityTypeOK' /\ SameNews
  BY <1>1, ComRests
<1>9. /\ world' = world /\ entry' = entry /\ notice' = notice /\ due' = due
  BY <1>1 DEF comVars
<1>10. ComFits(r)'
  BY <1>2, <1>4, <1>6, <1>7, <1>9, ComDiffer DEF ComFits, ComKnows, Tellings, Untold
<1>11. NewsOnce' /\ ComGrows(r)
  BY <1>8, NewsStay
<1>12. Telling(r) /\ ~Logs(r)
  BY <1>1, ComDiffer DEF Telling, Logs, Tellings
<1>13. StillTells(r)
  BY <1>2, <1>4, <1>6, <1>7, <1>12 DEF StillTells
<1>14. ASSUME smooth PROVE SellerHears' /\ AdminsHear' /\ LogsLead' /\ ComRead(r)'
  <2>1. /\ \A e : Announcing(e) <=> Telling(r) /\ req[r].arg.entity = e
        /\ \A e : Logging(e) <=> Logs(r) /\ req[r].arg.entity = e
        /\ \A e : Announcing(e)' <=> Telling(r)' /\ req'[r].arg.entity = e
        /\ \A e : Logging(e)' <=> Logs(r)' /\ req'[r].arg.entity = e
    BY <1>1, <1>7, <1>14, OnlyPending
  <2>2. (\A e : Announcing(e)' <=> Announcing(e)) /\ (\A e : Logging(e)' <=> Logging(e))
    BY <1>2, <1>4, <1>6, <1>7, <1>12, <2>1
  <2>3. SellerHears' /\ AdminsHear' /\ LogsLead'
    BY <1>8, <1>14, <2>2, NewsStay
  <2>4. due[t] = A
    BY <1>1, <1>2, <1>3, <1>14 DEF ComInv, ComRead, ComTrue
  <2>5. ComRead(r)'
    BY <1>4, <1>6, <1>7, <1>9, <2>4, ComDiffer DEF ComRead, ComTrue, Tellings
  <2> QED
    BY <2>3, <2>5
<1> QED
  BY <1>7, <1>8, <1>10, <1>11, <1>13, <1>14, ComMoves

LEMMA InsertKeeps ==
    ASSUME ComInv, NEW r \in Slot, Insert(r)
    PROVE  ComInv'
<1>1. /\ ~Resting(r) /\ req[r].todo \in {ToReview, ToOpen} /\ req[r].arg \in ComArg
      /\ ComKnows(req[r].todo, req[r].arg)
      /\ world' = world /\ favorite' = favorite /\ notice' = notice /\ journal' = journal /\ due' = due
  BY ComAt DEF Insert
<1>2. PICK arg \in ComArg : arg = req[r].arg
  BY <1>1
<1>3. PICK e \in Review \cup Category, v \in Value, n \in Rating \cup {0} :
          e = arg.entity /\ v = arg.value /\ n = arg.rating
  BY <1>1, <1>2 DEF ComArg, ComKnows
<1>4. /\ v # "NONE" /\ e \in Entity /\ e \notin Report /\ e \notin Key
      /\ e \in Review <=> e \notin Category
      /\ req[r].todo = ToReview => e \in Review /\ v = "APPROVED"
      /\ req[r].todo = ToOpen => e \in Category /\ arg.previous = "NONE"
  BY <1>1, <1>2, <1>3, CommunityAssumption DEF ComKnows, Visibility, Entity
<1>5. CASE Quit(r) /\ UNCHANGED <<entry, retired, rating>>
  <2>1. CommunityTypeOK' /\ SameNews
    BY <1>1, <1>5, ComRests DEF comVars
  <2>2. req' = [req EXCEPT ![r] = Idle] /\ smooth' \in BOOLEAN /\ (smooth' => smooth)
    BY <1>5 DEF Quit, ComInv
  <2>3. req[r].todo \notin Tellings /\ req[r].todo # LogOn
    BY <1>1, ComDiffer
  <2> QED
    BY <1>1, <2>1, <2>2, <2>3, ComEnds
<1>6. ASSUME entry[e] = "NONE", entry' = [entry EXCEPT ![e] = v], retired' = retired \ {e},
             rating' = [x \in Review |-> IF x = e THEN n ELSE rating[x]], Advance(r)
      PROVE  ComInv'
  <2>0. PICK todo \in {TellSellerOn, LogOn} :
            /\ todo = Tail(req[r].todo)
            /\ todo = TellSellerOn => req[r].todo = ToReview
            /\ todo = LogOn => req[r].todo = ToOpen
    BY <1>1, ComHeads, ComDiffer
  <2>1. ComGoesOn(r, todo, arg)
    BY <1>1, <1>2, <1>6, <2>0, ComHeads DEF Advance, AdvanceWith, Proceed, ComGoesOn, ComPlans, Tellings
  <2>2. /\ req' \in [Slot -> {Idle} \cup ComUnderway] /\ req'[r] \in ComUnderway
        /\ req'[r].todo = todo /\ req'[r].arg = arg /\ ~Resting(r)'
        /\ \A q \in Slot \ {r} : req'[q] = req[q]
        /\ smooth' \in BOOLEAN /\ StillAlone(r) /\ smooth' = smooth
        /\ Telling(r)' <=> todo \in Tellings
        /\ Logs(r)' <=> todo = LogOn
    BY <1>1, <2>1, ComGoesTo DEF ComGoesOn
  <2>3. ~Telling(r) /\ ~Logs(r)
    BY <1>1, ComDiffer DEF Telling, Logs
  <2>4. /\ entry'[e] = v /\ \A x \in Entity \ {e} : entry'[x] = entry[x]
        /\ entry' \in [Entity -> Value]
    BY <1>4, <1>6 DEF ComInv, CommunityTypeOK
  <2>5. CommunityTypeOK'
    BY <1>1, <1>6, <2>4 DEF ComInv, CommunityTypeOK
  <2>6. /\ \A x \in Entity : entry[x] # "NONE" => entry'[x] # "NONE"
        /\ \A m \in DOMAIN notice : notice[m].about \in Review \cup Report
    BY <1>4, <2>4, NoticesAbout
  <2>7. NewsOnce' /\ ComGrows(r)
    BY <1>1, <2>6 DEF ComInv, NewsOnce, ComGrows, Entity
  <2>8. StillTells(r)
    BY <1>3, <1>6, <2>2 DEF StillTells
  <2>9. Untold(e)
    BY <1>6 DEF ComInv, NewsOnce, Untold
  <2>10. ComFits(r)'
    BY <1>1, <1>3, <1>4, <2>0, <2>2, <2>4, <2>9, ComDiffer DEF ComFits, ComKnows, Tellings, Untold
  <2>11. ASSUME smooth PROVE SellerHears' /\ AdminsHear' /\ LogsLead' /\ ComRead(r)'
    <3>1. /\ \A x : ~Announcing(x)
          /\ \A x : ~Logging(x)
          /\ \A x : Announcing(x)' <=> todo = TellSellerOn /\ x = e
          /\ \A x : Logging(x)' <=> todo = LogOn /\ x = e
      BY <1>1, <1>3, <2>2, <2>3, <2>11, OnlyPending, ComDiffer DEF Tellings
    <3>2. SellerHears /\ AdminsHear /\ LogsLead
      BY <2>11 DEF ComInv
    <3>3. \A x, u : Heard(x, u)' <=> Heard(x, u)
      BY <1>1 DEF Heard
    <3>4. SellerHears'
      <4> SUFFICES ASSUME NEW x \in Review, entry'[x] # "NONE"
                   PROVE  Heard(x, Merchant)' \/ Announcing(x)'
        BY DEF SellerHears, Review
      <4>1. CASE x = e
        BY <1>4, <2>0, <3>1, <4>1
      <4>2. CASE x # e
        BY <2>4, <3>1, <3>2, <3>3, <4>2 DEF SellerHears, Entity
      <4> QED
        BY <4>1, <4>2
    <3>5. AdminsHear'
      <4>1. \A t \in Report : entry'[t] = entry[t] /\ ~Announcing(t)' /\ due'[t] = due[t]
        BY <1>1, <1>4, <2>4, <3>1 DEF Entity
      <4> QED
        BY <3>1, <3>2, <3>3, <4>1 DEF AdminsHear
    <3>6. \A x \in Entity : LogEnd(x)' = LogEnd(x) /\ \A i : LedTo(x, i)' = LedTo(x, i)
      BY <1>1, LedStays
    <3>7. journal[e] = <<>>
      BY <1>4, <1>6, <3>1, <3>2 DEF LogsLead
    <3>8. LogEnd(e) = FirstValue(e)
      BY <3>7 DEF LogEnd, LedTo
    <3>9. /\ e \in Review => FirstValue(e) = "APPROVED"
          /\ e \in Category => FirstValue(e) = "NONE"
      BY <1>4 DEF FirstValue
    <3>10. LogsLead'
      <4> SUFFICES ASSUME NEW x \in Entity
                   PROVE  /\ \A i \in DOMAIN journal[x] :
                                \/ journal[x][i].from = LedTo(x, i)
                                \/ x \in Category /\ journal[x][i] = [from |-> "ACTIVE", to |-> "INACTIVE"]
                          /\ \/ Logging(x)'
                             \/ x \notin Key /\ entry'[x] = "NONE" /\ journal[x] = <<>>
                             \/ (x \in Key \/ entry'[x] # "NONE") /\ entry'[x] = LogEnd(x)
        BY <1>1, <3>6 DEF LogsLead
      <4>1. CASE x # e
        BY <2>4, <3>1, <3>2, <4>1 DEF LogsLead
      <4>2. CASE x = e
        <5>1. Logging(e)' \/ entry'[e] = LogEnd(e)
          BY <1>4, <2>0, <2>4, <3>1, <3>8, <3>9
        <5> QED
          BY <1>4, <2>4, <3>7, <4>2, <5>1
      <4> QED
        BY <4>1, <4>2
    <3>11. ComRead(r)'
      <4>1. todo = LogOn => entry'[e] = arg.value /\ arg.previous = LogEnd(e)'
        BY <1>3, <1>4, <2>0, <2>4, <3>6, <3>8, <3>9
      <4> QED
        BY <1>3, <2>2, <4>1, ComDiffer DEF ComRead, ComTrue, Tellings
    <3> QED
      BY <3>4, <3>5, <3>10, <3>11
  <2> QED
    BY <2>2, <2>5, <2>7, <2>8, <2>10, <2>11, ComMoves
<1>7. \/ Quit(r) /\ UNCHANGED <<entry, retired, rating>>
      \/ /\ entry[e] = "NONE" /\ entry' = [entry EXCEPT ![e] = v] /\ retired' = retired \ {e}
         /\ rating' = [x \in Review |-> IF x = e THEN n ELSE rating[x]] /\ Advance(r)
  BY <1>2, <1>3 DEF Insert, Taken
<1> QED
  BY <1>5, <1>6, <1>7

LEMMA InsertReportKeeps ==
    ASSUME ComInv, NEW r \in Slot, InsertReport(r)
    PROVE  ComInv'
<1>1. /\ ~Resting(r) /\ req[r].todo = ToReport
      /\ world' = world /\ retired' = retired /\ rating' = rating
      /\ favorite' = favorite /\ notice' = notice /\ journal' = journal
  BY ComAt DEF InsertReport
<1>2. PICK t \in Report :
          /\ entry[t] = "NONE"
          /\ entry' = [entry EXCEPT ![t] = "PENDING"]
          /\ due' = [due EXCEPT ![t] = world.admins]
          /\ AdvanceWith(r, CommunityArgs(t))
  BY DEF InsertReport
<1>3. t \in Entity /\ t \notin Review /\ t \notin Category /\ t \notin Key
  BY CommunityAssumption DEF Entity
<1>4. /\ CommunityArgs(t) \in ComArg /\ CommunityArgs(t).entity = t
  BY <1>3 DEF CommunityArgs, ComArg, Value
<1>5. PICK arg \in ComArg : arg = CommunityArgs(t) /\ arg.entity = t
  BY <1>4
<1>6. ComGoesOn(r, FindAdminsOn, arg)
  BY <1>1, <1>2, <1>5, ComHeads DEF AdvanceWith, Proceed, ComGoesOn, ComPlans, Tellings
<1>7. /\ req' \in [Slot -> {Idle} \cup ComUnderway] /\ req'[r] \in ComUnderway
      /\ req'[r].todo = FindAdminsOn /\ req'[r].arg = arg /\ ~Resting(r)'
      /\ \A q \in Slot \ {r} : req'[q] = req[q]
      /\ smooth' \in BOOLEAN /\ StillAlone(r) /\ smooth' = smooth
      /\ Telling(r)' /\ ~Logs(r)'
  BY <1>1, <1>6, ComGoesTo, ComDiffer DEF ComGoesOn, Tellings
<1>8. ~Telling(r) /\ ~Logs(r)
  BY <1>1, ComDiffer DEF Telling, Logs
<1>9. PICK A \in SUBSET Admin : A = world.admins
  BY DEF ComInv, CommunityTypeOK, World
<1>10. /\ entry'[t] = "PENDING" /\ \A x \in Entity \ {t} : entry'[x] = entry[x]
       /\ due'[t] = A /\ \A x \in Report \ {t} : due'[x] = due[x]
       /\ entry' \in [Entity -> Value] /\ due' \in [Report -> SUBSET Admin]
  BY <1>2, <1>3, <1>9 DEF ComInv, CommunityTypeOK, Value, ReportStatus
<1>11. CommunityTypeOK'
  BY <1>1, <1>10 DEF ComInv, CommunityTypeOK
<1>12. \A x \in Entity : entry[x] # "NONE" => entry'[x] # "NONE"
  BY <1>3, <1>10
<1>13. NewsOnce' /\ ComGrows(r)
  BY <1>1, <1>12, NoticesAbout DEF ComInv, NewsOnce, ComGrows, Entity
<1>14. StillTells(r)
  BY <1>2, <1>5, <1>7 DEF StillTells
<1>15. Untold(t)
  BY <1>2 DEF ComInv, NewsOnce, Untold
<1>16. ComFits(r)'
  BY <1>1, <1>5, <1>7, <1>10, <1>15, ComDiffer DEF ComFits, ComKnows, Tellings, Untold
<1>17. ASSUME smooth PROVE SellerHears' /\ AdminsHear' /\ LogsLead' /\ ComRead(r)'
  <2>1. /\ \A x : ~Announcing(x)
        /\ \A x : ~Logging(x)
        /\ \A x : Announcing(x)' <=> x = t
        /\ \A x : ~Logging(x)'
    BY <1>1, <1>5, <1>7, <1>8, <1>17, OnlyPending
  <2>2. SellerHears /\ AdminsHear /\ LogsLead
    BY <1>17 DEF ComInv
  <2>3. \A x, u : Heard(x, u)' <=> Heard(x, u)
    BY <1>1 DEF Heard
  <2>4. SellerHears'
    <3>1. \A x \in Review : entry'[x] = entry[x]
      BY <1>3, <1>10 DEF Entity
    <3> QED
      BY <2>1, <2>2, <2>3, <3>1 DEF SellerHears, Review
  <2>5. AdminsHear'
    <3> SUFFICES ASSUME NEW x \in Report
                 PROVE  /\ entry'[x] = "NONE" => due'[x] = {}
                        /\ entry'[x] # "NONE" /\ ~Announcing(x)' =>
                              \A a \in Admin : Heard(x, a)' <=> a \in due'[x]
      BY DEF AdminsHear
    <3>1. CASE x = t
      BY <1>10, <2>1, <3>1
    <3>2. CASE x # t
      <4>1. entry'[x] = entry[x] /\ due'[x] = due[x]
        BY <1>10, <3>2 DEF Entity
      <4> QED
        BY <2>1, <2>2, <2>3, <4>1 DEF AdminsHear
    <3> QED
      BY <3>1, <3>2
  <2>6. \A x \in Entity : LogEnd(x)' = LogEnd(x) /\ \A i : LedTo(x, i)' = LedTo(x, i)
    BY <1>1, LedStays
  <2>7. journal[t] = <<>> /\ LogEnd(t) = "PENDING"
    <3>1. journal[t] = <<>>
      BY <1>2, <1>3, <2>1, <2>2 DEF LogsLead
    <3> QED
      BY <1>3, <3>1 DEF LogEnd, LedTo, FirstValue
  <2>8. LogsLead'
    <3> SUFFICES ASSUME NEW x \in Entity
                 PROVE  /\ \A i \in DOMAIN journal[x] :
                              \/ journal[x][i].from = LedTo(x, i)
                              \/ x \in Category /\ journal[x][i] = [from |-> "ACTIVE", to |-> "INACTIVE"]
                        /\ \/ x \notin Key /\ entry'[x] = "NONE" /\ journal[x] = <<>>
                           \/ (x \in Key \/ entry'[x] # "NONE") /\ entry'[x] = LogEnd(x)
      BY <1>1, <2>6 DEF LogsLead
    <3>1. CASE x = t
      BY <1>10, <2>7, <3>1
    <3>2. CASE x # t
      BY <1>10, <2>1, <2>2, <3>2 DEF LogsLead
    <3> QED
      BY <3>1, <3>2
  <2>9. ComRead(r)'
    BY <1>1, <1>5, <1>7, <1>9, <1>10, ComDiffer DEF ComRead, ComTrue, Tellings
  <2> QED
    BY <2>4, <2>5, <2>8, <2>9
<1> QED
  BY <1>7, <1>11, <1>13, <1>14, <1>16, <1>17, ComMoves

LEMMA SetEntryKeeps ==
    ASSUME ComInv, NEW r \in Slot, SetEntry(r)
    PROVE  ComInv'
<1>1. /\ ~Resting(r) /\ req[r].todo = ToModerate /\ req[r].arg \in ComArg
      /\ ComKnows(req[r].todo, req[r].arg) /\ Advance(r)
      /\ world' = world /\ retired' = retired /\ rating' = rating
      /\ favorite' = favorite /\ notice' = notice /\ journal' = journal /\ due' = due
  BY ComAt DEF SetEntry
<1>2. PICK arg \in ComArg : arg = req[r].arg
  BY <1>1
<1>3. PICK e \in Entity, v \in Value : e = arg.entity /\ v = arg.value /\ (e \notin Key => v # "NONE")
  BY <1>1, <1>2 DEF ComArg, ComKnows
<1>4. Review \cup Report \subseteq Entity /\ \A x \in Review \cup Report : x \notin Key
  BY CommunityAssumption DEF Entity
<1>5. ComGoesOn(r, LogOn, arg)
  BY <1>1, <1>2, ComHeads DEF Advance, AdvanceWith, Proceed, ComGoesOn, ComPlans
<1>6. /\ req' \in [Slot -> {Idle} \cup ComUnderway] /\ req'[r] \in ComUnderway
      /\ req'[r].todo = LogOn /\ req'[r].arg = arg /\ ~Resting(r)'
      /\ \A q \in Slot \ {r} : req'[q] = req[q]
      /\ smooth' \in BOOLEAN /\ StillAlone(r) /\ smooth' = smooth
      /\ ~Telling(r)' /\ Logs(r)'
  BY <1>1, <1>5, ComGoesTo, ComDiffer DEF ComGoesOn
<1>7. ~Telling(r) /\ ~Logs(r)
  BY <1>1, ComDiffer DEF Telling, Logs
<1>8. /\ entry'[e] = v /\ \A x \in Entity \ {e} : entry'[x] = entry[x]
      /\ entry' \in [Entity -> Value]
  BY <1>2, <1>3 DEF SetEntry, ComInv, CommunityTypeOK
<1>9. CommunityTypeOK'
  BY <1>1, <1>8 DEF ComInv, CommunityTypeOK
<1>10. \A x \in Review \cup Report : entry[x] # "NONE" => entry'[x] # "NONE"
  BY <1>3, <1>4, <1>8
<1>11. NewsOnce' /\ ComGrows(r)
  BY <1>1, <1>10, NoticesAbout DEF ComInv, NewsOnce, ComGrows
<1>12. StillTells(r)
  BY <1>6 DEF StillTells
<1>13. ComFits(r)'
  BY <1>1, <1>3, <1>6, ComDiffer DEF ComFits, ComKnows, Tellings, Entity, Review
<1>14. ASSUME smooth PROVE SellerHears' /\ AdminsHear' /\ LogsLead' /\ ComRead(r)'
  <2>1. /\ \A x : ~Announcing(x)
        /\ \A x : ~Logging(x)
        /\ \A x : ~Announcing(x)'
        /\ \A x : Logging(x)' <=> x = e
    BY <1>1, <1>3, <1>6, <1>7, <1>14, OnlyPending
  <2>2. SellerHears /\ AdminsHear /\ LogsLead
    BY <1>14 DEF ComInv
  <2>3. \A x, u : Heard(x, u)' <=> Heard(x, u)
    BY <1>1 DEF Heard
  <2>4. /\ e \in Key \/ entry[e] # "NONE"
        /\ arg.previous = entry[e] \/ Deactivates(arg)
    BY <1>1, <1>2, <1>3, <1>14 DEF ComInv, ComRead, ComTrue
  <2>5. \A x \in Review \cup Report : entry'[x] # "NONE" <=> entry[x] # "NONE"
    BY <1>3, <1>4, <1>8, <2>4
  <2>6. SellerHears'
    BY <2>1, <2>2, <2>3, <2>5 DEF SellerHears, Review
  <2>7. AdminsHear'
    BY <1>1, <2>1, <2>2, <2>3, <2>5 DEF AdminsHear
  <2>8. \A x \in Entity : LogEnd(x)' = LogEnd(x) /\ \A i : LedTo(x, i)' = LedTo(x, i)
    BY <1>1, LedStays
  <2>9. LogsLead'
    <3> SUFFICES ASSUME NEW x \in Entity
                 PROVE  /\ \A i \in DOMAIN journal[x] :
                              \/ journal[x][i].from = LedTo(x, i)
                              \/ x \in Category /\ journal[x][i] = [from |-> "ACTIVE", to |-> "INACTIVE"]
                        /\ \/ Logging(x)'
                           \/ x \notin Key /\ entry'[x] = "NONE" /\ journal[x] = <<>>
                           \/ (x \in Key \/ entry'[x] # "NONE") /\ entry'[x] = LogEnd(x)
      BY <1>1, <2>8 DEF LogsLead
    <3>1. CASE x = e
      BY <2>1, <2>2, <3>1 DEF LogsLead
    <3>2. CASE x # e
      BY <1>8, <2>1, <2>2, <3>2 DEF LogsLead
    <3> QED
      BY <3>1, <3>2
  <2>10. entry[e] = LogEnd(e)
    BY <2>1, <2>2, <2>4 DEF LogsLead
  <2>11. ComRead(r)'
    <3>1. entry'[e] = v /\ (arg.previous = LogEnd(e)' \/ Deactivates(arg))
      BY <1>8, <2>4, <2>8, <2>10
    <3> QED
      BY <1>3, <1>6, <3>1, ComDiffer DEF ComRead, ComTrue, Tellings, Deactivates
  <2> QED
    BY <2>6, <2>7, <2>9, <2>11
<1> QED
  BY <1>6, <1>9, <1>11, <1>12, <1>13, <1>14, ComMoves

LEMMA LogKeeps ==
    ASSUME ComInv, NEW r \in Slot, Log(r)
    PROVE  ComInv'
<1>1. /\ ~Resting(r) /\ req[r].todo = LogOn /\ req[r].arg \in ComArg
      /\ ComKnows(req[r].todo, req[r].arg) /\ Advance(r)
      /\ world' = world /\ retired' = retired /\ rating' = rating /\ entry' = entry
      /\ favorite' = favorite /\ notice' = notice /\ due' = due
  BY ComAt DEF Log
<1>2. PICK arg \in ComArg : arg = req[r].arg
  BY <1>1
<1>3. PICK e \in Entity, v \in Value, p \in Value :
          e = arg.entity /\ v = arg.value /\ p = arg.previous /\ (e \notin Key => v # "NONE")
  BY <1>1, <1>2 DEF ComArg, ComKnows
<1> DEFINE row == [from |-> p, to |-> v]
<1>4. journal' = [journal EXCEPT ![e] = Append(journal[e], row)]
  BY <1>2, <1>3 DEF Log, Logged
<1>5. row \in JournalRow /\ row.from = p /\ row.to = v
  BY DEF JournalRow
<1> HIDE DEF row
<1>6. /\ journal[e] \in Seq(JournalRow) /\ Len(journal[e]) \in Nat
      /\ Append(journal[e], row) \in Seq(JournalRow)
      /\ Len(Append(journal[e], row)) = Len(journal[e]) + 1
      /\ \A i \in 1 .. Len(journal[e]) : Append(journal[e], row)[i] = journal[e][i]
      /\ Append(journal[e], row)[Len(journal[e]) + 1] = row
  BY <1>5, AppendProperties DEF ComInv, CommunityTypeOK
<1>7. /\ journal'[e] = Append(journal[e], row) /\ \A x \in Entity \ {e} : journal'[x] = journal[x]
      /\ journal' \in [Entity -> Seq(JournalRow)]
  BY <1>4, <1>6 DEF ComInv, CommunityTypeOK
<1>8. CommunityTypeOK'
  BY <1>1, <1>7 DEF ComInv, CommunityTypeOK
<1>9. req' = [req EXCEPT ![r] = Idle] /\ UNCHANGED smooth
  BY <1>1, ComHeads DEF Advance, AdvanceWith, Proceed
<1>10. /\ req' \in [Slot -> {Idle} \cup ComUnderway]
       /\ req'[r] = Idle /\ \A q \in Slot \ {r} : req'[q] = req[q]
  BY <1>9 DEF ComInv
<1>11. ComFits(r)' /\ ComRead(r)' /\ ~Telling(r)' /\ ~Logs(r)'
  BY <1>10 DEF ComFits, ComRead, Telling, Logs, Resting, Idle
<1>12. smooth' \in BOOLEAN /\ StillAlone(r)
  BY <1>1, <1>9, StepsOfOne DEF ComInv
<1>13. NewsOnce' /\ ComGrows(r) /\ StillTells(r)
  BY <1>1, <1>11 DEF ComInv, NewsOnce, ComGrows, StillTells
<1>14. ~Telling(r) /\ Logs(r)
  BY <1>1, ComDiffer DEF Telling, Logs
<1>15. ASSUME smooth PROVE SellerHears' /\ AdminsHear' /\ LogsLead'
  <2>1. /\ \A x : ~Announcing(x)
        /\ \A x : Logging(x) <=> x = e
        /\ \A x : ~Announcing(x)'
        /\ \A x : ~Logging(x)'
    BY <1>1, <1>2, <1>3, <1>9, <1>10, <1>11, <1>14, <1>15, OnlyPending
  <2>2. SellerHears /\ AdminsHear /\ LogsLead
    BY <1>15 DEF ComInv
  <2>3. \A x, u : Heard(x, u)' <=> Heard(x, u)
    BY <1>1 DEF Heard
  <2>4. SellerHears'
    BY <1>1, <2>1, <2>2, <2>3 DEF SellerHears, Review
  <2>5. AdminsHear'
    BY <1>1, <2>1, <2>2, <2>3 DEF AdminsHear
  <2>6. entry[e] = v /\ (p = LogEnd(e) \/ Deactivates(arg))
    BY <1>1, <1>2, <1>3, <1>15 DEF ComInv, ComRead, ComTrue
  <2>7. \A x \in Entity \ {e} : LogEnd(x)' = LogEnd(x) /\ \A i : LedTo(x, i)' = LedTo(x, i)
    BY <1>7, LedStays
  <2>8. \A i \in 1 .. Len(journal[e]) + 1 : LedTo(e, i)' = LedTo(e, i)
    <3>1. FirstValue(e)' = FirstValue(e)
      BY DEF FirstValue, Review
    <3> SUFFICES ASSUME NEW i \in 1 .. Len(journal[e]) + 1, i # 1 PROVE journal'[e][i - 1] = journal[e][i - 1]
      BY <3>1 DEF LedTo
    <3>2. i - 1 \in 1 .. Len(journal[e])
      BY <1>6
    <3> QED
      BY <1>6, <1>7, <3>2
  <2>9. LogEnd(e)' = v
    <3>1. Len(journal'[e]) + 1 # 1 /\ (Len(journal'[e]) + 1) - 1 = Len(journal[e]) + 1
      BY <1>6, <1>7
    <3> QED
      BY <1>5, <1>6, <1>7, <3>1 DEF LogEnd, LedTo
  <2>10. ASSUME NEW i \in DOMAIN journal'[e]
         PROVE  \/ journal'[e][i].from = LedTo(e, i)'
                \/ e \in Category /\ journal'[e][i] = [from |-> "ACTIVE", to |-> "INACTIVE"]
    <3>1. i \in 1 .. Len(journal[e]) + 1
      BY <1>6, <1>7
    <3>2. CASE i = Len(journal[e]) + 1
      <4>1. journal'[e][i] = row
        BY <1>6, <1>7, <3>2
      <4>2. LedTo(e, i)' = LogEnd(e)
        BY <2>8, <3>1, <3>2 DEF LogEnd
      <4>3. Deactivates(arg) => e \in Category /\ row = [from |-> "ACTIVE", to |-> "INACTIVE"]
        BY <1>3 DEF Deactivates, row
      <4> QED
        BY <1>5, <2>6, <4>1, <4>2, <4>3
    <3>3. CASE i # Len(journal[e]) + 1
      <4>1. i \in 1 .. Len(journal[e]) /\ i \in DOMAIN journal[e]
        BY <1>6, <3>1, <3>3
      <4>2. journal'[e][i] = journal[e][i] /\ LedTo(e, i)' = LedTo(e, i)
        BY <1>6, <1>7, <2>8, <3>1, <4>1
      <4> QED
        BY <2>2, <4>1, <4>2 DEF LogsLead
    <3> QED
      BY <3>2, <3>3
  <2>11. LogsLead'
    <3> SUFFICES ASSUME NEW x \in Entity
                 PROVE  /\ \A i \in DOMAIN journal'[x] :
                              \/ journal'[x][i].from = LedTo(x, i)'
                              \/ x \in Category /\ journal'[x][i] = [from |-> "ACTIVE", to |-> "INACTIVE"]
                        /\ \/ Logging(x)'
                           \/ x \notin Key /\ entry[x] = "NONE" /\ journal'[x] = <<>>
                           \/ (x \in Key \/ entry[x] # "NONE") /\ entry[x] = LogEnd(x)'
      BY <1>1 DEF LogsLead
    <3>1. CASE x = e
      BY <1>3, <2>6, <2>9, <2>10, <3>1
    <3>2. CASE x # e
      BY <1>7, <2>1, <2>2, <2>7, <3>2 DEF LogsLead
    <3> QED
      BY <3>1, <3>2
  <2> QED
    BY <2>4, <2>5, <2>11
<1>16. smooth' => SellerHears' /\ AdminsHear' /\ LogsLead' /\ ComRead(r)'
  BY <1>9, <1>11, <1>15
<1> QED
  BY <1>8, <1>10, <1>11, <1>12, <1>13, <1>16, ComMoves

\* Rows about e for each of R, in some order.
AddsRows(e, R, order) ==
    /\ order \in [1 .. Cardinality(R) -> R] /\ \A u \in R : \E i \in DOMAIN order : order[i] = u
    /\ notice' = notice \o [i \in DOMAIN order |->
                                [about |-> e, to |-> order[i], state |-> "unread"]]

LEMMA Joined ==
    ASSUME NEW S, NEW s, NEW t, NEW l \in Nat, NEW k \in Nat, NEW st \in Seq(S), Len(st) = l + k,
           \A n \in 1 .. l + k : st[n] = IF n <= l THEN s[n] ELSE t[n - l]
    PROVE  /\ DOMAIN st = 1 .. l + k /\ 1 .. l \subseteq DOMAIN st
           /\ \A n \in DOMAIN st : \/ n \in 1 .. l /\ st[n] = s[n]
                                   \/ n \notin 1 .. l /\ n - l \in 1 .. k /\ st[n] = t[n - l]
           /\ \A i \in 1 .. k : l + i \in DOMAIN st /\ st[l + i] = t[i]
<1>2. DOMAIN st = 1 .. l + k
  OBVIOUS
<1>3. \A i \in 1 .. k : l + i \in 1 .. l + k /\ ~(l + i <= l) /\ (l + i) - l = i
  OBVIOUS
<1>4. \A n \in 1 .. l + k : /\ n <= l => n \in 1 .. l
                           /\ ~(n <= l) => n \notin 1 .. l /\ n - l \in 1 .. k
  OBVIOUS
<1>5. 1 .. l \subseteq 1 .. l + k
  OBVIOUS
<1> QED
  BY <1>2, <1>3, <1>4, <1>5

\* Rows of the inbox for each of some recipients, in any order.
LEMMA OneRowEach ==
    ASSUME ComInv, NEW e \in Review \cup Report, NEW R \in SUBSET (Admin \cup {Merchant}),
           NEW order, AddsRows(e, R, order), Untold(e)
    PROVE  /\ notice' \in Seq(NoticeRow)
           /\ DOMAIN notice \subseteq DOMAIN notice'
           /\ \A n \in DOMAIN notice' :
                 \/ n \in DOMAIN notice /\ notice'[n].about = notice[n].about
                                        /\ notice'[n].to = notice[n].to
                 \/ n \notin DOMAIN notice /\ notice'[n].about = e
           /\ \A n, m \in DOMAIN notice' :
                 notice'[n].about = notice'[m].about /\ notice'[n].to = notice'[m].to => n = m
           /\ \A x, u : Heard(x, u)' <=> IF x = e THEN u \in R ELSE Heard(x, u)
<1>1. IsFiniteSet(R)
  <2>1. IsFiniteSet(Admin \cup {Merchant})
    BY FS_AddElement, CommunityAssumption
  <2> QED
    BY <2>1, FS_Subset
<1>2. Cardinality(R) \in Nat
  BY <1>1, FS_CardinalityType
<1>3. PICK k \in Nat : k = Cardinality(R)
  BY <1>2
<1>4. order \in [1 .. k -> R] /\ DOMAIN order = 1 .. k
  BY <1>3 DEF AddsRows
<1>5. \A i, j \in 1 .. k : order[i] = order[j] => i = j
  <2>1. order \in Surjection(1 .. k, R)
    BY <1>4 DEF Surjection, AddsRows
  <2>2. IsFiniteSet(1 .. k) /\ Cardinality(1 .. k) = k
    BY FS_Interval
  <2>3. order \in Injection(1 .. k, R)
    BY <1>3, <2>1, <2>2, FS_SurjSameCardinalityImpliesInj
  <2> QED
    BY <1>4, <2>3 DEF Injection, IsInjective
<1> DEFINE rows == [i \in 1 .. k |-> [about |-> e, to |-> order[i], state |-> "unread"]]
<1>6. /\ rows \in Seq(NoticeRow) /\ Len(rows) = k
      /\ \A i \in 1 .. k : rows[i].about = e /\ rows[i].to = order[i]
  <2>1. \A i \in 1 .. k : /\ rows[i] = [about |-> e, to |-> order[i], state |-> "unread"]
                          /\ rows[i] \in NoticeRow
    BY <1>4 DEF NoticeRow
  <2>2. rows \in [1 .. k -> NoticeRow]
    BY <2>1
  <2>3. rows \in Seq(NoticeRow) /\ Len(rows) = k
    BY <2>2
  <2> QED
    BY <2>1, <2>3
<1>7. notice' = notice \o rows
  BY <1>4 DEF AddsRows
<1> HIDE DEF rows
<1>8. PICK l \in Nat : l = Len(notice) /\ notice \in Seq(NoticeRow) /\ DOMAIN notice = 1 .. l
  BY NoticesAbout
<1>9. /\ notice' \in Seq(NoticeRow) /\ DOMAIN notice' = 1 .. l + k /\ 1 .. l \subseteq DOMAIN notice'
      /\ \A n \in DOMAIN notice' :
            \/ n \in 1 .. l /\ notice'[n] = notice[n]
            \/ n \notin 1 .. l /\ n - l \in 1 .. k /\ notice'[n] = rows[n - l]
      /\ \A i \in 1 .. k : l + i \in DOMAIN notice' /\ notice'[l + i] = rows[i]
  <2>1. /\ notice' \in Seq(NoticeRow) /\ Len(notice') = l + k
        /\ \A n \in 1 .. l + k : notice'[n] = IF n <= l THEN notice[n] ELSE rows[n - l]
    BY ZenonT(40), <1>6, <1>7, <1>8, ConcatProperties
  <2> QED
    BY <2>1, Joined
<1>10. DOMAIN notice \subseteq DOMAIN notice'
  BY <1>8, <1>9
<1>11. ASSUME NEW n \in DOMAIN notice'
       PROVE  \/ n \in DOMAIN notice /\ notice'[n] = notice[n]
              \/ /\ n \notin DOMAIN notice /\ n - l \in 1 .. k
                 /\ notice'[n].about = e /\ notice'[n].to = order[n - l]
  <2>1. CASE n \in 1 .. l
    BY <1>8, <1>9, <2>1
  <2>2. CASE n \notin 1 .. l
    <3>1. n - l \in 1 .. k /\ notice'[n] = rows[n - l]
      BY <1>9, <2>2
    <3> QED
      BY <1>6, <1>8, <2>2, <3>1
  <2> QED
    BY <2>1, <2>2
<1>12. \A n \in DOMAIN notice : notice[n].about # e
  BY DEF Untold
<1>13. ASSUME NEW n \in DOMAIN notice', NEW m \in DOMAIN notice',
              notice'[n].about = notice'[m].about, notice'[n].to = notice'[m].to
       PROVE  n = m
  <2>1. CASE n \in DOMAIN notice /\ m \in DOMAIN notice
    BY <1>11, <1>13, <2>1 DEF ComInv, NewsOnce
  <2>2. CASE n \notin DOMAIN notice /\ m \notin DOMAIN notice
    <3>1. n - l \in 1 .. k /\ m - l \in 1 .. k /\ order[n - l] = order[m - l]
      BY <1>11, <1>13, <2>2
    <3>2. n - l = m - l
      BY <1>5, <3>1
    <3>3. n \in Int /\ m \in Int
      BY <1>9
    <3> QED
      BY <3>2, <3>3
  <2>3. CASE n \in DOMAIN notice /\ m \notin DOMAIN notice
    BY <1>11, <1>12, <1>13, <2>3
  <2>4. CASE n \notin DOMAIN notice /\ m \in DOMAIN notice
    BY <1>11, <1>12, <1>13, <2>4
  <2> QED
    BY <2>1, <2>2, <2>3, <2>4
<1>14. ASSUME NEW x, NEW u PROVE Heard(x, u)' <=> IF x = e THEN u \in R ELSE Heard(x, u)
  <2>1. CASE x = e
    <3>1. ASSUME NEW n \in DOMAIN notice', notice'[n].about = e, notice'[n].to = u PROVE u \in R
      BY <1>4, <1>11, <1>12, <3>1
    <3>2. ASSUME u \in R PROVE \E n \in DOMAIN notice' : notice'[n].about = e /\ notice'[n].to = u
      <4>1. PICK i \in 1 .. k : order[i] = u
        BY <1>4, <3>2 DEF AddsRows
      <4>2. l + i \in DOMAIN notice' /\ notice'[l + i] = rows[i]
        BY <1>9
      <4>3. rows[i].about = e /\ rows[i].to = u
        BY <1>6, <4>1
      <4> QED
        BY <4>2, <4>3
    <3> QED
      BY <2>1, <3>1, <3>2 DEF Heard
  <2>2. CASE x # e
    <3>1. ASSUME NEW n \in DOMAIN notice', notice'[n].about = x, notice'[n].to = u
          PROVE  n \in DOMAIN notice /\ notice[n].about = x /\ notice[n].to = u
      BY <1>11, <2>2, <3>1
    <3>2. ASSUME NEW n \in DOMAIN notice, notice[n].about = x, notice[n].to = u
          PROVE  n \in DOMAIN notice' /\ notice'[n].about = x /\ notice'[n].to = u
      BY <1>10, <1>11, <3>2
    <3> QED
      BY <2>2, <3>1, <3>2 DEF Heard
  <2> QED
    BY <2>1, <2>2
<1>15. \A n \in DOMAIN notice' :
          \/ n \in DOMAIN notice /\ notice'[n].about = notice[n].about /\ notice'[n].to = notice[n].to
          \/ n \notin DOMAIN notice /\ notice'[n].about = e
  BY <1>11
<1> QED
  BY <1>9, <1>10, <1>13, <1>14, <1>15

LEMMA TellKeeps ==
    ASSUME ComInv, NEW r \in Slot, NEW R,
           \/ R = {Merchant} /\ Tell(r, "tellSeller", R)
           \/ R = req[r].arg.admins /\ Tell(r, "tellAdmins", R)
    PROVE  ComInv'
<1>1. /\ ~Resting(r) /\ req[r].arg \in ComArg /\ ComKnows(req[r].todo, req[r].arg) /\ Advance(r)
      /\ \/ req[r].todo = TellSellerOn /\ R = {Merchant}
         \/ req[r].todo = TellAdminsOn /\ R = req[r].arg.admins
      /\ world' = world /\ retired' = retired /\ rating' = rating /\ entry' = entry
      /\ favorite' = favorite /\ journal' = journal /\ due' = due
  BY ComAt DEF Tell
<1>2. PICK e \in Review \cup Report : e = req[r].arg.entity
  BY <1>1 DEF ComKnows
<1>3. /\ entry[e] # "NONE" /\ Untold(e)
      /\ req[r].todo = TellSellerOn => e \in Review
      /\ req[r].todo = TellAdminsOn => e \in Report
  BY <1>1, <1>2 DEF ComKnows, Tellings
<1>4. R \in SUBSET (Admin \cup {Merchant})
  BY <1>1 DEF ComArg
<1>5. PICK order : AddsRows(e, R, order)
  BY <1>2 DEF Tell, AddsRows
<1>6. /\ notice' \in Seq(NoticeRow)
      /\ DOMAIN notice \subseteq DOMAIN notice'
      /\ \A n \in DOMAIN notice' :
            \/ n \in DOMAIN notice /\ notice'[n].about = notice[n].about
                                   /\ notice'[n].to = notice[n].to
            \/ n \notin DOMAIN notice /\ notice'[n].about = e
      /\ \A n, m \in DOMAIN notice' :
            notice'[n].about = notice'[m].about /\ notice'[n].to = notice'[m].to => n = m
      /\ \A x, u : Heard(x, u)' <=> IF x = e THEN u \in R ELSE Heard(x, u)
  BY <1>3, <1>4, <1>5, OneRowEach
<1>7. CommunityTypeOK'
  BY <1>1, <1>6 DEF ComInv, CommunityTypeOK
<1>8. req' = [req EXCEPT ![r] = Idle] /\ UNCHANGED smooth
  BY <1>1, ComHeads DEF Advance, AdvanceWith, Proceed
<1>9. /\ req' \in [Slot -> {Idle} \cup ComUnderway]
      /\ req'[r] = Idle /\ \A q \in Slot \ {r} : req'[q] = req[q]
  BY <1>8 DEF ComInv
<1>10. ComFits(r)' /\ ComRead(r)' /\ ~Telling(r)' /\ ~Logs(r)'
  BY <1>9 DEF ComFits, ComRead, Telling, Logs, Resting, Idle
<1>11. smooth' \in BOOLEAN /\ StillAlone(r)
  BY <1>1, <1>8, StepsOfOne DEF ComInv
<1>12. Telling(r) /\ ~Logs(r)
  BY <1>1, ComDiffer DEF Telling, Logs, Tellings
<1>13. NewsOnce'
  <2>1. \A n \in DOMAIN notice' : entry[notice'[n].about] # "NONE"
    BY <1>3, <1>6 DEF ComInv, NewsOnce
  <2> QED
    BY <1>1, <1>6, <2>1 DEF ComInv, NewsOnce
<1>14. ComGrows(r) /\ StillTells(r)
  BY <1>1, <1>2, <1>6, <1>10, <1>12 DEF ComGrows, StillTells
<1>15. ASSUME smooth PROVE SellerHears' /\ AdminsHear' /\ LogsLead'
  <2>1. /\ \A x : Announcing(x) <=> x = e
        /\ \A x : ~Logging(x)
        /\ \A x : ~Announcing(x)'
        /\ \A x : ~Logging(x)'
    BY <1>1, <1>2, <1>8, <1>9, <1>10, <1>12, <1>15, OnlyPending
  <2>2. SellerHears /\ AdminsHear /\ LogsLead
    BY <1>15 DEF ComInv
  <2>3. e \in Review => R = {Merchant}
    BY <1>1, <1>3, CommunityAssumption
  <2>4. e \in Report => due[e] = R
    <3>1. e \in Report => req[r].todo = TellAdminsOn /\ R = req[r].arg.admins
      BY <1>1, <1>3, CommunityAssumption
    <3> QED
      BY <1>1, <1>2, <1>15, <3>1 DEF ComInv, ComRead, ComTrue
  <2>5. SellerHears'
    <3> SUFFICES ASSUME NEW x \in Review, entry[x] # "NONE" PROVE Heard(x, Merchant)'
      BY <1>1 DEF SellerHears, Review
    <3>1. CASE x = e
      BY <1>6, <2>3, <3>1
    <3>2. CASE x # e
      BY <1>6, <2>1, <2>2, <3>2 DEF SellerHears
    <3> QED
      BY <3>1, <3>2
  <2>6. AdminsHear'
    <3> SUFFICES ASSUME NEW t \in Report
                 PROVE  /\ entry[t] = "NONE" => due[t] = {}
                        /\ entry[t] # "NONE" => \A a \in Admin : Heard(t, a)' <=> a \in due[t]
      BY <1>1 DEF AdminsHear
    <3>1. CASE t = e
      BY <1>3, <1>6, <2>4, <3>1
    <3>2. CASE t # e
      BY <1>6, <2>1, <2>2, <3>2 DEF AdminsHear
    <3> QED
      BY <3>1, <3>2
  <2>7. LogsLead'
    <3>1. \A x \in Entity : LogEnd(x)' = LogEnd(x) /\ \A i : LedTo(x, i)' = LedTo(x, i)
      BY <1>1, LedStays
    <3> QED
      BY <1>1, <2>1, <2>2, <3>1 DEF LogsLead
  <2> QED
    BY <2>5, <2>6, <2>7
<1>16. smooth' => SellerHears' /\ AdminsHear' /\ LogsLead' /\ ComRead(r)'
  BY <1>8, <1>10, <1>15
<1> QED
  BY <1>7, <1>9, <1>10, <1>11, <1>13, <1>14, <1>16, ComMoves

---------------------------------------------------------------------------
LEMMA CommunityStarts == ReqInit /\ CommunityInit => ComInv
<1> SUFFICES ASSUME ReqInit, CommunityInit PROVE ComInv
  OBVIOUS
<1>1. /\ req \in [Slot -> {Idle} \cup ComUnderway] /\ smooth = TRUE
      /\ \A r \in Slot : Resting(r)
  BY DEF ReqInit, Resting, Idle
<1>2. /\ world \in [delivered : SUBSET OrderId, offered : {Thing}, admins : {Admin}]
      /\ entry = [e \in Entity |-> "NONE"] /\ retired = {} /\ rating = [x \in Review |-> 0]
      /\ favorite = [m \in Member |-> [x \in Thing |-> 0]] /\ notice = <<>>
      /\ journal = [e \in Entity |-> <<>>] /\ due = [t \in Report |-> {}]
  BY DEF CommunityInit
<1>3. CommunityTypeOK
  <2>1. world \in World
    BY <1>2 DEF World
  <2>2. entry \in [Entity -> Value] /\ due \in [Report -> SUBSET Admin] /\ retired \subseteq Review
    BY <1>2 DEF Value
  <2>3. rating \in [Review -> Rating \cup {0}] /\ favorite \in [Member -> [Thing -> Nat]]
    BY <1>2
  <2>4. notice \in Seq(NoticeRow) /\ journal \in [Entity -> Seq(JournalRow)]
    BY <1>2
  <2> QED
    BY <2>1, <2>2, <2>3, <2>4 DEF CommunityTypeOK
<1>4. (\A r \in Slot : ComFits(r) /\ ComRead(r)) /\ OneTells /\ Alone
  BY <1>1 DEF ComFits, ComRead, OneTells, Telling, Alone
<1>5. NewsOnce
  BY <1>2 DEF NewsOnce
<1>6. SellerHears /\ AdminsHear
  BY <1>2 DEF SellerHears, AdminsHear, Entity
<1>7. LogsLead
  <2> SUFFICES ASSUME NEW e \in Entity
               PROVE  /\ journal[e] = <<>>
                      /\ \/ e \notin Key /\ entry[e] = "NONE"
                         \/ e \in Key /\ entry[e] = LogEnd(e)
    BY DEF LogsLead
  <2>1. journal[e] = <<>> /\ entry[e] = "NONE"
    BY <1>2
  <2>2. LogEnd(e) = FirstValue(e)
    BY <2>1 DEF LogEnd, LedTo
  <2>3. e \in Key => FirstValue(e) = "NONE"
    BY CommunityAssumption DEF FirstValue
  <2> QED
    BY <2>1, <2>2, <2>3
<1> QED
  BY <1>1, <1>3, <1>4, <1>5, <1>6, <1>7 DEF ComInv

LEMMA CommunitySteps ==
    ASSUME ComInv, [CommunityNext]_<<reqVars, comVars>>
    PROVE  ComInv'
<1>1. ASSUME NEW r \in Slot, StartCommunity(r) \/ Break(r), UNCHANGED comVars PROVE ComInv'
  BY <1>1, StartCommunityKeeps, ComBreaks
<1>2. ASSUME NEW r \in Slot, CommunityStep(r) PROVE ComInv'
  <2>1. CASE Tell(r, "tellSeller", {Merchant}) \/ Tell(r, "tellAdmins", req[r].arg.admins)
    BY <2>1, TellKeeps
  <2>2. CASE Insert(r) \/ InsertReport(r) \/ FindAdmins(r) \/ SetEntry(r) \/ Log(r)
    BY <2>2, InsertKeeps, InsertReportKeeps, FindAdminsKeeps, SetEntryKeeps, LogKeeps
  <2>3. CASE \/ Rate(r) \/ Retire(r) \/ SetFavorite(r)
             \/ SetNotice(r, "markRead", "read") \/ SetNotice(r, "dropNotice", "removed")
    BY <2>3, RateKeeps, SetFavoriteKeeps, SetNoticeKeeps
  <2> QED
    BY <1>2, <2>1, <2>2, <2>3 DEF CommunityStep
<1>3. CASE UNCHANGED <<reqVars, comVars>>
  <2>1. /\ req' = req /\ smooth' = smooth
        /\ world' = world /\ entry' = entry /\ retired' = retired /\ rating' = rating
        /\ favorite' = favorite /\ notice' = notice /\ journal' = journal /\ due' = due
    BY <1>3 DEF reqVars, comVars
  <2>2. UNCHANGED comVars
    BY <1>3
  <2>3. CommunityTypeOK' /\ SameNews
    BY <2>2, ComRests
  <2>4. \A r \in Slot : ComFits(r)' /\ (ComRead(r) => ComRead(r)')
    BY ZenonT(40), <2>1 DEF ComInv, ComFits, ComKnows, Untold, Resting, ComRead, ComTrue, LogEnd, LedTo
  <2>5. OneTells' /\ (Alone => Alone')
    BY <2>1 DEF ComInv, OneTells, Telling, Alone, Resting
  <2>6. (\A e : Announcing(e)' <=> Announcing(e)) /\ (\A e : Logging(e)' <=> Logging(e))
    BY <2>1 DEF Announcing, Telling, Logging, Logs, Resting
  <2>7. NewsOnce' /\ (smooth => SellerHears' /\ AdminsHear' /\ LogsLead')
    BY <2>3, <2>6, NewsStay
  <2>8. req' \in [Slot -> {Idle} \cup ComUnderway] /\ smooth' \in BOOLEAN
    BY <2>1 DEF ComInv
  <2>9. smooth' => Alone' /\ SellerHears' /\ AdminsHear' /\ LogsLead' /\ \A r \in Slot : ComRead(r)'
    BY <2>1, <2>4, <2>5, <2>7 DEF ComInv
  <2> QED
    BY <2>3, <2>4, <2>5, <2>7, <2>8, <2>9 DEF ComInv
<1>4. ASSUME NEW u, MarkAllAsRead(u) PROVE ComInv'
  BY <1>4, MarkAllKeeps
<1> QED
  BY <1>1, <1>2, <1>3, <1>4, ElsewhereKeeps DEF CommunityNext

LEMMA NewsDelivered == ComInv => NewsIsDelivered
<1> SUFFICES ASSUME ComInv PROVE NewsIsDelivered
  OBVIOUS
<1>1. ASSUME NEW n \in DOMAIN notice
      PROVE  entry[notice[n].about] # "NONE" /\ Notices(notice[n].about, notice[n].to) = {n}
  BY DEF ComInv, NewsOnce, Notices
<1>2. \A m \in Member, x \in Thing : favorite[m][x] <= 1
  BY DEF ComInv, NewsOnce
<1>3. ASSUME smooth, AllRest
      PROVE  /\ \A x \in Review : entry[x] # "NONE" => Notices(x, Merchant) # {}
             /\ \A t \in Report, a \in Admin :
                   Cardinality(Notices(t, a)) = IF a \in due[t] THEN 1 ELSE 0
  <2>1. SellerHears /\ AdminsHear /\ NewsOnce /\ \A e : ~Announcing(e)
    BY <1>3 DEF ComInv, AllRest, Announcing, Telling
  <2>2. \A x \in Review : entry[x] # "NONE" => Notices(x, Merchant) # {}
    BY <2>1 DEF SellerHears, Heard, Notices
  <2>3. ASSUME NEW t \in Report, NEW a \in Admin
        PROVE  Cardinality(Notices(t, a)) = IF a \in due[t] THEN 1 ELSE 0
    <3>1. CASE Heard(t, a)
      <4>1. PICK n \in DOMAIN notice : notice[n].about = t /\ notice[n].to = a
        BY <3>1 DEF Heard
      <4>2. Notices(t, a) = {n} /\ entry[t] # "NONE"
        BY <2>1, <4>1 DEF NewsOnce, Notices
      <4>3. Cardinality(Notices(t, a)) = 1
        BY <4>2, FS_Singleton
      <4>4. a \in due[t]
        BY <2>1, <3>1, <4>2 DEF AdminsHear
      <4> QED
        BY <4>3, <4>4
    <3>2. CASE ~Heard(t, a)
      <4>1. Notices(t, a) = {}
        BY <3>2 DEF Heard, Notices
      <4>2. Cardinality(Notices(t, a)) = 0
        BY <4>1, FS_EmptySet
      <4>3. a \notin due[t]
        BY <2>1, <3>2 DEF AdminsHear
      <4> QED
        BY <4>2, <4>3
    <3> QED
      BY <3>1, <3>2
  <2> QED
    BY <2>2, <2>3
<1> QED
  BY <1>1, <1>2, <1>3 DEF NewsIsDelivered

LEMMA JournalLed == ComInv => JournalLeadsHere
<1> SUFFICES ASSUME ComInv, smooth, AllRest, NEW e \in Entity
             PROVE  LET log == journal[e]
                        Before(i) == IF i = 1 THEN FirstValue(e) ELSE log[i - 1].to
                    IN /\ \A i \in DOMAIN log :
                             \/ log[i].from = Before(i)
                             \/ e \in Category /\ log[i] = [from |-> "ACTIVE", to |-> "INACTIVE"]
                       /\ entry[e] = Before(Len(log) + 1) \/ entry[e] = "NONE"
  BY DEF JournalLeadsHere
<1>1. LogsLead /\ ~Logging(e)
  BY DEF ComInv, AllRest, Logging, Logs
<1> QED
  BY <1>1 DEF LogsLead, LogEnd, LedTo

\* However requests overlap and fail, nobody is told of a row that is not there
\* nor twice of one, and nobody likes a thing twice; without overlaps and failures
\* the seller and the administrators of the moment are told of everything
\* (ReviewsService, ReportsService, NotificationsService, FavoritesService).
THEOREM NewsArrives == CommunitySpec => []NewsIsDelivered
<1>1. ReqInit /\ CommunityInit => ComInv
  BY CommunityStarts
<1>2. ComInv /\ [CommunityNext]_<<reqVars, comVars>> => ComInv'
  BY CommunitySteps
<1>3. ComInv => NewsIsDelivered
  BY NewsDelivered
<1> QED
  BY <1>1, <1>2, <1>3, PTL DEF CommunitySpec

\* The audit log of a row leads, entry by entry, to the value the row has
\* (AuditLogsService.record, as the administrators' routes call it).
THEOREM JournalIsWhole == CommunitySpec => []JournalLeadsHere
<1>1. ReqInit /\ CommunityInit => ComInv
  BY CommunityStarts
<1>2. ComInv /\ [CommunityNext]_<<reqVars, comVars>> => ComInv'
  BY CommunitySteps
<1>3. ComInv => JournalLeadsHere
  BY JournalLed
<1> QED
  BY <1>1, <1>2, <1>3, PTL DEF CommunitySpec

---------------------------------------------------------------------------
(* Pictures.                                                               *)

\* What the requests for pictures may have left to do.
ToAvatar == <<"uploadAvatar", "dropOld", "writeAvatar">>
DropAvatarOn == <<"dropOld", "writeAvatar">>
WriteAvatarOn == <<"writeAvatar">>
ToRemove == <<"dropOld", "deletePicture">>
DeleteOn == <<"deletePicture">>
ToSend == <<"documents", "writeDocuments">>
WriteDocumentsOn == <<"writeDocuments">>

AvatarPlans == {ToAvatar, DropAvatarOn, WriteAvatarOn}
RemovePlans == {ToRemove, DeleteOn}
SendPlans == {ToSend, WriteDocumentsOn}

\* Uploads and insertions take turns, and an insertion is the last.
AddPlans ==
    {s \in Seq({"uploadPicture", "insertPicture"}) :
        /\ s # <<>> /\ s[Len(s)] = "insertPicture"
        /\ \A i \in 1 .. Len(s) - 1 : s[i + 1] # s[i]}

ImgPlans == AvatarPlans \cup RemovePlans \cup SendPlans \cup AddPlans

ImgArg == [old : File \cup {NoFile}, new : File \cup {NoFile}, order : Nat,
           picture : Picture \cup {NoPicture},
           stage : [Document -> {"keep", "drop", "upload", "failed"}],
           urls : [Document -> File \cup {NoFile}]]

ImgUnderway == [todo : ImgPlans, arg : ImgArg]

\* A file that has been uploaded for this use, and one that is there.
FileOf(f, use) == f # NoFile => file[f].state # "none" /\ file[f].use = use
FreshOf(f, use) == f \in File /\ file[f].state = "stored" /\ file[f].use = use

\* A request that has stored a file which no row shows yet.
Inserts(todo) == todo \in AddPlans /\ Head(todo) = "insertPicture"
Carries(todo) == todo \in {DropAvatarOn, WriteAvatarOn} \/ Inserts(todo)
HasNew(r) == ~Resting(r) /\ Carries(req[r].todo)

\* Rows point to files uploaded for them, two pictures never to the same.
RowsPoint ==
    /\ FileOf(avatar, "avatar")
    /\ \A d \in Document : FileOf(document[d], "document")
    /\ \A p \in Picture :
          /\ picture[p].state = "none" <=> picture[p].file = NoFile
          /\ FileOf(picture[p].file, "picture")
    /\ \A p, q \in Picture : picture[p].file = picture[q].file /\ picture[p].file # NoFile => p = q
    /\ \E n \in Nat : \A p \in Picture : picture[p].order <= n

\* What the statements of a plan need, whatever else goes on.
ImgKnows(todo, arg) ==
    /\ arg.old # NoFile => file[arg.old].state # "none"
    /\ todo \in AvatarPlans => FileOf(arg.old, "avatar")
    /\ todo \in {DropAvatarOn, WriteAvatarOn} => FreshOf(arg.new, "avatar")
    /\ Inserts(todo) => FreshOf(arg.new, "picture")
    /\ todo \in RemovePlans =>
          /\ arg.picture \in Picture /\ picture[arg.picture].state # "none"
          /\ arg.old = picture[arg.picture].file
    /\ todo \in SendPlans => \A d \in Document : FileOf(arg.urls[d], "document")

ImgFits(r) == ~Resting(r) => req[r] \in ImgUnderway /\ ImgKnows(req[r].todo, req[r].arg)

\* A new file is its request's own.
Private ==
    \A r \in Slot : HasNew(r) =>
        /\ req[r].arg.new # avatar
        /\ \A p \in Picture : picture[p].file # req[r].arg.new
        /\ \A q \in Slot : ~Resting(q) =>
              /\ req[q].arg.old # req[r].arg.new
              /\ q # r /\ HasNew(q) => req[q].arg.new # req[r].arg.new

\* A file is dropped while a row shows it only by a request that goes on to the row.
Swapping == \E r \in Slot : ~Resting(r) /\ req[r].todo = WriteAvatarOn
Removing(p) == \E r \in Slot : ~Resting(r) /\ req[r].todo = DeleteOn /\ req[r].arg.picture = p

RowsShow ==
    /\ Stored(avatar) \/ Swapping
    /\ \A p \in LivePictures : Stored(picture[p].file) \/ Removing(p)

\* Without overlaps and failures: the documents are there, and all of them ...
Sending == \E r \in Slot : ~Resting(r) /\ req[r].todo \in SendPlans

OneEach(urls) == \A d, e \in Document : urls[d] = urls[e] /\ urls[d] # NoFile => d = e

DocumentsThere ==
    /\ OneEach(document)
    /\ (\A d \in Document : document[d] = NoFile) \/ (\A d \in Document : document[d] # NoFile)
    /\ Sending \/ \A d \in Document : Stored(document[d])

\* ... no file is stored in vain, pictures have places of their own ...
Shown(f) == f = avatar \/ \E p \in LivePictures : picture[p].file = f
Carried(f) == \E r \in Slot : HasNew(r) /\ req[r].arg.new = f

NoneInVain ==
    \A f \in File : file[f].state = "stored" /\ file[f].use # "document" => Shown(f) \/ Carried(f)

OwnPlaces == \A p, q \in LivePictures : picture[p].order = picture[q].order => p = q

\* ... and what a request has read still holds.
ImgTrue(todo, arg) ==
    /\ todo \in AvatarPlans => arg.old = avatar
    /\ todo \in {WriteAvatarOn, DeleteOn} /\ arg.old # NoFile => file[arg.old].state # "stored"
    /\ todo \in RemovePlans => picture[arg.picture].state = "live"
    /\ todo \in AddPlans => \A p \in LivePictures : picture[p].order < arg.order
    /\ todo \in SendPlans => OneEach(arg.urls)
    /\ todo = ToSend =>
          /\ (\A d \in Document : document[d] = NoFile) \/ (\A d \in Document : arg.urls[d] # NoFile)
          /\ \A d \in Document :
                /\ arg.stage[d] # "failed"
                /\ arg.stage[d] \in {"keep", "drop"} => Stored(arg.urls[d])
    /\ todo = WriteDocumentsOn =>
          \A d \in Document : arg.urls[d] # NoFile /\ Stored(arg.urls[d])

ImgRead(r) == ~Resting(r) => ImgTrue(req[r].todo, req[r].arg)

ImgInv ==
    /\ ImagesTypeOK
    /\ req \in [Slot -> {Idle} \cup ImgUnderway]
    /\ \A r \in Slot : ImgFits(r)
    /\ RowsPoint
    /\ Private
    /\ ~broken => RowsShow
    /\ smooth \in BOOLEAN
    /\ smooth => /\ Alone /\ ~broken
                 /\ DocumentsThere /\ NoneInVain /\ OwnPlaces
                 /\ \A r \in Slot : ImgRead(r)

LEMMA ImgHeads ==
    /\ ToAvatar # <<>> /\ Head(ToAvatar) = "uploadAvatar" /\ Tail(ToAvatar) = DropAvatarOn
    /\ DropAvatarOn # <<>> /\ Head(DropAvatarOn) = "dropOld" /\ Tail(DropAvatarOn) = WriteAvatarOn
    /\ WriteAvatarOn # <<>> /\ Head(WriteAvatarOn) = "writeAvatar" /\ Tail(WriteAvatarOn) = <<>>
    /\ ToRemove # <<>> /\ Head(ToRemove) = "dropOld" /\ Tail(ToRemove) = DeleteOn
    /\ DeleteOn # <<>> /\ Head(DeleteOn) = "deletePicture" /\ Tail(DeleteOn) = <<>>
    /\ ToSend # <<>> /\ Head(ToSend) = "documents" /\ Tail(ToSend) = WriteDocumentsOn
    /\ WriteDocumentsOn # <<>> /\ Head(WriteDocumentsOn) = "writeDocuments"
    /\ Tail(WriteDocumentsOn) = <<>>
BY DEF ToAvatar, DropAvatarOn, WriteAvatarOn, ToRemove, DeleteOn, ToSend, WriteDocumentsOn

\* A request for pictures uploads and inserts in turn.
LEMMA AddHeads ==
    ASSUME NEW s \in AddPlans
    PROVE  /\ s # <<>>
           /\ \/ /\ Head(s) = "uploadPicture"
                 /\ Tail(s) \in AddPlans /\ Head(Tail(s)) = "insertPicture"
              \/ /\ Head(s) = "insertPicture"
                 /\ Tail(s) # <<>> => Tail(s) \in AddPlans /\ Head(Tail(s)) = "uploadPicture"
<1> DEFINE S == {"uploadPicture", "insertPicture"}
<1>1. /\ s \in Seq(S) /\ s # <<>> /\ s[Len(s)] = "insertPicture"
      /\ \A i \in 1 .. Len(s) - 1 : s[i + 1] # s[i]
  BY DEF AddPlans
<1>2. Len(s) \in Nat /\ Len(s) >= 1 /\ Head(s) = s[1] /\ s[1] \in S
  BY <1>1
<1>3. /\ Tail(s) \in Seq(S) /\ Len(Tail(s)) = Len(s) - 1
      /\ \A i \in 1 .. Len(s) - 1 : Tail(s)[i] = s[i + 1]
  BY <1>1
<1>4. ASSUME Tail(s) # <<>>
      PROVE  Tail(s) \in AddPlans /\ Head(Tail(s)) = s[2] /\ s[2] # s[1] /\ s[2] \in S
  <2>1. Len(s) >= 2 /\ Head(Tail(s)) = Tail(s)[1] /\ Tail(s)[1] = s[2] /\ s[2] \in S
    BY <1>1, <1>2, <1>3, <1>4
  <2>2. s[2] # s[1]
    BY <1>1, <1>2, <2>1
  <2>3. Tail(s)[Len(Tail(s))] = "insertPicture"
    BY <1>1, <1>2, <1>3, <2>1
  <2>4. ASSUME NEW i \in 1 .. Len(Tail(s)) - 1 PROVE Tail(s)[i + 1] # Tail(s)[i]
    <3>1. i \in Nat /\ i + 1 \in 1 .. Len(s) - 1 /\ i \in 1 .. Len(s) - 1
      BY <1>2, <1>3, <2>4
    <3> QED
      BY <1>1, <1>3, <3>1
  <2> QED
    BY <1>3, <1>4, <2>1, <2>2, <2>3, <2>4 DEF AddPlans
<1>5. ASSUME Tail(s) = <<>> PROVE Head(s) = "insertPicture"
  <2>1. Len(Tail(s)) = 0
    <3>1. \A t : t = <<>> => Len(t) = 0
      OBVIOUS
    <3> QED
      BY <1>5, <3>1
  <2>2. Len(s) = 1
    <3>1. Len(Tail(s)) = Len(s) - 1 /\ Len(s) \in Nat
      BY <1>2, <1>3
    <3>2. \A m, n \in Nat : m = n - 1 /\ m = 0 => n = 1
      OBVIOUS
    <3> QED
      BY <2>1, <3>1, <3>2
  <2> QED
    BY <1>1, <1>2, <2>2
<1> QED
  BY <1>1, <1>2, <1>4, <1>5

LEMMA AddsPlanned ==
    ASSUME NEW n \in Nat \ {0}
    PROVE  LET s == [i \in 1 .. 2 * n |-> IF i % 2 = 1 THEN "uploadPicture" ELSE "insertPicture"]
           IN  s \in AddPlans /\ Head(s) = "uploadPicture"
<1> DEFINE s == [i \in 1 .. 2 * n |-> IF i % 2 = 1 THEN "uploadPicture" ELSE "insertPicture"]
<1>1. 2 * n \in Nat /\ 2 * n >= 2 /\ (2 * n) % 2 = 0
  OBVIOUS
<1>2. s \in Seq({"uploadPicture", "insertPicture"}) /\ Len(s) = 2 * n
  BY <1>1
<1>3. s # <<>> /\ s[Len(s)] = "insertPicture" /\ Head(s) = "uploadPicture"
  BY <1>1, <1>2
<1>4. ASSUME NEW i \in 1 .. Len(s) - 1 PROVE s[i + 1] # s[i]
  <2>1. i \in Nat /\ i \in 1 .. 2 * n /\ i + 1 \in 1 .. 2 * n
    BY <1>1, <1>2
  <2>2. (i + 1) % 2 = 1 <=> i % 2 # 1
    BY <2>1
  <2> QED
    BY <2>1, <2>2
<1> HIDE DEF s
<1>5. s \in AddPlans
  BY <1>2, <1>3, <1>4 DEF AddPlans
<1> QED
  BY <1>3, <1>5 DEF s

\* The plans differ.
LEMMA ImgDiffer ==
    /\ AvatarPlans \cap (RemovePlans \cup SendPlans \cup AddPlans) = {}
    /\ RemovePlans \cap (SendPlans \cup AddPlans) = {}
    /\ SendPlans \cap AddPlans = {}
    /\ ToAvatar # DropAvatarOn /\ ToAvatar # WriteAvatarOn /\ DropAvatarOn # WriteAvatarOn
    /\ ToRemove # DeleteOn /\ ToSend # WriteDocumentsOn
<1>1. DropAvatarOn # ToRemove
  BY ImgHeads
<1>2. \A s \in AddPlans : Head(s) \in {"uploadPicture", "insertPicture"}
  BY AddHeads
<1> QED
  BY <1>1, <1>2, ImgHeads DEF AvatarPlans, RemovePlans, SendPlans

\* Which plan a request has, by the statement it is at.
LEMMA ImgAt ==
    ASSUME ImgInv, NEW r \in Slot, NEW s, At(r, s)
    PROVE  /\ ~Resting(r) /\ req[r] \in ImgUnderway /\ req[r].todo \in ImgPlans
           /\ req[r].arg \in ImgArg /\ ImgKnows(req[r].todo, req[r].arg)
           /\ Head(req[r].todo) = s
           /\ s = "uploadAvatar" => req[r].todo = ToAvatar
           /\ s = "dropOld" => req[r].todo \in {DropAvatarOn, ToRemove}
           /\ s = "writeAvatar" => req[r].todo = WriteAvatarOn
           /\ s = "deletePicture" => req[r].todo = DeleteOn
           /\ s = "documents" => req[r].todo = ToSend
           /\ s = "writeDocuments" => req[r].todo = WriteDocumentsOn
           /\ s \in {"uploadPicture", "insertPicture"} => req[r].todo \in AddPlans
<1>1. /\ ~Resting(r) /\ req[r] \in ImgUnderway /\ Head(req[r].todo) = s
      /\ ImgKnows(req[r].todo, req[r].arg)
  BY DEF At, ImgInv, ImgFits
<1>2. req[r].todo \in ImgPlans /\ req[r].arg \in ImgArg
  BY <1>1 DEF ImgUnderway
<1>3. \A t \in AddPlans : Head(t) \in {"uploadPicture", "insertPicture"}
  BY AddHeads
<1> QED
  BY <1>1, <1>2, <1>3, ImgHeads DEF ImgPlans, AvatarPlans, RemovePlans, SendPlans

---------------------------------------------------------------------------
\* The order of a new picture comes after those of the pictures there are.
LEMMA NextOrder ==
    ASSUME ImgInv
    PROVE  /\ HighestOrder + 1 \in Nat
           /\ \A p \in LivePictures : picture[p].order < HighestOrder + 1
<1>1. \A p \in Picture : picture[p].order \in Nat
  BY DEF ImgInv, ImagesTypeOK, PictureRow
<1>2. LivePictures \subseteq Picture
  BY DEF LivePictures
<1>3. CASE LivePictures = {}
  BY <1>3 DEF HighestOrder
<1>4. CASE LivePictures # {}
  <2> DEFINE Bounds == {n \in Nat : \A p \in LivePictures : picture[p].order <= n}
             Orders == {picture[p].order : p \in LivePictures}
  <2>1. Bounds \subseteq Nat /\ Bounds # {}
    BY <1>2 DEF ImgInv, RowsPoint
  <2>2. PICK least \in Bounds : \A m \in Bounds : <<m, least>> \notin OpToRel(<, Nat)
    BY <2>1, NatLessThanWellFounded, WFMin
  <2>3. \A m \in Bounds : ~(m < least)
    BY <2>1, <2>2 DEF OpToRel
  <2>4. \E p \in LivePictures : picture[p].order = least
    <3> SUFFICES ASSUME \A p \in LivePictures : picture[p].order # least PROVE FALSE
      OBVIOUS
    <3>1. least \in Nat /\ \A p \in LivePictures : picture[p].order <= least
      OBVIOUS
    <3>2. \A p \in LivePictures : picture[p].order <= least - 1 /\ picture[p].order \in Nat
      BY <1>1, <1>2, <3>1
    <3>3. least - 1 \in Nat
      BY <1>4, <3>1, <3>2
    <3> QED
      BY <2>3, <3>1, <3>2, <3>3
  <2>5. \E n \in Orders : \A p \in LivePictures : picture[p].order <= n
    BY <2>4
  <2> DEFINE high == CHOOSE n \in Orders : \A p \in LivePictures : picture[p].order <= n
  <2>6. high \in Orders /\ \A p \in LivePictures : picture[p].order <= high
    BY <2>5
  <2>7. HighestOrder = high
    BY <1>4 DEF HighestOrder
  <2> HIDE DEF high
  <2>8. high \in Nat
    BY <1>1, <1>2, <2>6
  <2> QED
    BY <1>1, <1>2, <2>6, <2>7, <2>8
<1> QED
  BY <1>3, <1>4

---------------------------------------------------------------------------
(* What a step of r leaves to the others.                                  *)

\* Files and rows stay what they are, and nobody else's new file is touched.
ImgGrows(r) ==
    /\ \A f \in File : file[f].state # "none" => /\ file'[f].state # "none"
                                                 /\ file'[f].use = file[f].use
    /\ \A p \in Picture : picture[p].state # "none" => /\ picture'[p].state # "none"
                                                       /\ picture'[p].file = picture[p].file
    /\ \A q \in Slot \ {r} : HasNew(q) => file'[req[q].arg.new] = file[req[q].arg.new]

LEMMA OtherImagesFit ==
    ASSUME ImgInv, NEW r \in Slot, ImgGrows(r), NEW q \in Slot \ {r}, req'[q] = req[q]
    PROVE  ImgFits(q)'
<1> SUFFICES ASSUME ~Resting(q) PROVE ImgFits(q)'
  BY DEF Resting, ImgFits
<1>1. req[q] \in ImgUnderway /\ ImgKnows(req[q].todo, req[q].arg)
  BY DEF ImgInv, ImgFits
<1>2. PICK todo \in ImgPlans, arg \in ImgArg : todo = req[q].todo /\ arg = req[q].arg
  BY <1>1 DEF ImgUnderway
<1>3. /\ arg.old \in File \cup {NoFile} /\ arg.new \in File \cup {NoFile}
      /\ \A d \in Document : arg.urls[d] \in File \cup {NoFile}
  BY <1>2 DEF ImgArg
<1>4. \A f \in File : file[f].state # "none" => /\ file'[f].state # "none"
                                                /\ file'[f].use = file[f].use
  BY DEF ImgGrows
<1>5. \A use : \A f \in File \cup {NoFile} : FileOf(f, use) => FileOf(f, use)'
  BY <1>4 DEF FileOf
<1>6. Carries(todo) => file'[arg.new] = file[arg.new]
  BY <1>2 DEF ImgGrows, HasNew
<1>7. \A use : Carries(todo) /\ FreshOf(arg.new, use) => FreshOf(arg.new, use)'
  BY <1>6 DEF FreshOf
<1>8. arg.old # NoFile => file'[arg.old].state # "none"
  BY <1>1, <1>2, <1>3, <1>4 DEF ImgKnows
<1>9. /\ todo \in AvatarPlans => FileOf(arg.old, "avatar")'
      /\ todo \in {DropAvatarOn, WriteAvatarOn} => FreshOf(arg.new, "avatar")'
      /\ Inserts(todo) => FreshOf(arg.new, "picture")'
      /\ todo \in SendPlans => \A d \in Document : FileOf(arg.urls[d], "document")'
  BY <1>1, <1>2, <1>3, <1>5, <1>7 DEF ImgKnows, Carries
<1>10. todo \in RemovePlans =>
          /\ arg.picture \in Picture /\ picture'[arg.picture].state # "none"
          /\ arg.old = picture'[arg.picture].file
  BY <1>1, <1>2 DEF ImgKnows, ImgGrows
<1>11. /\ req'[q] \in ImgUnderway
       /\ arg.old # NoFile => file'[arg.old].state # "none"
       /\ todo \in AvatarPlans => FileOf(arg.old, "avatar")'
       /\ todo \in {DropAvatarOn, WriteAvatarOn} => FreshOf(arg.new, "avatar")'
       /\ Inserts(todo) => FreshOf(arg.new, "picture")'
       /\ todo \in SendPlans => \A d \in Document : FileOf(arg.urls[d], "document")'
  BY <1>1, <1>8, <1>9
<1>12. todo = req'[q].todo /\ arg = req'[q].arg
  BY <1>2
<1> QED
  BY <1>10, <1>11, <1>12 DEF ImgFits, ImgKnows, FileOf, FreshOf, Inserts

\* r's new file is the one it had, or one of no use before; a row shows a new file
\* only when the request that stored it has no more to do with it.
NewOrOwn(r, f) == HasNew(r) /\ f = req[r].arg.new /\ ~HasNew(r)'

PrivacyKept(r) ==
    /\ HasNew(r)' => /\ req'[r].arg.new \in File
                     /\ \/ HasNew(r) /\ req'[r].arg.new = req[r].arg.new
                        \/ file[req'[r].arg.new].state = "none"
    /\ avatar' = avatar \/ NewOrOwn(r, avatar')
    /\ \A p \in Picture :
          picture'[p].file = picture[p].file \/ NewOrOwn(r, picture'[p].file)
    /\ ~Resting(r)' =>
          \/ ~Resting(r) /\ req'[r].arg.old = req[r].arg.old
          \/ req'[r].arg.old = avatar
          \/ \E p \in Picture : req'[r].arg.old = picture[p].file
          \/ req'[r].arg.old = NoFile

\* What is not of use yet is nobody's.
LEMMA NotUsed ==
    ASSUME ImgInv, NEW f \in File, file[f].state = "none"
    PROVE  /\ f # avatar /\ \A p \in Picture : picture[p].file # f
           /\ \A q \in Slot : ~Resting(q) => /\ req[q].arg.old # f
                                             /\ HasNew(q) => req[q].arg.new # f
<1>0. f # NoFile
  BY DEF File, NoFile, ImgInv
<1>1. f # avatar /\ \A p \in Picture : picture[p].file # f
  BY <1>0 DEF ImgInv, RowsPoint, FileOf
<1>2. ASSUME NEW q \in Slot, ~Resting(q)
      PROVE  req[q].arg.old # f /\ (HasNew(q) => req[q].arg.new # f)
  <2>1. ImgKnows(req[q].todo, req[q].arg)
    BY <1>2 DEF ImgInv, ImgFits
  <2> QED
    BY <1>0, <2>1 DEF ImgKnows, HasNew, Carries, FreshOf
<1> QED
  BY <1>1, <1>2

LEMMA NewIsStored ==
    ASSUME ImgInv, NEW q \in Slot, HasNew(q)
    PROVE  /\ req[q].arg.new \in File /\ req[q].arg.new # NoFile
           /\ file[req[q].arg.new].state = "stored"
<1>1. ImgKnows(req[q].todo, req[q].arg) /\ Carries(req[q].todo)
  BY DEF ImgInv, ImgFits, HasNew
<1> QED
  BY <1>1 DEF ImgKnows, Carries, FreshOf, File, NoFile

LEMMA PrivateStays ==
    ASSUME ImgInv, NEW r \in Slot, PrivacyKept(r), \A q \in Slot \ {r} : req'[q] = req[q]
    PROVE  Private'
<1>1. ASSUME NEW q \in Slot \ {r}
      PROVE  req'[q] = req[q] /\ (HasNew(q)' <=> HasNew(q)) /\ (Resting(q)' <=> Resting(q))
  BY DEF HasNew, Resting
<1>2. ASSUME NEW x \in Slot, HasNew(x)'
      PROVE  \/ HasNew(x) /\ req'[x].arg.new = req[x].arg.new
             \/ x = r /\ req'[x].arg.new \in File /\ file[req'[x].arg.new].state = "none"
  BY <1>1, <1>2 DEF PrivacyKept
<1>3. Private
  BY DEF ImgInv
<1> SUFFICES ASSUME NEW x \in Slot, HasNew(x)'
             PROVE  /\ req'[x].arg.new # avatar'
                    /\ \A p \in Picture : picture'[p].file # req'[x].arg.new
                    /\ \A q \in Slot : ~Resting(q)' =>
                          /\ req'[q].arg.old # req'[x].arg.new
                          /\ q # x /\ HasNew(q)' => req'[q].arg.new # req'[x].arg.new
  BY DEF Private
<1> DEFINE new == req'[x].arg.new
<1>4. PICK f \in File : f = new
  BY <1>2, NewIsStored
<1>5. /\ f # avatar /\ \A p \in Picture : picture[p].file # f
      /\ \A q \in Slot : ~Resting(q) => req[q].arg.old # f
      /\ \A q \in Slot : q # x /\ HasNew(q) => req[q].arg.new # f
      /\ f # NoFile
  <2>1. CASE HasNew(x) /\ new = req[x].arg.new
    BY <1>3, <1>4, <2>1, NewIsStored DEF Private, HasNew
  <2>2. CASE file[f].state = "none"
    BY <2>2, <1>4, NotUsed DEF HasNew, File, NoFile
  <2> QED
    BY <1>2, <1>4, <2>1, <2>2
<1>6. ~NewOrOwn(r, f)
  <2> SUFFICES ASSUME NewOrOwn(r, f) PROVE FALSE
    OBVIOUS
  <2>1. HasNew(r) /\ f = req[r].arg.new /\ ~HasNew(r)' /\ x # r
    BY DEF NewOrOwn
  <2> QED
    BY <1>5, <2>1
<1>7. f # avatar' /\ \A p \in Picture : picture'[p].file # f
  BY <1>5, <1>6 DEF PrivacyKept
<1>8. ASSUME NEW q \in Slot, ~Resting(q)' PROVE req'[q].arg.old # f
  <2>1. CASE q = r
    BY <1>5, <1>8, <2>1 DEF PrivacyKept
  <2>2. CASE q # r
    BY <1>1, <1>5, <1>8, <2>2
  <2> QED
    BY <2>1, <2>2
<1>9. ASSUME NEW q \in Slot, q # x, HasNew(q)' PROVE req'[q].arg.new # f
  <2>1. CASE HasNew(q) /\ req'[q].arg.new = req[q].arg.new
    BY <1>5, <1>9, <2>1
  <2>2. CASE q = r /\ req'[q].arg.new \in File /\ file[req'[q].arg.new].state = "none"
    <3>1. HasNew(x) /\ f = req[x].arg.new
      BY <1>1, <1>4, <1>9, <2>2
    <3> QED
      BY <2>2, <3>1, NewIsStored
  <2> QED
    BY <1>2, <1>9, <2>1, <2>2
<1> HIDE DEF new
<1>10. new = f
  BY <1>4
<1> QED
  BY <1>7, <1>8, <1>9, <1>10 DEF new

\* What a step of r on what the rows show has to keep.
ImgShows(r) ==
    /\ ~broken' => RowsShow'
    /\ smooth' => ~broken' /\ DocumentsThere' /\ NoneInVain' /\ OwnPlaces' /\ ImgRead(r)'

LEMMA ImgMoves ==
    ASSUME ImgInv, NEW r \in Slot,
           req' \in [Slot -> {Idle} \cup ImgUnderway],
           \A q \in Slot \ {r} : req'[q] = req[q],
           ImagesTypeOK', RowsPoint', ImgFits(r)', ImgGrows(r), PrivacyKept(r),
           ImgShows(r), smooth' \in BOOLEAN, StillAlone(r)
    PROVE  ImgInv'
<1>1. \A q \in Slot : ImgFits(q)'
  BY OtherImagesFit
<1>2. Private'
  BY PrivateStays
<1>3. smooth' => Alone'
  BY KeepsAlone
<1>4. ASSUME smooth', NEW q \in Slot PROVE ImgRead(q)'
  <2>1. CASE q = r
    BY <1>4, <2>1 DEF ImgShows
  <2>2. CASE q # r
    <3>1. Resting(q) /\ req'[q] = req[q]
      BY <1>4, <2>2 DEF StillAlone
    <3> QED
      BY <3>1 DEF ImgRead, Resting
  <2> QED
    BY <2>1, <2>2
<1>5. smooth' => ~broken' /\ DocumentsThere' /\ NoneInVain' /\ OwnPlaces'
  BY DEF ImgShows
<1>6. ~broken' => RowsShow'
  BY DEF ImgShows
<1> QED
  BY <1>1, <1>2, <1>3, <1>4, <1>5, <1>6 DEF ImgInv

\* What the others have under way stays under way.
LEMMA StillUnderway ==
    ASSUME NEW r \in Slot, \A q \in Slot \ {r} : req'[q] = req[q]
    PROVE  /\ Swapping => Swapping' \/ (~Resting(r) /\ req[r].todo = WriteAvatarOn)
           /\ \A p : Removing(p) => \/ Removing(p)'
                                    \/ /\ ~Resting(r) /\ req[r].todo = DeleteOn
                                       /\ req[r].arg.picture = p
           /\ Sending => Sending' \/ (~Resting(r) /\ req[r].todo \in SendPlans)
           /\ \A f : Carried(f) => Carried(f)' \/ (HasNew(r) /\ req[r].arg.new = f)
<1>1. \A q \in Slot \ {r} : /\ req'[q] = req[q] /\ (Resting(q)' <=> Resting(q))
                            /\ (HasNew(q)' <=> HasNew(q))
  BY DEF HasNew, Resting
<1>2. Swapping => Swapping' \/ (~Resting(r) /\ req[r].todo = WriteAvatarOn)
  BY <1>1 DEF Swapping
<1>3. ASSUME NEW p, Removing(p)
      PROVE  \/ Removing(p)'
             \/ ~Resting(r) /\ req[r].todo = DeleteOn /\ req[r].arg.picture = p
  BY <1>1, <1>3 DEF Removing
<1>4. Sending => Sending' \/ (~Resting(r) /\ req[r].todo \in SendPlans)
  BY <1>1 DEF Sending
<1>5. ASSUME NEW f, Carried(f) PROVE Carried(f)' \/ (HasNew(r) /\ req[r].arg.new = f)
  BY <1>1, <1>5 DEF Carried
<1> QED
  BY <1>2, <1>3, <1>4, <1>5

---------------------------------------------------------------------------
(* Steps that leave files and rows alone.                                  *)

SameFiles == file' = file /\ avatar' = avatar /\ document' = document /\ picture' = picture

LEMMA FilesRest ==
    ASSUME ImgInv, SameFiles, broken' \in BOOLEAN
    PROVE  /\ ImagesTypeOK' /\ RowsPoint' /\ (OwnPlaces <=> OwnPlaces')
           /\ \A f : (Stored(f)' <=> Stored(f)) /\ (Shown(f)' <=> Shown(f))
           /\ \A todo, arg : (ImgKnows(todo, arg)' <=> ImgKnows(todo, arg))
           /\ \A r \in Slot : ImgGrows(r)
<1>1. ImagesTypeOK'
  BY DEF ImgInv, ImagesTypeOK, SameFiles
<1>2. RowsPoint'
  BY DEF ImgInv, RowsPoint, FileOf, SameFiles
<1>3. OwnPlaces <=> OwnPlaces'
  BY DEF OwnPlaces, LivePictures, SameFiles
<1>4. \A f : (Stored(f)' <=> Stored(f)) /\ (Shown(f)' <=> Shown(f))
  BY DEF Stored, Shown, LivePictures, SameFiles
<1>5. \A todo, arg : ImgKnows(todo, arg)' <=> ImgKnows(todo, arg)
  BY DEF ImgKnows, FileOf, FreshOf, SameFiles
<1>6. \A r \in Slot : ImgGrows(r)
  BY DEF ImgGrows, SameFiles
<1> QED
  BY <1>1, <1>2, <1>3, <1>4, <1>5, <1>6

LEMMA ImgBegins ==
    ASSUME ImgInv, NEW r \in Slot, NEW todo \in ImgPlans, NEW arg \in ImgArg,
           Begin(r, todo, arg), UNCHANGED imgVars, ~Carries(todo),
           ImgKnows(todo, arg), smooth /\ AllRest => ImgTrue(todo, arg),
           arg.old \in {avatar, NoFile} \/ \E p \in Picture : arg.old = picture[p].file
    PROVE  ImgInv'
<1> DEFINE new == [todo |-> todo, arg |-> arg]
<1>1. new \in ImgUnderway /\ new.todo = todo /\ new.arg = arg
  BY DEF ImgUnderway
<1>2. req' = [req EXCEPT ![r] = new] /\ smooth' \in BOOLEAN /\ Count /\ Resting(r)
  BY DEF Begin, Count, ImgInv, AllRest
<1> HIDE DEF new
<1>3. /\ req' \in [Slot -> {Idle} \cup ImgUnderway]
      /\ req'[r] = new /\ \A q \in Slot \ {r} : req'[q] = req[q]
  BY <1>1, <1>2 DEF ImgInv
<1>4. SameFiles /\ broken' = broken /\ broken' \in BOOLEAN
  BY DEF imgVars, SameFiles, ImgInv, ImagesTypeOK
<1>5. StillAlone(r)
  BY <1>2, BeginsAlone
<1>6. /\ ImagesTypeOK' /\ RowsPoint' /\ (OwnPlaces <=> OwnPlaces')
      /\ \A f : (Stored(f)' <=> Stored(f)) /\ (Shown(f)' <=> Shown(f))
      /\ ImgKnows(todo, arg)' /\ ImgGrows(r)
  BY <1>4, FilesRest
<1>7. ImgFits(r)'
  BY <1>1, <1>3, <1>6 DEF ImgFits
<1>8. ~HasNew(r)' /\ ~HasNew(r)
  BY <1>1, <1>2, <1>3 DEF HasNew
<1>9. PrivacyKept(r)
  BY <1>1, <1>3, <1>4, <1>8 DEF PrivacyKept, SameFiles
<1>10. /\ Swapping => Swapping'
       /\ \A p : Removing(p) => Removing(p)'
       /\ Sending => Sending'
       /\ \A f : Carried(f) => Carried(f)'
  BY <1>2, <1>3, <1>8, StillUnderway
<1>11. ASSUME ~broken' PROVE RowsShow'
  BY <1>4, <1>6, <1>10, <1>11 DEF RowsShow, SameFiles, LivePictures, ImgInv
<1>12. ASSUME smooth'
       PROVE  ~broken' /\ DocumentsThere' /\ NoneInVain' /\ OwnPlaces' /\ ImgRead(r)'
  <2>1. smooth /\ AllRest /\ ~broken'
    BY <1>2, <1>4, <1>12 DEF Count, ImgInv
  <2>2. DocumentsThere'
    BY <1>4, <1>6, <1>10, <2>1 DEF DocumentsThere, OneEach, SameFiles, ImgInv
  <2>3. NoneInVain'
    BY <1>4, <1>6, <1>10, <2>1 DEF NoneInVain, SameFiles, ImgInv
  <2>4. ImgRead(r)'
    BY <1>1, <1>3, <1>4, <1>6, <2>1
       DEF ImgRead, ImgTrue, SameFiles, LivePictures, OneEach, Stored
  <2> QED
    BY <1>6, <2>1, <2>2, <2>3, <2>4 DEF ImgInv
<1>13. ImgShows(r)
  BY <1>11, <1>12 DEF ImgShows
<1> QED
  BY <1>2, <1>3, <1>5, <1>6, <1>7, <1>9, <1>13, ImgMoves

\* A request that ends and leaves no row without its file.
LEMMA ImgEnds ==
    ASSUME ImgInv, NEW r \in Slot, ~Resting(r), req' = [req EXCEPT ![r] = Idle],
           SameFiles, broken' \in BOOLEAN, smooth' \in BOOLEAN, smooth' => smooth,
           ~broken' => /\ ~broken /\ req[r].todo # WriteAvatarOn
                       /\ req[r].todo = DeleteOn => req[r].arg.picture \notin LivePictures,
           smooth' => ~broken' /\ ~HasNew(r) /\ \A d \in Document : Stored(document[d])
    PROVE  ImgInv'
<1>1. /\ req' \in [Slot -> {Idle} \cup ImgUnderway]
      /\ req'[r] = Idle /\ \A q \in Slot \ {r} : req'[q] = req[q]
  BY DEF ImgInv
<1>2. ImgFits(r)' /\ ImgRead(r)' /\ Resting(r)'
  BY <1>1 DEF ImgFits, ImgRead, Resting, Idle
<1>3. StillAlone(r)
  BY StepsOfOne DEF ImgInv
<1>4. /\ ImagesTypeOK' /\ RowsPoint' /\ (OwnPlaces <=> OwnPlaces')
      /\ \A f : (Stored(f)' <=> Stored(f)) /\ (Shown(f)' <=> Shown(f))
      /\ ImgGrows(r)
  BY FilesRest
<1>5. PrivacyKept(r)
  BY <1>2 DEF PrivacyKept, HasNew, SameFiles
<1>6. ASSUME ~broken' PROVE RowsShow'
  <2>1. RowsShow
    BY <1>6 DEF ImgInv
  <2>2. Swapping => Swapping'
    BY <1>1, <1>6, StillUnderway
  <2>3. \A p \in LivePictures : Removing(p) => Removing(p)'
    BY <1>1, <1>6, StillUnderway
  <2> QED
    BY <1>4, <2>1, <2>2, <2>3 DEF RowsShow, SameFiles, LivePictures
<1>7. ASSUME smooth' PROVE DocumentsThere' /\ NoneInVain' /\ OwnPlaces' /\ ~broken'
  <2>1. DocumentsThere /\ NoneInVain /\ OwnPlaces
    BY <1>7 DEF ImgInv
  <2>2. DocumentsThere'
    BY <1>4, <1>7, <2>1 DEF DocumentsThere, OneEach, SameFiles
  <2>3. \A f : Carried(f) => Carried(f)'
    BY <1>1, <1>7, StillUnderway
  <2>4. NoneInVain'
    BY <1>4, <2>1, <2>3 DEF NoneInVain, SameFiles
  <2> QED
    BY <1>4, <1>7, <2>1, <2>2, <2>4
<1>8. ImgShows(r)
  BY <1>2, <1>6, <1>7 DEF ImgShows
<1> QED
  BY <1>1, <1>2, <1>3, <1>4, <1>5, <1>8, ImgMoves

---------------------------------------------------------------------------
(* Requests.                                                               *)

LEMMA NoArgsFit ==
    ASSUME ImgInv
    PROVE  /\ ImageArgs \in ImgArg /\ ImageArgs.old = NoFile
           /\ \A d \in Document : ImageArgs.urls[d] = NoFile
           /\ avatar \in File \cup {NoFile} /\ document \in [Document -> File \cup {NoFile}]
BY DEF ImgInv, ImagesTypeOK, ImageArgs, ImgArg, NoFile, NoPicture

LEMMA UploadAvatarKeeps ==
    ASSUME ImgInv, NEW r \in Slot, UploadAvatar(r), UNCHANGED imgVars
    PROVE  ImgInv'
<1>1. PICK arg \in ImgArg : arg = [ImageArgs EXCEPT !.old = avatar]
  BY NoArgsFit DEF ImgArg
<1>2. arg.old = avatar /\ Begin(r, ToAvatar, arg)
  BY <1>1, NoArgsFit DEF UploadAvatar, ToAvatar, ImgArg
<1>3. ToAvatar \in ImgPlans /\ ToAvatar \in AvatarPlans
  BY DEF ImgPlans, AvatarPlans
<1>4. ~Carries(ToAvatar)
  BY <1>3, ImgDiffer DEF Carries, Inserts
<1>5. ImgKnows(ToAvatar, arg)
  <2>1. FileOf(avatar, "avatar")
    BY DEF ImgInv, RowsPoint
  <2> QED
    BY <1>2, <1>3, <1>4, <2>1, ImgDiffer DEF ImgKnows, FileOf, Carries
<1>6. ImgTrue(ToAvatar, arg)
  BY <1>2, <1>3, ImgDiffer DEF ImgTrue, RemovePlans, SendPlans
<1> QED
  BY <1>2, <1>3, <1>4, <1>5, <1>6, ImgBegins

LEMMA AddImagesKeeps ==
    ASSUME ImgInv, NEW r \in Slot, NEW n \in 1 .. MaxBatch, AddImages(r, n), UNCHANGED imgVars
    PROVE  ImgInv'
<1>1. PICK arg \in ImgArg : arg = [ImageArgs EXCEPT !.order = HighestOrder + 1]
  BY NoArgsFit, NextOrder DEF ImgArg
<1>2. arg.old = NoFile /\ arg.order = HighestOrder + 1
  BY <1>1, NoArgsFit DEF ImgArg
<1>3. n \in Nat \ {0}
  BY ImagesAssumption
<1>4. PICK todo \in AddPlans : Head(todo) = "uploadPicture" /\ Begin(r, todo, arg)
  BY <1>1, <1>3, AddsPlanned DEF AddImages
<1>5. todo \in ImgPlans
  BY DEF ImgPlans
<1>6. ~Carries(todo)
  BY <1>4, ImgDiffer DEF Carries, Inserts, AvatarPlans
<1>7. ImgKnows(todo, arg)
  BY <1>2, <1>4, <1>6, ImgDiffer DEF ImgKnows, Carries
<1>8. ImgTrue(todo, arg)
  BY <1>2, <1>4, ImgDiffer, NextOrder DEF ImgTrue, AvatarPlans, RemovePlans, SendPlans
<1> QED
  BY <1>2, <1>4, <1>5, <1>6, <1>7, <1>8, ImgBegins

LEMMA RemoveImageKeeps ==
    ASSUME ImgInv, NEW r \in Slot, NEW p \in Picture, RemoveImage(r, p), UNCHANGED imgVars
    PROVE  ImgInv'
<1>1. picture[p] \in PictureRow /\ picture[p].state = "live"
  BY DEF RemoveImage, ImgInv, ImagesTypeOK
<1>2. picture[p].file \in File \cup {NoFile} /\ FileOf(picture[p].file, "picture")
  BY <1>1 DEF PictureRow, ImgInv, RowsPoint
<1>3. PICK arg \in ImgArg : arg = [ImageArgs EXCEPT !.picture = p, !.old = picture[p].file]
  BY <1>2, NoArgsFit DEF ImgArg
<1>4. arg.picture = p /\ arg.old = picture[p].file
  BY <1>3, NoArgsFit DEF ImgArg
<1>5. Begin(r, ToRemove, arg)
  BY <1>3 DEF RemoveImage, ToRemove
<1>6. ToRemove \in ImgPlans /\ ToRemove \in RemovePlans
  BY DEF ImgPlans, RemovePlans
<1>7. ~Carries(ToRemove)
  BY <1>6, ImgDiffer DEF Carries, Inserts, AvatarPlans
<1>8. ImgKnows(ToRemove, arg)
  BY <1>1, <1>2, <1>4, <1>6, <1>7, ImgDiffer DEF ImgKnows, FileOf, Carries
<1>9. ImgTrue(ToRemove, arg)
  BY <1>1, <1>4, <1>6, ImgDiffer DEF ImgTrue, AvatarPlans, SendPlans
<1> QED
  BY <1>4, <1>5, <1>6, <1>7, <1>8, <1>9, ImgBegins

LEMMA SendPicturesKeeps ==
    ASSUME ImgInv, NEW r \in Slot, NEW D, SendPictures(r, D), UNCHANGED imgVars
    PROVE  ImgInv'
<1> DEFINE stages == [d \in Document |-> IF d \notin D THEN "keep"
                                         ELSE IF document[d] = NoFile THEN "upload" ELSE "drop"]
<1>1. stages \in [Document -> {"keep", "drop", "upload", "failed"}]
  OBVIOUS
<1>2. \A d \in Document : stages[d] # "failed"
  OBVIOUS
<1>3. SendPictures(r, D) =>
          Begin(r, ToSend, [ImageArgs EXCEPT !.urls = document, !.stage = stages])
  BY DEF SendPictures, ToSend
<1> HIDE DEF stages
<1>4. PICK arg \in ImgArg : arg = [ImageArgs EXCEPT !.urls = document, !.stage = stages]
  BY <1>1, NoArgsFit DEF ImgArg
<1>5. arg.old = NoFile /\ arg.urls = document /\ arg.stage = stages
  BY <1>4, NoArgsFit DEF ImgArg
<1>6. Begin(r, ToSend, arg)
  BY <1>3, <1>4
<1>7. ToSend \in ImgPlans /\ ToSend \in SendPlans
  BY DEF ImgPlans, SendPlans
<1>8. ~Carries(ToSend)
  BY <1>7, ImgDiffer DEF Carries, Inserts, AvatarPlans
<1>9. ImgKnows(ToSend, arg)
  BY <1>5, <1>7, <1>8, ImgDiffer DEF ImgKnows, Carries, ImgInv, RowsPoint
<1>10. ASSUME smooth, AllRest PROVE ImgTrue(ToSend, arg)
  <2>1. DocumentsThere /\ ~Sending
    BY <1>10 DEF ImgInv, AllRest, Sending
  <2> QED
    BY <1>2, <1>5, <1>7, <2>1, ImgDiffer
       DEF ImgTrue, DocumentsThere, AvatarPlans, RemovePlans
<1> QED
  BY <1>5, <1>6, <1>7, <1>8, <1>9, <1>10, ImgBegins

LEMMA StartImageKeeps ==
    ASSUME ImgInv, NEW r \in Slot, StartImage(r), UNCHANGED imgVars
    PROVE  ImgInv'
BY UploadAvatarKeeps, AddImagesKeeps, RemoveImageKeeps, SendPicturesKeeps DEF StartImage

---------------------------------------------------------------------------
(* Statements.                                                             *)

\* What r goes on with: the next statements, or nothing.
ImgGoesOn(r, todo, arg) ==
    /\ arg \in ImgArg
    /\ todo \in ImgPlans \/ todo = <<>>
    /\ Proceed(r, todo, arg)

LEMMA ImgGoesTo ==
    ASSUME ImgInv, NEW r \in Slot, ~Resting(r), NEW todo, NEW arg, ImgGoesOn(r, todo, arg)
    PROVE  /\ req' \in [Slot -> {Idle} \cup ImgUnderway]
           /\ todo # <<>> => /\ ~Resting(r)' /\ req'[r] \in ImgUnderway
                             /\ req'[r].todo = todo /\ req'[r].arg = arg
           /\ todo = <<>> => Resting(r)' /\ ~HasNew(r)'
           /\ \A q \in Slot \ {r} : req'[q] = req[q]
           /\ smooth' = smooth /\ smooth' \in BOOLEAN /\ StillAlone(r)
<1> DEFINE new == IF todo = <<>> THEN Idle ELSE [todo |-> todo, arg |-> arg]
<1>1. /\ new \in {Idle} \cup ImgUnderway
      /\ todo # <<>> => new \in ImgUnderway /\ new.todo = todo /\ new.arg = arg
      /\ todo = <<>> => new.todo = <<>>
  BY DEF ImgGoesOn, ImgUnderway, Idle
<1>2. req' = [req EXCEPT ![r] = new] /\ UNCHANGED smooth
  BY DEF ImgGoesOn, Proceed
<1> HIDE DEF new
<1>3. /\ req' \in [Slot -> {Idle} \cup ImgUnderway] /\ req'[r] = new
      /\ \A q \in Slot \ {r} : req'[q] = req[q]
  BY <1>1, <1>2 DEF ImgInv
<1>4. /\ todo # <<>> => ~Resting(r)' /\ req'[r].todo = todo /\ req'[r].arg = arg
      /\ todo = <<>> => Resting(r)' /\ ~HasNew(r)'
  BY <1>1, <1>3 DEF Resting, HasNew
<1>5. smooth' = smooth /\ smooth' \in BOOLEAN /\ StillAlone(r)
  BY <1>2, StepsOfOne DEF ImgInv
<1> QED
  BY <1>1, <1>3, <1>4, <1>5

\* A file more.
LEMMA OneMore ==
    ASSUME ImgInv, NEW f \in File, NEW use \in FileUse, Uploaded(f, use)
    PROVE  /\ file[f].state = "none" /\ f # NoFile
           /\ file' \in [File -> StoredFile]
           /\ file'[f].state = "stored" /\ file'[f].use = use
           /\ \A g \in File : g # f => file'[g] = file[g]
           /\ \A g \in File \cup {NoFile} : Stored(g) => Stored(g)'
           /\ \A u : \A g \in File \cup {NoFile} : FileOf(g, u) => FileOf(g, u)'
<1>1. file \in [File -> StoredFile] /\ f \in Nat /\ f # NoFile
  BY ImagesAssumption DEF ImgInv, ImagesTypeOK, File, NoFile
<1>2. file[f].state = "none"
  BY <1>1 DEF Uploaded
<1>3. /\ file' \in [File -> StoredFile]
      /\ file'[f].state = "stored" /\ file'[f].use = use
      /\ \A g \in File : g # f => file'[g] = file[g]
  BY <1>1 DEF Uploaded, StoredFile
<1>4. \A g \in File \cup {NoFile} : Stored(g) => Stored(g)'
  BY <1>3 DEF Stored
<1>5. \A u : \A g \in File \cup {NoFile} : FileOf(g, u) => FileOf(g, u)'
  BY <1>2, <1>3 DEF FileOf
<1> QED
  BY <1>1, <1>2, <1>3, <1>4, <1>5

\* A file less.
LEMMA OneLess ==
    ASSUME ImgInv, NEW old \in File \cup {NoFile}, old # NoFile => file[old].state # "none",
           file' = Dropped(old)
    PROVE  /\ file' \in [File -> StoredFile]
           /\ old # NoFile => file'[old].state = "deleted" /\ file'[old].use = file[old].use
           /\ \A g \in File : g # old => file'[g] = file[g]
           /\ \A g \in File : file[g].state # "none" => /\ file'[g].state # "none"
                                                        /\ file'[g].use = file[g].use
           /\ \A u : \A g \in File \cup {NoFile} : FileOf(g, u) => FileOf(g, u)'
           /\ \A g \in File \cup {NoFile} : Stored(g) => Stored(g)' \/ (g = old /\ g # NoFile)
<1>1. file \in [File -> StoredFile]
  BY DEF ImgInv, ImagesTypeOK
<1>2. \A g \in File : file[g] \in StoredFile
  BY <1>1
<1>3. CASE old = NoFile
  BY <1>1, <1>3 DEF Dropped, FileOf, Stored, File, NoFile
<1>4. CASE old # NoFile
  <2>1. old \in File /\ file' = [file EXCEPT ![old].state = "deleted"]
    BY <1>4 DEF Dropped
  <2>2. /\ file' \in [File -> StoredFile]
        /\ file'[old].state = "deleted" /\ file'[old].use = file[old].use
        /\ \A g \in File : g # old => file'[g] = file[g]
    BY <1>1, <1>2, <2>1 DEF StoredFile
  <2>3. \A g \in File : file[g].state # "none" => /\ file'[g].state # "none"
                                                  /\ file'[g].use = file[g].use
    BY <2>2
  <2>4. \A u : \A g \in File \cup {NoFile} : FileOf(g, u) => FileOf(g, u)'
    BY <2>3 DEF FileOf
  <2>5. \A g \in File \cup {NoFile} : Stored(g) => Stored(g)' \/ (g = old /\ g # NoFile)
    BY <2>2 DEF Stored
  <2> QED
    BY <2>1, <2>2, <2>3, <2>4, <2>5
<1> QED
  BY <1>3, <1>4

LEMMA RowTypes ==
    ASSUME ImgInv
    PROVE  /\ file \in [File -> StoredFile] /\ avatar \in File \cup {NoFile}
           /\ document \in [Document -> File \cup {NoFile}]
           /\ picture \in [Picture -> PictureRow] /\ broken \in BOOLEAN
           /\ \A p \in Picture : /\ picture[p] \in PictureRow
                                 /\ picture[p].file \in File \cup {NoFile}
           /\ \A d \in Document : document[d] \in File \cup {NoFile}
           /\ LivePictures \subseteq Picture
<1>1. picture \in [Picture -> PictureRow] /\ \A p \in Picture : picture[p] \in PictureRow
  BY DEF ImgInv, ImagesTypeOK
<1>2. \A p \in Picture : picture[p].file \in File \cup {NoFile}
  BY <1>1 DEF PictureRow
<1> QED
  BY <1>1, <1>2 DEF ImgInv, ImagesTypeOK, LivePictures

\* The rows still point where they did, while the files are what they were.
LEMMA RowsPointStill ==
    ASSUME ImgInv, UNCHANGED <<avatar, document, picture>>,
           \A u : \A g \in File \cup {NoFile} : FileOf(g, u) => FileOf(g, u)'
    PROVE  RowsPoint'
<1>1. RowsPoint
  BY DEF ImgInv
<1>2. FileOf(avatar, "avatar")'
  BY <1>1, RowTypes DEF RowsPoint, FileOf
<1>3. \A d \in Document : FileOf(document[d], "document")'
  BY <1>1, RowTypes DEF RowsPoint, FileOf
<1>4. \A p \in Picture : FileOf(picture[p].file, "picture")'
  BY <1>1, RowTypes DEF RowsPoint, FileOf
<1> QED
  BY <1>1, <1>2, <1>3, <1>4 DEF RowsPoint

LEMMA UploadKeeps ==
    ASSUME ImgInv, NEW r \in Slot, NEW s, NEW use, Upload(r, s, use),
           (s = "uploadAvatar" /\ use = "avatar") \/ (s = "uploadPicture" /\ use = "picture")
    PROVE  ImgInv'
<1>1. /\ ~Resting(r) /\ req[r].todo \in ImgPlans /\ req[r].arg \in ImgArg
      /\ ImgKnows(req[r].todo, req[r].arg) /\ Head(req[r].todo) = s
      /\ \/ req[r].todo = ToAvatar /\ use = "avatar"
         \/ req[r].todo \in AddPlans /\ use = "picture" /\ Head(req[r].todo) = "uploadPicture"
      /\ UNCHANGED <<avatar, document, picture, broken>>
  BY ImgAt DEF Upload
<1>2. PICK f \in File : Uploaded(f, use) /\ AdvanceWith(r, [req[r].arg EXCEPT !.new = f])
  BY DEF Upload
<1>3. PICK had \in ImgArg : had = req[r].arg
  BY <1>1
<1>4. PICK arg \in ImgArg : arg = [had EXCEPT !.new = f]
  BY DEF ImgArg
<1>5. arg.new = f /\ arg.old = had.old /\ arg.order = had.order
  BY <1>4 DEF ImgArg
<1>6. PICK todo : todo = Tail(req[r].todo)
  OBVIOUS
<1>7. /\ todo \in ImgPlans /\ todo # <<>> /\ Carries(todo)
      /\ \/ todo = DropAvatarOn /\ use = "avatar" /\ req[r].todo = ToAvatar
         \/ /\ todo \in AddPlans /\ Inserts(todo) /\ use = "picture"
            /\ req[r].todo \in AddPlans
  <2>1. CASE req[r].todo = ToAvatar /\ use = "avatar"
    BY <1>6, <2>1, ImgHeads DEF ImgPlans, AvatarPlans, Carries
  <2>2. CASE /\ req[r].todo \in AddPlans /\ use = "picture"
             /\ Head(req[r].todo) = "uploadPicture"
    <3>1. todo \in AddPlans /\ Head(todo) = "insertPicture" /\ todo # <<>>
      BY <1>6, <2>2, AddHeads
    <3> QED
      BY <2>2, <3>1 DEF ImgPlans, Carries, Inserts
  <2> QED
    BY <1>1, <2>1, <2>2
<1>8. ~HasNew(r)
  BY <1>1, ImgDiffer DEF HasNew, Carries, Inserts, AvatarPlans
<1>9. ImgGoesOn(r, todo, arg)
  BY <1>2, <1>3, <1>4, <1>6, <1>7 DEF ImgGoesOn, AdvanceWith
<1>10. /\ req' \in [Slot -> {Idle} \cup ImgUnderway] /\ req'[r] \in ImgUnderway
       /\ ~Resting(r)' /\ req'[r].todo = todo /\ req'[r].arg = arg
       /\ \A q \in Slot \ {r} : req'[q] = req[q]
       /\ smooth' = smooth /\ smooth' \in BOOLEAN /\ StillAlone(r)
  BY <1>1, <1>7, <1>9, ImgGoesTo
<1>11. /\ file[f].state = "none" /\ f # NoFile /\ file' \in [File -> StoredFile]
       /\ file'[f].state = "stored" /\ file'[f].use = use
       /\ \A g \in File : g # f => file'[g] = file[g]
       /\ \A g \in File \cup {NoFile} : Stored(g) => Stored(g)'
       /\ \A u : \A g \in File \cup {NoFile} : FileOf(g, u) => FileOf(g, u)'
  BY <1>1, <1>2, OneMore DEF FileUse
<1>12. ImagesTypeOK'
  BY <1>1, <1>11, RowTypes DEF ImagesTypeOK
<1>13. RowsPoint'
  BY <1>1, <1>11, RowsPointStill
<1>14. ImgGrows(r)
  <2>1. \A q \in Slot \ {r} : HasNew(q) => req[q].arg.new \in File /\ req[q].arg.new # f
    BY <1>11, NewIsStored
  <2> QED
    BY <1>1, <1>11, <2>1 DEF ImgGrows
<1>15. ImgKnows(todo, arg)'
  <2>1. had.old \in File \cup {NoFile} /\ ImgKnows(req[r].todo, had)
    BY <1>1, <1>3 DEF ImgArg
  <2>2. arg.old # NoFile => file'[arg.old].state # "none"
    BY <1>5, <1>11, <2>1 DEF ImgKnows
  <2>3. /\ todo \in AvatarPlans => FileOf(arg.old, "avatar")'
        /\ todo \in {DropAvatarOn, WriteAvatarOn} => FreshOf(arg.new, "avatar")'
        /\ Inserts(todo) => FreshOf(arg.new, "picture")'
    <3>1. CASE todo = DropAvatarOn /\ use = "avatar" /\ req[r].todo = ToAvatar
      <4>1. FileOf(had.old, "avatar")
        BY <2>1, <3>1 DEF ImgKnows, AvatarPlans
      <4>2. FileOf(arg.old, "avatar")'
        BY <1>5, <1>11, <2>1, <4>1
      <4>3. FreshOf(arg.new, "avatar")'
        BY <1>5, <1>11, <3>1 DEF FreshOf
      <4> QED
        BY <3>1, <4>2, <4>3, ImgDiffer DEF Inserts, AvatarPlans
    <3>2. CASE todo \in AddPlans /\ use = "picture"
      <4>1. FreshOf(arg.new, "picture")'
        BY <1>5, <1>11, <3>2 DEF FreshOf
      <4> QED
        BY <3>2, <4>1, ImgDiffer DEF AvatarPlans
    <3> QED
      BY <1>7, <3>1, <3>2
  <2>4. todo \notin RemovePlans /\ todo \notin SendPlans
    BY <1>7, ImgDiffer DEF AvatarPlans
  <2> QED
    BY <2>2, <2>3, <2>4 DEF ImgKnows, Inserts
<1>16. ImgFits(r)'
  BY <1>10, <1>15 DEF ImgFits
<1>17. PrivacyKept(r)
  BY <1>1, <1>3, <1>5, <1>10, <1>11 DEF PrivacyKept
<1>18. /\ Swapping => Swapping'
       /\ \A p : Removing(p) => Removing(p)'
       /\ Sending => Sending'
       /\ \A g : Carried(g) => Carried(g)'
  <2>1. req[r].todo \notin {WriteAvatarOn, DeleteOn} /\ req[r].todo \notin SendPlans
    BY <1>1, ImgDiffer DEF AvatarPlans, RemovePlans
  <2> QED
    BY <1>8, <1>10, <2>1, StillUnderway
<1>19. ASSUME ~broken' PROVE RowsShow'
  <2>1. RowsShow
    BY <1>1, <1>19 DEF ImgInv
  <2>2. Stored(avatar)' \/ Swapping'
    BY <1>1, <1>11, <1>18, <2>1, RowTypes DEF RowsShow, Stored
  <2>3. \A p \in LivePictures : Stored(picture[p].file)' \/ Removing(p)'
    BY <1>1, <1>11, <1>18, <2>1, RowTypes DEF RowsShow, Stored
  <2> QED
    BY <1>1, <2>2, <2>3 DEF RowsShow, LivePictures
<1>20. ASSUME smooth'
       PROVE  ~broken' /\ DocumentsThere' /\ NoneInVain' /\ OwnPlaces' /\ ImgRead(r)'
  <2>1. ~broken' /\ DocumentsThere /\ NoneInVain /\ OwnPlaces /\ ImgTrue(req[r].todo, had)
    BY <1>1, <1>3, <1>10, <1>20 DEF ImgInv, ImgRead
  <2>2. \A d \in Document : Stored(document[d]) => Stored(document[d])'
    BY <1>1, <1>11, RowTypes DEF Stored
  <2>3. DocumentsThere'
    BY <1>1, <1>18, <2>1, <2>2 DEF DocumentsThere, OneEach
  <2>4. Carried(f)'
    BY <1>5, <1>7, <1>10 DEF Carried, HasNew
  <2>5. \A g \in File : Shown(g)' <=> Shown(g)
    BY <1>1 DEF Shown, LivePictures
  <2>6. NoneInVain'
    BY <1>11, <1>18, <2>1, <2>4, <2>5 DEF NoneInVain
  <2>7. OwnPlaces'
    BY <1>1, <2>1 DEF OwnPlaces, LivePictures
  <2>8. ImgRead(r)'
    <3>1. todo \in AvatarPlans => arg.old = avatar'
      BY <1>1, <1>5, <1>7, <2>1, ImgDiffer DEF ImgTrue, AvatarPlans
    <3>2. todo \in AddPlans => \A p \in LivePictures' : picture'[p].order < arg.order
      BY <1>1, <1>5, <1>7, <2>1, ImgDiffer DEF ImgTrue, AvatarPlans, LivePictures
    <3>3. todo \notin RemovePlans /\ todo \notin SendPlans /\ todo # WriteAvatarOn
      BY <1>7, ImgDiffer DEF AvatarPlans
    <3>4. ImgTrue(todo, arg)'
      BY <3>1, <3>2, <3>3 DEF ImgTrue, RemovePlans, SendPlans
    <3> QED
      BY <1>10, <3>4 DEF ImgRead
  <2> QED
    BY <2>1, <2>3, <2>6, <2>7, <2>8
<1>21. ImgShows(r)
  BY <1>19, <1>20 DEF ImgShows
<1> QED
  BY <1>10, <1>12, <1>13, <1>14, <1>16, <1>17, <1>21, ImgMoves

\* An old file is never one that a request has just stored.
LEMMA OldIsNotNew ==
    ASSUME ImgInv, NEW r \in Slot, ~Resting(r), NEW q \in Slot, HasNew(q)
    PROVE  req[q].arg.new # req[r].arg.old
BY DEF ImgInv, Private

LEMMA DropOldKeeps ==
    ASSUME ImgInv, NEW r \in Slot, DropOld(r)
    PROVE  ImgInv'
<1>1. /\ ~Resting(r) /\ req[r].todo \in {DropAvatarOn, ToRemove} /\ req[r].todo \in ImgPlans
      /\ req[r].arg \in ImgArg /\ ImgKnows(req[r].todo, req[r].arg)
      /\ UNCHANGED <<avatar, document, picture>>
  BY ImgAt DEF DropOld
<1>2. PICK arg \in ImgArg : arg = req[r].arg
  BY <1>1
<1>3. PICK todo : todo = Tail(req[r].todo)
  OBVIOUS
<1>4. /\ todo \in ImgPlans /\ todo # <<>>
      /\ \/ /\ req[r].todo = DropAvatarOn /\ todo = WriteAvatarOn
            /\ req[r].todo \in AvatarPlans /\ todo \in AvatarPlans
         \/ /\ req[r].todo = ToRemove /\ todo = DeleteOn
            /\ req[r].todo \in RemovePlans /\ todo \in RemovePlans
  BY <1>1, <1>3, ImgHeads DEF ImgPlans, AvatarPlans, RemovePlans
<1>5. /\ arg.old \in File \cup {NoFile} /\ arg.new \in File \cup {NoFile}
      /\ arg.old # NoFile => file[arg.old].state # "none"
      /\ todo = WriteAvatarOn => /\ FileOf(arg.old, "avatar") /\ FreshOf(arg.new, "avatar")
                                 /\ HasNew(r)
      /\ todo = DeleteOn => /\ arg.picture \in Picture /\ picture[arg.picture].state # "none"
                            /\ arg.old = picture[arg.picture].file /\ FileOf(arg.old, "picture")
  <2>1. arg.old \in File \cup {NoFile} /\ arg.new \in File \cup {NoFile}
    BY DEF ImgArg
  <2>2. arg.old # NoFile => file[arg.old].state # "none"
    BY <1>1, <1>2 DEF ImgKnows
  <2>3. todo = WriteAvatarOn => /\ FileOf(arg.old, "avatar") /\ FreshOf(arg.new, "avatar")
                                /\ HasNew(r)
    BY <1>1, <1>2, <1>4, ImgDiffer DEF ImgKnows, HasNew, Carries, AvatarPlans
  <2>4. todo = DeleteOn => /\ arg.picture \in Picture /\ picture[arg.picture].state # "none"
                           /\ arg.old = picture[arg.picture].file
    BY <1>1, <1>2, <1>4, ImgDiffer DEF ImgKnows, AvatarPlans, RemovePlans
  <2> QED
    BY <2>1, <2>2, <2>3, <2>4 DEF ImgInv, RowsPoint
<1>6. HasNew(r) => arg.new # arg.old
  BY <1>1, <1>2, OldIsNotNew
<1>7. /\ file' \in [File -> StoredFile]
      /\ \A g \in File : g # arg.old => file'[g] = file[g]
      /\ \A g \in File : file[g].state # "none" => /\ file'[g].state # "none"
                                                   /\ file'[g].use = file[g].use
      /\ \A u : \A g \in File \cup {NoFile} : FileOf(g, u) => FileOf(g, u)'
      /\ \A g \in File \cup {NoFile} : Stored(g) => Stored(g)' \/ (g = arg.old /\ g # NoFile)
      /\ broken' \in BOOLEAN
      /\ \/ /\ UNCHANGED <<smooth, broken>>
            /\ arg.old # NoFile => file'[arg.old].state = "deleted"
         \/ smooth' = FALSE /\ broken' = TRUE
      /\ req' = [req EXCEPT ![r] = [todo |-> todo, arg |-> arg]]
  <2>1. CASE file' = Dropped(req[r].arg.old) /\ Advance(r) /\ UNCHANGED broken
    <3>1. file' = Dropped(arg.old)
      BY <1>2, <2>1
    <3>2. UNCHANGED <<smooth, broken>> /\ req' = [req EXCEPT ![r] = [todo |-> todo, arg |-> arg]]
      BY <1>2, <1>3, <1>4, <2>1 DEF Advance, AdvanceWith, Proceed
    <3> QED
      BY <1>5, <3>1, <3>2, OneLess, RowTypes
  <2>2. CASE /\ req' = [req EXCEPT ![r].todo = Tail(@)] /\ smooth' = FALSE /\ broken' = TRUE
             /\ file' = file
    <3>1. req[r] = [todo |-> req[r].todo, arg |-> arg]
      BY <1>1, <1>2, ImgAt DEF DropOld, ImgUnderway
    <3>2. req' = [req EXCEPT ![r] = [todo |-> todo, arg |-> arg]]
      <4>0. \A t, u : [[todo |-> t, arg |-> arg] EXCEPT !.todo = u] = [todo |-> u, arg |-> arg]
        OBVIOUS
      <4>1. [req[r] EXCEPT !.todo = Tail(@)] = [todo |-> todo, arg |-> arg]
        BY <1>3, <3>1, <4>0
      <4>2. req \in [Slot -> {Idle} \cup ImgUnderway]
        BY DEF ImgInv
      <4> QED
        BY <2>2, <4>1, <4>2
    <3>3. \A u : \A g \in File \cup {NoFile} : FileOf(g, u) => FileOf(g, u)'
      BY <2>2 DEF FileOf
    <3>4. \A g \in File \cup {NoFile} : Stored(g) => Stored(g)'
      BY <2>2 DEF Stored
    <3> QED
      BY <2>2, <3>2, <3>3, <3>4, RowTypes
  <2> QED
    BY <2>1, <2>2 DEF DropOld
<1>8. /\ req' \in [Slot -> {Idle} \cup ImgUnderway] /\ req'[r] \in ImgUnderway
      /\ ~Resting(r)' /\ req'[r].todo = todo /\ req'[r].arg = arg
      /\ \A q \in Slot \ {r} : req'[q] = req[q]
  <2> DEFINE new == [todo |-> todo, arg |-> arg]
  <2>1. new \in ImgUnderway /\ new.todo = todo /\ new.arg = arg
    BY <1>4 DEF ImgUnderway
  <2>2. req' = [req EXCEPT ![r] = new]
    BY <1>7
  <2> HIDE DEF new
  <2> QED
    BY <1>4, <2>1, <2>2 DEF ImgInv, Resting
<1>9. smooth' \in BOOLEAN /\ StillAlone(r)
  <2>1. smooth \in BOOLEAN /\ (smooth => Alone)
    BY DEF ImgInv
  <2>2. smooth' = smooth \/ smooth' = FALSE
    BY <1>7
  <2>3. smooth' \in BOOLEAN /\ (smooth' => smooth)
    <3>1. CASE smooth' = smooth
      BY <2>1, <3>1
    <3>2. CASE smooth' = FALSE
      BY <3>2
    <3> QED
      BY <2>2, <3>1, <3>2
  <2>4. StillAlone(r)
    BY <1>1, <2>1, <2>3, StepsOfOne
  <2> QED
    BY <2>3, <2>4
<1>10. ImagesTypeOK'
  BY <1>1, <1>7, RowTypes DEF ImagesTypeOK
<1>11. RowsPoint'
  BY <1>1, <1>7, RowsPointStill
<1>12. ImgGrows(r)
  <2>1. \A q \in Slot \ {r} : HasNew(q) => req[q].arg.new \in File /\ req[q].arg.new # arg.old
    BY <1>1, <1>2, OldIsNotNew, NewIsStored
  <2> QED
    BY <1>1, <1>7, <2>1 DEF ImgGrows
<1>13. ImgKnows(todo, arg)'
  <2>1. arg.old # NoFile => file'[arg.old].state # "none"
    BY <1>5, <1>7
  <2>2. CASE todo = WriteAvatarOn /\ todo \in AvatarPlans
    <3>1. FileOf(arg.old, "avatar")' /\ FreshOf(arg.new, "avatar")'
      BY <1>5, <1>6, <1>7, <2>2 DEF FreshOf
    <3> QED
      BY <2>1, <2>2, <3>1, ImgDiffer DEF ImgKnows, Inserts
  <2>3. CASE todo = DeleteOn /\ todo \in RemovePlans
    <3>1. /\ arg.picture \in Picture /\ picture'[arg.picture].state # "none"
          /\ arg.old = picture'[arg.picture].file
      BY <1>1, <1>5, <2>3
    <3> QED
      BY <2>1, <2>3, <3>1, ImgDiffer DEF ImgKnows, Inserts, AvatarPlans
  <2> QED
    BY <1>4, <2>2, <2>3
<1>14. ImgFits(r)'
  BY <1>8, <1>13 DEF ImgFits
<1>15. HasNew(r)' => HasNew(r)
  <2>1. todo = DeleteOn => ~Carries(todo)
    BY ImgDiffer DEF Carries, Inserts, AvatarPlans, RemovePlans
  <2> QED
    BY <1>4, <1>5, <1>8, <2>1 DEF HasNew
<1>16. PrivacyKept(r)
  BY <1>1, <1>2, <1>8, <1>15, NewIsStored DEF PrivacyKept
<1>17. /\ Swapping => Swapping'
       /\ \A p : Removing(p) => Removing(p)'
       /\ Sending => Sending'
       /\ \A g : Carried(g) => Carried(g)'
  <2>1. req[r].todo \notin {WriteAvatarOn, DeleteOn} /\ req[r].todo \notin SendPlans
    BY <1>4, ImgDiffer DEF AvatarPlans, RemovePlans
  <2>2. ASSUME NEW g, HasNew(r), req[r].arg.new = g PROVE Carried(g)'
    <3>1. todo = WriteAvatarOn
      BY <1>4, <2>2, ImgDiffer DEF HasNew, Carries, Inserts, RemovePlans, AvatarPlans
    <3> QED
      BY <1>2, <1>8, <2>2, <3>1 DEF Carried, HasNew, Carries
  <2> QED
    BY <1>8, <2>1, <2>2, StillUnderway
<1>18. ASSUME ~broken' PROVE RowsShow'
  <2>1. RowsShow /\ RowsPoint
    BY <1>7, <1>18 DEF ImgInv
  <2>2. CASE todo = WriteAvatarOn
    <3>1. Swapping'
      BY <1>8, <2>2 DEF Swapping
    <3>2. \A p \in LivePictures : picture[p].file = NoFile \/ picture[p].file # arg.old
      BY <1>5, <2>1, <2>2, RowTypes DEF RowsPoint, FileOf
    <3>3. \A p \in LivePictures : Stored(picture[p].file)' \/ Removing(p)'
      BY <1>1, <1>7, <1>17, <2>1, <3>2, RowTypes DEF RowsShow, Stored
    <3> QED
      BY <1>1, <3>1, <3>3 DEF RowsShow, LivePictures
  <2>3. CASE todo = DeleteOn
    <3>1. avatar = NoFile \/ avatar # arg.old
      BY <1>5, <2>1, <2>3, RowTypes DEF RowsPoint, FileOf
    <3>2. Stored(avatar)' \/ Swapping'
      BY <1>1, <1>7, <1>17, <2>1, <3>1, RowTypes DEF RowsShow, Stored
    <3>3. Removing(arg.picture)'
      BY <1>8, <2>3 DEF Removing
    <3>4. \A p \in LivePictures : \/ p = arg.picture \/ picture[p].file = NoFile
                                  \/ picture[p].file # arg.old
      BY <1>5, <2>1, <2>3, RowTypes DEF RowsPoint
    <3>5. \A p \in LivePictures : Stored(picture[p].file)' \/ Removing(p)'
      BY <1>1, <1>7, <1>17, <2>1, <3>3, <3>4, RowTypes DEF RowsShow, Stored
    <3> QED
      BY <1>1, <3>2, <3>5 DEF RowsShow, LivePictures
  <2> QED
    BY <1>4, <2>2, <2>3
<1>19. ASSUME smooth'
       PROVE  ~broken' /\ DocumentsThere' /\ NoneInVain' /\ OwnPlaces' /\ ImgRead(r)'
  <2>1. smooth /\ ~broken' /\ (arg.old # NoFile => file'[arg.old].state = "deleted")
    BY <1>7, <1>19 DEF ImgInv
  <2>2. DocumentsThere /\ NoneInVain /\ OwnPlaces /\ ImgTrue(req[r].todo, arg) /\ RowsPoint
    BY <1>1, <1>2, <2>1 DEF ImgInv, ImgRead
  <2>3. \A d \in Document : document[d] = NoFile \/ document[d] # arg.old
    BY <1>4, <1>5, <2>2, RowTypes DEF RowsPoint, FileOf
  <2>4. \A d \in Document : Stored(document[d]) => Stored(document[d])'
    BY <1>1, <1>7, <2>3, RowTypes DEF Stored
  <2>5. DocumentsThere'
    BY <1>1, <1>17, <2>2, <2>4 DEF DocumentsThere, OneEach
  <2>6. \A g \in File : Shown(g)' <=> Shown(g)
    BY <1>1 DEF Shown, LivePictures
  <2>7. \A g \in File : file'[g].state = "stored" => g # arg.old \/ g = NoFile
    BY <2>1
  <2>8. NoneInVain'
    BY <1>7, <1>17, <2>1, <2>2, <2>6 DEF NoneInVain, File, NoFile
  <2>9. OwnPlaces'
    BY <1>1, <2>2 DEF OwnPlaces, LivePictures
  <2>10. ImgRead(r)'
    <3>1. todo \in AvatarPlans => arg.old = avatar'
      BY <1>1, <1>4, <2>2, ImgDiffer DEF ImgTrue
    <3>2. todo \in RemovePlans => picture'[arg.picture].state = "live"
      BY <1>1, <1>4, <2>2, ImgDiffer DEF ImgTrue
    <3>3. todo \notin AddPlans /\ todo \notin SendPlans
      BY <1>4, ImgDiffer
    <3>4. ImgTrue(todo, arg)'
      BY <2>1, <3>1, <3>2, <3>3 DEF ImgTrue, SendPlans
    <3> QED
      BY <1>8, <3>4 DEF ImgRead
  <2> QED
    BY <2>1, <2>5, <2>8, <2>9, <2>10
<1>20. ImgShows(r)
  BY <1>18, <1>19 DEF ImgShows
<1> QED
  BY <1>8, <1>9, <1>10, <1>11, <1>12, <1>14, <1>16, <1>20, ImgMoves

LEMMA WriteAvatarKeeps ==
    ASSUME ImgInv, NEW r \in Slot, WriteAvatar(r)
    PROVE  ImgInv'
<1>1. /\ ~Resting(r) /\ req[r].todo = WriteAvatarOn /\ req[r].arg \in ImgArg
      /\ ImgKnows(req[r].todo, req[r].arg) /\ UNCHANGED <<file, document, picture, broken>>
  BY ImgAt DEF WriteAvatar
<1>2. PICK arg \in ImgArg : arg = req[r].arg
  BY <1>1
<1>3. avatar' = arg.new /\ Proceed(r, <<>>, arg)
  BY <1>1, <1>2, ImgHeads DEF WriteAvatar, AvatarWritten, Advance, AdvanceWith
<1>4. ImgGoesOn(r, <<>>, arg)
  BY <1>3 DEF ImgGoesOn
<1>5. /\ req' \in [Slot -> {Idle} \cup ImgUnderway] /\ Resting(r)' /\ ~HasNew(r)'
      /\ \A q \in Slot \ {r} : req'[q] = req[q]
      /\ smooth' = smooth /\ smooth' \in BOOLEAN /\ StillAlone(r)
  BY <1>1, <1>4, ImgGoesTo
<1>6. HasNew(r) /\ FreshOf(arg.new, "avatar")
  BY <1>1, <1>2 DEF HasNew, Carries, ImgKnows
<1>7. ImagesTypeOK'
  BY <1>1, <1>3, <1>6, RowTypes DEF ImagesTypeOK, FreshOf
<1>8. RowsPoint'
  <2>1. RowsPoint
    BY DEF ImgInv
  <2>2. FileOf(avatar, "avatar")'
    BY <1>1, <1>3, <1>6 DEF FileOf, FreshOf
  <2> QED
    BY <1>1, <2>1, <2>2 DEF RowsPoint, FileOf
<1>9. ImgGrows(r)
  BY <1>1 DEF ImgGrows
<1>10. ImgFits(r)'
  BY <1>5 DEF ImgFits
<1>11. PrivacyKept(r)
  BY <1>1, <1>2, <1>3, <1>5, <1>6 DEF PrivacyKept, NewOrOwn
<1>12. /\ \A p : Removing(p) => Removing(p)'
       /\ Sending => Sending'
       /\ \A g : Carried(g) => Carried(g)' \/ g = arg.new
  BY <1>1, <1>2, <1>5, ImgDiffer, StillUnderway DEF AvatarPlans, RemovePlans
<1>13. ASSUME ~broken' PROVE RowsShow'
  <2>1. RowsShow
    BY <1>1, <1>13 DEF ImgInv
  <2>2. Stored(avatar)'
    BY <1>1, <1>3, <1>6 DEF Stored, FreshOf
  <2>3. \A p \in LivePictures : Stored(picture[p].file)' \/ Removing(p)'
    BY <1>1, <1>12, <2>1 DEF RowsShow, Stored
  <2> QED
    BY <1>1, <2>2, <2>3 DEF RowsShow, LivePictures
<1>14. ASSUME smooth'
       PROVE  ~broken' /\ DocumentsThere' /\ NoneInVain' /\ OwnPlaces' /\ ImgRead(r)'
  <2>1. ~broken' /\ DocumentsThere /\ NoneInVain /\ OwnPlaces /\ ImgTrue(req[r].todo, arg)
    BY <1>1, <1>2, <1>5, <1>14 DEF ImgInv, ImgRead
  <2>2. DocumentsThere'
    BY <1>1, <1>12, <2>1 DEF DocumentsThere, OneEach, Stored
  <2>3. avatar = NoFile \/ file[avatar].state # "stored"
    BY <1>1, <2>1 DEF ImgTrue, AvatarPlans
  <2>4. ASSUME NEW g \in File, file'[g].state = "stored", file'[g].use # "document"
        PROVE  Shown(g)' \/ Carried(g)'
    <3>1. Shown(g) \/ Carried(g)
      BY <1>1, <2>1, <2>4 DEF NoneInVain
    <3>2. CASE g = arg.new
      BY <1>3, <3>2 DEF Shown
    <3>3. CASE g # arg.new /\ Carried(g)
      BY <1>12, <3>3
    <3>4. CASE Shown(g)
      <4>1. g # avatar
        BY <1>1, <2>3, <2>4 DEF File, NoFile
      <4> QED
        BY <1>1, <3>4, <4>1 DEF Shown, LivePictures
    <3> QED
      BY <3>1, <3>2, <3>3, <3>4
  <2>5. NoneInVain'
    BY <2>4 DEF NoneInVain
  <2>6. OwnPlaces'
    BY <1>1, <2>1 DEF OwnPlaces, LivePictures
  <2>7. ImgRead(r)'
    BY <1>5 DEF ImgRead
  <2> QED
    BY <2>1, <2>2, <2>5, <2>6, <2>7
<1>15. ImgShows(r)
  BY <1>13, <1>14 DEF ImgShows
<1> QED
  BY <1>5, <1>7, <1>8, <1>9, <1>10, <1>11, <1>15, ImgMoves

LEMMA InsertPictureKeeps ==
    ASSUME ImgInv, NEW r \in Slot, InsertPicture(r)
    PROVE  ImgInv'
<1>1. /\ ~Resting(r) /\ req[r].todo \in AddPlans /\ req[r].arg \in ImgArg
      /\ Head(req[r].todo) = "insertPicture" /\ ImgKnows(req[r].todo, req[r].arg)
      /\ UNCHANGED <<file, avatar, document, broken>>
  BY ImgAt DEF InsertPicture
<1>2. PICK had \in ImgArg : had = req[r].arg
  BY <1>1
<1>3. had.order \in Nat /\ had.new \in File \cup {NoFile}
  BY DEF ImgArg
<1>4. PICK arg \in ImgArg : arg = [had EXCEPT !.order = @ + 1]
  <2>1. had.order + 1 \in Nat
    BY <1>3
  <2>2. \A n \in Nat : [had EXCEPT !.order = n] \in ImgArg
    BY DEF ImgArg
  <2> QED
    BY <2>1, <2>2
<1>5. arg.order = had.order + 1 /\ arg.old = had.old
  BY <1>4 DEF ImgArg
<1>6. PICK todo : todo = Tail(req[r].todo)
  OBVIOUS
<1>7. todo # <<>> => todo \in AddPlans /\ todo \in ImgPlans /\ Head(todo) = "uploadPicture"
  BY <1>1, <1>6, AddHeads DEF ImgPlans
<1>8. todo # <<>> => ~Carries(todo)
  BY <1>7, ImgDiffer DEF Carries, Inserts, AvatarPlans
<1>9. ImgGoesOn(r, todo, arg)
  BY <1>2, <1>4, <1>6, <1>7 DEF InsertPicture, AdvanceWith, ImgGoesOn
<1>10. PICK p \in Picture :
           /\ \A q \in Picture : picture[q].state = "none" <=> q >= p
           /\ picture' = [picture EXCEPT ![p] =
                             [file |-> had.new, order |-> had.order, state |-> "live"]]
  BY <1>2 DEF InsertPicture
<1>11. /\ req' \in [Slot -> {Idle} \cup ImgUnderway]
       /\ todo # <<>> => /\ ~Resting(r)' /\ req'[r] \in ImgUnderway
                         /\ req'[r].todo = todo /\ req'[r].arg = arg
       /\ todo = <<>> => Resting(r)'
       /\ ~HasNew(r)'
       /\ \A q \in Slot \ {r} : req'[q] = req[q]
       /\ smooth' = smooth /\ smooth' \in BOOLEAN /\ StillAlone(r)
  BY <1>1, <1>8, <1>9, ImgGoesTo DEF HasNew
<1>12. HasNew(r) /\ FreshOf(had.new, "picture") /\ had.new # NoFile
  <2>1. Inserts(req[r].todo)
    BY <1>1 DEF Inserts
  <2>2. FreshOf(req[r].arg.new, "picture") /\ HasNew(r)
    BY <1>1, <2>1 DEF ImgKnows, HasNew, Carries
  <2> QED
    BY <1>2, <2>2, NewIsStored
<1>13. /\ picture \in [Picture -> PictureRow] /\ p \in Nat
       /\ picture[p].state = "none"
       /\ picture' \in [Picture -> PictureRow]
       /\ picture'[p].file = had.new /\ picture'[p].order = had.order
       /\ picture'[p].state = "live"
       /\ \A q \in Picture : q # p => picture'[q] = picture[q]
  <2>1. picture \in [Picture -> PictureRow] /\ p \in Nat
    BY RowTypes DEF Picture
  <2>2. [file |-> had.new, order |-> had.order, state |-> "live"] \in PictureRow
    BY <1>3 DEF PictureRow
  <2>3. picture[p].state = "none"
    BY <1>10, <2>1
  <2> QED
    BY <1>10, <2>1, <2>2, <2>3
<1>14. ImagesTypeOK'
  BY <1>1, <1>13, RowTypes DEF ImagesTypeOK
<1>15. \A q \in Picture : picture[q].file # had.new
  BY <1>2, <1>12 DEF ImgInv, Private
<1>16. RowsPoint'
  <2>1. RowsPoint
    BY DEF ImgInv
  <2>2. FileOf(avatar, "avatar")' /\ \A d \in Document : FileOf(document[d], "document")'
    BY <1>1, <2>1 DEF RowsPoint, FileOf
  <2>3. ASSUME NEW q \in Picture
        PROVE  (picture'[q].state = "none" <=> picture'[q].file = NoFile)
               /\ FileOf(picture[q].file, "picture")'
    <3>1. CASE q = p
      BY <1>1, <1>12, <1>13, <3>1 DEF FileOf, FreshOf
    <3>2. CASE q # p
      BY <1>1, <1>13, <2>1, <3>2 DEF RowsPoint, FileOf
    <3> QED
      BY <3>1, <3>2
  <2>4. \A x, y \in Picture :
           picture'[x].file = picture'[y].file /\ picture'[x].file # NoFile => x = y
    <3>1. \A x, y \in Picture :
             picture[x].file = picture[y].file /\ picture[x].file # NoFile => x = y
      BY <2>1 DEF RowsPoint
    <3>2. \A x \in Picture \ {p} : picture'[x].file = picture[x].file
      BY <1>13
    <3>3. picture'[p].file = had.new
      BY <1>13
    <3> QED
      BY <1>15, <3>1, <3>2, <3>3
  <2>5. \E n \in Nat : \A q \in Picture : picture'[q].order <= n
    <3>1. PICK n \in Nat : \A q \in Picture : picture[q].order <= n
      BY <2>1 DEF RowsPoint
    <3>2. \A q \in Picture : picture[q].order \in Nat
      BY <1>13 DEF PictureRow
    <3>3. n + had.order \in Nat
      BY <1>3
    <3>4. \A q \in Picture : picture'[q].order <= n + had.order
      BY <1>3, <1>13, <3>1, <3>2
    <3> QED
      BY <3>3, <3>4
  <2> QED
    BY <2>2, <2>3, <2>4, <2>5 DEF RowsPoint
<1>17. ImgGrows(r)
  BY <1>1, <1>13 DEF ImgGrows
<1>18. ImgFits(r)'
  <2>1. CASE todo = <<>>
    BY <1>11, <2>1 DEF ImgFits
  <2>2. CASE todo # <<>>
    <3>1. todo \notin AvatarPlans /\ todo \notin RemovePlans /\ todo \notin SendPlans
          /\ ~Inserts(todo) /\ todo \notin {DropAvatarOn, WriteAvatarOn}
      BY <1>7, <1>8, <2>2, ImgDiffer DEF Carries
    <3>2. arg.old # NoFile => file'[arg.old].state # "none"
      BY <1>1, <1>2, <1>5 DEF ImgKnows
    <3>3. ImgKnows(todo, arg)'
      BY <3>1, <3>2 DEF ImgKnows, Inserts
    <3> QED
      BY <1>11, <2>2, <3>3 DEF ImgFits
  <2> QED
    BY <2>1, <2>2
<1>19. PrivacyKept(r)
  <2>1. \A q \in Picture : picture'[q].file = picture[q].file \/ NewOrOwn(r, picture'[q].file)
    BY <1>2, <1>11, <1>12, <1>13 DEF NewOrOwn
  <2>2. ~Resting(r)' => req'[r].arg.old = req[r].arg.old
    BY <1>2, <1>5, <1>11
  <2> QED
    BY <1>1, <1>11, <2>1, <2>2 DEF PrivacyKept
<1>20. /\ Swapping => Swapping'
       /\ \A q : Removing(q) => Removing(q)'
       /\ Sending => Sending'
       /\ \A g : Carried(g) => Carried(g)' \/ g = had.new
  BY <1>1, <1>2, <1>11, ImgDiffer, StillUnderway DEF AvatarPlans, RemovePlans
<1>21. p \notin LivePictures /\ LivePictures' = LivePictures \cup {p}
  BY <1>13 DEF LivePictures
<1>22. ASSUME ~broken' PROVE RowsShow'
  <2>1. RowsShow
    BY <1>1, <1>22 DEF ImgInv
  <2>2. Stored(avatar)' \/ Swapping'
    BY <1>1, <1>20, <2>1 DEF RowsShow, Stored
  <2>3. ASSUME NEW q \in LivePictures' PROVE Stored(picture[q].file)' \/ Removing(q)'
    <3>1. CASE q = p
      BY <1>1, <1>12, <1>13, <3>1 DEF Stored, FreshOf
    <3>2. CASE q \in LivePictures
      BY <1>1, <1>13, <1>20, <1>21, <2>1, <3>2, RowTypes DEF RowsShow, Stored
    <3> QED
      BY <1>21, <3>1, <3>2
  <2> QED
    BY <2>2, <2>3 DEF RowsShow
<1>23. ASSUME smooth'
       PROVE  ~broken' /\ DocumentsThere' /\ NoneInVain' /\ OwnPlaces' /\ ImgRead(r)'
  <2>1. ~broken' /\ DocumentsThere /\ NoneInVain /\ OwnPlaces /\ ImgTrue(req[r].todo, had)
    BY <1>1, <1>2, <1>11, <1>23 DEF ImgInv, ImgRead
  <2>2. DocumentsThere'
    BY <1>1, <1>20, <2>1 DEF DocumentsThere, OneEach, Stored
  <2>3. ASSUME NEW g \in File, file'[g].state = "stored", file'[g].use # "document"
        PROVE  Shown(g)' \/ Carried(g)'
    <3>1. Shown(g) \/ Carried(g)
      BY <1>1, <2>1, <2>3 DEF NoneInVain
    <3>2. CASE g = had.new
      BY <1>13, <1>21, <3>2 DEF Shown
    <3>3. CASE g # had.new /\ Carried(g)
      BY <1>20, <3>3
    <3>4. CASE Shown(g)
      BY <1>1, <1>13, <1>21, <3>4, RowTypes DEF Shown
    <3> QED
      BY <3>1, <3>2, <3>3, <3>4
  <2>4. NoneInVain'
    BY <2>3 DEF NoneInVain
  <2>5. \A q \in LivePictures : /\ picture[q].order < had.order /\ picture'[q] = picture[q]
                                /\ picture[q].order \in Nat
    BY <1>1, <1>13, <1>21, <2>1, RowTypes DEF ImgTrue, PictureRow
  <2>6. OwnPlaces'
    BY <1>3, <1>13, <1>21, <2>1, <2>5 DEF OwnPlaces
  <2>7. ImgRead(r)'
    <3>1. CASE todo = <<>>
      BY <1>11, <3>1 DEF ImgRead
    <3>2. CASE todo # <<>>
      <4>1. \A q \in LivePictures' : picture'[q].order < arg.order
        BY <1>3, <1>5, <1>13, <1>21, <2>5
      <4>2. todo \notin AvatarPlans /\ todo \notin RemovePlans /\ todo \notin SendPlans
        BY <1>7, <3>2, ImgDiffer
      <4>3. ImgTrue(todo, arg)'
        BY <4>1, <4>2 DEF ImgTrue, AvatarPlans, RemovePlans, SendPlans
      <4> QED
        BY <1>11, <3>2, <4>3 DEF ImgRead
    <3> QED
      BY <3>1, <3>2
  <2> QED
    BY <2>1, <2>2, <2>4, <2>6, <2>7
<1>24. ImgShows(r)
  BY <1>22, <1>23 DEF ImgShows
<1> QED
  BY <1>11, <1>14, <1>16, <1>17, <1>18, <1>19, <1>24, ImgMoves

LEMMA DeletePictureKeeps ==
    ASSUME ImgInv, NEW r \in Slot, DeletePicture(r)
    PROVE  ImgInv'
<1>1. /\ ~Resting(r) /\ req[r].todo = DeleteOn /\ req[r].arg \in ImgArg
      /\ req[r].todo \in RemovePlans
      /\ ImgKnows(req[r].todo, req[r].arg) /\ UNCHANGED <<file, avatar, document, broken>>
  BY ImgAt DEF DeletePicture, RemovePlans
<1>2. PICK arg \in ImgArg : arg = req[r].arg
  BY <1>1
<1>3. PICK p \in Picture : /\ p = arg.picture /\ picture[p].state # "none"
                           /\ arg.old = picture[p].file
  BY <1>1, <1>2 DEF ImgKnows
<1>4. ~HasNew(r)
  BY <1>1, ImgDiffer DEF HasNew, Carries, Inserts, AvatarPlans
<1>5. smooth => ImgTrue(req[r].todo, arg)
  BY <1>1, <1>2 DEF ImgInv, ImgRead
<1>6. CASE picture[p].state # "live"
  <2>1. Quit(r) /\ SameFiles
    BY <1>1, <1>2, <1>3, <1>6 DEF DeletePicture, SameFiles
  <2>2. req' = [req EXCEPT ![r] = Idle] /\ smooth' = smooth /\ smooth \in BOOLEAN
    BY <2>1 DEF Quit, ImgInv
  <2>3. ~smooth
    BY <1>1, <1>3, <1>5, <1>6 DEF ImgTrue
  <2>4. arg.picture \notin LivePictures /\ req[r].todo # WriteAvatarOn
    BY <1>1, <1>3, <1>6, ImgDiffer DEF LivePictures, AvatarPlans, RemovePlans
  <2>5. broken' = broken /\ broken' \in BOOLEAN
    BY <1>1, RowTypes
  <2>6. smooth' \in BOOLEAN /\ ~smooth'
    BY <2>2, <2>3
  <2>7. ~broken' => ~broken
    BY <2>5
  <2> QED
    BY <1>1, <1>2, <2>1, <2>2, <2>4, <2>5, <2>6, <2>7, ImgEnds
<1>7. CASE picture[p].state = "live"
  <2>1. /\ picture' = [picture EXCEPT ![p].state = "deleted"]
        /\ Proceed(r, <<>>, arg)
    BY <1>1, <1>2, <1>3, <1>7, ImgHeads DEF DeletePicture, Advance, AdvanceWith
  <2>2. ImgGoesOn(r, <<>>, arg)
    BY <2>1 DEF ImgGoesOn
  <2>3. /\ req' \in [Slot -> {Idle} \cup ImgUnderway] /\ Resting(r)' /\ ~HasNew(r)'
        /\ \A q \in Slot \ {r} : req'[q] = req[q]
        /\ smooth' = smooth /\ smooth' \in BOOLEAN /\ StillAlone(r)
    BY <1>1, <2>2, ImgGoesTo
  <2>4. /\ picture' \in [Picture -> PictureRow]
        /\ picture'[p].state = "deleted" /\ picture'[p].file = picture[p].file
        /\ picture'[p].order = picture[p].order
        /\ \A q \in Picture : q # p => picture'[q] = picture[q]
    BY <2>1, RowTypes DEF PictureRow
  <2>5. ImagesTypeOK'
    BY <1>1, <2>4, RowTypes DEF ImagesTypeOK
  <2>6. \A q \in Picture : /\ picture'[q].file = picture[q].file
                           /\ picture'[q].order = picture[q].order
                           /\ picture'[q].state = "none" <=> picture[q].state = "none"
    BY <1>7, <2>4
  <2>7. RowsPoint'
    BY <1>1, <2>6 DEF ImgInv, RowsPoint, FileOf
  <2>8. ImgGrows(r)
    BY <1>1, <2>6 DEF ImgGrows
  <2>9. ImgFits(r)' /\ ImgRead(r)'
    BY <2>3 DEF ImgFits, ImgRead
  <2>10. PrivacyKept(r)
    BY <1>1, <2>3, <2>6 DEF PrivacyKept
  <2>11. /\ Swapping => Swapping'
         /\ \A q : Removing(q) /\ q # p => Removing(q)'
         /\ Sending => Sending'
         /\ \A g : Carried(g) => Carried(g)'
    BY <1>1, <1>2, <1>3, <1>4, <2>3, ImgDiffer, StillUnderway DEF AvatarPlans, RemovePlans
  <2>12. LivePictures' = LivePictures \ {p}
    BY <2>4 DEF LivePictures
  <2>13. ASSUME ~broken' PROVE RowsShow'
    <3>1. RowsShow
      BY <1>1, <2>13 DEF ImgInv
    <3> QED
      BY <1>1, <2>4, <2>11, <2>12, <3>1, RowTypes DEF RowsShow, Stored
  <2>14. ASSUME smooth'
         PROVE  ~broken' /\ DocumentsThere' /\ NoneInVain' /\ OwnPlaces'
    <3>1. ~broken' /\ DocumentsThere /\ NoneInVain /\ OwnPlaces /\ ImgTrue(req[r].todo, arg)
      BY <1>1, <1>5, <2>3, <2>14 DEF ImgInv
    <3>2. DocumentsThere'
      BY <1>1, <2>11, <3>1 DEF DocumentsThere, OneEach, Stored
    <3>3. picture[p].file = NoFile \/ file[picture[p].file].state # "stored"
      BY <1>1, <1>3, <3>1 DEF ImgTrue
    <3>4. NoneInVain'
      BY <1>1, <2>4, <2>11, <2>12, <3>1, <3>3, RowTypes DEF NoneInVain, Shown, File, NoFile
    <3>5. OwnPlaces'
      BY <2>4, <2>12, <3>1, RowTypes DEF OwnPlaces
    <3> QED
      BY <3>1, <3>2, <3>4, <3>5
  <2>15. ImgShows(r)
    BY <2>9, <2>13, <2>14 DEF ImgShows
  <2> QED
    BY <2>3, <2>5, <2>7, <2>8, <2>9, <2>10, <2>15, ImgMoves
<1> QED
  BY <1>6, <1>7

LEMMA CollectDocumentsKeeps ==
    ASSUME ImgInv, NEW r \in Slot, CollectDocuments(r)
    PROVE  ImgInv'
<1>1. /\ ~Resting(r) /\ req[r].todo = ToSend /\ req[r].todo \in SendPlans
      /\ req[r].arg \in ImgArg /\ ImgKnows(req[r].todo, req[r].arg) /\ UNCHANGED imgVars
  BY ImgAt DEF CollectDocuments, SendPlans
<1>2. PICK arg \in ImgArg : arg = req[r].arg
  BY <1>1
<1>3. SameFiles /\ broken' = broken /\ broken' \in BOOLEAN
  BY <1>1, RowTypes DEF imgVars, SameFiles
<1>4. ~HasNew(r)
  BY <1>1, ImgDiffer DEF HasNew, Carries, Inserts, AvatarPlans
<1>5. ASSUME smooth PROVE DocumentsThere /\ ImgTrue(ToSend, arg) /\ ~broken
  BY <1>1, <1>2, <1>5 DEF ImgInv, ImgRead
<1>6. CASE \E d \in Document : arg.stage[d] = "failed" \/ arg.urls[d] = NoFile
  <2>1. req' = [req EXCEPT ![r] = Idle] /\ smooth' = smooth /\ smooth \in BOOLEAN
    BY <1>2, <1>6 DEF CollectDocuments, Quit, ImgInv
  <2>2. ASSUME smooth PROVE \A d \in Document : Stored(document[d])
    <3>1. \A d \in Document : document[d] = NoFile
      BY <1>1, <1>5, <1>6, <2>2 DEF ImgTrue
    <3> QED
      BY <3>1 DEF Stored
  <2>3. req[r].todo # WriteAvatarOn /\ req[r].todo # DeleteOn
    BY <1>1, ImgDiffer DEF AvatarPlans, RemovePlans
  <2> QED
    BY <1>1, <1>3, <1>4, <1>5, <2>1, <2>2, <2>3, ImgEnds
<1>7. CASE \A d \in Document : arg.stage[d] # "failed" /\ arg.urls[d] # NoFile
  <2>1. Proceed(r, WriteDocumentsOn, arg)
    BY <1>1, <1>2, <1>7, ImgHeads DEF CollectDocuments, Advance, AdvanceWith
  <2>2. WriteDocumentsOn \in SendPlans /\ WriteDocumentsOn \in ImgPlans
    BY DEF SendPlans, ImgPlans
  <2>3. ImgGoesOn(r, WriteDocumentsOn, arg)
    BY <2>1, <2>2 DEF ImgGoesOn
  <2>4. /\ req' \in [Slot -> {Idle} \cup ImgUnderway] /\ req'[r] \in ImgUnderway
        /\ ~Resting(r)' /\ req'[r].todo = WriteDocumentsOn /\ req'[r].arg = arg
        /\ \A q \in Slot \ {r} : req'[q] = req[q]
        /\ smooth' = smooth /\ smooth' \in BOOLEAN /\ StillAlone(r)
    BY <1>1, <2>3, ImgGoesTo, ImgHeads
  <2>5. /\ ImagesTypeOK' /\ RowsPoint' /\ (OwnPlaces <=> OwnPlaces') /\ ImgGrows(r)
        /\ \A f : (Stored(f)' <=> Stored(f)) /\ (Shown(f)' <=> Shown(f))
        /\ ImgKnows(WriteDocumentsOn, arg)' <=> ImgKnows(WriteDocumentsOn, arg)
    BY <1>3, FilesRest
  <2>6. /\ WriteDocumentsOn \notin AvatarPlans /\ WriteDocumentsOn \notin RemovePlans
        /\ WriteDocumentsOn \notin AddPlans /\ ~Carries(WriteDocumentsOn)
        /\ ~Inserts(WriteDocumentsOn) /\ WriteDocumentsOn \notin {DropAvatarOn, WriteAvatarOn}
    BY <2>2, ImgDiffer DEF Carries, Inserts, AvatarPlans
  <2>7. ImgKnows(WriteDocumentsOn, arg)
    BY <1>1, <1>2, <2>6 DEF ImgKnows
  <2>8. ImgFits(r)'
    BY <2>4, <2>5, <2>7 DEF ImgFits
  <2>9. ~HasNew(r)'
    BY <2>4, <2>6 DEF HasNew
  <2>10. PrivacyKept(r)
    BY <1>1, <1>2, <1>3, <2>4, <2>9 DEF PrivacyKept, SameFiles
  <2>11. Sending'
    BY <2>2, <2>4 DEF Sending
  <2>12. /\ Swapping => Swapping'
         /\ \A p : Removing(p) => Removing(p)'
         /\ \A f : Carried(f) => Carried(f)'
    BY <1>1, <1>4, <2>4, ImgDiffer, StillUnderway DEF AvatarPlans, RemovePlans
  <2>13. ASSUME ~broken' PROVE RowsShow'
    BY <1>3, <2>5, <2>12, <2>13 DEF RowsShow, SameFiles, LivePictures, ImgInv
  <2>14. ASSUME smooth'
         PROVE  ~broken' /\ DocumentsThere' /\ NoneInVain' /\ OwnPlaces' /\ ImgRead(r)'
    <3>1. smooth /\ ~broken' /\ DocumentsThere /\ ImgTrue(ToSend, arg) /\ NoneInVain /\ OwnPlaces
      BY <1>3, <1>5, <2>4, <2>14 DEF ImgInv
    <3>2. DocumentsThere'
      BY <1>3, <2>11, <3>1 DEF DocumentsThere, OneEach, SameFiles
    <3>3. NoneInVain'
      BY <1>3, <2>5, <2>12, <3>1 DEF NoneInVain, SameFiles
    <3>4. \A d \in Document : Stored(arg.urls[d]) /\ arg.urls[d] # NoFile
      <4>1. \A d \in Document : arg.stage[d] \in {"keep", "failed"}
        BY <1>2 DEF CollectDocuments
      <4> QED
        BY <1>7, <3>1, <4>1 DEF ImgTrue
    <3>5. OneEach(arg.urls)
      BY <1>1, <3>1 DEF ImgTrue
    <3>6. ImgTrue(WriteDocumentsOn, arg)'
      BY <2>5, <2>6, <3>4, <3>5, ImgDiffer DEF ImgTrue, AvatarPlans, RemovePlans, OneEach
    <3>7. ImgRead(r)'
      BY <2>4, <3>6 DEF ImgRead
    <3> QED
      BY <2>5, <3>1, <3>2, <3>3, <3>7
  <2>15. ImgShows(r)
    BY <2>13, <2>14 DEF ImgShows
  <2> QED
    BY <2>4, <2>5, <2>8, <2>10, <2>15, ImgMoves
<1> QED
  BY <1>6, <1>7

LEMMA WriteDocumentsKeeps ==
    ASSUME ImgInv, NEW r \in Slot, WriteDocuments(r)
    PROVE  ImgInv'
<1>1. /\ ~Resting(r) /\ req[r].todo = WriteDocumentsOn /\ req[r].todo \in SendPlans
      /\ req[r].arg \in ImgArg /\ ImgKnows(req[r].todo, req[r].arg)
      /\ UNCHANGED <<file, avatar, picture, broken>>
  BY ImgAt DEF WriteDocuments, SendPlans
<1>2. PICK arg \in ImgArg : arg = req[r].arg
  BY <1>1
<1>3. document' = arg.urls /\ Proceed(r, <<>>, arg)
  BY <1>1, <1>2, ImgHeads DEF WriteDocuments, Advance, AdvanceWith
<1>4. ImgGoesOn(r, <<>>, arg)
  BY <1>3 DEF ImgGoesOn
<1>5. /\ req' \in [Slot -> {Idle} \cup ImgUnderway] /\ Resting(r)' /\ ~HasNew(r)'
      /\ \A q \in Slot \ {r} : req'[q] = req[q]
      /\ smooth' = smooth /\ smooth' \in BOOLEAN /\ StillAlone(r)
  BY <1>1, <1>4, ImgGoesTo
<1>6. ~HasNew(r)
  BY <1>1, ImgDiffer DEF HasNew, Carries, Inserts, AvatarPlans
<1>7. ImagesTypeOK'
  BY <1>1, <1>3, RowTypes DEF ImagesTypeOK, ImgArg
<1>8. RowsPoint'
  <2>1. \A d \in Document : FileOf(arg.urls[d], "document")
    BY <1>1, <1>2 DEF ImgKnows
  <2> QED
    BY <1>1, <1>3, <2>1 DEF ImgInv, RowsPoint, FileOf
<1>9. ImgGrows(r)
  BY <1>1 DEF ImgGrows
<1>10. ImgFits(r)' /\ ImgRead(r)'
  BY <1>5 DEF ImgFits, ImgRead
<1>11. PrivacyKept(r)
  BY <1>1, <1>5 DEF PrivacyKept
<1>12. /\ Swapping => Swapping'
       /\ \A p : Removing(p) => Removing(p)'
       /\ \A f : Carried(f) => Carried(f)'
  BY <1>1, <1>5, <1>6, ImgDiffer, StillUnderway DEF AvatarPlans, RemovePlans
<1>13. ASSUME ~broken' PROVE RowsShow'
  BY <1>1, <1>12, <1>13 DEF RowsShow, Stored, LivePictures, ImgInv
<1>14. ASSUME smooth' PROVE ~broken' /\ DocumentsThere' /\ NoneInVain' /\ OwnPlaces'
  <2>1. ~broken' /\ NoneInVain /\ OwnPlaces /\ ImgTrue(req[r].todo, arg)
    BY <1>1, <1>2, <1>5, <1>14 DEF ImgInv, ImgRead
  <2>2. OneEach(arg.urls) /\ \A d \in Document : arg.urls[d] # NoFile /\ Stored(arg.urls[d])
    BY <1>1, <2>1 DEF ImgTrue
  <2>3. DocumentsThere'
    BY <1>1, <1>3, <2>2 DEF DocumentsThere, OneEach, Stored
  <2>4. NoneInVain'
    BY <1>1, <1>12, <2>1 DEF NoneInVain, Shown, LivePictures
  <2>5. OwnPlaces'
    BY <1>1, <2>1 DEF OwnPlaces, LivePictures
  <2> QED
    BY <2>1, <2>3, <2>4, <2>5
<1>15. ImgShows(r)
  BY <1>10, <1>13, <1>14 DEF ImgShows
<1> QED
  BY <1>5, <1>7, <1>8, <1>9, <1>10, <1>11, <1>15, ImgMoves

\* One document is dropped or uploaded: the files of the others, of the avatar and
\* of the pictures stay.
OthersFiles(r, arg) ==
    /\ file' \in [File -> StoredFile] /\ broken' \in BOOLEAN
    /\ \A g \in File : file[g].state # "none" => /\ file'[g].state # "none"
                                                 /\ file'[g].use = file[g].use
    /\ \A g \in File : file[g].state # "none" /\ file[g].use # "document" => file'[g] = file[g]
    /\ \A g \in File : file'[g].use # "document" => file'[g] = file[g]
    /\ \A d \in Document : FileOf(arg.urls[d], "document")'

LEMMA DocumentStored ==
    ASSUME ImgInv, NEW r \in Slot, ~Resting(r), req[r].todo = ToSend,
           NEW arg \in ImgArg, arg.old = req[r].arg.old,
           req' = [req EXCEPT ![r] = [todo |-> ToSend, arg |-> arg]],
           UNCHANGED <<avatar, document, picture>>, OthersFiles(r, arg),
           ~broken' => ~broken, smooth' \in BOOLEAN, smooth' => smooth,
           smooth' => ~broken' /\ ImgTrue(ToSend, arg)'
    PROVE  ImgInv'
<1>1. ToSend \in SendPlans /\ ToSend \in ImgPlans
  BY DEF SendPlans, ImgPlans
<1>2. /\ req' \in [Slot -> {Idle} \cup ImgUnderway] /\ req'[r] \in ImgUnderway
      /\ ~Resting(r)' /\ req'[r].todo = ToSend /\ req'[r].arg = arg
      /\ \A q \in Slot \ {r} : req'[q] = req[q]
  <2> DEFINE new == [todo |-> ToSend, arg |-> arg]
  <2>1. new \in ImgUnderway /\ new.todo = ToSend /\ new.arg = arg
    BY <1>1 DEF ImgUnderway
  <2>2. req' = [req EXCEPT ![r] = new]
    OBVIOUS
  <2> HIDE DEF new
  <2> QED
    BY <2>1, <2>2, ImgHeads DEF ImgInv, Resting
<1>3. /\ ToSend \notin AvatarPlans /\ ToSend \notin RemovePlans /\ ToSend \notin AddPlans
      /\ ~Inserts(ToSend) /\ ToSend \notin {DropAvatarOn, WriteAvatarOn, DeleteOn}
      /\ ~Carries(ToSend)
  BY <1>1, ImgDiffer DEF Carries, Inserts, AvatarPlans, RemovePlans
<1>4. ~HasNew(r) /\ ~HasNew(r)'
  BY <1>2, <1>3 DEF HasNew
<1>5. StillAlone(r)
  BY StepsOfOne DEF ImgInv
<1>6. ImagesTypeOK'
  BY RowTypes DEF ImagesTypeOK, OthersFiles
<1>7. \A u : \A g \in File \cup {NoFile} : FileOf(g, u) => FileOf(g, u)'
  BY DEF OthersFiles, FileOf
<1>8. RowsPoint'
  BY <1>7, RowsPointStill
<1>9. ImgGrows(r)
  <2>1. ASSUME NEW q \in Slot \ {r}, HasNew(q) PROVE file'[req[q].arg.new] = file[req[q].arg.new]
    <3>1. req[q].arg.new \in File /\ file[req[q].arg.new].state = "stored"
      BY <2>1, NewIsStored
    <3>2. ImgKnows(req[q].todo, req[q].arg) /\ Carries(req[q].todo)
      BY <2>1 DEF ImgInv, ImgFits, HasNew
    <3>3. file[req[q].arg.new].use # "document"
      BY <3>2 DEF ImgKnows, Carries, FreshOf
    <3> QED
      BY <3>1, <3>3 DEF OthersFiles
  <2> QED
    BY <2>1 DEF ImgGrows, OthersFiles
<1>10. ImgKnows(ToSend, arg)'
  <2>1. arg.old # NoFile => file'[arg.old].state # "none"
    <3>1. ImgKnows(req[r].todo, req[r].arg) /\ arg.old \in File \cup {NoFile}
      BY DEF ImgInv, ImgFits, ImgArg
    <3> QED
      BY <3>1 DEF ImgKnows, OthersFiles
  <2>2. \A d \in Document : FileOf(arg.urls[d], "document")'
    BY DEF OthersFiles
  <2> QED
    BY <1>3, <2>1, <2>2 DEF ImgKnows, FileOf, FreshOf
<1>11. ImgFits(r)'
  BY <1>2, <1>10 DEF ImgFits
<1>12. PrivacyKept(r)
  BY <1>2, <1>4 DEF PrivacyKept
<1>13. Sending'
  BY <1>1, <1>2 DEF Sending
<1>14. /\ Swapping => Swapping'
       /\ \A p : Removing(p) => Removing(p)'
       /\ \A f : Carried(f) => Carried(f)'
  BY <1>2, <1>3, <1>4, StillUnderway
<1>15. \A g \in File : FileOf(g, "avatar") \/ FileOf(g, "picture") => file'[g] = file[g]
  BY DEF OthersFiles, FileOf, File, NoFile
<1>16. ASSUME ~broken' PROVE RowsShow'
  <2>1. RowsShow /\ RowsPoint
    BY <1>16 DEF ImgInv
  <2>2. Stored(avatar) => Stored(avatar)'
    BY <1>15, <2>1, RowTypes DEF RowsPoint, Stored
  <2>3. \A p \in LivePictures : Stored(picture[p].file) => Stored(picture[p].file)'
    BY <1>15, <2>1, RowTypes DEF RowsPoint, Stored
  <2> QED
    BY <1>14, <2>1, <2>2, <2>3 DEF RowsShow, LivePictures
<1>17. ASSUME smooth'
       PROVE  ~broken' /\ DocumentsThere' /\ NoneInVain' /\ OwnPlaces' /\ ImgRead(r)'
  <2>1. DocumentsThere /\ NoneInVain /\ OwnPlaces
    BY <1>17 DEF ImgInv
  <2>2. DocumentsThere'
    BY <1>13, <2>1 DEF DocumentsThere, OneEach
  <2>3. \A f : Shown(f)' <=> Shown(f)
    BY DEF Shown, LivePictures
  <2>4. NoneInVain'
    BY <1>14, <2>1, <2>3 DEF NoneInVain, OthersFiles
  <2>5. OwnPlaces'
    BY <2>1 DEF OwnPlaces, LivePictures
  <2>6. ImgRead(r)'
    BY <1>2, <1>17 DEF ImgRead
  <2> QED
    BY <1>17, <2>2, <2>4, <2>5, <2>6
<1>18. ImgShows(r)
  BY <1>16, <1>17 DEF ImgShows
<1> QED
  BY <1>2, <1>5, <1>6, <1>8, <1>9, <1>11, <1>12, <1>18, ImgMoves

LEMMA StoreDocumentKeeps ==
    ASSUME ImgInv, NEW r \in Slot, NEW d \in Document, StoreDocument(r, d)
    PROVE  ImgInv'
<1>1. /\ ~Resting(r) /\ req[r].todo = ToSend /\ req[r].arg \in ImgArg /\ req[r] \in ImgUnderway
      /\ ImgKnows(ToSend, req[r].arg) /\ UNCHANGED <<avatar, document, picture>>
  BY ImgAt DEF StoreDocument
<1>2. PICK had \in ImgArg : had = req[r].arg /\ req[r] = [todo |-> ToSend, arg |-> had]
  BY <1>1 DEF ImgUnderway
<1>3. /\ had.stage \in [Document -> {"keep", "drop", "upload", "failed"}]
      /\ had.urls \in [Document -> File \cup {NoFile}]
      /\ \A e \in Document : had.urls[e] \in File \cup {NoFile} /\ FileOf(had.urls[e], "document")
  BY <1>1, <1>2, ImgDiffer DEF ImgArg, ImgKnows, SendPlans
<1>4. ASSUME smooth
      PROVE  /\ ~broken /\ OneEach(had.urls)
             /\ (\A e \in Document : document[e] = NoFile)
                \/ (\A e \in Document : had.urls[e] # NoFile)
             /\ \A e \in Document : /\ had.stage[e] # "failed"
                                    /\ had.stage[e] \in {"keep", "drop"} => Stored(had.urls[e])
  <2>1. ~broken /\ ImgTrue(ToSend, had)
    BY <1>1, <1>2, <1>4 DEF ImgInv, ImgRead
  <2> QED
    BY <2>1 DEF ImgTrue, SendPlans
<1>5. /\ ToSend \notin AvatarPlans /\ ToSend \notin RemovePlans /\ ToSend \notin AddPlans
      /\ ToSend \notin {WriteAvatarOn, DeleteOn, WriteDocumentsOn}
  BY ImgDiffer DEF AvatarPlans, RemovePlans, SendPlans
<1>6. ASSUME NEW step \in {"upload", "failed"}
      PROVE  \E arg \in ImgArg :
                /\ arg.old = had.old /\ arg.urls = had.urls
                /\ arg.stage = [had.stage EXCEPT ![d] = step]
                /\ [req EXCEPT ![r].arg.stage[d] = step]
                       = [req EXCEPT ![r] = [todo |-> ToSend, arg |-> arg]]
  <2> DEFINE arg == [had EXCEPT !.stage[d] = step]
  <2>1. /\ arg \in ImgArg /\ arg.old = had.old /\ arg.urls = had.urls
        /\ arg.stage = [had.stage EXCEPT ![d] = step]
    BY <1>3 DEF ImgArg
  <2>2. \A t, a, b : [[todo |-> t, arg |-> a] EXCEPT !.arg = b] = [todo |-> t, arg |-> b]
    OBVIOUS
  <2>3. [req[r] EXCEPT !.arg.stage[d] = step] = [todo |-> ToSend, arg |-> arg]
    BY <1>2, <2>2
  <2>4. [req EXCEPT ![r].arg.stage[d] = step] = [req EXCEPT ![r] = [todo |-> ToSend, arg |-> arg]]
    BY <2>3
  <2> QED
    BY <2>1, <2>4
<1>7. CASE /\ had.stage[d] = "drop" /\ file' = Dropped(had.urls[d])
           /\ req' = [req EXCEPT ![r].arg.stage[d] = "upload"]
           /\ UNCHANGED <<smooth, broken>>
  <2>1. PICK arg \in ImgArg :
           /\ arg.old = had.old /\ arg.urls = had.urls
           /\ arg.stage = [had.stage EXCEPT ![d] = "upload"]
           /\ req' = [req EXCEPT ![r] = [todo |-> ToSend, arg |-> arg]]
    BY <1>6, <1>7
  <2>2. PICK old \in File \cup {NoFile} : old = had.urls[d] /\ FileOf(old, "document")
    BY <1>3
  <2>3. old # NoFile => file[old].state # "none"
    BY <2>2 DEF FileOf
  <2>4. /\ file' \in [File -> StoredFile]
        /\ \A g \in File : g # old => file'[g] = file[g]
        /\ \A g \in File : file[g].state # "none" => /\ file'[g].state # "none"
                                                     /\ file'[g].use = file[g].use
        /\ \A u : \A g \in File \cup {NoFile} : FileOf(g, u) => FileOf(g, u)'
        /\ \A g \in File \cup {NoFile} : Stored(g) => Stored(g)' \/ (g = old /\ g # NoFile)
        /\ old # NoFile => file'[old].use = "document"
    BY <1>7, <2>2, <2>3, OneLess DEF FileOf
  <2>5. OthersFiles(r, arg)
    <3>1. \A g \in File : file'[g].use # "document" => file'[g] = file[g]
      BY <2>4 DEF File, NoFile
    <3>2. \A g \in File : file[g].state # "none" /\ file[g].use # "document" => file'[g] = file[g]
      BY <2>2, <2>4 DEF FileOf, File, NoFile
    <3>3. \A e \in Document : FileOf(arg.urls[e], "document")'
      BY <1>3, <2>1, <2>4
    <3> QED
      BY <1>7, <2>4, <3>1, <3>2, <3>3, RowTypes DEF OthersFiles
  <2>6. ASSUME smooth PROVE ImgTrue(ToSend, arg)'
    <3>1. \A e \in Document : arg.stage[e] \in {"keep", "drop"} => e # d /\ Stored(arg.urls[e])
      BY <1>3, <1>4, <2>1, <2>6
    <3>2. \A e \in Document : e # d => arg.urls[e] # old \/ arg.urls[e] = NoFile
      BY <1>4, <2>1, <2>2, <2>6 DEF OneEach
    <3>3. \A e \in Document : arg.stage[e] \in {"keep", "drop"} => Stored(arg.urls[e])'
      BY <1>3, <2>1, <2>4, <3>1, <3>2
    <3>4. \A e \in Document : arg.stage[e] # "failed"
      BY <1>3, <1>4, <2>1, <2>6
    <3>5. /\ OneEach(arg.urls)
          /\ (\A e \in Document : document'[e] = NoFile)
             \/ (\A e \in Document : arg.urls[e] # NoFile)
      BY <1>1, <1>4, <2>1, <2>6
    <3> QED
      BY <1>5, <3>3, <3>4, <3>5 DEF ImgTrue, OneEach
  <2>7. smooth' \in BOOLEAN /\ (smooth' => smooth) /\ (~broken' => ~broken)
    BY <1>7 DEF ImgInv
  <2>8. smooth' => ~broken' /\ ImgTrue(ToSend, arg)'
    BY <1>4, <1>7, <2>6
  <2> QED
    BY <1>1, <1>2, <2>1, <2>5, <2>7, <2>8, DocumentStored
<1>8. CASE \E f \in File :
              /\ Uploaded(f, "document") /\ had.stage[d] = "upload"
              /\ req' = [req EXCEPT ![r].arg.stage[d] = "keep", ![r].arg.urls[d] = f]
              /\ UNCHANGED <<smooth, broken>>
  <2>1. PICK f \in File :
           /\ Uploaded(f, "document") /\ had.stage[d] = "upload"
           /\ req' = [req EXCEPT ![r].arg.stage[d] = "keep", ![r].arg.urls[d] = f]
           /\ UNCHANGED <<smooth, broken>>
    BY <1>8
  <2>2. PICK arg \in ImgArg :
           /\ arg.old = had.old /\ arg.urls = [had.urls EXCEPT ![d] = f]
           /\ arg.stage = [had.stage EXCEPT ![d] = "keep"]
           /\ req' = [req EXCEPT ![r] = [todo |-> ToSend, arg |-> arg]]
    <3> DEFINE arg == [had EXCEPT !.stage[d] = "keep", !.urls[d] = f]
    <3>1. /\ arg \in ImgArg /\ arg.old = had.old /\ arg.urls = [had.urls EXCEPT ![d] = f]
          /\ arg.stage = [had.stage EXCEPT ![d] = "keep"]
      BY <1>3 DEF ImgArg
    <3>2. [[todo |-> ToSend, arg |-> had] EXCEPT !.arg.stage[d] = "keep", !.arg.urls[d] = f]
              = [todo |-> ToSend, arg |-> arg]
      <4>1. \A t, a, b : [[todo |-> t, arg |-> a] EXCEPT !.arg = b] = [todo |-> t, arg |-> b]
        OBVIOUS
      <4>2. [[todo |-> ToSend, arg |-> had] EXCEPT !.arg.stage[d] = "keep"]
                = [todo |-> ToSend, arg |-> [had EXCEPT !.stage[d] = "keep"]]
        BY <4>1
      <4>3. \A a : [[todo |-> ToSend, arg |-> a] EXCEPT !.arg.urls[d] = f]
                       = [todo |-> ToSend, arg |-> [a EXCEPT !.urls[d] = f]]
        BY <4>1
      <4>4. [[[todo |-> ToSend, arg |-> had] EXCEPT !.arg.stage[d] = "keep"]
                 EXCEPT !.arg.urls[d] = f] = [todo |-> ToSend, arg |-> arg]
        BY <4>2, <4>3
      <4> QED
        BY <4>4
    <3>3. req' = [req EXCEPT ![r] = [todo |-> ToSend, arg |-> arg]]
      BY <1>2, <2>1, <3>2
    <3> QED
      BY <3>1, <3>3
  <2>3. /\ file[f].state = "none" /\ f # NoFile /\ file' \in [File -> StoredFile]
        /\ file'[f].state = "stored" /\ file'[f].use = "document"
        /\ \A g \in File : g # f => file'[g] = file[g]
        /\ \A g \in File \cup {NoFile} : Stored(g) => Stored(g)'
        /\ \A u : \A g \in File \cup {NoFile} : FileOf(g, u) => FileOf(g, u)'
    BY <2>1, OneMore DEF FileUse
  <2>4. /\ arg.urls[d] = f
        /\ \A e \in Document : e # d => arg.urls[e] = had.urls[e] /\ arg.stage[e] = had.stage[e]
        /\ arg.stage[d] = "keep"
    BY <1>3, <2>2
  <2>5. OthersFiles(r, arg)
    <3>1. FileOf(f, "document")'
      BY <2>3 DEF FileOf
    <3>2. \A e \in Document : FileOf(arg.urls[e], "document")'
      BY <1>3, <2>3, <2>4, <3>1
    <3>3. \A g \in File : file[g].state # "none" => file'[g] = file[g]
      BY <2>3
    <3>4. \A g \in File : file'[g].use # "document" => file'[g] = file[g]
      BY <2>3
    <3> QED
      BY <2>1, <2>3, <3>2, <3>3, <3>4, RowTypes DEF OthersFiles
  <2>6. ASSUME smooth PROVE ImgTrue(ToSend, arg)'
    <3>1. \A e \in Document : had.urls[e] # f
      BY <1>3, <2>3 DEF FileOf
    <3>2. OneEach(arg.urls)
      BY <1>4, <2>4, <2>6, <3>1 DEF OneEach
    <3>3. \A e \in Document : arg.urls[e] = NoFile => had.urls[e] = NoFile
      BY <2>3, <2>4
    <3>4. Stored(f)'
      BY <2>3 DEF Stored
    <3>5. \A e \in Document : arg.stage[e] \in {"keep", "drop"} => Stored(arg.urls[e])'
      BY <1>3, <1>4, <2>3, <2>4, <2>6, <3>4
    <3>6. \A e \in Document : arg.stage[e] # "failed"
      BY <1>4, <2>4, <2>6
    <3>7. (\A e \in Document : document'[e] = NoFile)
          \/ (\A e \in Document : arg.urls[e] # NoFile)
      BY <1>1, <1>4, <2>6, <3>3
    <3> QED
      BY <1>5, <3>2, <3>5, <3>6, <3>7 DEF ImgTrue, OneEach
  <2>7. smooth' \in BOOLEAN /\ (smooth' => smooth) /\ (~broken' => ~broken)
    BY <2>1 DEF ImgInv
  <2>8. smooth' => ~broken' /\ ImgTrue(ToSend, arg)'
    BY <1>4, <2>1, <2>6
  <2> QED
    BY <1>1, <1>2, <2>2, <2>5, <2>7, <2>8, DocumentStored
<1>9. CASE \E step \in {"upload", "failed"} :
              /\ req' = [req EXCEPT ![r].arg.stage[d] = step]
              /\ smooth' = FALSE /\ broken' = TRUE /\ file' = file
  <2>1. PICK step \in {"upload", "failed"} :
              /\ req' = [req EXCEPT ![r].arg.stage[d] = step]
              /\ smooth' = FALSE /\ broken' = TRUE /\ file' = file
    BY <1>9
  <2>2. PICK arg \in ImgArg :
           /\ arg.old = had.old /\ arg.urls = had.urls
           /\ arg.stage = [had.stage EXCEPT ![d] = step]
           /\ req' = [req EXCEPT ![r] = [todo |-> ToSend, arg |-> arg]]
    BY <1>6, <2>1
  <2>3. OthersFiles(r, arg)
    BY <1>3, <2>1, <2>2, RowTypes DEF OthersFiles, FileOf
  <2>4. smooth' \in BOOLEAN /\ ~smooth' /\ broken'
    BY <2>1
  <2> QED
    BY <1>1, <1>2, <2>2, <2>3, <2>4, DocumentStored
<1> QED
  BY <1>1, <1>2, <1>7, <1>8, <1>9 DEF StoreDocument

---------------------------------------------------------------------------
LEMMA BreakImageKeeps ==
    ASSUME ImgInv, NEW r \in Slot, BreakImage(r)
    PROVE  ImgInv'
<1>1. /\ ~Resting(r) /\ req' = [req EXCEPT ![r] = Idle] /\ smooth' = FALSE /\ broken' = TRUE
      /\ SameFiles
  BY DEF BreakImage, Break, SameFiles
<1>2. smooth' \in BOOLEAN /\ ~smooth' /\ broken' /\ broken' \in BOOLEAN
  BY <1>1
<1> QED
  BY <1>1, <1>2, ImgEnds

LEMMA ImagesStarts == ReqInit /\ ImagesInit => ImgInv
<1> SUFFICES ASSUME ReqInit, ImagesInit PROVE ImgInv
  OBVIOUS
<1>1. /\ req = [r \in Slot |-> Idle] /\ smooth = TRUE /\ broken = FALSE
      /\ \A r \in Slot : Resting(r)
  BY DEF ReqInit, ImagesInit, Resting, Idle
<1>2. /\ file = [f \in File |-> [state |-> "none", use |-> "avatar"]]
      /\ avatar = NoFile /\ document = [d \in Document |-> NoFile]
      /\ picture = [p \in Picture |-> [file |-> NoFile, order |-> 0, state |-> "none"]]
  BY DEF ImagesInit
<1>3. ImagesTypeOK
  BY <1>1, <1>2 DEF ImagesTypeOK, StoredFile, FileUse, PictureRow
<1>4. RowsPoint
  <2>1. \E n \in Nat : \A p \in Picture : picture[p].order <= n
    <3>1. \A p \in Picture : picture[p].order <= 0
      BY <1>2
    <3> QED
      BY <3>1
  <2> QED
    BY <1>2, <2>1 DEF RowsPoint, FileOf
<1>5. LivePictures = {}
  BY <1>2 DEF LivePictures
<1>6. RowsShow /\ DocumentsThere /\ NoneInVain /\ OwnPlaces
  BY <1>2, <1>5 DEF RowsShow, DocumentsThere, OneEach, NoneInVain, OwnPlaces, Stored
<1>7. req \in [Slot -> {Idle} \cup ImgUnderway]
  BY <1>1
<1>8. Private /\ Alone /\ \A r \in Slot : ImgFits(r) /\ ImgRead(r)
  BY <1>1 DEF Private, HasNew, Alone, ImgFits, ImgRead
<1> QED
  BY <1>1, <1>3, <1>4, <1>6, <1>7, <1>8 DEF ImgInv

LEMMA ImagesSteps == ImgInv /\ [ImagesNext]_<<reqVars, imgVars>> => ImgInv'
<1> SUFFICES ASSUME ImgInv, [ImagesNext]_<<reqVars, imgVars>> PROVE ImgInv'
  OBVIOUS
<1>1. ASSUME NEW r \in Slot, StartImage(r), UNCHANGED imgVars PROVE ImgInv'
  BY <1>1, StartImageKeeps
<1>2. ASSUME NEW r \in Slot, ImageStep(r) PROVE ImgInv'
  BY <1>2, UploadKeeps, DropOldKeeps, WriteAvatarKeeps, InsertPictureKeeps,
     DeletePictureKeeps, StoreDocumentKeeps, CollectDocumentsKeeps, WriteDocumentsKeeps,
     BreakImageKeeps
     DEF ImageStep
<1>3. CASE UNCHANGED <<reqVars, imgVars>>
  <2>1. /\ req' = req /\ smooth' = smooth /\ file' = file /\ avatar' = avatar
        /\ document' = document /\ picture' = picture /\ broken' = broken
    BY <1>3 DEF reqVars, imgVars
  <2>2. ImagesTypeOK' /\ RowsPoint'
    BY <2>1 DEF ImgInv, ImagesTypeOK, RowsPoint, FileOf
  <2>3. \A r \in Slot : ImgFits(r)'
    <3>1. ASSUME NEW todo, NEW arg, ImgKnows(todo, arg) PROVE ImgKnows(todo, arg)'
      BY <2>1, <3>1 DEF ImgKnows, FileOf, FreshOf
    <3>2. ASSUME NEW r \in Slot PROVE ImgFits(r)'
      BY <2>1, <3>1 DEF ImgInv, ImgFits, Resting
    <3> QED
      BY <3>2
  <2>4. Private'
    BY <2>1 DEF ImgInv, Private, HasNew, Resting
  <2>5. RowsShow \/ broken => RowsShow' \/ broken'
    BY <2>1 DEF RowsShow, Stored, Swapping, Removing, LivePictures, Resting
  <2>6. Alone => Alone'
    BY <2>1 DEF Alone, Resting
  <2>7. DocumentsThere => DocumentsThere'
    BY <2>1 DEF DocumentsThere, OneEach, Sending, Stored, Resting
  <2>8. /\ NoneInVain => NoneInVain'
        /\ OwnPlaces => OwnPlaces'
    BY <2>1 DEF NoneInVain, Shown, Carried, HasNew, OwnPlaces, LivePictures, Resting
  <2>9. \A r \in Slot : ImgRead(r) => ImgRead(r)'
    BY <2>1 DEF ImgRead, ImgTrue, OneEach, Stored, LivePictures, Resting
  <2> QED
    BY <2>1, <2>2, <2>3, <2>4, <2>5, <2>6, <2>7, <2>8, <2>9 DEF ImgInv
<1> QED
  BY <1>1, <1>2, <1>3 DEF ImagesNext

LEMMA PicturesThere == ImgInv => PicturesResolve
<1> SUFFICES ASSUME ImgInv, AllRest, ~broken
             PROVE  /\ Stored(avatar)
                    /\ \A p \in LivePictures : Stored(picture[p].file)
                    /\ smooth =>
                          /\ \A d \in Document : Stored(document[d])
                          /\ \A f \in File :
                                file[f].state = "stored" /\ file[f].use # "document"
                                    => f = avatar \/ \E p \in LivePictures : picture[p].file = f
                          /\ \A p, q \in LivePictures : picture[p].order = picture[q].order => p = q
  BY DEF PicturesResolve
<1>1. ~Swapping /\ ~Sending /\ (\A p : ~Removing(p)) /\ (\A f : ~Carried(f))
  BY DEF AllRest, Swapping, Sending, Removing, Carried, HasNew
<1>2. RowsShow
  BY DEF ImgInv
<1>3. ASSUME smooth PROVE DocumentsThere /\ NoneInVain /\ OwnPlaces
  BY <1>3 DEF ImgInv
<1> QED
  BY <1>1, <1>2, <1>3 DEF RowsShow, DocumentsThere, NoneInVain, Shown, OwnPlaces

\* However uploads, replacements and deletions overlap, an avatar and the pictures of a
\* product point to files that are there, as long as nothing has failed; without
\* overlaps the documents do so too, no avatar or picture is stored in vain, and
\* pictures have places of their own (UsersService, ProductsService, StorageService).
THEOREM PicturesAreThere == ImagesSpec => []PicturesResolve
<1>1. ReqInit /\ ImagesInit => ImgInv
  BY ImagesStarts
<1>2. ImgInv /\ [ImagesNext]_<<reqVars, imgVars>> => ImgInv'
  BY ImagesSteps
<1>3. ImgInv => PicturesResolve
  BY PicturesThere
<1> QED
  BY <1>1, <1>2, <1>3, PTL DEF ImagesSpec

---------------------------------------------------------------------------
(* The seed script.                                                        *)

\* The tables that are filled before the i-th.
Earlier(i) == {Batches[j] : j \in 1 .. i - 1}

\* What has been filled follows the stage: all of the tables before it, and
\* perhaps a batch of its own.  Who has filled anything began with departments.
StageOf(x) ==
    /\ stage[x] \in {Unstarted, Refused, 0} => filled[x].some = {}
    /\ stage[x] \in 0 .. Len(Batches) => filled[x].all = Earlier(stage[x] + 1)
    /\ filled[x].some # {} => "departments" \in filled[x].some
    /\ filled[x].all \subseteq filled[x].some

StagesOK == \A x \in Execution : StageOf(x)

\* The unique names of the departments keep a second execution out.
OneSeeds == \A x, y \in Execution : filled[x].some # {} /\ filled[y].some # {} => x = y

\* The row followed is one that may be drawn, and what it refers to is there.
RowOK ==
    /\ latest = Row({}) \/ \E t \in Table : latest \in RowsOf(t)
    /\ \E x \in Execution : latest.refs \subseteq filled[x].all

SeedInv ==
    /\ stage \in [Execution -> {Unstarted, Refused, Dead} \cup 0 .. Len(Batches)]
    /\ filled \in [Execution -> [some : SUBSET Table, all : SUBSET Table]]
    /\ StagesOK
    /\ OneSeeds
    /\ RowOK

LEMMA TheBatches ==
    /\ Len(Batches) = 23 /\ DOMAIN Batches = 1 .. 23
    /\ Batches[1] = "departments"
    /\ Batches[2] = "municipalities"
    /\ Batches[3] = "categories"
    /\ Batches[4] = "subcategories"
    /\ Batches[5] = "payment_methods"
    /\ Batches[6] = "users"
    /\ Batches[7] = "commission_configs"
    /\ Batches[8] = "locations"
    /\ Batches[9] = "seller_profiles"
    /\ Batches[10] = "identity_verifications"
    /\ Batches[11] = "products"
    /\ Batches[12] = "product_images"
    /\ Batches[13] = "carts"
    /\ Batches[14] = "cart_items"
    /\ Batches[15] = "favorites"
    /\ Batches[16] = "orders"
    /\ Batches[17] = "order_items"
    /\ Batches[18] = "seller_reviews"
    /\ Batches[19] = "product_reviews"
    /\ Batches[20] = "reports"
    /\ Batches[21] = "notifications"
    /\ Batches[22] = "transactions"
    /\ Batches[23] = "audit_logs"
BY DEF Batches



LEMMA RefsOfUsers == \A row \in SeededUser : row.refs = {}
BY DEF SeededUser

LEMMA RefsOfProfiles == \A row \in SeededProfile : row.refs = {"users"}
BY DEF SeededProfile

LEMMA RefsOfReviews ==
    ASSUME NEW about, NEW row \in SeededReview(about)
    PROVE  /\ row.refs = {"orders", "users", about}
BY DEF SeededReview

LEMMA RefsOfNotifications == \A row \in SeededNotification : row.refs = {"users"}
<1>1. ASSUME NEW type, NEW times, NEW row \in NoticesOf(type, times) PROVE row.refs = {"users"}
  BY <1>1 DEF NoticesOf
<1> QED
  BY <1>1 DEF SeededNotification

LEMMA RefsOfTransactions == \A row \in SeededTransaction : row.refs = {"orders", "payment_methods"}
BY DEF SeededTransaction

LEMMA RefsOfEntries == \A row \in SeededAudit : row.refs = {"users"}
<1>1. ASSUME NEW action, NEW from, NEW to, NEW row \in EntriesOf(action, from, to) PROVE row.refs = {"users"}
  BY <1>1 DEF EntriesOf
<1> QED
  BY <1>1 DEF SeededAudit

\* A batch refers to tables that are filled before its own.
LEMMA RefsAreEarlier ==
    ASSUME NEW i \in 1 .. 23, NEW row \in RowsOf(Batches[i])
    PROVE  row.refs \subseteq Earlier(i)
<1>1. \A j \in 1 .. 23 : j < i => Batches[j] \in Earlier(i)
  BY DEF Earlier
<1>2. CASE i = 1
  BY <1>1, <1>2, TheBatches DEF RowsOf, Row
<1>3. CASE i = 2
  BY <1>1, <1>3, TheBatches DEF RowsOf, Row
<1>4. CASE i = 3
  BY <1>1, <1>4, TheBatches DEF RowsOf, Row
<1>5. CASE i = 4
  BY <1>1, <1>5, TheBatches DEF RowsOf, Row
<1>6. CASE i = 5
  BY <1>1, <1>6, TheBatches DEF RowsOf, SeededMethods
<1>7. CASE i = 6
  BY <1>1, <1>7, RefsOfUsers, TheBatches DEF RowsOf
<1>8. CASE i = 7
  BY <1>1, <1>8, TheBatches DEF RowsOf, Row
<1>9. CASE i = 8
  BY <1>1, <1>9, TheBatches DEF RowsOf, SeededLocation, Row
<1>10. CASE i = 9
  BY <1>1, <1>10, RefsOfProfiles, TheBatches DEF RowsOf
<1>11. CASE i = 10
  BY <1>1, <1>11, TheBatches DEF RowsOf, SeededIdentity
<1>12. CASE i = 11
  BY <1>1, <1>12, TheBatches DEF RowsOf, SeededProduct
<1>13. CASE i = 12
  BY <1>1, <1>13, TheBatches DEF RowsOf, SeededImages
<1>14. CASE i = 13
  BY <1>1, <1>14, TheBatches DEF RowsOf, SeededCart
<1>15. CASE i = 14
  BY <1>1, <1>15, TheBatches DEF RowsOf, SeededCartItem
<1>16. CASE i = 15
  BY <1>1, <1>16, TheBatches DEF RowsOf, SeededFavorite, Row
<1>17. CASE i = 16
  BY <1>1, <1>17, TheBatches DEF RowsOf, SeededOrder
<1>18. CASE i = 17
  BY <1>1, <1>18, TheBatches DEF RowsOf, SeededOrderItem
<1>19. CASE i = 18
  BY <1>1, <1>19, RefsOfReviews, TheBatches DEF RowsOf
<1>20. CASE i = 19
  BY <1>1, <1>20, RefsOfReviews, TheBatches DEF RowsOf
<1>21. CASE i = 20
  BY <1>1, <1>21, TheBatches DEF RowsOf, SeededReport
<1>22. CASE i = 21
  BY <1>1, <1>22, RefsOfNotifications, TheBatches DEF RowsOf
<1>23. CASE i = 22
  BY <1>1, <1>23, RefsOfTransactions, TheBatches DEF RowsOf
<1>24. CASE i = 23
  BY <1>1, <1>24, RefsOfEntries, TheBatches DEF RowsOf
<1> QED
  BY <1>2, <1>3, <1>4, <1>5, <1>6, <1>7, <1>8, <1>9, <1>10, <1>11, <1>12, <1>13, <1>14, <1>15, <1>16, <1>17, <1>18, <1>19, <1>20, <1>21, <1>22, <1>23, <1>24

LEMMA EarlierGrows ==
    /\ Earlier(1) = {}
    /\ Earlier(24) = Table
    /\ \A k \in 0 .. 22 : Earlier(k + 2) = Earlier(k + 1) \cup {Batches[k + 1]} /\ Batches[k + 1] \in Table
    /\ \A k \in 0 .. 22 : Batches[k + 1] \in Earlier(k + 1) => FALSE
    /\ \A k \in 1 .. 22 : "departments" \in Earlier(k + 1)
<1>1. Earlier(1) = {}
  BY DEF Earlier
<1>2. Earlier(24) = Table
  BY TheBatches DEF Earlier, Table
<1>3. ASSUME NEW k \in 0 .. 22
      PROVE Earlier(k + 2) = Earlier(k + 1) \cup {Batches[k + 1]} /\ Batches[k + 1] \in Table
  <2>1. \A j : j \in 1 .. k + 1 <=> j \in 1 .. k \/ j = k + 1
    OBVIOUS
  <2> QED
    BY <2>1, TheBatches DEF Earlier, Table
<1>4. ASSUME NEW k \in 0 .. 22 PROVE Batches[k + 1] \notin Earlier(k + 1)
  <2> SUFFICES ASSUME NEW j \in 1 .. k PROVE Batches[k + 1] # Batches[j]
    BY DEF Earlier
  <2> DEFINE b(i) == Batches[i]
  <2>1. \A i \in 1 .. 23, l \in 1 .. 23 : i < l => Batches[i] # Batches[l]
    <3> SUFFICES ASSUME NEW i \in 1 .. 23, NEW l \in 1 .. 23, i < l PROVE Batches[i] # Batches[l]
      OBVIOUS
    <3> QED
      BY TheBatches
  <2> QED
    BY <2>1
<1>5. ASSUME NEW k \in 1 .. 22 PROVE "departments" \in Earlier(k + 1)
  BY TheBatches DEF Earlier
<1> QED
  BY <1>1, <1>2, <1>3, <1>4, <1>5

LEMMA SeedStarts == SeedInit => SeedInv
<1> SUFFICES ASSUME SeedInit PROVE SeedInv
  OBVIOUS
<1>1. PICK x \in Execution : TRUE
  BY SeedAssumption
<1>2. RowOK
  BY <1>1 DEF SeedInit, RowOK, Row
<1>3. StagesOK
  BY TheBatches DEF SeedInit, StagesOK, StageOf, Unstarted
<1> QED
  BY <1>2, <1>3 DEF SeedInit, SeedInv, OneSeeds

LEMMA CountKeeps ==
    ASSUME SeedInv, NEW x \in Execution, CountDepartments(x)
    PROVE  SeedInv'
<1> DEFINE new == IF NotEmpty("departments") THEN Refused ELSE 0
<1>1. /\ new \in {Unstarted, Refused, Dead} \cup 0 .. Len(Batches)
      /\ stage' = [stage EXCEPT ![x] = new] /\ filled' = filled /\ latest' = latest
  BY TheBatches DEF CountDepartments
<1>2. stage'[x] = new /\ \A y \in Execution \ {x} : stage'[y] = stage[y]
  BY <1>1 DEF SeedInv
<1>3. filled[x].some = {} /\ filled[x].all = {}
  BY DEF SeedInv, StagesOK, StageOf, CountDepartments
<1>4. new \in {Refused, 0} /\ Earlier(0 + 1) = {}
  BY EarlierGrows
<1> HIDE DEF new
<1>5. ASSUME NEW y \in Execution, y # x
      PROVE  stage'[y] = stage[y] /\ filled'[y] = filled[y]
  BY <1>1, <1>2, <1>5
<1>6. StageOf(x)'
  <2>1. filled'[x] = filled[x] /\ stage'[x] \in {Refused, 0} /\ Refused \notin 0 .. Len(Batches)
    BY <1>1, <1>2, <1>4, TheBatches DEF Refused
  <2> QED
    BY <1>3, <1>4, <2>1 DEF StageOf
<1>7. StagesOK'
  BY <1>5, <1>6 DEF SeedInv, StagesOK, StageOf
<1> QED
  BY <1>1, <1>7 DEF SeedInv, OneSeeds, RowOK

LEMMA DieKeeps ==
    ASSUME SeedInv, NEW x \in Execution, Die(x)
    PROVE  SeedInv'
<1>1. stage' = [stage EXCEPT ![x] = Dead] /\ filled' = filled /\ latest' = latest
  BY DEF Die
<1>2. stage'[x] = Dead /\ \A y \in Execution \ {x} : stage'[y] = stage[y]
  BY <1>1 DEF SeedInv
<1>3. StagesOK'
  BY <1>1, <1>2, TheBatches DEF SeedInv, StagesOK, StageOf, Refused, Unstarted, Dead
<1> QED
  BY <1>1, <1>3 DEF SeedInv, OneSeeds, RowOK

\* Nobody else has filled anything, whatever x fills now.
LEMMA NobodyElse ==
    ASSUME SeedInv, NEW x \in Execution, WriteBatch(x)
    PROVE  \A y \in Execution \ {x} : filled[y].some = {}
<1>1. CASE filled[x].some # {}
  BY <1>1 DEF SeedInv, OneSeeds
<1>2. CASE filled[x].some = {}
  <2>1. stage[x] \in 0 .. 22 /\ ~RowsClash(x, Batches[stage[x] + 1])
    BY TheBatches DEF WriteBatch, Filling
  <2>2. Earlier(stage[x] + 1) = {}
    BY <1>2, <2>1, TheBatches DEF SeedInv, StagesOK, StageOf
  <2>3. stage[x] = 0
    BY <2>1, <2>2, EarlierGrows
  <2>4. Batches[stage[x] + 1] = "departments"
    BY <2>3, TheBatches
  <2>5. \A y \in Execution \ {x} : "departments" \notin filled[y].some
    BY <2>1, <2>4 DEF RowsClash, Fixed
  <2> QED
    BY <2>5 DEF SeedInv, StagesOK, StageOf
<1> QED
  BY <1>1, <1>2

LEMMA WriteKeeps ==
    ASSUME SeedInv, NEW x \in Execution, WriteBatch(x)
    PROVE  SeedInv'
<1> DEFINE k == stage[x]
           table == Batches[k + 1]
<1>1. k \in 0 .. 22 /\ latest' \in RowsOf(table)
  BY TheBatches DEF WriteBatch, Filling
<1>2. /\ table \in Table /\ Earlier(k + 2) = Earlier(k + 1) \cup {table}
      /\ k # 0 => "departments" \in Earlier(k + 1)
      /\ k = 0 => table = "departments"
  BY <1>1, EarlierGrows, TheBatches
<1>3. /\ filled[x] \in [some : SUBSET Table, all : SUBSET Table]
      /\ filled[x].all = Earlier(k + 1) /\ filled[x].all \subseteq filled[x].some
  BY <1>1, TheBatches DEF SeedInv, StagesOK, StageOf
<1>4. \A y \in Execution \ {x} : filled[y].some = {}
  BY NobodyElse
<1>5. latest'.refs \subseteq Earlier(k + 1)
  BY <1>1, RefsAreEarlier
<1> DEFINE old == filled[x]
           some == [old EXCEPT !.some = @ \cup {table}]
           both == [old EXCEPT !.some = @ \cup {table}, !.all = @ \cup {table}]
<1>6. /\ some \in [some : SUBSET Table, all : SUBSET Table]
      /\ some.some = old.some \cup {table} /\ some.all = old.all
      /\ both \in [some : SUBSET Table, all : SUBSET Table]
      /\ both.some = old.some \cup {table} /\ both.all = old.all \cup {table}
  BY <1>2, <1>3
<1>7. \/ /\ table \in Large \ old.some
         /\ filled' = [filled EXCEPT ![x] = some] /\ stage' = stage
      \/ filled' = [filled EXCEPT ![x] = both] /\ stage' = [stage EXCEPT ![x] = k + 1]
  BY DEF WriteBatch
<1>8. "departments" \in old.some \cup {table}
  BY <1>2, <1>3
<1>9. k = 0 => table \notin Large
  BY <1>2 DEF Large
<1> HIDE DEF table, some, both, old
<1>10. /\ filled'[x] \in {some, both} /\ \A y \in Execution \ {x} : filled'[y] = filled[y]
       /\ filled' \in [Execution -> [some : SUBSET Table, all : SUBSET Table]]
  BY <1>6, <1>7 DEF SeedInv
<1>11. /\ stage' \in [Execution -> {Unstarted, Refused, Dead} \cup 0 .. Len(Batches)]
       /\ \A y \in Execution \ {x} : stage'[y] = stage[y]
  BY <1>1, <1>7, TheBatches DEF SeedInv
<1>12. \/ filled'[x] = some /\ stage'[x] = k /\ k # 0
       \/ filled'[x] = both /\ stage'[x] = k + 1
  BY <1>7, <1>9 DEF SeedInv
<1>13. RowOK'
  <2>1. latest'.refs \subseteq filled'[x].all
    BY <1>3, <1>5, <1>6, <1>10 DEF old
  <2> QED
    BY <1>1, <1>2, <2>1 DEF RowOK
<1>14. OneSeeds'
  BY <1>4, <1>10 DEF OneSeeds
<1>15. StagesOK'
  <2> SUFFICES ASSUME NEW y \in Execution
               PROVE  StageOf(y)'
    BY DEF StagesOK
  <2>1. CASE y # x
    BY <1>10, <1>11, <2>1 DEF SeedInv, StagesOK, StageOf
  <2>2. CASE y = x
    <3>1. /\ filled'[x].all \subseteq filled'[x].some
          /\ "departments" \in filled'[x].some
      BY <1>3, <1>6, <1>8, <1>10 DEF old
    <3>2. filled'[x].all = Earlier(stage'[x] + 1) /\ stage'[x] \in 1 .. 23
      <4>1. CASE filled'[x] = some /\ stage'[x] = k /\ k # 0
        BY <1>1, <1>3, <1>6, <4>1 DEF old
      <4>2. CASE filled'[x] = both /\ stage'[x] = k + 1
        <5>1. (k + 1) + 1 = k + 2
          BY <1>1
        <5> QED
          BY <1>1, <1>2, <1>3, <1>6, <4>2, <5>1 DEF old
      <4> QED
        BY <1>12, <4>1, <4>2
    <3>3. stage'[x] \notin {Unstarted, Refused} /\ stage'[x] # 0
      BY <3>2 DEF Unstarted, Refused
    <3> QED
      BY <2>2, <3>1, <3>2, <3>3 DEF StageOf
  <2> QED
    BY <2>1, <2>2
<1> QED
  BY <1>10, <1>11, <1>13, <1>14, <1>15 DEF SeedInv

LEMMA SeedSteps == SeedInv /\ [SeedNext]_seedVars => SeedInv'
<1>1. SeedInv /\ UNCHANGED seedVars => SeedInv'
  BY DEF SeedInv, StagesOK, StageOf, OneSeeds, RowOK, seedVars
<1> QED
  BY <1>1, CountKeeps, WriteKeeps, DieKeeps DEF SeedNext

\* However often the script is started, by whom, and wherever it dies, one
\* execution at most fills the database, and all of it if it ends (prisma/seed.ts).
THEOREM OneExecutionSeeds == SeedSpec => []SeededOnce
<1>1. SeedInv => SeededOnce
  <2> SUFFICES ASSUME SeedInv PROVE SeededOnce
    OBVIOUS
  <2>1. \A x \in Execution : stage[x] = Len(Batches) => filled[x].all = Table
    BY TheBatches, EarlierGrows DEF SeedInv, StagesOK, StageOf
  <2> QED
    BY <2>1 DEF SeedInv, OneSeeds, RowOK, SeededOnce
<1> QED
  BY <1>1, SeedStarts, SeedSteps, PTL DEF SeedSpec

---------------------------------------------------------------------------
\* A row without these columns is under no rule.
LEMMA NoRules ==
    ASSUME ~Has("configs"), ~Has("stock"), ~Has("total"), ~(Has("created") /\ Has("of")),
           ~Has("commission"), ~Has("to"), ~Has("oldPercentage")
    PROVE  SeedObeysTheRules
BY DEF SeedObeysTheRules

LEMMA PlainRows ==
    ASSUME NEW refs, latest = Row(refs)
    PROVE  SeedObeysTheRules
<1>1. DOMAIN latest = {"refs"}
  BY DEF Row
<1> QED
  BY <1>1, NoRules DEF Has

LEMMA MethodRows == latest \in SeededMethods => SeedObeysTheRules
<1> SUFFICES ASSUME latest \in SeededMethods PROVE SeedObeysTheRules
  OBVIOUS
<1>1. DOMAIN latest = {"refs", "provider", "active"}
  BY DEF SeededMethods
<1> QED
  BY <1>1, NoRules DEF Has

LEMMA UserRows == latest \in SeededUser => SeedObeysTheRules
<1> SUFFICES ASSUME latest \in SeededUser PROVE SeedObeysTheRules
  OBVIOUS
<1>1. DOMAIN latest = {"refs", "created"}
  BY DEF SeededUser
<1> QED
  BY <1>1, NoRules DEF Has

LEMMA ProfileRows == latest \in SeededProfile => SeedObeysTheRules
<1> SUFFICES ASSUME latest \in SeededProfile PROVE SeedObeysTheRules
  OBVIOUS
<1>1. DOMAIN latest = {"refs", "status", "created", "reviewed"}
  BY DEF SeededProfile
<1> QED
  BY <1>1, NoRules DEF Has

LEMMA IdentityRows == latest \in SeededIdentity => SeedObeysTheRules
<1> SUFFICES ASSUME latest \in SeededIdentity PROVE SeedObeysTheRules
  OBVIOUS
<1>1. DOMAIN latest = {"refs", "status", "of"}
  BY DEF SeededIdentity
<1> QED
  BY <1>1, NoRules DEF Has

LEMMA ImageRows == latest \in SeededImages => SeedObeysTheRules
<1> SUFFICES ASSUME latest \in SeededImages PROVE SeedObeysTheRules
  OBVIOUS
<1>1. DOMAIN latest = {"refs", "places"}
  BY DEF SeededImages
<1> QED
  BY <1>1, NoRules DEF Has

LEMMA CartRows == latest \in SeededCart => SeedObeysTheRules
<1> SUFFICES ASSUME latest \in SeededCart PROVE SeedObeysTheRules
  OBVIOUS
<1>1. DOMAIN latest = {"refs", "status", "created"}
  BY DEF SeededCart
<1> QED
  BY <1>1, NoRules DEF Has

LEMMA CartItemRows == latest \in SeededCartItem => SeedObeysTheRules
<1> SUFFICES ASSUME latest \in SeededCartItem PROVE SeedObeysTheRules
  OBVIOUS
<1>1. DOMAIN latest = {"refs", "of"}
  BY DEF SeededCartItem
<1> QED
  BY <1>1, NoRules DEF Has

LEMMA FavoriteRows == latest \in SeededFavorite => SeedObeysTheRules
BY PlainRows DEF SeededFavorite

LEMMA OrderItemRows == latest \in SeededOrderItem => SeedObeysTheRules
<1> SUFFICES ASSUME latest \in SeededOrderItem PROVE SeedObeysTheRules
  OBVIOUS
<1>1. DOMAIN latest = {"refs", "subtotal", "of"}
  BY DEF SeededOrderItem
<1> QED
  BY <1>1, NoRules DEF Has

LEMMA ReportRows == latest \in SeededReport => SeedObeysTheRules
<1> SUFFICES ASSUME latest \in SeededReport PROVE SeedObeysTheRules
  OBVIOUS
<1>1. DOMAIN latest = {"refs", "status", "created", "resolved"}
  BY DEF SeededReport
<1> QED
  BY <1>1, NoRules DEF Has

\* One commission is in force, each from where the one before it ended.
LEMMA CommissionRows ==
    latest \in {[refs |-> {"users"}, configs |-> SeededCommissions]} => SeedObeysTheRules
<1> SUFFICES ASSUME latest = [refs |-> {"users"}, configs |-> SeededCommissions] PROVE SeedObeysTheRules
  OBVIOUS
<1>1. DOMAIN latest = {"refs", "configs"} /\ latest.configs = SeededCommissions
  OBVIOUS
<1>2. DOMAIN Percentages = 1 .. 5 /\ Len(Percentages) = 5
  BY DEF Percentages
<1> DEFINE C == SeededCommissions
<1>3. /\ DOMAIN C = 1 .. 5
      /\ \A i \in 1 .. 5 : C[i].to = (IF i = 5 THEN Never ELSE i + 1) /\ C[i].from = i
  BY <1>2 DEF SeededCommissions
<1>4. \A i \in 1 .. 5 : C[i].active = (i = 5)
  BY <1>2, <1>3, Zenon DEF SeededCommissions
<1> HIDE DEF C
<1>5. \A i \in 1 .. 5 : C[i].to = Never <=> i = 5
  BY <1>3 DEF Never
<1>6. \A i, j \in 1 .. 5 : j = i + 1 => C[i].to = C[j].from
  BY <1>3
<1>7. \A i \in DOMAIN C : C[i].active = (C[i].to = Never)
  BY <1>3, <1>4, <1>5, Zenon
<1>8. \A i, j \in DOMAIN C : C[i].active /\ C[j].active => i = j
  BY <1>3, <1>4, Zenon
<1>9. DOMAIN latest = {"refs", "configs"} /\ latest.configs = C
  BY <1>1 DEF C
<1> DEFINE Law(c) == \A i, j \in DOMAIN c :
                        /\ c[i].active /\ c[j].active => i = j
                        /\ c[i].active = (c[i].to = Never)
                        /\ j = i + 1 => c[i].to = c[j].from
<1>10. Law(C)
  <2> SUFFICES ASSUME NEW i \in DOMAIN C, NEW j \in DOMAIN C
               PROVE  /\ C[i].active /\ C[j].active => i = j
                      /\ C[i].active = (C[i].to = Never)
                      /\ j = i + 1 => C[i].to = C[j].from
    OBVIOUS
  <2>1. j = i + 1 => C[i].to = C[j].from
    BY <1>3, <1>6
  <2> QED
    BY <1>7, <1>8, <2>1, Zenon
<1> HIDE DEF Law
<1>11. Law(latest.configs)
  BY <1>9, <1>10
<1> QED
  BY <1>9, <1>11, Zenon DEF SeedObeysTheRules, Has, Law

LEMMA ProductRows == latest \in SeededProduct => SeedObeysTheRules
<1> SUFFICES ASSUME latest \in SeededProduct PROVE SeedObeysTheRules
  OBVIOUS
<1>1. DOMAIN latest = {"refs", "created", "deleted", "status", "stock"}
  BY DEF SeededProduct
<1>2. /\ latest.status = "OUT_OF_STOCK" <=> latest.stock = 0
      /\ latest.deleted => latest.status = "INACTIVE"
  BY DEF SeededProduct
<1> QED
  BY <1>1, <1>2 DEF SeedObeysTheRules, Has

\* A date no earlier than another, and not in the future.
LEMMA ClampedDate ==
    ASSUME NEW c \in Nat, NEW t \in Nat, c <= Now, c <= t
    PROVE  /\ Clamp(t) \in Nat /\ c <= Clamp(t) /\ Clamp(t) <= Now /\ Clamp(t) # Never
BY SeedAssumption DEF Clamp, Never

LEMMA ClampGrows ==
    ASSUME NEW s \in Nat, NEW t \in Nat, s <= t
    PROVE  Clamp(s) <= Clamp(t)
BY SeedAssumption DEF Clamp

\* What the dates of an order say.
LEMMA OrderDates ==
    ASSUME NEW o \in SeededOrder
    PROVE  /\ o.delivered # Never <=> o.status = "DELIVERED"
           /\ o.confirmed # Never <=> o.status \in {"CONFIRMED", "PREPARING", "DELIVERED"}
           /\ o.cancelled # Never <=> o.status = "CANCELLED"
           /\ o.delivered # Never => o.confirmed <= o.delivered /\ o.delivered <= Now
           /\ o.confirmed # Never => o.created <= o.confirmed /\ o.confirmed <= Now
           /\ o.cancelled # Never => o.created <= o.cancelled /\ o.cancelled <= Now
           /\ o.delivered # Never => o.delivered \in Nat
           /\ o.total \in Amount
           /\ DOMAIN o = {"refs", "status", "created", "total", "confirmed", "delivered", "cancelled"}
<1>1. PICK s \in {"DELIVERED", "CONFIRMED", "PREPARING", "PENDING", "CANCELLED"},
           c \in Drawn, g \in Gap, h \in Gap, a \in Amount :
      o = [refs |-> {"users", "seller_profiles"}, status |-> s, created |-> c, total |-> a,
           confirmed |-> IF s \in {"PENDING", "CANCELLED"} THEN Never ELSE Clamp(c + g),
           delivered |-> IF s = "DELIVERED" THEN Clamp(c + g + h) ELSE Never,
           cancelled |-> IF s = "CANCELLED" THEN Clamp(c + g) ELSE Never]
  BY DEF SeededOrder
<1>2. /\ c \in Nat /\ g \in Nat /\ h \in Nat /\ c <= Now
      /\ c + g \in Nat /\ c <= c + g /\ c + g + h \in Nat /\ c <= c + g + h /\ c + g <= c + g + h
  BY SeedAssumption DEF Drawn
<1>3. /\ Clamp(c + g) # Never /\ c <= Clamp(c + g) /\ Clamp(c + g) <= Now
      /\ Clamp(c + g + h) # Never /\ Clamp(c + g + h) <= Now /\ Clamp(c + g + h) \in Nat
      /\ Clamp(c + g) <= Clamp(c + g + h)
  BY <1>2, ClampedDate, ClampGrows
<1> QED
  BY <1>1, <1>3

LEMMA OrderRows == latest \in SeededOrder => SeedObeysTheRules
BY OrderDates DEF SeedObeysTheRules, Has

\* Only delivered orders are reviewed and paid, after the delivery.
LEMMA AfterDelivery ==
    ASSUME NEW o \in Delivered, NEW c \in After(o.delivered)
    PROVE  /\ o.status = "DELIVERED"
           /\ o.delivered <= Clamp(c) /\ Clamp(c) <= Now
<1>1. o \in SeededOrder /\ o.status = "DELIVERED"
  BY DEF Delivered
<1>2. o.delivered \in Nat /\ o.delivered <= Now
  BY <1>1, OrderDates
<1>3. c \in Nat /\ o.delivered <= c
  BY <1>2, SeedAssumption DEF After
<1> QED
  BY <1>1, <1>2, <1>3, ClampedDate

LEMMA ReviewRows ==
    ASSUME NEW about, latest \in SeededReview(about)
    PROVE  SeedObeysTheRules
<1>1. PICK o \in Delivered : \E c \in After(o.delivered), s \in {"APPROVED", "PENDING_REVIEW", "REJECTED"} :
      latest = [refs |-> {"orders", "users", about}, created |-> Clamp(c), status |-> s, of |-> o]
  BY DEF SeededReview
<1>2. PICK c \in After(o.delivered), s \in {"APPROVED", "PENDING_REVIEW", "REJECTED"} :
      latest = [refs |-> {"orders", "users", about}, created |-> Clamp(c), status |-> s, of |-> o]
  BY <1>1
<1>3. /\ DOMAIN latest = {"refs", "created", "status", "of"}
      /\ latest.of = o /\ latest.created = Clamp(c)
  BY <1>2
<1> QED
  BY <1>3, AfterDelivery DEF SeedObeysTheRules, Has

\* Notices are not about an order, for the rules.
LEMMA NoticeRows == latest \in SeededNotification => SeedObeysTheRules
<1>1. ASSUME NEW type, NEW times, latest \in NoticesOf(type, times) PROVE SeedObeysTheRules
  <2>1. DOMAIN latest = {"refs", "type", "created", "of"} /\ latest.refs = {"users"}
    BY <1>1 DEF NoticesOf
  <2> QED
    BY <2>1 DEF SeedObeysTheRules, Has
<1> QED
  BY <1>1 DEF SeededNotification

\* The commission stays within the amount.
LEMMA TransactionRows == latest \in SeededTransaction => SeedObeysTheRules
<1> SUFFICES ASSUME latest \in SeededTransaction PROVE SeedObeysTheRules
  OBVIOUS
<1>1. Percentages[Len(Percentages)] = 75
  BY DEF Percentages
<1> DEFINE Paid(o, m, s, c) ==
      [refs |-> {"orders", "payment_methods"}, provider |-> m.provider, status |-> s,
       amount |-> o.total, rate |-> 75, commission |-> (o.total * 75 + 500) \div 1000,
       created |-> Clamp(c), of |-> o]
<1>2. PICK o \in Delivered :
          \E m \in {x \in SeededMethods : x.active},
             s \in {"COMPLETED", "PENDING", "FAILED", "REFUNDED"}, c \in After(o.delivered) :
                latest = Paid(o, m, s, c)
  BY <1>1 DEF SeededTransaction
<1>7. PICK m \in {x \in SeededMethods : x.active},
           s \in {"COMPLETED", "PENDING", "FAILED", "REFUNDED"}, c \in After(o.delivered) :
      latest = Paid(o, m, s, c)
  BY <1>2
<1>3. /\ DOMAIN latest = {"refs", "provider", "status", "amount", "rate", "commission", "created", "of"}
      /\ latest.of = o /\ latest.created = Clamp(c) /\ latest.provider = m.provider
      /\ latest.amount = o.total /\ latest.commission = (o.total * 75 + 500) \div 1000
  BY <1>7
<1>4. o.total \in Nat \ {0}
  BY OrderDates, SeedAssumption DEF Delivered
<1>5. \A n \in Nat \ {0} : (n * 75 + 500) \div 1000 <= n
  OBVIOUS
<1>6. m.provider # "OTHER"
  <2>1. PICK p \in {"PAYPAL", "CREDIT_CARD", "DEBIT_CARD", "OTHER"} :
           m = [refs |-> {}, provider |-> p, active |-> p # "OTHER"]
    BY DEF SeededMethods
  <2>2. m.provider = p /\ m.active = (p # "OTHER") /\ m.active
    BY <2>1, Zenon
  <2> QED
    BY <2>2, Zenon
<1> QED
  BY <1>3, <1>4, <1>5, <1>6, AfterDelivery DEF SeedObeysTheRules, Has

\* An entry leads to the status the row has got, or to the one it began with.
LEMMA EntryRows ==
    ASSUME NEW action, NEW from, NEW to,
           latest \in EntriesOf(action, from, to),
           \A x \in DOMAIN to : to[x] \in {x.status, "PENDING"} /\ from # to[x]
    PROVE  SeedObeysTheRules
<1>1. PICK x \in DOMAIN to :
      latest = [refs |-> {"users"}, action |-> action, from |-> from, to |-> to[x], of |-> x]
  BY DEF EntriesOf
<1>2. /\ DOMAIN latest = {"refs", "action", "from", "to", "of"}
      /\ latest.to = to[x] /\ latest.of = x /\ latest.from = from
  BY <1>1
<1> QED
  BY <1>2 DEF SeedObeysTheRules, Has

LEMMA StatusEntries ==
    ASSUME NEW action, NEW from, NEW rows,
           latest \in EntriesOf(action, from, StatusOf(rows)),
           \A x \in rows : x.status # from
    PROVE  SeedObeysTheRules
<1>1. \A x \in rows : StatusOf(rows)[x] = x.status
  BY DEF StatusOf
<1>2. DOMAIN StatusOf(rows) = rows
  BY DEF StatusOf
<1> QED
  BY <1>1, <1>2, EntryRows

\* Each change of the commission starts from the one in force before it.
LEMMA CommissionEntries ==
    ASSUME NEW i \in 2 .. Len(Percentages),
           latest = [refs |-> {"users"}, action |-> "COMMISSION_CONFIG_UPDATED",
                     of |-> SeededCommissions[i],
                     oldPercentage |-> Percentages[i - 1], newPercentage |-> Percentages[i]]
    PROVE  SeedObeysTheRules
<1>1. DOMAIN Percentages = 1 .. 5 /\ Len(Percentages) = 5
  BY DEF Percentages
<1>2. /\ DOMAIN latest = {"refs", "action", "of", "oldPercentage", "newPercentage"}
      /\ latest.of = SeededCommissions[i]
      /\ latest.oldPercentage = Percentages[i - 1] /\ latest.newPercentage = Percentages[i]
  OBVIOUS
<1>3. /\ SeededCommissions[i].percentage = Percentages[i] /\ SeededCommissions[i].from = i
      /\ SeededCommissions[i - 1].percentage = Percentages[i - 1] /\ SeededCommissions[i - 1].to = i
      /\ i - 1 \in DOMAIN SeededCommissions
  BY <1>1 DEF SeededCommissions
<1> QED
  BY <1>2, <1>3 DEF SeedObeysTheRules, Has

LEMMA AuditRows == latest \in SeededAudit => SeedObeysTheRules
<1> SUFFICES ASSUME latest \in SeededAudit PROVE SeedObeysTheRules
  OBVIOUS
<1>1. CASE latest \in EntriesOf("SELLER_VERIFICATION_UPDATED", "PENDING",
                                StatusOf({p \in SeededProfile : p.status # "PENDING"}))
  BY <1>1, StatusEntries
<1>2. CASE latest \in EntriesOf("REPORT_RESOLVED", "PENDING",
                                StatusOf({t \in SeededReport : t.status # "PENDING"}))
  BY <1>2, StatusEntries
<1>3. CASE latest \in {[refs |-> {"users"}, action |-> "COMMISSION_CONFIG_UPDATED",
                        of |-> SeededCommissions[i],
                        oldPercentage |-> Percentages[i - 1], newPercentage |-> Percentages[i]] :
                          i \in 2 .. Len(Percentages)}
  BY <1>3, CommissionEntries
<1>4. CASE latest \in EntriesOf("PRODUCT_STATUS_CHANGED", "ACTIVE",
                                StatusOf({p \in SeededProduct : p.status # "ACTIVE"}))
  BY <1>4, StatusEntries
<1>5. CASE latest \in EntriesOf("ORDER_CREATED", "NONE", [o \in SeededOrder |-> "PENDING"])
  BY <1>5, EntryRows
<1>6. CASE latest \in EntriesOf("ORDER_STATUS_CHANGED", "PENDING", StatusOf(Confirmed))
  BY <1>6, StatusEntries DEF Confirmed
<1> QED
  BY <1>1, <1>2, <1>3, <1>4, <1>5, <1>6 DEF SeededAudit

LEMMA RowsObey ==
    ASSUME NEW i \in 1 .. 23, latest \in RowsOf(Batches[i])
    PROVE  SeedObeysTheRules
<1>1. CASE i = 1
  BY <1>1, PlainRows, TheBatches DEF RowsOf
<1>2. CASE i = 2
  BY <1>2, PlainRows, TheBatches DEF RowsOf
<1>3. CASE i = 3
  BY <1>3, PlainRows, TheBatches DEF RowsOf
<1>4. CASE i = 4
  BY <1>4, PlainRows, TheBatches DEF RowsOf
<1>5. CASE i = 5
  BY <1>5, MethodRows, TheBatches DEF RowsOf
<1>6. CASE i = 6
  BY <1>6, UserRows, TheBatches DEF RowsOf
<1>7. CASE i = 7
  BY <1>7, CommissionRows, TheBatches DEF RowsOf
<1>8. CASE i = 8
  BY <1>8, PlainRows, TheBatches DEF RowsOf, SeededLocation
<1>9. CASE i = 9
  BY <1>9, ProfileRows, TheBatches DEF RowsOf
<1>10. CASE i = 10
  BY <1>10, IdentityRows, TheBatches DEF RowsOf
<1>11. CASE i = 11
  BY <1>11, ProductRows, TheBatches DEF RowsOf
<1>12. CASE i = 12
  BY <1>12, ImageRows, TheBatches DEF RowsOf
<1>13. CASE i = 13
  BY <1>13, CartRows, TheBatches DEF RowsOf
<1>14. CASE i = 14
  BY <1>14, CartItemRows, TheBatches DEF RowsOf
<1>15. CASE i = 15
  BY <1>15, FavoriteRows, TheBatches DEF RowsOf
<1>16. CASE i = 16
  BY <1>16, OrderRows, TheBatches DEF RowsOf
<1>17. CASE i = 17
  BY <1>17, OrderItemRows, TheBatches DEF RowsOf
<1>18. CASE i = 18
  BY <1>18, ReviewRows, TheBatches DEF RowsOf
<1>19. CASE i = 19
  BY <1>19, ReviewRows, TheBatches DEF RowsOf
<1>20. CASE i = 20
  BY <1>20, ReportRows, TheBatches DEF RowsOf
<1>21. CASE i = 21
  BY <1>21, NoticeRows, TheBatches DEF RowsOf
<1>22. CASE i = 22
  BY <1>22, TransactionRows, TheBatches DEF RowsOf
<1>23. CASE i = 23
  BY <1>23, AuditRows, TheBatches DEF RowsOf
<1> QED
  BY <1>1, <1>2, <1>3, <1>4, <1>5, <1>6, <1>7, <1>8, <1>9, <1>10, <1>11, <1>12, <1>13, <1>14, <1>15, <1>16, <1>17, <1>18, <1>19, <1>20, <1>21, <1>22, <1>23

\* The history that is invented obeys what the services keep (prisma/seed.ts),
\* for any time to cover, any gaps and any amounts.
THEOREM SeedIsLawful == SeedSpec => []SeedObeysTheRules
<1>1. SeedInv => SeedObeysTheRules
  <2> SUFFICES ASSUME SeedInv PROVE SeedObeysTheRules
    OBVIOUS
  <2>1. CASE latest = Row({})
    BY <2>1, PlainRows
  <2>2. ASSUME NEW t \in Table, latest \in RowsOf(t) PROVE SeedObeysTheRules
    <3>1. PICK i \in 1 .. 23 : t = Batches[i]
      BY TheBatches DEF Table
    <3> QED
      BY <2>2, <3>1, RowsObey
  <2> QED
    BY <2>1, <2>2 DEF SeedInv, RowOK
<1> QED
  BY <1>1, SeedStarts, SeedSteps, PTL DEF SeedSpec

---------------------------------------------------------------------------
(* Types, in any scene.                                                    *)

\* Every part has its types; the part that plays has its invariant.
MarketInv ==
    /\ MarketTypeOK
    /\ scene \in {"cart", "community", "images", "paypal", "seed"}
    /\ scene = "cart" => CartInv
    /\ scene = "community" => ComInv
    /\ scene = "images" => ImgInv
    /\ scene = "paypal" => PaypalInv
    /\ scene = "seed" => SeedInv

LEMMA SeedTyped == SeedInv => SeedTypeOK
<1> SUFFICES ASSUME SeedInv PROVE SeedTypeOK
  OBVIOUS
<1>1. PICK x \in Execution : latest.refs \subseteq filled[x].all
  BY DEF SeedInv, RowOK
<1>2. filled[x] \in [some : SUBSET Table, all : SUBSET Table]
  BY DEF SeedInv
<1>3. latest.refs \in SUBSET Table
  BY <1>1, <1>2
<1> QED
  BY <1>3 DEF SeedInv, SeedTypeOK

LEMMA PartsTyped ==
    /\ CartInv => CartTypeOK
    /\ ComInv => CommunityTypeOK
    /\ ImgInv => ImagesTypeOK
    /\ PaypalInv => PaypalTypeOK
    /\ SeedInv => SeedTypeOK
<1>1. CartInv => CartTypeOK
  BY DEF CartInv
<1>2. ComInv => CommunityTypeOK
  BY DEF ComInv
<1>3. ImgInv => ImagesTypeOK
  BY DEF ImgInv
<1>4. PaypalInv => PaypalTypeOK
  BY DEF PaypalInv
<1> QED
  BY <1>1, <1>2, <1>3, <1>4, SeedTyped

\* A part that rests keeps its types.
LEMMA RestingParts ==
    /\ CartTypeOK /\ UNCHANGED cartVars => CartTypeOK'
    /\ CommunityTypeOK /\ UNCHANGED comVars => CommunityTypeOK'
    /\ ImagesTypeOK /\ UNCHANGED imgVars => ImagesTypeOK'
    /\ PaypalTypeOK /\ UNCHANGED ppVars => PaypalTypeOK'
    /\ SeedTypeOK /\ UNCHANGED seedVars => SeedTypeOK'
<1>1. CartTypeOK /\ UNCHANGED cartVars => CartTypeOK'
  BY DEF CartTypeOK, cartVars
<1>2. CommunityTypeOK /\ UNCHANGED comVars => CommunityTypeOK'
  BY DEF CommunityTypeOK, comVars
<1>3. ImagesTypeOK /\ UNCHANGED imgVars => ImagesTypeOK'
  BY DEF ImagesTypeOK, imgVars
<1>4. PaypalTypeOK /\ UNCHANGED ppVars => PaypalTypeOK'
  BY DEF PaypalTypeOK, ppVars
<1>5. SeedTypeOK /\ UNCHANGED seedVars => SeedTypeOK'
  BY DEF SeedTypeOK, seedVars
<1> QED
  BY <1>1, <1>2, <1>3, <1>4, <1>5

LEMMA MarketStarts == MarketInit => MarketInv
<1> SUFFICES ASSUME MarketInit PROVE MarketInv
  OBVIOUS
<1>1. CartInv /\ ComInv /\ ImgInv /\ PaypalInv /\ SeedInv
  BY CartStarts, CommunityStarts, ImagesStarts, PaypalStarts, SeedStarts DEF MarketInit
<1>2. scene \in {"cart", "community", "images", "paypal", "seed"}
  BY DEF MarketInit
<1> QED
  BY <1>1, <1>2, PartsTyped DEF MarketInv, MarketTypeOK

LEMMA MarketSteps == MarketInv /\ [MarketNext]_marketVars => MarketInv'
<1> SUFFICES ASSUME MarketInv, [MarketNext]_marketVars PROVE MarketInv'
  OBVIOUS
<1>0. /\ CartTypeOK /\ CommunityTypeOK /\ ImagesTypeOK /\ PaypalTypeOK /\ SeedTypeOK
      /\ scene \in {"cart", "community", "images", "paypal", "seed"}
  BY DEF MarketInv, MarketTypeOK
<1>1. CASE scene = "cart" /\ [CartNext]_<<reqVars, cartVars>>
           /\ UNCHANGED <<scene, comVars, imgVars, ppVars, seedVars>>
  <2>1. CartInv'
    BY <1>1, CartSteps DEF MarketInv
  <2>2. CommunityTypeOK' /\ ImagesTypeOK' /\ PaypalTypeOK' /\ SeedTypeOK'
    BY <1>0, <1>1, RestingParts
  <2>3. CartTypeOK'
    BY <2>1 DEF CartInv
  <2> QED
    BY <1>1, <2>1, <2>2, <2>3 DEF MarketInv, MarketTypeOK
<1>2. CASE scene = "community" /\ [CommunityNext]_<<reqVars, comVars>>
           /\ UNCHANGED <<scene, cartVars, imgVars, ppVars, seedVars>>
  <2>1. ComInv'
    BY <1>2, CommunitySteps DEF MarketInv
  <2>2. CartTypeOK' /\ ImagesTypeOK' /\ PaypalTypeOK' /\ SeedTypeOK'
    BY <1>0, <1>2, RestingParts
  <2>3. CommunityTypeOK'
    BY <2>1 DEF ComInv
  <2> QED
    BY <1>2, <2>1, <2>2, <2>3 DEF MarketInv, MarketTypeOK
<1>3. CASE scene = "images" /\ [ImagesNext]_<<reqVars, imgVars>>
           /\ UNCHANGED <<scene, cartVars, comVars, ppVars, seedVars>>
  <2>1. ImgInv'
    BY <1>3, ImagesSteps DEF MarketInv
  <2>2. CartTypeOK' /\ CommunityTypeOK' /\ PaypalTypeOK' /\ SeedTypeOK'
    BY <1>0, <1>3, RestingParts
  <2>3. ImagesTypeOK'
    BY <2>1 DEF ImgInv
  <2> QED
    BY <1>3, <2>1, <2>2, <2>3 DEF MarketInv, MarketTypeOK
<1>4. CASE scene = "paypal" /\ [PaypalNext]_<<reqVars, ppVars>>
           /\ UNCHANGED <<scene, cartVars, comVars, imgVars, seedVars>>
  <2>1. PaypalInv'
    BY <1>4, PaypalSteps DEF MarketInv
  <2>2. CartTypeOK' /\ CommunityTypeOK' /\ ImagesTypeOK' /\ SeedTypeOK'
    BY <1>0, <1>4, RestingParts
  <2>3. PaypalTypeOK'
    BY <2>1 DEF PaypalInv
  <2> QED
    BY <1>4, <2>1, <2>2, <2>3 DEF MarketInv, MarketTypeOK
<1>5. CASE scene = "seed" /\ [SeedNext]_seedVars
           /\ UNCHANGED <<scene, reqVars, cartVars, comVars, imgVars, ppVars>>
  <2>1. SeedInv'
    BY <1>5, SeedSteps DEF MarketInv
  <2>2. CartTypeOK' /\ CommunityTypeOK' /\ ImagesTypeOK' /\ PaypalTypeOK'
    BY <1>0, <1>5, RestingParts
  <2>3. SeedTypeOK'
    BY <2>1, SeedTyped, PTL
  <2> QED
    BY <1>5, <2>1, <2>2, <2>3 DEF MarketInv, MarketTypeOK
<1>6. CASE UNCHANGED marketVars
  <2>1. /\ UNCHANGED <<scene, comVars, imgVars, ppVars, seedVars>>
        /\ UNCHANGED <<reqVars, cartVars>>
    BY <1>6 DEF marketVars
  <2>2. /\ [CartNext]_<<reqVars, cartVars>> /\ [CommunityNext]_<<reqVars, comVars>>
        /\ [ImagesNext]_<<reqVars, imgVars>> /\ [PaypalNext]_<<reqVars, ppVars>>
        /\ [SeedNext]_seedVars
    BY <2>1
  <2> QED
    BY <1>0, <1>1, <1>2, <1>3, <1>4, <1>5, <2>1, <2>2
<1>7. \/ scene = "cart" /\ CartNext /\ UNCHANGED <<scene, comVars, imgVars, ppVars, seedVars>>
      \/ scene = "community" /\ CommunityNext /\ UNCHANGED <<scene, cartVars, imgVars, ppVars, seedVars>>
      \/ scene = "images" /\ ImagesNext /\ UNCHANGED <<scene, cartVars, comVars, ppVars, seedVars>>
      \/ scene = "paypal" /\ PaypalNext /\ UNCHANGED <<scene, cartVars, comVars, imgVars, seedVars>>
      \/ scene = "seed" /\ SeedNext /\ UNCHANGED <<scene, reqVars, cartVars, comVars, imgVars, ppVars>>
      \/ UNCHANGED marketVars
  BY DEF MarketNext
<1> QED
  BY <1>1, <1>2, <1>3, <1>4, <1>5, <1>6, <1>7

\* The tables of carts, reviews, reports, categories, settings, favorites and
\* notifications, the files, the token cache and the seeded rows hold what their
\* declarations allow, in every scene.
THEOREM MarketTypesCorrect == MarketSpec => []MarketTypeOK
<1>1. MarketInit => MarketInv
  BY MarketStarts
<1>2. MarketInv /\ [MarketNext]_marketVars => MarketInv'
  BY MarketSteps
<1>3. MarketInv => MarketTypeOK
  BY DEF MarketInv
<1> QED
  BY <1>1, <1>2, <1>3, PTL DEF MarketSpec
=============================================================================
