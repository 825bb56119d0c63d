---------------------------- MODULE Payments_proofs -------------------------
(***************************************************************************)
(* Theorems about Payments, for any number of buyers, carts, payments and  *)
(* requests in flight, whatever overlaps and fails.                        *)
(***************************************************************************)
EXTENDS Payments, Orders_proofs, WellFoundedInduction

---------------------------------------------------------------------------
(* Sums.  The price of a cart is folded over its products, so that it is a *)
(* number has to be shown by induction: over the size of the sets that the *)
(* fold goes through.                                                      *)

\* Induction over the natural numbers, for a set of them.
LEMMA SetInduction ==
    ASSUME NEW T \in SUBSET Nat, 0 \in T, \A n \in T : n + 1 \in T, NEW n \in Nat
    PROVE  n \in T
  <1> SUFFICES ASSUME n \notin T PROVE FALSE
    OBVIOUS
  <1> DEFINE S == 0 .. n
             U == {0 .. m : m \in S \ T}
             R == StrictSubsetOrdering(S)
  <1>1. U \subseteq SUBSET S /\ U # {}
    OBVIOUS
  <1>2. IsWellFoundedOn(R, SUBSET S)
    <2>1. IsFiniteSet(S)
      BY FS_Interval
    <2> HIDE DEF S
    <2>2. FiniteSubsetsOf(S) = SUBSET S
      BY <2>1, FS_FiniteSubsetsOfFinite
    <2> QED
      BY <2>2, FS_StrictSubsetOrderingWellFounded
  <1>3. \E u \in U : \A v \in U : ~ (<<v, u>> \in R)
    <2> HIDE DEF S, U, R
    <2> QED
      BY <1>1, <1>2, WFMin
  <1>4. PICK m \in S \ T : \A v \in U : ~ (<<v, 0 .. m>> \in R)
    BY <1>3
  <1>5. m # 0 /\ m - 1 \in S /\ m - 1 \notin T
    OBVIOUS
  <1>6. 0 .. (m - 1) \in U
    BY <1>5
  <1>7. <<0 .. (m - 1), 0 .. m>> \in R
    <2>1. 0 .. (m - 1) \subseteq 0 .. m /\ m \in 0 .. m /\ m \notin 0 .. (m - 1)
      BY <1>5
    <2> QED
      BY <2>1, <1>5 DEF StrictSubsetOrdering
  <1> QED
    BY <1>4, <1>6, <1>7

\* The element that a fold takes next.
Pick(s) == CHOOSE x \in s : TRUE

LEMMA SumUnfolds ==
    ASSUME NEW f
    PROVE  SumFunction(f) =
              (CHOOSE g : g = [s \in SUBSET DOMAIN f |->
                  IF s = {} THEN 0 ELSE f[Pick(s)] + g[s \ {Pick(s)}]])[DOMAIN f]
  BY DEF SumFunction, SumFunctionOnSet, FoldFunctionOnSet, MapThenFoldSet, Pick

\* The function that a sum is computed with.
Partial(f, g) ==
    g = [s \in SUBSET DOMAIN f |-> IF s = {} THEN 0 ELSE f[Pick(s)] + g[s \ {Pick(s)}]]

LEMMA PartialExists ==
    ASSUME NEW S, IsFiniteSet(S), NEW f \in [S -> Nat]
    PROVE  \E g \in [SUBSET S -> Nat] : Partial(f, g)
  <1> DEFINE Small(n) == {s \in SUBSET S : Cardinality(s) <= n}
             Step(g, s) == IF s = {} THEN 0 ELSE f[Pick(s)] + g[s \ {Pick(s)}]
             Upto(n) == \E g \in [Small(n) -> Nat] : \A s \in Small(n) : g[s] = Step(g, s)
             T == {n \in Nat : Upto(n)}
  <1>a. \A s \in SUBSET S : IsFiniteSet(s) /\ Cardinality(s) \in Nat /\ Cardinality(s) <= Cardinality(S)
    BY FS_Subset, FS_CardinalityType
  <1>b. Cardinality(S) \in Nat
    BY FS_CardinalityType
  <1>1. Upto(0)
    <2>1. Small(0) = {{}}
      BY <1>a, FS_EmptySet
    <2>2. [s \in Small(0) |-> 0] \in [Small(0) -> Nat]
      OBVIOUS
    <2> QED
      BY <2>1, <2>2
  <1>2. ASSUME NEW n \in Nat, Upto(n) PROVE Upto(n + 1)
    <2>1. PICK g \in [Small(n) -> Nat] : \A s \in Small(n) : g[s] = Step(g, s)
      BY <1>2
    <2> DEFINE h == [s \in Small(n + 1) |-> IF s \in Small(n) THEN g[s] ELSE Step(g, s)]
    <2>2. ASSUME NEW s \in Small(n + 1), s # {}
          PROVE  s \ {Pick(s)} \in Small(n) /\ f[Pick(s)] \in Nat
      <3>1. Pick(s) \in s /\ s \in SUBSET S /\ Cardinality(s) <= n + 1
        BY <2>2 DEF Pick
      <3>2. Cardinality(s \ {Pick(s)}) = Cardinality(s) - 1
        BY <1>a, <3>1, FS_RemoveElement
      <3> QED
        BY <1>a, <3>1, <3>2
    <2>3. ASSUME NEW s \in Small(n + 1), s # {} PROVE h[s \ {Pick(s)}] = g[s \ {Pick(s)}]
      <3>1. s \ {Pick(s)} \in Small(n) /\ s \ {Pick(s)} \in Small(n + 1)
        BY <1>a, <2>2, <2>3
      <3> QED
        BY <3>1
    <2>4. h \in [Small(n + 1) -> Nat]
      <3>1. ASSUME NEW s \in Small(n + 1), s \notin Small(n) PROVE Step(g, s) \in Nat
        BY <2>2, <3>1
      <3> QED
        BY <3>1
    <2>5. ASSUME NEW s \in Small(n + 1) PROVE h[s] = Step(h, s)
      BY <2>1, <2>3
    <2> QED
      BY <2>4, <2>5
  <1>3. Upto(Cardinality(S))
    <2> HIDE DEF Upto
    <2>1. T \in SUBSET Nat /\ 0 \in T /\ \A n \in T : n + 1 \in T
      BY <1>1, <1>2
    <2> HIDE DEF T
    <2>2. Cardinality(S) \in T
      BY <1>b, <2>1, SetInduction
    <2> QED
      BY <2>2 DEF T
  <1>4. Small(Cardinality(S)) = SUBSET S
    BY <1>a
  <1>5. PICK g \in [SUBSET S -> Nat] : \A s \in SUBSET S : g[s] = Step(g, s)
    BY <1>3, <1>4
  <1>6. Partial(f, g)
    BY <1>5 DEF Partial
  <1> QED
    BY <1>6

\* A finite sum of natural numbers is a natural number.
LEMMA SumIsNatural ==
    ASSUME NEW S, IsFiniteSet(S), NEW f \in [S -> Nat]
    PROVE  SumFunction(f) \in Nat
  <1> DEFINE iter == CHOOSE g : Partial(f, g)
             T == {n \in Nat : \A s \in SUBSET S : Cardinality(s) = n => iter[s] \in Nat}
  <1>a. \A s \in SUBSET S : IsFiniteSet(s) /\ Cardinality(s) \in Nat
    BY FS_Subset, FS_CardinalityType
  <1>1. Partial(f, iter)
    BY PartialExists
  <1>2. SumFunction(f) = iter[S]
    BY SumUnfolds DEF Partial
  <1> HIDE DEF iter
  <1>3. \A s \in SUBSET S : iter[s] = IF s = {} THEN 0 ELSE f[Pick(s)] + iter[s \ {Pick(s)}]
    BY <1>1 DEF Partial
  <1>4. 0 \in T
    BY <1>a, <1>3, FS_EmptySet
  <1>5. ASSUME NEW n \in T PROVE n + 1 \in T
    <2> SUFFICES ASSUME NEW s \in SUBSET S, Cardinality(s) = n + 1 PROVE iter[s] \in Nat
      OBVIOUS
    <2>1. s # {}
      BY FS_EmptySet
    <2>2. Pick(s) \in s
      BY <2>1 DEF Pick
    <2>3. Cardinality(s \ {Pick(s)}) = n
      BY <1>a, <2>2, FS_RemoveElement
    <2>4. iter[s \ {Pick(s)}] \in Nat /\ f[Pick(s)] \in Nat
      BY <2>2, <2>3
    <2>5. iter[s] = f[Pick(s)] + iter[s \ {Pick(s)}]
      BY <1>3, <2>1
    <2> QED
      BY <2>4, <2>5
  <1>6. Cardinality(S) \in T
    <2>1. T \in SUBSET Nat /\ Cardinality(S) \in Nat
      BY FS_CardinalityType
    <2> HIDE DEF T
    <2> QED
      BY <1>4, <1>5, <2>1, SetInduction
  <1> QED
    BY <1>2, <1>6

---------------------------------------------------------------------------
(* Types: those of Orders, which the steps of a payment keep too, and those *)
(* of the payments.                                                        *)

LEMMA PriceIsNatural ==
    ASSUME OrdInv, NEW k \in CartId
    PROVE  CartTotal(k) \in Nat /\ ToUsd(CartTotal(k)) \in Nat
  <1> DEFINE items == cart[k].items
             view == ViewOf(items)
             f == [p \in Product |-> items[p] * view[p].price]
  <1>1. items \in Quantities
    BY DEF OrdInv, OrdTypeOK, CartRow
  <1>2. view \in View
    BY <1>1, ViewOfType DEF OrdInv
  <1> HIDE DEF items, view
  <1>3. ASSUME NEW p \in Product PROVE items[p] * view[p].price \in Nat
    <2>1. items[p] \in Nat /\ view[p].price \in Nat
      BY <1>1, <1>2 DEF Quantities, View
    <2> QED
      BY <2>1
  <1>4. f \in [Product -> Nat]
    BY <1>3
  <1> HIDE DEF f
  <1>5. SumFunction(f) \in Nat
    BY <1>4, PaymentsAssumption, SumIsNatural
  <1>6. CartTotal(k) \in Nat
    BY <1>5 DEF CartTotal, TotalOf, f, view, items
  <1>7. \A n \in Nat, r \in Nat \ {0} : (20 * n + r) \div (2 * r) \in Nat
    <2> SUFFICES ASSUME NEW n \in Nat, NEW r \in Nat \ {0} PROVE (20 * n + r) \div (2 * r) \in Nat
      OBVIOUS
    <2>1. PICK a \in Nat, b \in Nat \ {0} : a = 20 * n + r /\ b = 2 * r
      OBVIOUS
    <2>2. a \div b \in Nat
      BY <2>1
    <2> QED
      BY <2>1, <2>2
  <1> QED
    BY <1>6, <1>7, PaymentsAssumption DEF ToUsd

\* All but three of the steps are steps of Orders.
LEMMA PaySteps ==
    ASSUME [PayNext]_allVars
    PROVE  \/ [Next]_vars
           \/ \E c \in Call : RecordPaid(c) \/ InsertPaid(c) \/ FailPayment(c)
  <1>1. ASSUME NEW c \in Call, CheckoutPaid(c) \/ PlacePaid(c) \/ NotifyPaid(c) PROVE Next
    BY <1>1 DEF CheckoutPaid, PlacePaid, NotifyPaid, Next, OrdNext, StartCall, CallStep
  <1>2. ASSUME NEW c \in Call, UnpaidCall(c) \/ UnpaidStep(c) PROVE Next
    BY <1>2 DEF UnpaidCall, UnpaidStep, Next, OrdNext
  <1>3. ASSUME NEW c \in Call, CreatePaypalOrder(c) \/ CheckoutRefused(c) PROVE UNCHANGED vars
    BY <1>3 DEF CreatePaypalOrder, CheckoutRefused
  <1>4. ASSUME NEW c \in Call, NEW k \in CartId, StartPayment(c, k) PROVE UNCHANGED vars
    BY <1>4 DEF StartPayment
  <1>5. ASSUME NEW c \in Call, NEW b \in Buyer, NEW r \in Reference, CaptureAtPaypal(c, b, r)
        PROVE  UNCHANGED vars
    BY <1>5 DEF CaptureAtPaypal
  <1>6. ASSUME NEW r \in Reference, Approve(r) PROVE UNCHANGED vars
    BY <1>6 DEF Approve
  <1>7. ASSUME NEW s \in Seller, SetSuspended(s) PROVE Next
    BY <1>7 DEF Next, OrdNext
  <1>8. ASSUME InvNext, UNCHANGED <<finVars, ordVars, payVars>> PROVE Next
    BY <1>8 DEF Next
  <1>9. ASSUME AdminNext, UNCHANGED <<invVars, ordVars, payVars>> PROVE Next
    BY <1>9 DEF Next
  <1>10. ASSUME UNCHANGED allVars PROVE UNCHANGED vars
    BY <1>10 DEF allVars
  <1>11. ASSUME NEW c \in Call, PaymentStep(c)
         PROVE  [Next]_vars \/ RecordPaid(c) \/ InsertPaid(c)
    BY <1>1, <1>3, <1>11 DEF PaymentStep
  <1> QED
    BY <1>2, <1>4, <1>5, <1>6, <1>7, <1>8, <1>9, <1>10, <1>11 DEF PayNext

\* The row that is about to be inserted for a captured payment.
LEMMA PreparedPaypalType ==
    ASSUME FinInv, NEW c \in Call, NEW o \in OrderId, NEW amount \in Amount,
           NEW reference \in Reference \cup {NoReference},
           PreparePaypal(c, o, amount, reference)
    PROVE  \E row \in Transaction :
              /\ entry' = [entry EXCEPT ![c] = [order |-> o, row |-> row]]
              /\ row.amount = amount /\ row.reference = reference
  <1> DEFINE Percentages == IF CurrentConfigs = {} THEN {0}
                            ELSE {commission[i].percentage : i \in CurrentConfigs}
  <1>1. PICK m \in MethodsFor("PAYPAL"), pct \in Percentages :
           entry' = [entry EXCEPT ![c] =
              [order |-> o, row |-> Completed(m, amount, pct, reference)]]
    BY DEF PreparePaypal
  <1>2. ASSUME NEW i \in CurrentConfigs PROVE commission[i].percentage \in Percentage
    <2>1. i \in 1 .. Len(commission) /\ commission \in Seq(Config)
      BY DEF CurrentConfigs, ActiveConfigs, FinInv, FinTypeOK
    <2>2. commission[i] \in Config
      BY <2>1
    <2> QED
      BY <2>2 DEF Config
  <1>3. pct \in Percentage \cup {0}
    BY <1>2
  <1>4. m \in MethodId
    BY DEF MethodsFor
  <1> DEFINE row == Completed(m, amount, pct, reference)
  <1>5. row \in Transaction
    BY <1>3, <1>4, CompletedType
  <1>6. row.amount = amount /\ row.reference = reference
    BY DEF Completed
  <1> HIDE DEF row
  <1> QED
    BY <1>1, <1>5, <1>6 DEF row

\* What a payment holds as it goes from order to order.
LEMMA NextRecordType ==
    ASSUME PayTypeOK, NEW c \in Call, NEW left \in SUBSET OrderId
    PROVE  NextRecord(c, left) \in PaymentRecord
  <1>1. payment[c] \in PaymentRecord
    BY DEF PayTypeOK
  <1> QED
    BY <1>1 DEF NextRecord, IdlePayment, PaymentRecord

LEMMA RecordKeepsTypes ==
    ASSUME OrdInv, PayTypeOK, NEW c \in Call, RecordPaid(c)
    PROVE  OrdInv'
  <1>1. payment[c] \in PaymentRecord
    BY DEF PayTypeOK
  <1>2. PICK o \in payment[c].todo :
           \/ MayRecordPaypal(o) /\ PreparePaypal(c, o, order[o].total, RecordedReference(c))
           \/ UNCHANGED entry
    BY DEF RecordPaid
  <1>3. /\ o \in OrderId /\ RecordedReference(c) \in Reference \cup {NoReference}
        /\ order[o].total \in Amount
    BY <1>1 DEF PaymentRecord, RecordedReference, OrdInv, OrdTypeOK, OrderRow
  <1>4. entry' \in [Call -> Entry]
    <2>1. CASE PreparePaypal(c, o, order[o].total, RecordedReference(c))
      <3>1. PICK row \in Transaction : entry' = [entry EXCEPT ![c] = [order |-> o, row |-> row]]
        BY <1>3, <2>1, PreparedPaypalType DEF OrdInv
      <3> QED
        BY <1>3, <3>1 DEF Entry, OrdInv, FinInv, FinTypeOK
    <2> QED
      BY <1>2, <2>1 DEF OrdInv, FinInv, FinTypeOK
  <1>5. FinInv'
    BY <1>4 DEF RecordPaid, OrdInv, FinInv, FinTypeOK, FilingOK, configVars, auditVars
  <1>6. OrdTypeOK' /\ \A d \in Call : CallOK(call'[d])
    BY DEF RecordPaid, ordVars, OrdInv, OrdTypeOK
  <1> QED
    BY <1>5, <1>6, InvStutters DEF RecordPaid, OrdInv

LEMMA InsertPaidKeepsTypes ==
    ASSUME OrdInv, NEW c \in Call, InsertPaid(c)
    PROVE  OrdInv'
  <1>1. OrdTypeOK' /\ \A d \in Call : CallOK(call'[d])
    BY DEF InsertPaid, ordVars, OrdInv, OrdTypeOK
  <1>2. FinInv'
    BY InsertKeepsInv DEF InsertPaid, OrdInv
  <1> QED
    BY <1>1, <1>2, InvStutters DEF InsertPaid, OrdInv

LEMMA FailPaymentKeepsTypes ==
    ASSUME OrdInv, NEW c \in Call, FailPayment(c)
    PROVE  OrdInv'
  <1>1. OrdTypeOK' /\ \A d \in Call : CallOK(call'[d])
    BY IdleCallType DEF FailPayment, OrdInv, OrdTypeOK
  <1>2. NoEntry \in Entry
    BY NoTransactionType DEF NoEntry, Entry
  <1>3. entry' \in [Call -> Entry]
    BY <1>2 DEF FailPayment, OrdInv, FinInv, FinTypeOK
  <1>4. FinInv'
    BY <1>3 DEF FailPayment, OrdInv, FinInv, FinTypeOK, FilingOK, configVars, auditVars
  <1> QED
    BY <1>1, <1>4, InvStutters DEF FailPayment, OrdInv

LEMMA PayKeepsOrdInv == OrdInv /\ PayTypeOK /\ [PayNext]_allVars => OrdInv'
  BY PaySteps, OrdersNextKeepsTypes, RecordKeepsTypes, InsertPaidKeepsTypes,
     FailPaymentKeepsTypes

LEMMA IdlePaymentType == IdlePayment \in PaymentRecord
  BY DEF IdlePayment, PaymentRecord

\* A step that moves a payment on to another record of its type.
LEMMA PaymentMoves ==
    ASSUME PayTypeOK, NEW c \in Call, NEW w \in PaymentRecord,
           payment' = [payment EXCEPT ![c] = w], UNCHANGED paypal
    PROVE  PayTypeOK'
  BY DEF PayTypeOK

LEMMA AtPaypalKeepsTypes ==
    ASSUME OrdInv, PayTypeOK, NEW c \in Call,
           \/ \E k \in CartId : StartPayment(c, k)
           \/ CreatePaypalOrder(c)
           \/ \E b \in Buyer, r \in Reference : CaptureAtPaypal(c, b, r)
    PROVE  PayTypeOK'
  <1>a. payment \in [Call -> PaymentRecord] /\ paypal \in [Reference -> PaypalOrder]
    BY DEF PayTypeOK
  <1>1. ASSUME NEW k \in CartId, StartPayment(c, k) PROVE PayTypeOK'
    <2> DEFINE usd == ToUsd(CartTotal(k))
               w == [[IdlePayment EXCEPT !.pc = "create"] EXCEPT !.amount = usd]
    <2>1. usd \in Nat
      BY PriceIsNatural
    <2>2. payment' = [payment EXCEPT ![c] = w] /\ UNCHANGED paypal
      BY <1>1 DEF StartPayment
    <2> HIDE DEF usd
    <2>3. w \in PaymentRecord
      BY <2>1 DEF IdlePayment, PaymentRecord
    <2> HIDE DEF w
    <2> QED
      BY <2>2, <2>3, PaymentMoves
  <1>2. ASSUME CreatePaypalOrder(c) PROVE PayTypeOK'
    <2>1. PICK r \in Reference :
            paypal' = [paypal EXCEPT ![r] = [state |-> "CREATED", amount |-> payment[c].amount]]
      BY <1>2 DEF CreatePaypalOrder
    <2>2. payment[c].amount \in Nat
      BY <1>a DEF PaymentRecord
    <2>3. paypal' \in [Reference -> PaypalOrder]
      BY <1>a, <2>1, <2>2 DEF PaypalOrder, PaypalState
    <2>4. payment' \in [Call -> PaymentRecord]
      BY <1>2, <1>a, IdlePaymentType DEF CreatePaypalOrder
    <2> QED
      BY <2>3, <2>4 DEF PayTypeOK
  <1>3. ASSUME NEW b \in Buyer, NEW r \in Reference, CaptureAtPaypal(c, b, r) PROVE PayTypeOK'
    <2> DEFINE w == [[[IdlePayment EXCEPT !.pc = "checkout"] EXCEPT !.buyer = b] EXCEPT !.reference = r]
    <2>1. w \in PaymentRecord
      BY DEF IdlePayment, PaymentRecord
    <2>2. PICK state \in PaypalState : paypal' = [paypal EXCEPT ![r] = [paypal[r] EXCEPT !.state = state]]
      BY <1>3 DEF CaptureAtPaypal, PaypalState
    <2>3. paypal' \in [Reference -> PaypalOrder]
      BY <1>a, <2>2 DEF PaypalOrder
    <2>4. payment' = payment \/ payment' = [payment EXCEPT ![c] = w]
      BY <1>3 DEF CaptureAtPaypal
    <2> HIDE DEF w
    <2>5. payment' \in [Call -> PaymentRecord]
      BY <1>a, <2>1, <2>4
    <2> QED
      BY <2>3, <2>5 DEF PayTypeOK
  <1> QED
    BY <1>1, <1>2, <1>3

LEMMA PaymentStepKeepsTypes ==
    ASSUME OrdInv, PayTypeOK, NEW c \in Call,
           CheckoutPaid(c) \/ CheckoutRefused(c) \/ PlacePaid(c) \/ NotifyPaid(c)
              \/ RecordPaid(c) \/ InsertPaid(c) \/ FailPayment(c)
    PROVE  PayTypeOK'
  <1>a. payment[c] \in PaymentRecord
    BY DEF PayTypeOK
  <1>1. ASSUME NEW pc \in {"place", "record", "insert"}
        PROVE  [payment[c] EXCEPT !.pc = pc] \in PaymentRecord
    BY <1>a DEF PaymentRecord
  <1>2. CASE CheckoutPaid(c)
    <2>1. payment' = [payment EXCEPT ![c] = [payment[c] EXCEPT !.pc = "place"]] /\ UNCHANGED paypal
      BY <1>2 DEF CheckoutPaid
    <2> QED
      BY <1>1, <2>1, PaymentMoves
  <1>3. CASE CheckoutRefused(c)
    BY <1>3, IdlePaymentType, PaymentMoves DEF CheckoutRefused
  <1>4. CASE PlacePaid(c)
    <2> DEFINE new == {o \in OrderId : order[o].status = "NONE" /\ order'[o].status # "NONE"}
               w == [payment[c] EXCEPT !.todo = new]
    <2>1. payment' = [payment EXCEPT ![c] = w] /\ UNCHANGED paypal
      BY <1>4 DEF PlacePaid
    <2>2. w \in PaymentRecord
      BY <1>a DEF PaymentRecord
    <2> HIDE DEF w
    <2> QED
      BY <2>1, <2>2, PaymentMoves
  <1>5. CASE NotifyPaid(c)
    <2>1. PICK pc \in {"place", "record"} :
             payment' = [payment EXCEPT ![c] = [payment[c] EXCEPT !.pc = pc]] /\ UNCHANGED paypal
      BY <1>5 DEF NotifyPaid
    <2> QED
      BY <1>1, <2>1, PaymentMoves
  <1>6. CASE RecordPaid(c)
    <2>1. PICK o \in payment[c].todo :
             \/ payment' = [payment EXCEPT ![c] = [payment[c] EXCEPT !.pc = "insert"]]
             \/ payment' = [payment EXCEPT ![c] = NextRecord(c, payment[c].todo \ {o})]
      BY <1>6 DEF RecordPaid
    <2>2. payment[c].todo \ {o} \in SUBSET OrderId
      BY <1>a DEF PaymentRecord
    <2>3. UNCHANGED paypal
      BY <1>6 DEF RecordPaid
    <2> QED
      BY <1>1, <2>1, <2>2, <2>3, NextRecordType, PaymentMoves
  <1>7. CASE InsertPaid(c)
    <2> DEFINE left == payment[c].todo \ {entry[c].order}
    <2>1. left \in SUBSET OrderId
      BY <1>a DEF PaymentRecord
    <2>2. payment' = [payment EXCEPT ![c] = NextRecord(c, left)] /\ UNCHANGED paypal
      BY <1>7 DEF InsertPaid
    <2> HIDE DEF left
    <2> QED
      BY <2>1, <2>2, NextRecordType, PaymentMoves
  <1>8. CASE FailPayment(c)
    BY <1>8, IdlePaymentType, PaymentMoves DEF FailPayment
  <1> QED
    BY <1>2, <1>3, <1>4, <1>5, <1>6, <1>7, <1>8

LEMMA PayKeepsTypes == OrdInv /\ PayTypeOK /\ [PayNext]_allVars => PayTypeOK'
  <1> SUFFICES ASSUME OrdInv, PayTypeOK, [PayNext]_allVars PROVE PayTypeOK'
    OBVIOUS
  <1>1. CASE UNCHANGED payVars
    BY <1>1 DEF payVars, PayTypeOK
  <1>2. ASSUME NEW r \in Reference, Approve(r) PROVE PayTypeOK'
    <2>1. UNCHANGED payment
      BY <1>2 DEF Approve
    <2>2. paypal' = [paypal EXCEPT ![r] = [paypal[r] EXCEPT !.state = "APPROVED"]]
      BY <1>2 DEF Approve
    <2> QED
      BY <2>1, <2>2 DEF PayTypeOK, PaypalOrder, PaypalState
  <1>3. ASSUME NEW c \in Call, UnpaidCall(c) \/ UnpaidStep(c) PROVE UNCHANGED payVars
    BY <1>3 DEF UnpaidCall, UnpaidStep
  <1>4. UNCHANGED allVars => UNCHANGED payVars
    BY DEF allVars
  <1> QED
    BY <1>1, <1>2, <1>3, <1>4, AtPaypalKeepsTypes, PaymentStepKeepsTypes DEF PayNext, PaymentStep

LEMMA PayTypesInit == Init /\ PayInit => OrdInv /\ PayTypeOK
  BY OrdersInitTypes, IdlePaymentType DEF PayInit, PayTypeOK, NoPaypalOrder, PaypalOrder, PaypalState

LEMMA PayTypesInvariant == PaySpec => [](OrdInv /\ PayTypeOK)
  BY PayTypesInit, PayKeepsOrdInv, PayKeepsTypes, PTL DEF PaySpec

\* Every payment in flight, and all that PayPal is asked to hold, has the shape
\* it is declared with: in particular the price put to PayPal is always a
\* natural number of cents, whatever the cart holds.
THEOREM PaymentsTypeCorrect == PaySpec => []PayTypeOK
  BY PayTypesInvariant, PTL

---------------------------------------------------------------------------
(* Steps of one request.  Whatever overlaps, a step moves one request, and *)
(* an order or a captured payment stays what it is.                        *)

\* What a request holds is touched by no other.
Apart(d) == call'[d] = call[d] /\ entry'[d] = entry[d]

LEMMA CallsAreApart ==
    ASSUME OrdInv, NEW c \in Call, NEW d \in Call, d # c,
           StartCall(c) \/ CallStep(c) \/ FailCall(c)
    PROVE  Apart(d)
  <1>a. call \in [Call -> CallRecord] /\ entry \in [Call -> Entry]
    BY DEF OrdInv, OrdTypeOK, FinInv, FinTypeOK
  <1>1. ASSUME NEW k \in CartId, StartCheckout(c, k) PROVE Apart(d)
    BY <1>1, <1>a DEF StartCheckout, finVars, Apart
  <1>2. ASSUME NEW o, NEW op, Open(c, o, op) PROVE Apart(d)
    BY <1>2, <1>a DEF Open, finVars, Apart
  <1>3. CASE StartCall(c)
    BY <1>1, <1>2, <1>3 DEF StartCall, Accept, Reject, CancelMine, Prepare, Deliver, Cancel
  <1>4. CASE CommitCheckout(c)
    <2>1. PICK new : call' = [call EXCEPT ![c].pc = "notify", ![c].todo = new]
      BY <1>4 DEF CommitCheckout
    <2> QED
      BY <1>4, <1>a, <2>1 DEF CommitCheckout, finVars, Apart
  <1>5. CASE ReadProducts(c) \/ CommitStatus(c)
    BY <1>5, <1>a DEF ReadProducts, CommitStatus, finVars, Apart
  <1>6. CASE Notify(c)
    BY <1>6, <1>a DEF Notify, Apart
  <1>7. CASE Settle(c)
    BY <1>7, <1>a DEF Settle, PrepareDelivered, Apart
  <1>8. CASE Insert(c) \/ FailCall(c)
    BY <1>8, <1>a DEF Insert, InsertTransaction, FailCall, Apart
  <1> QED
    BY <1>3, <1>4, <1>5, <1>6, <1>7, <1>8 DEF CallStep

\* The steps of the request in slot c.
Moves(c) ==
    \/ \E k \in CartId : StartPayment(c, k)
    \/ \E b \in Buyer, r \in Reference : CaptureAtPaypal(c, b, r)
    \/ PaymentStep(c) \/ FailPayment(c)
    \/ UnpaidCall(c) \/ UnpaidStep(c)

LEMMA OneRequestMoves ==
    ASSUME OrdInv, PayTypeOK, [PayNext]_allVars
    PROVE  \/ UNCHANGED <<call, entry, payment>>
           \/ \E c \in Call : Moves(c) /\ \A d \in Call : d # c => Apart(d) /\ payment'[d] = payment[d]
  <1> DEFINE Frame(c) == \A d \in Call : d # c => Apart(d) /\ payment'[d] = payment[d]
  <1>a. payment \in [Call -> PaymentRecord] /\ entry \in [Call -> Entry]
    BY DEF PayTypeOK, OrdInv, FinInv, FinTypeOK
  <1>1. CASE UNCHANGED allVars
    BY <1>1 DEF allVars, payVars, vars, ordVars, finVars
  <1>2. ASSUME NEW r \in Reference, Approve(r) PROVE UNCHANGED <<call, entry, payment>>
    BY <1>2 DEF Approve, vars, ordVars, finVars
  <1>3. ASSUME NEW s \in Seller, SetSuspended(s), UNCHANGED payVars
        PROVE  UNCHANGED <<call, entry, payment>>
    BY <1>3 DEF SetSuspended, payVars, finVars
  <1>4. CASE UNCHANGED <<finVars, ordVars, payVars>>
    BY <1>4 DEF ordVars, finVars, payVars
  <1>5. CASE AdminNext /\ UNCHANGED <<invVars, ordVars, payVars>>
    BY <1>5, AdminKeepsEntries DEF ordVars, payVars
  <1>6. ASSUME NEW c \in Call, NEW k \in CartId, StartPayment(c, k) PROVE Frame(c)
    BY <1>6, <1>a DEF StartPayment, Apart, vars, ordVars, finVars
  <1>7. ASSUME NEW c \in Call, NEW b \in Buyer, NEW r \in Reference, CaptureAtPaypal(c, b, r)
        PROVE  Frame(c)
    BY <1>7, <1>a DEF CaptureAtPaypal, Apart, vars, ordVars, finVars
  <1>8. ASSUME NEW c \in Call, CreatePaypalOrder(c) \/ CheckoutRefused(c) PROVE Frame(c)
    BY <1>8, <1>a DEF CreatePaypalOrder, CheckoutRefused, Apart, vars, ordVars, finVars
  <1>9. ASSUME NEW c \in Call, CheckoutPaid(c) \/ PlacePaid(c) \/ NotifyPaid(c) PROVE Frame(c)
    <2>1. StartCall(c) \/ CallStep(c)
      BY <1>9 DEF CheckoutPaid, PlacePaid, NotifyPaid, StartCall, CallStep
    <2>2. \A d \in Call : d # c => Apart(d)
      BY <2>1, CallsAreApart
    <2> QED
      BY <1>9, <1>a, <2>2 DEF CheckoutPaid, PlacePaid, NotifyPaid
  <1>10. ASSUME NEW c \in Call, RecordPaid(c) PROVE Frame(c)
    BY <1>10, <1>a DEF RecordPaid, PreparePaypal, Apart, ordVars
  <1>11. ASSUME NEW c \in Call, InsertPaid(c) PROVE Frame(c)
    BY <1>11, <1>a DEF InsertPaid, InsertTransaction, Apart, ordVars
  <1>12. ASSUME NEW c \in Call, FailPayment(c) PROVE Frame(c)
    BY <1>12, <1>a DEF FailPayment, Apart, OrdInv, OrdTypeOK
  <1>13. ASSUME NEW c \in Call, UnpaidCall(c) \/ UnpaidStep(c) PROVE Frame(c)
    <2>1. (StartCall(c) \/ CallStep(c) \/ FailCall(c)) /\ UNCHANGED payVars
      BY <1>13 DEF UnpaidCall, UnpaidStep
    <2> QED
      BY <2>1, CallsAreApart DEF payVars
  <1> HIDE DEF Frame
  <1>14. ASSUME NEW c \in Call, Moves(c) PROVE Frame(c)
    BY <1>6, <1>7, <1>8, <1>9, <1>10, <1>11, <1>12, <1>13, <1>14 DEF Moves, PaymentStep
  <1>15. \/ UNCHANGED <<call, entry, payment>>
         \/ \E c \in Call : Moves(c)
    BY <1>1, <1>2, <1>3, <1>4, <1>5 DEF PayNext, Moves
  <1> QED
    BY <1>14, <1>15 DEF Frame

\* An order that is there stays there, of its buyer and its seller and for its
\* total, and has reached what it had reached.
Stays(o) ==
    /\ order[o].status # "NONE" =>
          /\ order'[o].status # "NONE" /\ order'[o].buyer = order[o].buyer
          /\ order'[o].seller = order[o].seller /\ order'[o].total = order[o].total
    /\ Reached(o, "DELIVERED") => Reached(o, "DELIVERED")'

LEMMA PartiesStay ==
    ASSUME OrdInv, [Next]_vars, NEW o \in OrderId, order[o].status # "NONE"
    PROVE  /\ order'[o].status # "NONE" /\ order'[o].buyer = order[o].buyer
           /\ order'[o].seller = order[o].seller
  <1>1. CASE UNCHANGED <<order, history>>
    BY <1>1
  <1>2. ASSUME NEW c \in Call, CommitCheckout(c) PROVE order'[o] = order[o]
    <2> DEFINE w == call[c]
               Placed(s) == ItemsOf(s, w.items)
    <2>1. PICK new \in SUBSET {u \in OrderId : order[u].status = "NONE"} :
          \E sellerOf \in Bijection(new, SellersIn(w.items)) :
             order' = [u \in OrderId |->
                IF u \notin new THEN order[u]
                ELSE [status |-> "PENDING", buyer |-> cart[w.cart].owner,
                      seller |-> sellerOf[u], items |-> Placed(sellerOf[u]),
                      total |-> TotalOf(Placed(sellerOf[u]), w.view)]]
      BY <1>2 DEF CommitCheckout
    <2> QED
      BY <2>1
  <1>3. ASSUME NEW c \in Call, CommitStatus(c)
        PROVE  /\ order'[o].status # "NONE" /\ order'[o].buyer = order[o].buyer
               /\ order'[o].seller = order[o].seller
    <2>1. order' = [order EXCEPT ![call[c].order].status = Target[call[c].op]]
      BY <1>3 DEF CommitStatus, SetStatus
    <2>2. call[c].op \in StatusChange
      BY <1>3 DEF CommitStatus, OrdInv, OrdTypeOK, CallOK, CallRecord
    <2>3. Target[call[c].op] # "NONE"
      BY <2>2 DEF StatusChange, Target
    <2>4. order \in [OrderId -> OrderRow]
      BY DEF OrdInv, OrdTypeOK
    <2> QED
      BY <2>1, <2>3, <2>4 DEF OrderRow
  <1> QED
    BY <1>1, <1>2, <1>3, OnlyCommitsWrite

LEMMA OrdersStay ==
    ASSUME OrdInv, HistoryInv, [PayNext]_allVars, NEW o \in OrderId
    PROVE  Stays(o)
  <1>1. CASE [Next]_vars
    BY <1>1, PartiesStay, TotalStays, HistoryGrows DEF Stays, HistoryInv
  <1>2. ASSUME NEW c \in Call, RecordPaid(c) \/ InsertPaid(c) \/ FailPayment(c) PROVE Stays(o)
    <2>1. order' = order /\ history' = history
      BY <1>2 DEF RecordPaid, InsertPaid, FailPayment, ordVars
    <2> QED
      BY <2>1 DEF Stays, Reached
  <1> QED
    BY <1>1, <1>2, PaySteps

\* What PayPal has captured stays captured.
LEMMA CapturedStays ==
    ASSUME PayTypeOK, [PayNext]_allVars, NEW r \in Reference, paypal[r].state = "CAPTURED"
    PROVE  paypal'[r].state = "CAPTURED"
  <1>a. paypal \in [Reference -> PaypalOrder]
    BY DEF PayTypeOK
  <1> DEFINE Goal == paypal'[r].state = "CAPTURED"
  <1>1. CASE UNCHANGED paypal
    BY <1>1
  <1>2. ASSUME NEW c \in Call, CreatePaypalOrder(c) PROVE Goal
    <2>1. PICK q \in Reference : /\ paypal[q].state = "NONE"
             /\ paypal' = [paypal EXCEPT ![q] = [state |-> "CREATED", amount |-> payment[c].amount]]
      BY <1>2 DEF CreatePaypalOrder
    <2>2. q # r
      BY <2>1
    <2> QED
      BY <1>a, <2>1, <2>2
  <1>3. ASSUME NEW q \in Reference, Approve(q) PROVE Goal
    BY <1>3, <1>a DEF Approve
  <1>4. ASSUME NEW c \in Call, NEW b \in Buyer, NEW q \in Reference, CaptureAtPaypal(c, b, q)
        PROVE  Goal
    BY <1>4, <1>a DEF CaptureAtPaypal
  <1>5. ASSUME NEW c \in Call, NEW k \in CartId, StartPayment(c, k) PROVE UNCHANGED paypal
    BY <1>5 DEF StartPayment
  <1>6. ASSUME NEW c \in Call,
               CheckoutPaid(c) \/ CheckoutRefused(c) \/ PlacePaid(c) \/ NotifyPaid(c)
                  \/ RecordPaid(c) \/ InsertPaid(c) \/ FailPayment(c)
                  \/ UnpaidCall(c) \/ UnpaidStep(c)
        PROVE  UNCHANGED paypal
    BY <1>6 DEF CheckoutPaid, CheckoutRefused, PlacePaid, NotifyPaid, RecordPaid, InsertPaid,
           FailPayment, UnpaidCall, UnpaidStep, payVars
  <1>7. ASSUME NEW c \in Call, Moves(c) PROVE Goal
    BY <1>1, <1>2, <1>4, <1>5, <1>6, <1>7 DEF Moves, PaymentStep
  <1>8. \/ UNCHANGED paypal
        \/ \E c \in Call : Moves(c)
        \/ \E q \in Reference : Approve(q)
    BY DEF PayNext, Moves, allVars, payVars
  <1> QED
    BY <1>1, <1>3, <1>7, <1>8

\* The invariant of the order histories, under payments too.
LEMMA PayKeepsHistory == OrdInv /\ HistoryInv /\ [PayNext]_allVars => HistoryInv'
  <1> SUFFICES ASSUME OrdInv, HistoryInv, [PayNext]_allVars PROVE HistoryInv'
    OBVIOUS
  <1>1. CASE [Next]_vars
    BY <1>1, NextStatusIsLast, NextHasItsCause, NextSeenWasReached DEF HistoryInv
  <1>2. ASSUME NEW c \in Call, RecordPaid(c) \/ InsertPaid(c) \/ FailPayment(c) PROVE HistoryInv'
    <2>1. /\ order' = order /\ history' = history
          /\ call' = call \/ call' = [call EXCEPT ![c] = IdleCall]
      BY <1>2 DEF RecordPaid, InsertPaid, FailPayment, ordVars
    <2>2. ASSUME NEW d \in Call PROVE SeenWasReached(call[d])'
      <3>1. call'[d] = call[d] \/ call'[d] = IdleCall
        BY <2>1 DEF OrdInv, OrdTypeOK
      <3> QED
        BY <2>1, <3>1 DEF HistoryInv, SeenWasReached, Reached, IdleCall
    <2>3. StatusIsLastEntry' /\ EveryChangeHasItsCause'
      BY <2>1 DEF HistoryInv, StatusIsLastEntry, EveryChangeHasItsCause
    <2> QED
      BY <2>2, <2>3 DEF HistoryInv
  <1> QED
    BY <1>1, <1>2, PaySteps

---------------------------------------------------------------------------
(* What a request in flight knows.  A payment that has got past PayPal     *)
(* refers to a payment that is captured, and its orders are there; a row   *)
(* about to be inserted is for the total of an order that such a payment   *)
(* is about, or of one that was delivered.                                 *)

Captured(c) == payment[c].pc \notin {"idle", "create"}
AboutToPlace(c) ==
    payment[c].pc = "checkout" \/ (payment[c].pc = "place" /\ call[c].pc = "checkout")

StageOK(c) ==
    /\ IF Captured(c) THEN /\ payment[c].reference \in Reference
                           /\ paypal[payment[c].reference].state = "CAPTURED"
       ELSE payment[c].reference = NoReference
    /\ AboutToPlace(c) \/ ~Captured(c) => payment[c].todo = {}
    /\ payment[c].pc \notin {"idle", "place"} => call[c].pc = "idle"
    /\ payment[c].pc = "place" => call[c].pc \in {"checkout", "notify"} /\ call[c].op = "checkout"
    /\ \A o \in payment[c].todo : order[o].status # "NONE"

EntryOK(c) ==
    LET e == entry[c] IN
    e.order # NoOrder =>
        /\ order[e.order].status # "NONE" /\ e.row.amount = order[e.order].total
        /\ IF payment[c].pc = "insert"
           THEN e.order \in payment[c].todo /\ e.row.reference = payment[c].reference
           ELSE e.row.reference = NoReference /\ Reached(e.order, "DELIVERED")

CauseOK(c) == Delivering(call[c]) => Reached(call[c].order, "DELIVERED")

RequestOK(c) == StageOK(c) /\ EntryOK(c) /\ CauseOK(c)

PayInv == HistoryInv /\ FiledExist /\ \A c \in Call : RequestOK(c)

LEMMA PayInvInit == Init /\ PayInit => PayInv
  <1> SUFFICES ASSUME Init, PayInit PROVE PayInv
    OBVIOUS
  <1>1. FiledExist
    BY DEF Init, FinInit, FiledExist, IdleFiling
  <1>2. ASSUME NEW c \in Call PROVE RequestOK(c)
    BY DEF Init, OrdInit, FinInit, PayInit, RequestOK, StageOK, EntryOK, CauseOK, Captured,
           AboutToPlace, Delivering, IdlePayment, IdleCall, NoEntry
  <1> QED
    BY <1>1, <1>2, HistoryInit DEF PayInv

\* What a request knows stays true while others move.
LEMMA OthersKeepEntry ==
    ASSUME OrdInv, PayInv, [PayNext]_allVars, NEW d \in Call,
           entry'[d] = entry[d], EntryOK(d),
           (payment[d].pc = "insert") => payment'[d] = payment[d],
           (payment[d].pc # "insert") => payment'[d].pc # "insert"
    PROVE  EntryOK(d)'
  <1>1. entry[d] \in Entry
    BY DEF OrdInv, FinInv, FinTypeOK
  <1>2. CASE entry[d].order = NoOrder
    BY <1>2 DEF EntryOK
  <1>3. CASE entry[d].order # NoOrder
    <2>1. PICK o \in OrderId : o = entry[d].order
      BY <1>1, <1>3 DEF Entry
    <2>2. Stays(o)
      BY <2>1, OrdersStay DEF PayInv
    <2>3. order'[o].status # "NONE" /\ entry'[d].row.amount = order'[o].total
      BY <1>3, <2>1, <2>2 DEF EntryOK, Stays
    <2>4. payment[d].pc # "insert" => entry[d].row.reference = NoReference /\ Reached(o, "DELIVERED")'
      BY <1>3, <2>1, <2>2 DEF EntryOK, Stays
    <2> QED
      BY <1>3, <2>1, <2>3, <2>4 DEF EntryOK, Reached
  <1> QED
    BY <1>2, <1>3

LEMMA OthersKeepStage ==
    ASSUME OrdInv, PayTypeOK, PayInv, [PayNext]_allVars, NEW d \in Call,
           payment'[d] = payment[d], call'[d] = call[d]
    PROVE  StageOK(d)'
  <1>1. StageOK(d) /\ payment[d].todo \subseteq OrderId
    BY DEF PayInv, RequestOK, PayTypeOK, PaymentRecord
  <1>2. \A o \in payment[d].todo : order'[o].status # "NONE"
    <2> SUFFICES ASSUME NEW o \in payment[d].todo PROVE order'[o].status # "NONE"
      OBVIOUS
    <2>1. o \in OrderId /\ order[o].status # "NONE"
      BY <1>1 DEF StageOK
    <2> QED
      BY <2>1, OrdersStay DEF PayInv, Stays
  <1>3. Captured(d) => paypal'[payment[d].reference].state = "CAPTURED"
    BY <1>1, CapturedStays DEF StageOK
  <1> QED
    BY <1>1, <1>2, <1>3 DEF StageOK, Captured, AboutToPlace

LEMMA OthersKeepCause ==
    ASSUME OrdInv, PayInv, [PayNext]_allVars, NEW d \in Call, call'[d] = call[d]
    PROVE  CauseOK(d)'
  <1>1. CASE ~Delivering(call[d])
    BY <1>1 DEF CauseOK, Delivering
  <1>2. CASE Delivering(call[d])
    <2>1. PICK o \in OrderId : o = call[d].order /\ Reached(o, "DELIVERED")
      BY <1>2 DEF PayInv, RequestOK, CauseOK, Delivering, Settles, OrdInv, CallOK
    <2>2. Reached(o, "DELIVERED")'
      BY <2>1, OrdersStay DEF PayInv, Stays
    <2> QED
      BY <2>1, <2>2 DEF CauseOK, Reached
  <1> QED
    BY <1>1, <1>2

LEMMA EndedIsOK ==
    ASSUME PayTypeOK, NEW c \in Call, payment' = [payment EXCEPT ![c] = IdlePayment]
    PROVE  StageOK(c)'
  <1>1. payment'[c] = IdlePayment
    BY DEF PayTypeOK
  <1> QED
    BY <1>1 DEF StageOK, Captured, AboutToPlace, IdlePayment

\* Up to the checkout a payment moves alone.
LEMMA AtPaypalKeepsRequest ==
    ASSUME OrdInv, PayTypeOK, PayInv, [PayNext]_allVars, NEW c \in Call,
           \/ \E k \in CartId : StartPayment(c, k)
           \/ CreatePaypalOrder(c) \/ CheckoutRefused(c)
           \/ \E b \in Buyer, r \in Reference : CaptureAtPaypal(c, b, r)
    PROVE  RequestOK(c)'
  <1>a. /\ payment \in [Call -> PaymentRecord] /\ paypal \in [Reference -> PaypalOrder]
        /\ StageOK(c) /\ EntryOK(c)
    BY DEF PayTypeOK, PayInv, RequestOK
  <1>1. UNCHANGED <<call, entry>>
    BY DEF StartPayment, CreatePaypalOrder, CheckoutRefused, CaptureAtPaypal, vars, ordVars, finVars
  <1>2. payment[c].pc # "insert" /\ payment'[c].pc # "insert"
    <2>1. payment[c].pc \in {"idle", "create", "checkout"}
      BY DEF StartPayment, CreatePaypalOrder, CheckoutRefused, CaptureAtPaypal
    <2>2. ASSUME NEW k \in CartId, StartPayment(c, k) PROVE payment'[c].pc = "create"
      BY <2>2, <1>a DEF StartPayment, IdlePayment
    <2>3. ASSUME NEW b \in Buyer, NEW r \in Reference, CaptureAtPaypal(c, b, r)
          PROVE  payment'[c].pc \in {"idle", "checkout"}
      BY <2>3, <1>a DEF CaptureAtPaypal, IdlePayment
    <2>4. CreatePaypalOrder(c) \/ CheckoutRefused(c) => payment'[c].pc = "idle"
      BY <1>a DEF CreatePaypalOrder, CheckoutRefused, IdlePayment
    <2> QED
      BY <2>1, <2>2, <2>3, <2>4
  <1>3. EntryOK(c)' /\ CauseOK(c)'
    BY <1>a, <1>1, <1>2, OthersKeepEntry, OthersKeepCause
  <1>4. ASSUME NEW k \in CartId, StartPayment(c, k) PROVE StageOK(c)'
    <2>1. /\ payment'[c].pc = "create" /\ payment'[c].reference = NoReference
          /\ payment'[c].todo = {} /\ call'[c].pc = "idle"
      BY <1>1, <1>4, <1>a DEF StartPayment, IdlePayment
    <2> QED
      BY <2>1 DEF StageOK, Captured, AboutToPlace
  <1>5. ASSUME NEW b \in Buyer, NEW r \in Reference, CaptureAtPaypal(c, b, r) PROVE StageOK(c)'
    <2>1. CASE payment' = payment
      BY <1>1, <2>1, OthersKeepStage
    <2>2. CASE payment' # payment
      <3>1. /\ payment'[c].pc = "checkout" /\ payment'[c].reference = r
            /\ payment'[c].todo = {} /\ call'[c].pc = "idle"
        <4> DEFINE w == [[[IdlePayment EXCEPT !.pc = "checkout"] EXCEPT !.buyer = b]
                            EXCEPT !.reference = r]
        <4>1. payment' = [payment EXCEPT ![c] = w]
          BY <1>5, <2>2 DEF CaptureAtPaypal
        <4>2. w.pc = "checkout" /\ w.reference = r /\ w.todo = {}
          BY DEF IdlePayment
        <4>3. call'[c].pc = "idle"
          BY <1>1, <1>5 DEF CaptureAtPaypal
        <4> HIDE DEF w
        <4> QED
          BY <1>a, <4>1, <4>2, <4>3
      <3>2. paypal' = [paypal EXCEPT ![r] = [paypal[r] EXCEPT !.state = "CAPTURED"]]
        BY <1>5, <2>2 DEF CaptureAtPaypal
      <3>3. paypal'[r].state = "CAPTURED"
        BY <1>a, <3>2 DEF PaypalOrder
      <3> QED
        BY <3>1, <3>3 DEF StageOK, Captured, AboutToPlace
    <2> QED
      BY <2>1, <2>2
  <1>6. CreatePaypalOrder(c) \/ CheckoutRefused(c) => StageOK(c)'
    BY EndedIsOK DEF CreatePaypalOrder, CheckoutRefused
  <1> QED
    BY <1>3, <1>4, <1>5, <1>6 DEF RequestOK

\* The checkout of a paid cart.
LEMMA CheckoutKeepsRequest ==
    ASSUME OrdInv, PayTypeOK, PayInv, [PayNext]_allVars, NEW c \in Call,
           CheckoutPaid(c) \/ PlacePaid(c) \/ NotifyPaid(c)
    PROVE  RequestOK(c)'
  <1>a. /\ payment \in [Call -> PaymentRecord] /\ paypal \in [Reference -> PaypalOrder]
        /\ call \in [Call -> CallRecord] /\ StageOK(c) /\ EntryOK(c)
    BY DEF PayTypeOK, PayInv, RequestOK, OrdInv, OrdTypeOK
  <1>b. payment[c] \in PaymentRecord /\ payment[c].pc \in {"checkout", "place"}
    BY <1>a DEF CheckoutPaid, PlacePaid, NotifyPaid
  <1>c. payment[c].reference \in Reference /\ paypal[payment[c].reference].state = "CAPTURED"
    BY <1>a, <1>b DEF StageOK, Captured
  <1>d. paypal' = paypal
    BY DEF CheckoutPaid, PlacePaid, NotifyPaid
  <1>1. CASE CheckoutPaid(c)
    <2>1. PICK k \in CartId : StartCheckout(c, k)
      BY <1>1 DEF CheckoutPaid
    <2>2. call'[c].pc = "checkout" /\ call'[c].op = "checkout" /\ entry' = entry
      BY <1>a, <2>1 DEF StartCheckout, IdleCall, finVars
    <2>3. payment'[c].pc = "place" /\ payment'[c].reference = payment[c].reference /\ payment'[c].todo = {}
      BY <1>1, <1>a, <1>b DEF CheckoutPaid, PaymentRecord, StageOK, AboutToPlace
    <2>4. StageOK(c)'
      BY <1>c, <1>d, <2>2, <2>3 DEF StageOK, Captured, AboutToPlace
    <2>5. CauseOK(c)'
      BY <2>2 DEF CauseOK, Delivering
    <2>6. EntryOK(c)'
      BY <1>a, <1>b, <2>2, <2>3, OthersKeepEntry
    <2> QED
      BY <2>4, <2>5, <2>6 DEF RequestOK
  <1>2. CASE PlacePaid(c)
    <2>1. PICK new : call' = [call EXCEPT ![c].pc = "notify", ![c].todo = new]
      BY <1>2 DEF PlacePaid, CommitCheckout
    <2>2. call[c].op = "checkout"
      BY <1>2, <1>a DEF PlacePaid, StageOK
    <2>b. call'[c].pc = "notify" /\ call'[c].op = "checkout"
      BY <1>a, <2>1, <2>2 DEF CallRecord
    <2>3. call'[c].pc = "notify" /\ call'[c].op = "checkout" /\ entry' = entry
      BY <1>2, <2>b DEF PlacePaid, CommitCheckout, finVars
    <2>4. /\ payment'[c].pc = "place" /\ payment'[c].reference = payment[c].reference
          /\ \A o \in payment'[c].todo : order'[o].status # "NONE"
      BY <1>2, <1>a, <1>b DEF PlacePaid, PaymentRecord
    <2>5. StageOK(c)'
      BY <1>c, <1>d, <2>3, <2>4 DEF StageOK, Captured, AboutToPlace
    <2>6. CauseOK(c)'
      BY <2>3 DEF CauseOK, Delivering, Settles
    <2>7. EntryOK(c)'
      BY <1>a, <1>b, <2>3, <2>4, OthersKeepEntry
    <2> QED
      BY <2>5, <2>6, <2>7 DEF RequestOK
  <1>3. CASE NotifyPaid(c)
    <2>1. PICK o \in call[c].todo :
             call' = [call EXCEPT ![c] =
                IF call[c].todo # {o} THEN [call[c] EXCEPT !.todo = call[c].todo \ {o}]
                ELSE IF Settles(call[c].op) THEN [call[c] EXCEPT !.pc = "settle", !.todo = {}]
                ELSE IdleCall]
      BY <1>3 DEF NotifyPaid, Notify
    <2>2. call[c].op = "checkout" /\ call[c].pc = "notify" /\ call[c] \in CallRecord
      BY <1>3, <1>a DEF NotifyPaid, Notify, StageOK
    <2>3. ~Settles(call[c].op)
      BY <2>2 DEF Settles
    <2>4. \/ call'[c].pc = "notify" /\ call'[c].op = "checkout"
          \/ call'[c].pc = "idle"
      BY <1>a, <2>1, <2>2, <2>3 DEF CallRecord, IdleCall
    <2>5. /\ payment'[c].pc = IF call'[c].pc = "idle" THEN "record" ELSE "place"
          /\ payment'[c].reference = payment[c].reference /\ payment'[c].todo = payment[c].todo
          /\ entry' = entry /\ order' = order
      BY <1>3, <1>a, <1>b DEF NotifyPaid, Notify, PaymentRecord
    <2>6. StageOK(c)'
      BY <1>a, <1>c, <1>d, <2>4, <2>5 DEF StageOK, Captured, AboutToPlace
    <2>7. CauseOK(c)'
      BY <2>4 DEF CauseOK, Delivering, Settles
    <2>8. EntryOK(c)'
      BY <1>a, <1>b, <2>5, OthersKeepEntry
    <2> QED
      BY <2>6, <2>7, <2>8 DEF RequestOK
  <1> QED
    BY <1>1, <1>2, <1>3

\* A payment with orders left to record.
LEMMA LeftIsOK ==
    ASSUME OrdInv, PayTypeOK, PayInv, [PayNext]_allVars, NEW c \in Call,
           NEW left, left \subseteq payment[c].todo,
           payment[c].pc \in {"record", "insert"}, UNCHANGED <<call, paypal, order>>,
           payment' = [payment EXCEPT ![c] = NextRecord(c, left)]
    PROVE  StageOK(c)' /\ payment'[c].pc # "insert"
  <1>a. /\ payment \in [Call -> PaymentRecord] /\ payment[c] \in PaymentRecord /\ StageOK(c)
    BY DEF PayTypeOK, PayInv, RequestOK
  <1>1. CASE left = {}
    BY <1>1, <1>a, EndedIsOK DEF NextRecord, IdlePayment
  <1>2. CASE left # {}
    <2>1. /\ payment'[c].pc = "record" /\ payment'[c].todo = left
          /\ payment'[c].reference = payment[c].reference
      BY <1>2, <1>a DEF NextRecord, PaymentRecord
    <2> QED
      BY <1>a, <2>1 DEF StageOK, Captured, AboutToPlace
  <1> QED
    BY <1>1, <1>2

LEMMA RecordKeepsRequest ==
    ASSUME OrdInv, PayTypeOK, PayInv, [PayNext]_allVars, NEW c \in Call,
           RecordPaid(c) \/ InsertPaid(c) \/ FailPayment(c)
    PROVE  RequestOK(c)'
  <1>a. /\ payment \in [Call -> PaymentRecord] /\ payment[c] \in PaymentRecord
        /\ call \in [Call -> CallRecord] /\ entry \in [Call -> Entry]
        /\ StageOK(c) /\ EntryOK(c) /\ CauseOK(c)
    BY DEF PayTypeOK, PayInv, RequestOK, OrdInv, OrdTypeOK, FinInv, FinTypeOK
  <1>1. CASE RecordPaid(c)
    <2>1. UNCHANGED <<call, order, paypal>> /\ payment[c].pc = "record"
      BY <1>1 DEF RecordPaid, ordVars
    <2>2. CauseOK(c)'
      BY <2>1, OthersKeepCause
    <2>3. PICK o \in payment[c].todo :
             \/ /\ PreparePaypal(c, o, order[o].total, RecordedReference(c))
                /\ payment' = [payment EXCEPT ![c] = [payment[c] EXCEPT !.pc = "insert"]]
             \/ /\ payment' = [payment EXCEPT ![c] = NextRecord(c, payment[c].todo \ {o})]
                /\ UNCHANGED entry
      BY <1>1 DEF RecordPaid
    <2>4. CASE PreparePaypal(c, o, order[o].total, RecordedReference(c))
               /\ payment' = [payment EXCEPT ![c] = [payment[c] EXCEPT !.pc = "insert"]]
      <3>1. o \in OrderId /\ order[o].status # "NONE" /\ order[o].total \in Amount
        BY <1>a DEF StageOK, PaymentRecord, OrdInv, OrdTypeOK, OrderRow
      <3>2. RecordedReference(c) \in Reference \cup {NoReference}
        BY <1>a DEF RecordedReference, PaymentRecord
      <3>3. PICK row \in Transaction :
               /\ entry' = [entry EXCEPT ![c] = [order |-> o, row |-> row]]
               /\ row.amount = order[o].total /\ row.reference = payment[c].reference
        BY <2>4, <3>1, <3>2, PreparedPaypalType DEF OrdInv, RecordedReference
      <3>4. entry'[c] = [order |-> o, row |-> row]
        BY <1>a, <3>3
      <3>5. /\ payment'[c].pc = "insert" /\ payment'[c].todo = payment[c].todo
            /\ payment'[c].reference = payment[c].reference
        BY <1>a, <2>4 DEF PaymentRecord
      <3>6. EntryOK(c)'
        BY <2>1, <3>1, <3>3, <3>4, <3>5 DEF EntryOK
      <3>7. StageOK(c)'
        BY <1>a, <2>1, <3>5 DEF StageOK, Captured, AboutToPlace
      <3> QED
        BY <2>2, <3>6, <3>7 DEF RequestOK
    <2>5. CASE payment' = [payment EXCEPT ![c] = NextRecord(c, payment[c].todo \ {o})]
               /\ UNCHANGED entry
      <3>1. payment[c].todo \ {o} \subseteq payment[c].todo
        OBVIOUS
      <3>2. StageOK(c)' /\ payment'[c].pc # "insert"
        BY <2>1, <2>5, <3>1, LeftIsOK
      <3>3. EntryOK(c)'
        BY <1>a, <2>1, <2>5, <3>2, OthersKeepEntry
      <3> QED
        BY <2>2, <3>2, <3>3 DEF RequestOK
    <2> QED
      BY <2>3, <2>4, <2>5
  <1>2. CASE InsertPaid(c)
    <2> DEFINE left == payment[c].todo \ {entry[c].order}
    <2>1. UNCHANGED <<call, order, paypal>> /\ payment[c].pc = "insert"
      BY <1>2 DEF InsertPaid, ordVars
    <2>2. left \subseteq payment[c].todo /\ payment' = [payment EXCEPT ![c] = NextRecord(c, left)]
      BY <1>2 DEF InsertPaid
    <2> HIDE DEF left
    <2>3. StageOK(c)'
      BY <2>1, <2>2, LeftIsOK
    <2>4. entry'[c].order = NoOrder
      BY <1>2, <1>a DEF InsertPaid, InsertTransaction, NoEntry
    <2>5. EntryOK(c)'
      BY <2>4 DEF EntryOK
    <2> QED
      BY <2>1, <2>3, <2>5, OthersKeepCause DEF RequestOK
  <1>3. CASE FailPayment(c)
    <2>1. StageOK(c)'
      BY <1>3, EndedIsOK DEF FailPayment
    <2>2. entry'[c].order = NoOrder /\ ~Delivering(call'[c])
      BY <1>3, <1>a DEF FailPayment, NoEntry, IdleCall, Delivering
    <2> QED
      BY <2>1, <2>2 DEF RequestOK, EntryOK, CauseOK, Delivering
  <1> QED
    BY <1>1, <1>2, <1>3

\* A request that is about an order and no payment.
LEMMA UnpaidKeepsRequest ==
    ASSUME OrdInv, PayTypeOK, PayInv, [PayNext]_allVars, NEW c \in Call,
           UnpaidCall(c) \/ UnpaidStep(c)
    PROVE  RequestOK(c)'
  <1>a. StageOK(c) /\ EntryOK(c) /\ CauseOK(c)
    BY DEF PayInv, RequestOK
  <1>1. [Next]_vars /\ payment[c].pc = "idle" /\ payment' = payment
    BY DEF UnpaidCall, UnpaidStep, Next, OrdNext, payVars
  <1>2. StageOK(c)'
    BY <1>a, <1>1 DEF StageOK, Captured, AboutToPlace
  <1>3. CauseOK(c)'
    <2>1. CASE Delivering(call[c]) /\ call'[c].order = call[c].order
      <3>1. PICK o \in OrderId : o = call[c].order /\ Reached(o, "DELIVERED")
        BY <1>a, <2>1 DEF CauseOK, Delivering, Settles, OrdInv, CallOK
      <3>2. Reached(o, "DELIVERED")'
        BY <3>1, OrdersStay DEF PayInv, Stays
      <3> QED
        BY <2>1, <3>1, <3>2 DEF CauseOK, Reached
    <2>2. CASE \E k \in 1 .. Len(history'[call'[c].order]) :
                  history'[call'[c].order][k].to = "DELIVERED"
      BY <2>2 DEF CauseOK, Reached
    <2>3. CASE ~Delivering(call'[c])
      BY <2>3 DEF CauseOK, Delivering
    <2> QED
      BY <1>1, <2>1, <2>2, <2>3, CallsDeliver
  <1>4. EntryOK(c)'
    <2>1. CASE entry'[c] = entry[c]
      BY <1>a, <1>1, <2>1, OthersKeepEntry
    <2>2. CASE entry'[c].order = NoOrder
      BY <2>2 DEF EntryOK
    <2>3. CASE /\ Delivering(call[c]) /\ call[c].order \in OrderId
               /\ entry'[c].order = call[c].order
               /\ entry'[c].row.amount = order[call[c].order].total
               /\ entry'[c].row.reference = NoReference
      <3>1. PICK o \in OrderId : o = call[c].order /\ Reached(o, "DELIVERED")
        BY <1>a, <2>3 DEF CauseOK
      <3>2. history[o] # <<>>
        <4>1. history[o] \in Seq(HistoryRow)
          BY DEF OrdInv, OrdTypeOK
        <4> QED
          BY <3>1, <4>1 DEF Reached
      <3>3. order[o].status # "NONE"
        BY <3>2 DEF PayInv, HistoryInv, StatusIsLastEntry
      <3>4. /\ order'[o].status # "NONE" /\ order'[o].total = order[o].total
            /\ Reached(o, "DELIVERED")'
        BY <3>1, <3>3, OrdersStay DEF PayInv, Stays
      <3> QED
        BY <1>1, <2>3, <3>1, <3>4 DEF EntryOK, Reached
    <2> QED
      BY <1>1, <2>1, <2>2, <2>3, EntriesMade
  <1> QED
    BY <1>2, <1>3, <1>4 DEF RequestOK

\* The steps that touch transactions and the requests about them.
LEMMA OnlyInsertsWrite ==
    ASSUME [PayNext]_allVars
    PROVE  \/ UNCHANGED <<transaction, filing>>
           \/ AdminNext
           \/ \E c \in Call : InsertTransaction(c) /\ UNCHANGED filing
  <1>1. ASSUME NEW c \in Call, RecordPaid(c) \/ FailPayment(c) PROVE UNCHANGED <<transaction, filing>>
    BY <1>1 DEF RecordPaid, FailPayment
  <1>2. ASSUME NEW c \in Call, InsertPaid(c) PROVE InsertTransaction(c) /\ UNCHANGED filing
    BY <1>2 DEF InsertPaid, InsertTransaction
  <1> QED
    BY <1>1, <1>2, PaySteps, OnlyFinanceWrites

LEMMA PayTransactionsMade ==
    ASSUME OrdInv, FiledExist, [PayNext]_allVars, NEW o \in OrderId
    PROVE  /\ Exists(o) => Exists(o)'
           /\ Exists(o)' => \/ Exists(o)
                            \/ \E c \in Call : /\ entry[c].order = o
                                               /\ transaction'[o] = entry[c].row
  <1>1. CASE UNCHANGED <<transaction, filing>>
    BY <1>1 DEF Exists
  <1>2. CASE AdminNext
    BY <1>2, AdminKeepsFigures DEF OrdInv
  <1>3. ASSUME NEW c \in Call, InsertTransaction(c)
        PROVE  /\ Exists(o) => Exists(o)'
               /\ Exists(o)' => \/ Exists(o)
                                \/ entry[c].order = o /\ transaction'[o] = entry[c].row
    <2>1. transaction \in [OrderId -> Transaction]
      BY DEF OrdInv, FinInv, FinTypeOK
    <2> QED
      BY <1>3, <2>1 DEF InsertTransaction, Exists
  <1> QED
    BY <1>1, <1>2, <1>3, OnlyInsertsWrite

LEMMA PayKeepsFiled == OrdInv /\ FiledExist /\ [PayNext]_allVars => FiledExist'
  <1> SUFFICES ASSUME OrdInv, FiledExist, [PayNext]_allVars PROVE FiledExist'
    OBVIOUS
  <1>1. CASE AdminNext
    BY <1>1, AdminKeepsFiled DEF OrdInv
  <1>2. CASE UNCHANGED filing
    <2>1. \A f \in Filing : filing[f].pc = "status" => filing[f].order \in OrderId
      BY DEF OrdInv, FinInv, FilingOK
    <2> QED
      BY <1>2, <2>1, PayTransactionsMade DEF FiledExist, Exists
  <1> QED
    BY <1>1, <1>2, OnlyInsertsWrite

LEMMA PayKeepsInv == OrdInv /\ PayTypeOK /\ PayInv /\ [PayNext]_allVars => PayInv'
  <1> SUFFICES ASSUME OrdInv, PayTypeOK, PayInv, [PayNext]_allVars PROVE PayInv'
    OBVIOUS
  <1>1. HistoryInv' /\ FiledExist'
    BY PayKeepsHistory, PayKeepsFiled DEF PayInv
  <1>2. ASSUME NEW d \in Call, Apart(d), payment'[d] = payment[d] PROVE RequestOK(d)'
    BY <1>2, OthersKeepEntry, OthersKeepStage, OthersKeepCause DEF RequestOK, PayInv, Apart
  <1>3. ASSUME NEW c \in Call, Moves(c) PROVE RequestOK(c)'
    BY <1>3, AtPaypalKeepsRequest, CheckoutKeepsRequest, RecordKeepsRequest, UnpaidKeepsRequest
       DEF Moves, PaymentStep
  <1>4. ASSUME NEW d \in Call PROVE RequestOK(d)'
    <2>1. CASE UNCHANGED <<call, entry, payment>>
      BY <1>2, <2>1 DEF Apart
    <2>2. ASSUME NEW c \in Call, Moves(c), \A e \in Call : e # c => Apart(e) /\ payment'[e] = payment[e]
          PROVE  RequestOK(d)'
      BY <1>2, <1>3, <2>2
    <2> QED
      BY <2>1, <2>2, OneRequestMoves
  <1> QED
    BY <1>1, <1>4 DEF PayInv

LEMMA PayInvariant == PaySpec => [](OrdInv /\ PayTypeOK /\ PayInv)
  BY PayTypesInit, PayInvInit, PayKeepsOrdInv, PayKeepsTypes, PayKeepsInv, PTL DEF PaySpec

\* However requests interleave and fail, a transaction is inserted only for an
\* order that was delivered, or for one that a captured payment paid, and for
\* the order's total: not even a request that dies after the capture, or two
\* that record the same order, charge anybody for anything else.
THEOREM TransactionsHaveCauses == PaySpec => TransactionHasCause
  <1> DEFINE Caused(o) ==
                LET r == transaction'[o].reference IN
                /\ transaction'[o].amount = order[o].total
                /\ IF r = NoReference THEN Entries(o, {"DELIVERED"}) # {}
                   ELSE paypal[r].state = "CAPTURED"
  <1>1. ASSUME OrdInv, PayTypeOK, PayInv, [PayNext]_allVars
        PROVE  \A o \in OrderId : ~Exists(o) /\ Exists(o)' => Caused(o)
    <2> SUFFICES ASSUME NEW o \in OrderId, ~Exists(o), Exists(o)' PROVE Caused(o)
      OBVIOUS
    <2>1. PICK c \in Call : entry[c].order = o /\ transaction'[o] = entry[c].row
      BY <1>1, PayTransactionsMade DEF PayInv
    <2>2. EntryOK(c) /\ StageOK(c) /\ o # NoOrder
      BY <1>1, PlatformAssumption DEF PayInv, RequestOK
    <2>3. transaction'[o].amount = order[o].total
      BY <2>1, <2>2 DEF EntryOK
    <2>4. CASE payment[c].pc = "insert"
      <3>1. /\ transaction'[o].reference = payment[c].reference
            /\ payment[c].reference \in Reference
            /\ paypal[payment[c].reference].state = "CAPTURED"
        BY <2>1, <2>2, <2>4 DEF EntryOK, StageOK, Captured
      <3> QED
        BY <2>3, <3>1, FinanceAssumption
    <2>5. CASE payment[c].pc # "insert"
      <3>1. transaction'[o].reference = NoReference /\ Reached(o, "DELIVERED")
        BY <2>1, <2>2, <2>5 DEF EntryOK
      <3> QED
        BY <2>3, <3>1 DEF Reached, Entries
    <2> QED
      BY <2>4, <2>5
  <1>2. OrdInv /\ PayTypeOK /\ PayInv /\ [PayNext]_allVars =>
           [\A o \in OrderId : ~Exists(o) /\ Exists(o)' => Caused(o)]_allVars
    BY <1>1
  <1> QED
    BY <1>2, PayInvariant, PTL DEF PaySpec, TransactionHasCause

---------------------------------------------------------------------------
(* One capture, one checkout.  What makes it inductive: a captured payment *)
(* is held by one request; until that has placed its orders none is        *)
(* recorded for it; after, those recorded and those left to record are     *)
(* together the orders of that one checkout.                               *)
(*                                                                         *)
(* An administrator may write any reference to a transaction, so that the  *)
(* theorem supposes that references, once recorded, are left alone.        *)

RefsKept == \A o \in OrderId : Exists(o) => transaction'[o].reference = transaction[o].reference
ReferencesStay == [][RefsKept]_allVars

PaidFor(r) ==
    RecordedFor(r) \cup
    {o \in OrderId : \E c \in Call : payment[c].reference = r /\ o \in payment[c].todo}

Together(o, u) == order[o].buyer = order[u].buyer /\ order[o].seller # order[u].seller

GroupInv ==
    /\ \A c, d \in Call : Captured(c) /\ Captured(d) /\ payment[c].reference = payment[d].reference
          => c = d
    /\ \A o \in OrderId : Exists(o) =>
          /\ order[o].status # "NONE"
          /\ \/ transaction[o].reference = NoReference
             \/ paypal[transaction[o].reference].state = "CAPTURED"
    /\ \A c \in Call : AboutToPlace(c) => RecordedFor(payment[c].reference) = {}
    /\ \A r \in Reference : \A o, u \in PaidFor(r) : o # u => Together(o, u)

LEMMA GroupInit == Init /\ PayInit => GroupInv
  <1> SUFFICES ASSUME Init, PayInit PROVE GroupInv
    OBVIOUS
  <1>1. \A o \in OrderId : ~Exists(o)
    BY DEF Init, FinInit, Exists, NoTransaction
  <1>2. \A c \in Call : ~Captured(c) /\ ~AboutToPlace(c) /\ payment[c].todo = {}
    BY DEF PayInit, IdlePayment, Captured, AboutToPlace
  <1>3. \A r \in Reference : PaidFor(r) = {}
    BY <1>1, <1>2 DEF PaidFor, RecordedFor
  <1> QED
    BY <1>1, <1>2, <1>3 DEF GroupInv

\* What a step can do to a payment: carry it on, or begin it, or place its orders.
CarriesOn(c) ==
    /\ payment'[c].todo \subseteq payment[c].todo
    /\ Captured(c)' => Captured(c) /\ payment'[c].reference = payment[c].reference
    /\ AboutToPlace(c)' => AboutToPlace(c)
Begins(c) ==
    /\ payment'[c].todo = {} /\ payment'[c].reference \in Reference
    /\ paypal[payment'[c].reference].state = "APPROVED"
    /\ \A d \in Call : d # c => payment'[d] = payment[d]

LEMMA PaymentKinds ==
    ASSUME OrdInv, PayTypeOK, PayInv, [PayNext]_allVars, NEW c \in Call
    PROVE  CarriesOn(c) \/ Begins(c) \/ PlacePaid(c)
  <1>a. /\ payment \in [Call -> PaymentRecord] /\ payment[c] \in PaymentRecord /\ StageOK(c)
        /\ call \in [Call -> CallRecord]
    BY DEF PayTypeOK, PayInv, RequestOK, OrdInv, OrdTypeOK
  <1>1. ASSUME payment'[c] = payment[c], call'[c] = call[c] PROVE CarriesOn(c)
    BY <1>1 DEF CarriesOn, Captured, AboutToPlace
  <1>2. ASSUME payment'[c].pc \in {"idle", "create"}, payment'[c].todo = {} PROVE CarriesOn(c)
    BY <1>2 DEF CarriesOn, Captured, AboutToPlace
  <1>3. ASSUME NEW k \in CartId, StartPayment(c, k) PROVE CarriesOn(c)
    <2>1. payment'[c].pc = "create" /\ payment'[c].todo = {}
      BY <1>3, <1>a DEF StartPayment, IdlePayment
    <2> QED
      BY <1>2, <2>1
  <1>4. ASSUME NEW b \in Buyer, NEW r \in Reference, CaptureAtPaypal(c, b, r)
        PROVE  CarriesOn(c) \/ Begins(c)
    <2>1. CASE payment' = payment
      BY <1>1, <1>4, <2>1 DEF CaptureAtPaypal, vars, ordVars
    <2>2. CASE payment' # payment
      <3> DEFINE w == [[[IdlePayment EXCEPT !.pc = "checkout"] EXCEPT !.buyer = b]
                          EXCEPT !.reference = r]
      <3>1. payment' = [payment EXCEPT ![c] = w] /\ paypal[r].state = "APPROVED"
        BY <1>4, <2>2 DEF CaptureAtPaypal
      <3>2. w.reference = r /\ w.todo = {}
        BY DEF IdlePayment
      <3> HIDE DEF w
      <3> QED
        BY <1>a, <3>1, <3>2 DEF Begins
    <2> QED
      BY <2>1, <2>2
  <1>5. CreatePaypalOrder(c) \/ CheckoutRefused(c) \/ FailPayment(c) => CarriesOn(c)
    BY <1>2, <1>a DEF CreatePaypalOrder, CheckoutRefused, FailPayment, IdlePayment
  <1>6. CheckoutPaid(c) => CarriesOn(c)
    BY <1>a DEF CheckoutPaid, PaymentRecord, CarriesOn, Captured, AboutToPlace
  <1>7. CASE NotifyPaid(c)
    <2>1. /\ payment'[c].pc \in {"place", "record"} /\ payment[c].pc = "place"
          /\ payment'[c].reference = payment[c].reference /\ payment'[c].todo = payment[c].todo
      BY <1>7, <1>a DEF NotifyPaid, PaymentRecord
    <2>2. PICK o \in call[c].todo :
             call' = [call EXCEPT ![c] =
                IF call[c].todo # {o} THEN [call[c] EXCEPT !.todo = call[c].todo \ {o}]
                ELSE IF Settles(call[c].op) THEN [call[c] EXCEPT !.pc = "settle", !.todo = {}]
                ELSE IdleCall]
      BY <1>7 DEF NotifyPaid, Notify
    <2>3. call[c].pc = "notify" /\ call[c] \in CallRecord
      BY <1>7, <1>a DEF NotifyPaid, Notify
    <2>4. call'[c].pc \in {"notify", "settle", "idle"}
      BY <1>a, <2>2, <2>3 DEF CallRecord, IdleCall
    <2> QED
      BY <2>1, <2>4 DEF CarriesOn, Captured, AboutToPlace
  <1>8. ASSUME NEW left, left \subseteq payment[c].todo, payment[c].pc \in {"record", "insert"},
               payment' = [payment EXCEPT ![c] = NextRecord(c, left)]
        PROVE  CarriesOn(c)
    <2>1. CASE left = {}
      BY <1>2, <1>8, <1>a, <2>1 DEF NextRecord, IdlePayment
    <2>2. CASE left # {}
      <3>1. /\ payment'[c].pc = "record" /\ payment'[c].todo = left
            /\ payment'[c].reference = payment[c].reference
        BY <1>8, <1>a, <2>2 DEF NextRecord, PaymentRecord
      <3> QED
        BY <1>8, <3>1 DEF CarriesOn, Captured, AboutToPlace
    <2> QED
      BY <2>1, <2>2
  <1>9. CASE RecordPaid(c)
    <2>1. payment[c].pc = "record"
      BY <1>9 DEF RecordPaid
    <2>2. PICK o \in payment[c].todo :
             \/ payment' = [payment EXCEPT ![c] = [payment[c] EXCEPT !.pc = "insert"]]
             \/ payment' = [payment EXCEPT ![c] = NextRecord(c, payment[c].todo \ {o})]
      BY <1>9 DEF RecordPaid
    <2>3. CASE payment' = [payment EXCEPT ![c] = [payment[c] EXCEPT !.pc = "insert"]]
      BY <1>a, <2>1, <2>3 DEF PaymentRecord, CarriesOn, Captured, AboutToPlace
    <2> QED
      BY <1>8, <2>1, <2>2, <2>3
  <1>10. CASE InsertPaid(c)
    BY <1>8, <1>10 DEF InsertPaid
  <1>11. CASE UnpaidCall(c) \/ UnpaidStep(c)
    BY <1>11, <1>2, <1>a DEF UnpaidCall, UnpaidStep, payVars, StageOK, Captured
  <1>12. CASE Moves(c)
    BY <1>3, <1>4, <1>5, <1>6, <1>7, <1>9, <1>10, <1>11, <1>12 DEF Moves, PaymentStep
  <1> QED
    BY <1>1, <1>12, OneRequestMoves DEF Apart
\* In a step at most one payment begins or places its orders; the others carry on.
OthersCarryOn(c) == \A d \in Call : d # c => CarriesOn(d) /\ payment'[d] = payment[d]

LEMMA PaymentsMove ==
    ASSUME OrdInv, PayTypeOK, PayInv, [PayNext]_allVars
    PROVE  \/ \A d \in Call : CarriesOn(d)
           \/ \E c \in Call : (Begins(c) \/ PlacePaid(c)) /\ OthersCarryOn(c)
  <1>1. ASSUME NEW d \in Call, call'[d] = call[d], payment'[d] = payment[d] PROVE CarriesOn(d)
    BY <1>1 DEF CarriesOn, Captured, AboutToPlace
  <1>2. CASE UNCHANGED <<call, entry, payment>>
    BY <1>1, <1>2
  <1>3. ASSUME NEW c \in Call, \A d \in Call : d # c => Apart(d) /\ payment'[d] = payment[d]
        PROVE  (\A d \in Call : CarriesOn(d)) \/ ((Begins(c) \/ PlacePaid(c)) /\ OthersCarryOn(c))
    <2>1. OthersCarryOn(c)
      BY <1>1, <1>3 DEF Apart, OthersCarryOn
    <2>2. CarriesOn(c) \/ Begins(c) \/ PlacePaid(c)
      BY PaymentKinds
    <2> QED
      BY <2>1, <2>2 DEF OthersCarryOn
  <1> QED
    BY <1>2, <1>3, OneRequestMoves

\* A transaction that is there after a step was there, or comes of a delivery,
\* or of a payment that had the order to record.
Pays(c, o) == Captured(c) /\ o \in payment[c].todo

LEMMA RecordedFrom ==
    ASSUME OrdInv, PayInv, [PayNext]_allVars, RefsKept, NEW o \in OrderId, Exists(o)'
    PROVE  \/ Exists(o) /\ transaction'[o].reference = transaction[o].reference
           \/ transaction'[o].reference = NoReference /\ order[o].status # "NONE"
           \/ \E c \in Call : Pays(c, o) /\ transaction'[o].reference = payment[c].reference
  <1>1. CASE Exists(o)
    BY <1>1 DEF RefsKept
  <1>2. CASE ~Exists(o)
    <2>1. PICK c \in Call : entry[c].order = o /\ transaction'[o] = entry[c].row
      BY <1>2, PayTransactionsMade DEF PayInv
    <2>2. EntryOK(c) /\ StageOK(c) /\ o # NoOrder
      BY PlatformAssumption DEF PayInv, RequestOK
    <2> QED
      BY <2>1, <2>2 DEF EntryOK, Pays, Captured
  <1> QED
    BY <1>1, <1>2

LEMMA RecordedWasPaid ==
    ASSUME OrdInv, PayInv, [PayNext]_allVars, RefsKept, NEW r \in Reference
    PROVE  RecordedFor(r)' \subseteq PaidFor(r)
  <1> SUFFICES ASSUME NEW o \in OrderId, Exists(o)', transaction'[o].reference = r
               PROVE  o \in PaidFor(r)
    BY DEF RecordedFor
  <1> QED
    BY RecordedFrom, FinanceAssumption DEF PaidFor, RecordedFor, Pays

LEMMA PaidOrdersExist ==
    ASSUME PayInv, GroupInv, NEW r, NEW o \in PaidFor(r)
    PROVE  o \in OrderId /\ order[o].status # "NONE"
  <1>1. CASE o \in RecordedFor(r)
    BY <1>1 DEF RecordedFor, GroupInv
  <1>2. CASE o \notin RecordedFor(r)
    BY <1>2 DEF PaidFor, PayInv, RequestOK, StageOK
  <1> QED
    BY <1>1, <1>2

\* Before its orders are placed, nothing is paid for by a capture.
LEMMA NothingPaidYet ==
    ASSUME PayInv, GroupInv, NEW c \in Call, AboutToPlace(c)
    PROVE  PaidFor(payment[c].reference) = {}
  <1>1. RecordedFor(payment[c].reference) = {}
    BY DEF GroupInv
  <1>2. Captured(c) /\ payment[c].todo = {}
    BY DEF AboutToPlace, Captured, PayInv, RequestOK, StageOK
  <1>3. ASSUME NEW d \in Call, payment[d].reference = payment[c].reference PROVE payment[d].todo = {}
    <2>1. CASE Captured(d)
      BY <1>2, <1>3, <2>1 DEF GroupInv
    <2>2. CASE ~Captured(d)
      BY <2>2 DEF PayInv, RequestOK, StageOK
    <2> QED
      BY <2>1, <2>2
  <1> QED
    BY <1>1, <1>3 DEF PaidFor

\* Nor by one that PayPal has yet to make.
LEMMA NothingPaidUncaptured ==
    ASSUME PayInv, GroupInv, NEW r \in Reference, paypal[r].state # "CAPTURED"
    PROVE  PaidFor(r) = {} /\ \A d \in Call : Captured(d) => payment[d].reference # r
  <1>1. RecordedFor(r) = {}
    BY FinanceAssumption DEF GroupInv, RecordedFor
  <1>2. \A d \in Call : Captured(d) => payment[d].reference # r
    BY DEF PayInv, RequestOK, StageOK
  <1>3. \A d \in Call : payment[d].reference = r => payment[d].todo = {}
    BY <1>2 DEF PayInv, RequestOK, StageOK
  <1> QED
    BY <1>1, <1>2, <1>3 DEF PaidFor
\* What a capture pays for after a step it paid for before, unless orders are placed.
Holds(d, o, r) == payment[d].reference = r /\ o \in payment[d].todo

LEMMA HolderHeld ==
    ASSUME NEW d \in Call, RequestOK(d)', CarriesOn(d) \/ Begins(d), NEW o, NEW r, Holds(d, o, r)'
    PROVE  Holds(d, o, r)
  <1>1. CASE CarriesOn(d)
    <2>1. Captured(d)'
      BY DEF RequestOK, StageOK, Holds
    <2> QED
      BY <1>1, <2>1 DEF CarriesOn, Holds
  <1> QED
    BY <1>1 DEF Begins, Holds

LEMMA PaidForShrinks ==
    ASSUME OrdInv, PayInv, PayInv', [PayNext]_allVars, RefsKept, NEW r \in Reference,
           \A d \in Call : CarriesOn(d) \/ Begins(d)
    PROVE  PaidFor(r)' \subseteq PaidFor(r)
  <1>1. ASSUME NEW d \in Call, NEW o \in OrderId, Holds(d, o, r)' PROVE o \in PaidFor(r)
    <2>1. Holds(d, o, r)
      BY <1>1, HolderHeld DEF PayInv
    <2> QED
      BY <2>1 DEF Holds, PaidFor
  <1> QED
    BY <1>1, RecordedWasPaid DEF PaidFor, Holds

\* The orders that a paid checkout places.
LEMMA PlacedTogether ==
    ASSUME OrdInv, PayTypeOK, NEW c \in Call, PlacePaid(c)
    PROVE  /\ \A o, u \in payment'[c].todo : o # u => Together(o, u)'
           /\ payment'[c].todo \subseteq OrderId
           /\ payment'[c].reference = payment[c].reference
           /\ AboutToPlace(c) /\ ~AboutToPlace(c)' /\ Captured(c)
           /\ UNCHANGED <<transaction, paypal>>
  <1> DEFINE w == call[c]
             Placed(s) == ItemsOf(s, w.items)
  <1>a. payment \in [Call -> PaymentRecord] /\ call \in [Call -> CallRecord]
    BY DEF PayTypeOK, OrdInv, OrdTypeOK
  <1>1. PICK new \in SUBSET {u \in OrderId : order[u].status = "NONE"} :
        \E sellerOf \in Bijection(new, SellersIn(w.items)) :
          /\ order' = [u \in OrderId |->
                IF u \notin new THEN order[u]
                ELSE [status |-> "PENDING", buyer |-> cart[w.cart].owner,
                      seller |-> sellerOf[u], items |-> Placed(sellerOf[u]),
                      total |-> TotalOf(Placed(sellerOf[u]), w.view)]]
          /\ call' = [call EXCEPT ![c].pc = "notify", ![c].todo = new]
    BY DEF PlacePaid, CommitCheckout
  <1>2. PICK sellerOf \in Bijection(new, SellersIn(w.items)) :
           order' = [u \in OrderId |->
                IF u \notin new THEN order[u]
                ELSE [status |-> "PENDING", buyer |-> cart[w.cart].owner,
                      seller |-> sellerOf[u], items |-> Placed(sellerOf[u]),
                      total |-> TotalOf(Placed(sellerOf[u]), w.view)]]
    BY <1>1
  <1>3. /\ payment'[c].todo = {o \in OrderId : order[o].status = "NONE" /\ order'[o].status # "NONE"}
        /\ payment'[c].reference = payment[c].reference /\ payment'[c].pc = payment[c].pc
    BY <1>a DEF PlacePaid, PaymentRecord
  <1>4. payment'[c].todo \subseteq new /\ payment'[c].todo \subseteq OrderId
    BY <1>2, <1>3
  <1>5. ASSUME NEW o \in new, NEW u \in new, o # u PROVE Together(o, u)'
    <2>1. sellerOf[o] # sellerOf[u]
      BY <1>2, <1>5 DEF Bijection, Injection, IsInjective
    <2>2. o \in OrderId /\ u \in OrderId
      OBVIOUS
    <2> QED
      BY <1>2, <2>1, <2>2 DEF Together
  <1>6. payment[c].pc = "place" /\ call[c].pc = "checkout"
    BY DEF PlacePaid, CommitCheckout
  <1>7. call'[c].pc = "notify"
    BY <1>1, <1>a DEF CallRecord
  <1>8. UNCHANGED <<transaction, paypal>>
    BY DEF PlacePaid, CommitCheckout, finVars
  <1>9. AboutToPlace(c) /\ ~AboutToPlace(c)' /\ Captured(c)
    BY <1>3, <1>6, <1>7 DEF AboutToPlace, Captured
  <1> QED
    BY <1>3, <1>4, <1>5, <1>8, <1>9

\* Those of another capture are as they were; those of this one are the new ones.
LEMMA PlacedPaysFor ==
    ASSUME OrdInv, PayTypeOK, PayInv, PayInv', GroupInv, [PayNext]_allVars, RefsKept,
           NEW c \in Call, PlacePaid(c), OthersCarryOn(c), NEW r \in Reference
    PROVE  PaidFor(r)' \subseteq IF r = payment[c].reference THEN payment'[c].todo ELSE PaidFor(r)
  <1>1. payment'[c].reference = payment[c].reference /\ AboutToPlace(c)
    BY PlacedTogether
  <1>2. ASSUME NEW o \in OrderId, NEW d \in Call, d # c, Holds(d, o, r)' PROVE o \in PaidFor(r)
    <2>1. Holds(d, o, r)
      BY <1>2, HolderHeld DEF PayInv, OthersCarryOn
    <2> QED
      BY <2>1 DEF Holds, PaidFor
  <1>3. ASSUME NEW o \in PaidFor(r)' PROVE o \in PaidFor(r) \/ (o \in payment'[c].todo /\ r = payment[c].reference)
    <2>1. CASE o \in RecordedFor(r)'
      BY <2>1, RecordedWasPaid
    <2>2. CASE o \notin RecordedFor(r)'
      <3>1. o \in OrderId /\ \E d \in Call : Holds(d, o, r)'
        BY <2>2 DEF PaidFor, Holds
      <3> QED
        BY <1>1, <1>2, <3>1 DEF Holds
    <2> QED
      BY <2>1, <2>2
  <1>4. PaidFor(payment[c].reference) = {}
    BY <1>1, NothingPaidYet
  <1> QED
    BY <1>3, <1>4

LEMMA PairsStay ==
    ASSUME OrdInv, PayTypeOK, PayInv, PayInv', GroupInv, [PayNext]_allVars, RefsKept,
           NEW r \in Reference
    PROVE  \A o, u \in PaidFor(r)' : o # u => Together(o, u)'
  <1>1. ASSUME NEW o \in PaidFor(r), NEW u \in PaidFor(r), o # u PROVE Together(o, u)'
    <2>1. o \in OrderId /\ u \in OrderId /\ order[o].status # "NONE" /\ order[u].status # "NONE"
      BY PaidOrdersExist
    <2>2. Stays(o) /\ Stays(u)
      BY <2>1, OrdersStay DEF PayInv
    <2>3. Together(o, u)
      BY <1>1 DEF GroupInv
    <2> QED
      BY <2>1, <2>2, <2>3 DEF Stays, Together
  <1>2. CASE \A d \in Call : CarriesOn(d) \/ Begins(d)
    BY <1>1, <1>2, PaidForShrinks
  <1>3. ASSUME NEW c \in Call, PlacePaid(c), OthersCarryOn(c)
        PROVE  \A o, u \in PaidFor(r)' : o # u => Together(o, u)'
    BY <1>1, <1>3, PlacedPaysFor, PlacedTogether
  <1> QED
    BY <1>2, <1>3, PaymentsMove DEF OthersCarryOn
OneHolder == \A c, d \in Call :
    Captured(c) /\ Captured(d) /\ payment[c].reference = payment[d].reference => c = d
RecordedOK(o) == Exists(o) =>
    /\ order[o].status # "NONE"
    /\ \/ transaction[o].reference = NoReference
       \/ paypal[transaction[o].reference].state = "CAPTURED"
NothingRecorded(c) == AboutToPlace(c) => RecordedFor(payment[c].reference) = {}

LEMMA HolderStaysOne ==
    ASSUME OrdInv, PayTypeOK, PayInv, GroupInv, [PayNext]_allVars
    PROVE  OneHolder'
  <1>a. OneHolder
    BY DEF GroupInv, OneHolder
  <1>1. CASE \A d \in Call : CarriesOn(d)
    BY <1>1, <1>a DEF CarriesOn, OneHolder
  <1>2. ASSUME NEW c \in Call, PlacePaid(c), OthersCarryOn(c) PROVE OneHolder'
    <2>1. payment'[c].reference = payment[c].reference /\ Captured(c)
      BY <1>2, PlacedTogether
    <2>2. \A d \in Call : Captured(d)' => Captured(d) /\ payment'[d].reference = payment[d].reference
      BY <1>2, <2>1 DEF OthersCarryOn, CarriesOn
    <2> QED
      BY <1>a, <2>2 DEF OneHolder
  <1>3. ASSUME NEW c \in Call, Begins(c), OthersCarryOn(c) PROVE OneHolder'
    <2>1. \A d \in Call : Captured(d) => payment[d].reference # payment'[c].reference
      BY <1>3, NothingPaidUncaptured DEF Begins
    <2>2. \A d \in Call : d # c /\ Captured(d)' =>
             Captured(d) /\ payment'[d].reference = payment[d].reference
      BY <1>3 DEF OthersCarryOn, CarriesOn
    <2> QED
      BY <1>a, <2>1, <2>2 DEF OneHolder
  <1> QED
    BY <1>1, <1>2, <1>3, PaymentsMove

LEMMA RecordedStaysOK ==
    ASSUME OrdInv, PayTypeOK, PayInv, GroupInv, [PayNext]_allVars, RefsKept, NEW o \in OrderId
    PROVE  RecordedOK(o)'
  <1> SUFFICES ASSUME Exists(o)'
               PROVE  /\ order'[o].status # "NONE"
                      /\ \/ transaction'[o].reference = NoReference
                         \/ paypal'[transaction'[o].reference].state = "CAPTURED"
    BY DEF RecordedOK
  <1>1. order[o].status # "NONE" => order'[o].status # "NONE"
    BY OrdersStay DEF PayInv, Stays
  <1>2. CASE transaction'[o].reference = NoReference /\ order[o].status # "NONE"
    BY <1>1, <1>2
  <1>3. CASE Exists(o) /\ transaction'[o].reference = transaction[o].reference
    <2>1. transaction[o].reference \in Reference \cup {NoReference}
      BY DEF OrdInv, FinInv, FinTypeOK, Transaction
    <2>2. /\ order[o].status # "NONE"
          /\ \/ transaction[o].reference = NoReference
             \/ paypal[transaction[o].reference].state = "CAPTURED"
      BY <1>3 DEF GroupInv
    <2> QED
      BY <1>1, <1>3, <2>1, <2>2, CapturedStays
  <1>4. ASSUME NEW c \in Call, Pays(c, o), transaction'[o].reference = payment[c].reference
        PROVE  /\ order[o].status # "NONE"
               /\ paypal'[transaction'[o].reference].state = "CAPTURED"
    <2>1. StageOK(c)
      BY DEF PayInv, RequestOK
    <2>2. /\ order[o].status # "NONE" /\ payment[c].reference \in Reference
          /\ paypal[payment[c].reference].state = "CAPTURED"
      BY <1>4, <2>1 DEF StageOK, Pays
    <2> QED
      BY <1>4, <2>2, CapturedStays
  <1> QED
    BY <1>1, <1>2, <1>3, <1>4, RecordedFrom DEF PayInv

LEMMA NothingStaysRecorded ==
    ASSUME OrdInv, PayTypeOK, PayInv, PayInv', GroupInv, [PayNext]_allVars, RefsKept,
           NEW c \in Call
    PROVE  NothingRecorded(c)'
  <1> SUFFICES ASSUME AboutToPlace(c)' PROVE RecordedFor(payment[c].reference)' = {}
    BY DEF NothingRecorded
  <1>1. payment'[c].reference \in Reference
    BY DEF PayInv, RequestOK, StageOK, AboutToPlace, Captured
  <1>2. ASSUME PaidFor(payment'[c].reference) = {} PROVE RecordedFor(payment[c].reference)' = {}
    <2>1. PICK r \in Reference : r = payment'[c].reference
      BY <1>1
    <2>2. PaidFor(r) = {}
      BY <1>2, <2>1
    <2>3. RecordedFor(r)' = {}
      BY <2>2, RecordedWasPaid
    <2> QED
      BY <2>1, <2>3 DEF RecordedFor
  <1>3. CASE CarriesOn(c)
    <2>1. AboutToPlace(c) /\ Captured(c)'
      BY <1>3 DEF CarriesOn, AboutToPlace, Captured
    <2>2. payment'[c].reference = payment[c].reference
      BY <1>3, <2>1 DEF CarriesOn
    <2> QED
      BY <1>2, <2>1, <2>2, NothingPaidYet
  <1>4. CASE Begins(c)
    <2>1. paypal[payment'[c].reference].state = "APPROVED"
      BY <1>4 DEF Begins
    <2> QED
      BY <1>1, <1>2, <2>1, NothingPaidUncaptured
  <1>5. CASE PlacePaid(c)
    BY <1>5, PlacedTogether
  <1> QED
    BY <1>3, <1>4, <1>5, PaymentKinds

LEMMA GroupKept ==
    OrdInv /\ PayTypeOK /\ PayInv /\ GroupInv /\ [PayNext]_allVars /\ [RefsKept]_allVars
        => GroupInv'
  <1> SUFFICES ASSUME OrdInv, PayTypeOK, PayInv, GroupInv, [PayNext]_allVars, [RefsKept]_allVars
               PROVE  GroupInv'
    OBVIOUS
  <1>1. RefsKept
    BY DEF RefsKept, allVars, vars, finVars
  <1>2. PayInv'
    BY PayKeepsInv
  <1>3. OneHolder'
    BY HolderStaysOne
  <1>4. \A o \in OrderId : RecordedOK(o)'
    BY <1>1, RecordedStaysOK
  <1>5. \A c \in Call : NothingRecorded(c)'
    BY <1>1, <1>2, NothingStaysRecorded
  <1>6. \A r \in Reference : \A o, u \in PaidFor(r)' : o # u => Together(o, u)'
    BY <1>1, <1>2, PairsStay
  <1> QED
    BY <1>3, <1>4, <1>5, <1>6 DEF GroupInv, OneHolder, RecordedOK, NothingRecorded

\* As long as no administrator rewrites a reference, the transactions recorded
\* for one capture are those of one checkout: of one buyer, and of sellers that
\* differ.  Two capture requests for one payment, a buyer who captures another's,
\* a request that dies between two transactions: none makes a capture pay twice.
THEOREM CapturesPayOnce == PaySpec /\ ReferencesStay => []OneCheckoutPerCapture
  <1>1. GroupInv => OneCheckoutPerCapture
    BY DEF GroupInv, OneCheckoutPerCapture, PaidFor, Together
  <1>2. Init /\ PayInit => GroupInv
    BY GroupInit
  <1> QED
    BY <1>1, <1>2, GroupKept, PayInvariant, PTL DEF PaySpec, ReferencesStay
\* Paid checkouts keep the order's history as the others do.
THEOREM PaymentsKeepHistory == PaySpec => [](StatusIsLastEntry /\ EveryChangeHasItsCause)
  <1>1. PayInv => StatusIsLastEntry /\ EveryChangeHasItsCause
    BY DEF PayInv, HistoryInv
  <1> QED
    BY <1>1, PayInvariant, PTL

=============================================================================
