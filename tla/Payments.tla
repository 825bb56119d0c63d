------------------------------ MODULE Payments ------------------------------
(***************************************************************************)
(* PaypalPaymentsService over Orders: a buyer's cart is priced and put to  *)
(* PayPal, the buyer approves the payment there, and the capture request   *)
(* takes the money, runs the ordinary checkout and records a transaction   *)
(* for each order it made.  Nothing is stored between the first request    *)
(* and the last: PayPal alone knows of the payment.                        *)
(*                                                                         *)
(* PayPal is external; it is modelled by what PaypalClientService makes of *)
(* its answers.                                                            *)
(***************************************************************************)
EXTENDS Orders

CONSTANT
    Rate            \* lempiras per dollar, in tenths (paypal.hnlToUsdRate)

ASSUME PaymentsAssumption ==
    /\ Rate \in Nat \ {0}
    /\ IsFiniteSet(Product)     \* so that the price of a cart is a sum

VARIABLES
    paypal,         \* the PayPal orders, by id; the id of a capture is its order's
    payment         \* the PayPal part of the requests in flight

payVars == <<paypal, payment>>
allVars == <<vars, payVars>>

PaypalState == {"NONE", "CREATED", "APPROVED", "HELD", "CAPTURED"}
PaypalOrder == [state : PaypalState, amount : Nat]
NoPaypalOrder == [state |-> "NONE", amount |-> 0]

PaymentRecord == [pc : {"idle", "create", "checkout", "place", "record", "insert"},
                  buyer : Buyer \cup {Nobody}, amount : Nat,
                  reference : Reference \cup {NoReference}, todo : SUBSET OrderId]
IdlePayment == [pc |-> "idle", buyer |-> Nobody, amount |-> 0,
                reference |-> NoReference, todo |-> {}]

PayInit ==
    /\ paypal = [r \in Reference |-> NoPaypalOrder]
    /\ payment = [c \in Call |-> IdlePayment]

---------------------------------------------------------------------------
(* createCheckoutOrder.                                                    *)

\* Number((totalHnl / rate).toFixed(2)), both in cents.
ToUsd(hnl) == (20 * hnl + Rate) \div (2 * Rate)

\* getCart: the price of the cart now; neither stock nor status is looked at.
CartTotal(k) == TotalOf(cart[k].items, ViewOf(cart[k].items))

\* POST /payments/paypal/orders, up to the call to PayPal.
StartPayment(c, k) ==
    /\ call[c].pc = "idle" /\ payment[c].pc = "idle"
    /\ cart[k].status = "ACTIVE" /\ cart[k].items # Nothing
    /\ ToUsd(CartTotal(k)) > 0
    /\ payment' = [payment EXCEPT ![c] = [IdlePayment EXCEPT
            !.pc = "create", !.amount = ToUsd(CartTotal(k))]]
    /\ UNCHANGED <<vars, paypal>>

\* PayPal creates its order.
CreatePaypalOrder(c) ==
    /\ payment[c].pc = "create"
    /\ \E r \in Reference :
          /\ paypal[r].state = "NONE"
          /\ paypal' = [paypal EXCEPT ![r] = [state |-> "CREATED", amount |-> payment[c].amount]]
    /\ payment' = [payment EXCEPT ![c] = IdlePayment]
    /\ UNCHANGED vars

\* The buyer approves the payment on PayPal's page.
Approve(r) ==
    /\ paypal[r].state = "CREATED"
    /\ paypal' = [paypal EXCEPT ![r].state = "APPROVED"]
    /\ UNCHANGED <<vars, payment>>

---------------------------------------------------------------------------
(* captureCheckoutOrder.                                                   *)

\* POST /payments/paypal/orders/:id/capture by buyer b, up to PayPal's answer:
\* whose cart the PayPal order was made for is not looked at again.  If PayPal
\* answers other than COMPLETED (it holds the payment) or with an error (not
\* approved, captured before), the request ends there.
CaptureAtPaypal(c, b, r) ==
    /\ call[c].pc = "idle" /\ payment[c].pc = "idle"
    /\ paypal[r].state = "APPROVED"
    /\ \/ /\ paypal' = [paypal EXCEPT ![r].state = "CAPTURED"]
          /\ payment' = [payment EXCEPT ![c] = [IdlePayment EXCEPT
                  !.pc = "checkout", !.buyer = b, !.reference = r]]
       \/ /\ paypal' = [paypal EXCEPT ![r].state = "HELD"]
          /\ UNCHANGED payment
    /\ UNCHANGED vars

\* ordersService.checkout(buyerId) begins.
CheckoutPaid(c) ==
    /\ payment[c].pc = "checkout"
    /\ \E k \in CartId : cart[k].owner = payment[c].buyer /\ StartCheckout(c, k)
    /\ payment' = [payment EXCEPT ![c].pc = "place"]
    /\ UNCHANGED paypal

\* checkout throws: there is no active cart, or not one that can be checked out.
CheckoutRefused(c) ==
    /\ payment[c].pc = "checkout"
    /\ LET mine == {k \in CartId : cart[k].owner = payment[c].buyer /\ cart[k].status = "ACTIVE"}
       IN  mine = {} \/ \E k \in mine : ~CanCheckout(k)
    /\ payment' = [payment EXCEPT ![c] = IdlePayment]
    /\ UNCHANGED <<vars, paypal>>

\* The transaction of checkout: the orders to record are those it creates.
PlacePaid(c) ==
    /\ payment[c].pc = "place"
    /\ CommitCheckout(c)
    /\ payment' = [payment EXCEPT ![c].todo =
           {o \in OrderId : order[o].status = "NONE" /\ order'[o].status # "NONE"}]
    /\ UNCHANGED paypal

\* Its notifications; recording begins after the last.
NotifyPaid(c) ==
    /\ payment[c].pc = "place"
    /\ Notify(c)
    /\ payment' = [payment EXCEPT ![c].pc = IF call'[c].pc = "idle" THEN "record" ELSE "place"]
    /\ UNCHANGED paypal

\* Mutations: the payment of an order is recorded without the capture's id; with
\* the id of some other capture.
RecordedReferenceNone(c) == NoReference
RecordedReferenceFirst(c) == CHOOSE r \in Reference : TRUE

RecordedReference(c) == payment[c].reference

\* Mutation: the request does not end.
NextRecordOpen(c, left) == [payment[c] EXCEPT !.pc = IF left = {} THEN "done" ELSE "record",
                                              !.todo = left]

NextRecord(c, left) ==
    IF left = {} THEN IdlePayment ELSE [payment[c] EXCEPT !.pc = "record", !.todo = left]

\* recordCompletedPaypalPayment for one of the orders: its reads.
RecordPaid(c) ==
    /\ payment[c].pc = "record"
    /\ \E o \in payment[c].todo :
          \/ /\ MayRecordPaypal(o)
             /\ PreparePaypal(c, o, order[o].total, RecordedReference(c))
             /\ payment' = [payment EXCEPT ![c].pc = "insert"]
          \/ /\ ~MayRecordPaypal(o)
             /\ payment' = [payment EXCEPT ![c] = NextRecord(c, payment[c].todo \ {o})]
             /\ UNCHANGED entry
    /\ UNCHANGED <<invVars, configVars, transaction, auditVars, notification, filing,
                   ordVars, paypal>>

\* Its insert.
InsertPaid(c) ==
    /\ payment[c].pc = "insert"
    /\ payment' = [payment EXCEPT ![c] = NextRecord(c, payment[c].todo \ {entry[c].order})]
    /\ InsertTransaction(c)
    /\ UNCHANGED <<invVars, ordVars, paypal>>

\* A later statement fails or the process dies, the money being captured or not.
FailPayment(c) ==
    /\ Faults
    /\ payment[c].pc # "idle"
    /\ payment' = [payment EXCEPT ![c] = IdlePayment]
    /\ call' = [call EXCEPT ![c] = IdleCall]
    /\ entry' = [entry EXCEPT ![c] = NoEntry]
    /\ UNCHANGED <<invVars, configVars, transaction, auditVars, notification, filing,
                   order, history, cart, suspended, paypal>>

---------------------------------------------------------------------------
PaymentStep(c) ==
    \/ CreatePaypalOrder(c) \/ CheckoutPaid(c) \/ CheckoutRefused(c) \/ PlacePaid(c)
    \/ NotifyPaid(c) \/ RecordPaid(c) \/ InsertPaid(c)

\* An order request that has nothing to do with PayPal.
UnpaidStep(c) ==
    /\ payment[c].pc = "idle"
    /\ CallStep(c)
    /\ UNCHANGED payVars

UnpaidCall(c) ==
    /\ payment[c].pc = "idle"
    /\ StartCall(c) \/ FailCall(c)
    /\ UNCHANGED payVars

PayNext ==
    \/ \E c \in Call :
          \/ \E k \in CartId : StartPayment(c, k)
          \/ \E b \in Buyer, r \in Reference : CaptureAtPaypal(c, b, r)
          \/ PaymentStep(c) \/ FailPayment(c)
          \/ UnpaidCall(c) \/ UnpaidStep(c)
    \/ \E r \in Reference : Approve(r)
    \/ \E s \in Seller : SetSuspended(s) /\ UNCHANGED payVars
    \/ InvNext /\ UNCHANGED <<finVars, ordVars, payVars>>
    \/ AdminNext /\ UNCHANGED <<invVars, ordVars, payVars>>

PaySpec == Init /\ PayInit /\ [][PayNext]_allVars

\* A handler that was started goes on: Node runs its next statement when the
\* one before it answers.  Nothing obliges a client to send a request.
PayFairSpec ==
    /\ PaySpec
    /\ \A c \in Call : WF_allVars(PaymentStep(c) \/ UnpaidStep(c))

---------------------------------------------------------------------------
(* Properties.                                                             *)

PayTypeOK ==
    /\ paypal \in [Reference -> PaypalOrder]
    /\ payment \in [Call -> PaymentRecord]

\* A transaction that is inserted has one of two causes, however requests
\* interleave: its order was delivered, or PayPal captured the payment it refers
\* to.  It is for the order's total.  (Later an administrator may give it any
\* reference: updateStatus does not look at PayPal's.)
TransactionHasCause ==
    [][\A o \in OrderId : ~Exists(o) /\ Exists(o)' =>
          LET r == transaction'[o].reference IN
          /\ transaction'[o].amount = order[o].total
          /\ IF r = NoReference THEN Entries(o, {"DELIVERED"}) # {}
             ELSE paypal[r].state = "CAPTURED"]_allVars

RecordedFor(r) == {o \in OrderId : Exists(o) /\ transaction[o].reference = r}

\* One capture pays for the orders of one checkout: orders it is recorded for
\* are of one buyer, and of sellers that differ.
OneCheckoutPerCapture ==
    \A r \in Reference : \A o, u \in RecordedFor(r) :
        o # u => order[o].buyer = order[u].buyer /\ order[o].seller # order[u].seller

\* If no statement fails, every order that a paid checkout makes eventually has
\* its transaction, even if it is delivered or cancelled in the meantime, unless
\* there comes to be no active payment method.
PaidOrdersAreSettled ==
    \A o \in OrderId :
        (\E c \in Call : o \in payment[c].todo) ~> (Exists(o) \/ MethodsFor("PAYPAL") = {})

\* README.md: the capture makes the purchase requests and records their
\* transactions.
CaptureMakesOrders ==
    \A r \in Reference :
        (paypal[r].state = "CAPTURED" /\ \A c \in Call : payment[c].reference # r)
            => RecordedFor(r) # {}

=============================================================================
