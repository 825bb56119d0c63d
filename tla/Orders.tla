------------------------------- MODULE Orders ------------------------------
(***************************************************************************)
(* OrdersService: checkout and the life of an order, over the product rows *)
(* and their ledger (Inventory) and the finance tables (Finance).          *)
(*                                                                         *)
(* A request is a call.  It reads and checks its rows first, outside any   *)
(* transaction; then a database transaction (READ COMMITTED) makes its     *)
(* writes visible together, by id and with absolute values; then it        *)
(* notifies, and a delivery records its payment.  Calls interleave between *)
(* these steps, and Faults lets one end after any of them: a transaction   *)
(* rolled back, a notification that fails, the process dying.              *)
(***************************************************************************)
EXTENDS Inventory, Finance

CONSTANTS
    Seller,         \* seller profiles
    SellerOf,       \* the seller of each product
    Buyer,          \* customers
    Nobody,         \* neither a buyer nor a seller
    CartId,         \* cart ids
    CartContents,   \* what carts may hold at the start: quantities per product
    MaxHistory      \* bound: no handler starts on an order with so many history rows

Quantities == [Product -> Nat]

ASSUME OrdersAssumption ==
    /\ SellerOf \in [Product -> Seller]
    /\ CartContents \subseteq Quantities
    /\ Nobody \notin Seller \cup Buyer
    /\ MaxHistory \in Nat

VARIABLES
    order,          \* table orders with their items; status "NONE" is no row
    history,        \* table order_status_history, per order, in the order they commit
    cart,           \* table carts with their items
    suspended,      \* the sellers whose verificationStatus is SUSPENDED
    call            \* the order requests in flight

ordVars == <<order, history, cart, suspended, call>>
vars == <<invVars, finVars, ordVars>>

OrderStatus == {"PENDING", "CONFIRMED", "PREPARING", "DELIVERED", "CANCELLED"}
Nothing == [p \in Product |-> 0]
In(items) == {p \in Product : items[p] > 0}

OrderRow == [status : OrderStatus \cup {"NONE"}, buyer : Buyer \cup {Nobody},
             seller : Seller \cup {Nobody}, items : Quantities, total : Amount]
NoOrderRow == [status |-> "NONE", buyer |-> Nobody, seller |-> Nobody,
               items |-> Nothing, total |-> 0]
HistoryRow == [from : OrderStatus \cup {"NONE"}, to : OrderStatus, by : Party]
CartRow == [owner : Buyer, status : {"ACTIVE", "CONVERTED"}, items : Quantities]

\* What an order handler requires of the status it read, what it sets, who
\* calls it ("seller" stands for the seller of the order or an admin) and the
\* notification it sends.
StatusChange == {"accept", "reject", "cancelMine", "prepare", "deliver", "cancel"}

\* Mutation: an order is delivered without having been prepared.
AllowedHasty == [accept |-> {"PENDING"}, reject |-> {"PENDING"}, cancelMine |-> {"PENDING"},
                 prepare |-> {"CONFIRMED"}, deliver |-> {"PENDING", "PREPARING"},
                 cancel |-> {"CONFIRMED", "PREPARING"}]

Allowed == [accept |-> {"PENDING"}, reject |-> {"PENDING"}, cancelMine |-> {"PENDING"},
            prepare |-> {"CONFIRMED"}, deliver |-> {"PREPARING"},
            cancel |-> {"CONFIRMED", "PREPARING"}]
\* Mutation: accepting an order skips a status.
TargetSkipping == [accept |-> "PREPARING", reject |-> "CANCELLED", cancelMine |-> "CANCELLED",
                   prepare |-> "PREPARING", deliver |-> "DELIVERED", cancel |-> "CANCELLED"]

Target == [accept |-> "CONFIRMED", reject |-> "CANCELLED", cancelMine |-> "CANCELLED",
           prepare |-> "PREPARING", deliver |-> "DELIVERED", cancel |-> "CANCELLED"]

\* Mutation: administrators are told instead of the buyer.
AddresseeAdmin(op) == IF op \in {"cancelMine", "checkout"} THEN "seller" ELSE "admin"

Caller(op) == IF op \in {"cancelMine", "checkout"} THEN "buyer" ELSE "seller"
Addressee(op) == IF op \in {"cancelMine", "checkout"} THEN "seller" ELSE "buyer"

\* Mutations: the notification of another handler.
NoticeOfDelivery == [checkout |-> "NEW_ORDER", accept |-> "ORDER_ACCEPTED",
                     reject |-> "ORDER_CANCELLED", cancelMine |-> "ORDER_CANCELLED",
                     prepare |-> "ORDER_DELIVERED", deliver |-> "ORDER_DELIVERED",
                     cancel |-> "ORDER_CANCELLED"]
NoticeOfPayment == [checkout |-> "NEW_ORDER", accept |-> "PAYMENT_UPDATE",
                    reject |-> "ORDER_CANCELLED", cancelMine |-> "ORDER_CANCELLED",
                    prepare |-> "ORDER_PREPARING", deliver |-> "ORDER_DELIVERED",
                    cancel |-> "ORDER_CANCELLED"]

NoticeOf == [checkout |-> "NEW_ORDER", accept |-> "ORDER_ACCEPTED",
             reject |-> "ORDER_CANCELLED", cancelMine |-> "ORDER_CANCELLED",
             prepare |-> "ORDER_PREPARING", deliver |-> "ORDER_DELIVERED",
             cancel |-> "ORDER_CANCELLED"]

\* Mutation: cancelling an accepted order does not give its stock back.
GivesBackPending(op) == op \in {"reject", "cancelMine"}

GivesBack(op) == Target[op] = "CANCELLED"

\* What a handler holds between its steps.  `view' is what it has read of the
\* products, `todo' the orders it has yet to notify about.
View == [Product -> [stock : Int, status : ProductStatus \cup {"NONE"}, price : Nat]]
Unread == [p \in Product |-> [stock |-> 0, status |-> "NONE", price |-> 0]]
CallRecord ==
    [pc : {"idle", "checkout", "read", "commit", "notify", "settle", "insert"},
     op : StatusChange \cup {"checkout"}, order : OrderId \cup {NoOrder},
     seen : OrderStatus \cup {"NONE"}, cart : CartId \cup {NoOrder},
     items : Quantities, view : View, todo : SUBSET OrderId]
IdleCall == [pc |-> "idle", op |-> "checkout", order |-> NoOrder, seen |-> "NONE",
             cart |-> NoOrder, items |-> Nothing, view |-> Unread, todo |-> {}]

\* The rows of the products of `items', as they are now.
ViewOf(items) ==
    [p \in Product |->
        IF p \in In(items)
        THEN [stock |-> product[p].stock, status |-> product[p].status, price |-> price[p]]
        ELSE Unread[p]]

---------------------------------------------------------------------------
(* Checkout.                                                               *)

OrdInit ==
    /\ order = [o \in OrderId |-> NoOrderRow]
    /\ history = [o \in OrderId |-> <<>>]
    /\ cart \in [CartId -> [owner : Buyer, status : {"ACTIVE"}, items : CartContents]]
    /\ \A k, l \in CartId : cart[k].owner = cart[l].owner => k = l
    /\ suspended = {}
    /\ call = [c \in Call |-> IdleCall]

\* Mutation: off by one.
SufficesNearly(stock, quantity) == stock + 1 >= quantity

\* item.quantity > product.stock is an error
Suffices(stock, quantity) == stock >= quantity

Sellable(p, quantity) ==
    /\ ~product[p].deleted /\ product[p].status = "ACTIVE"
    /\ SellerOf[p] \notin suspended
    /\ Suffices(product[p].stock, quantity)

\* The cart is active and not empty, and all of its items can be sold.
CanCheckout(k) ==
    /\ cart[k].status = "ACTIVE"
    /\ cart[k].items # Nothing
    /\ \A p \in In(cart[k].items) : Sellable(p, cart[k].items[p])

\* POST /cart/checkout up to its transaction.
StartCheckout(c, k) ==
    LET items == cart[k].items IN
    /\ call[c].pc = "idle"
    /\ CanCheckout(k)
    /\ call' = [call EXCEPT ![c] = [IdleCall EXCEPT !.pc = "checkout", !.cart = k,
                                        !.items = items, !.view = ViewOf(items)]]
    /\ UNCHANGED <<invVars, finVars, order, history, cart, suspended>>

\* bySeller: the items of the cart that seller s sells, and what they cost.
ItemsOf(s, items) == [p \in Product |-> IF SellerOf[p] = s THEN items[p] ELSE 0]
SellersIn(items) == {SellerOf[p] : p \in In(items)}
TotalOf(items, view) == SumFunction([p \in Product |-> items[p] * view[p].price])

StockTaken(items, view) ==
    [p \in Product |->
        IF p \in In(items)
        THEN LET left == view[p].stock - items[p] IN
             [product[p] EXCEPT !.stock = left, !.status = StatusAfterExit(left, view[p].status)]
        ELSE product[p]]

\* Mutation: the cart stays active.
ConvertedNot(k) == cart

Converted(k) == [cart EXCEPT ![k].status = "CONVERTED"]

\* The transaction of checkout.  sellerOf gives each new order its seller: one
\* order per seller of the cart.  The cart is converted by id, whatever its
\* status is by now.  A total that does not fit its column aborts (FailCall).
CommitCheckout(c) ==
    LET w == call[c]
        Placed(s) == ItemsOf(s, w.items)
    IN
    /\ w.pc = "checkout"
    /\ \E new \in SUBSET {o \in OrderId : order[o].status = "NONE"} :
       \E sellerOf \in Bijection(new, SellersIn(w.items)) :
          /\ \A o \in new : TotalOf(Placed(sellerOf[o]), w.view) \in Amount
          /\ order' = [o \in OrderId |->
                IF o \notin new THEN order[o]
                ELSE [status |-> "PENDING", buyer |-> cart[w.cart].owner,
                      seller |-> sellerOf[o], items |-> Placed(sellerOf[o]),
                      total |-> TotalOf(Placed(sellerOf[o]), w.view)]]
          /\ history' = [o \in OrderId |->
                IF o \notin new THEN history[o]
                ELSE <<[from |-> "NONE", to |-> "PENDING", by |-> "buyer"]>>]
          /\ movement' = [p \in Product |->
                IF p \notin In(w.items) THEN movement[p]
                ELSE Append(movement[p],
                        Moved("EXIT", w.items[p], w.view[p].stock, w.view[p].stock - w.items[p],
                              CHOOSE o \in new : sellerOf[o] = SellerOf[p]))]
          /\ call' = [call EXCEPT ![c].pc = "notify", ![c].todo = new]
    /\ product' = StockTaken(w.items, w.view)
    /\ cart' = Converted(w.cart)
    /\ UNCHANGED <<price, job, finVars, suspended>>

---------------------------------------------------------------------------
(* The life of an order.                                                   *)

\* The read of a handler and its check of the status.  Items never change, so
\* they are as good as read here.
Open(c, o, op) ==
    /\ call[c].pc = "idle"
    /\ order[o].status \in Allowed[op]
    /\ Len(history[o]) < MaxHistory
    /\ call' = [call EXCEPT ![c] = [IdleCall EXCEPT
                    !.pc = IF GivesBack(op) THEN "read" ELSE "commit",
                    !.op = op, !.order = o, !.seen = order[o].status, !.items = order[o].items]]
    /\ UNCHANGED <<invVars, finVars, order, history, cart, suspended>>

Accept(c, o) == Open(c, o, "accept")
Reject(c, o) == Open(c, o, "reject")
CancelMine(c, o) == Open(c, o, "cancelMine")
Prepare(c, o) == Open(c, o, "prepare")
Deliver(c, o) == Open(c, o, "deliver")
Cancel(c, o) == Open(c, o, "cancel")

\* The transaction client's read of the products to give back: it sees deleted
\* rows too.
ReadProducts(c) ==
    /\ call[c].pc = "read"
    /\ call' = [call EXCEPT ![c].pc = "commit", ![c].view = ViewOf(call[c].items)]
    /\ UNCHANGED <<invVars, finVars, order, history, cart, suspended>>

\* Mutation: a product that sold out is not offered again.
StatusAfterReturnKept(previousStock, status) == status

StatusAfterReturn(previousStock, status) ==
    IF previousStock = 0 /\ status = "OUT_OF_STOCK" THEN "ACTIVE" ELSE status

\* Mutation: the status is restored and the stock is not.
StockReturnedNot(items, view) ==
    [p \in Product |->
        IF p \in In(items)
        THEN [product[p] EXCEPT !.status = StatusAfterReturn(view[p].stock, view[p].status)]
        ELSE product[p]]

StockReturned(items, view) ==
    [p \in Product |->
        IF p \in In(items)
        THEN [product[p] EXCEPT !.stock = view[p].stock + items[p],
                                !.status = StatusAfterReturn(view[p].stock, view[p].status)]
        ELSE product[p]]

MovementsBack(o, items, view) ==
    [p \in Product |->
        IF p \notin In(items) THEN movement[p]
        ELSE Append(movement[p],
                Moved("ENTRY", items[p], view[p].stock, view[p].stock + items[p], o))]

\* Mutations: the history row is missing; it says PENDING whatever was read.
SetStatusSilently(w) ==
    /\ order' = [order EXCEPT ![w.order].status = Target[w.op]]
    /\ UNCHANGED history
SetStatusFromPending(w) ==
    /\ order' = [order EXCEPT ![w.order].status = Target[w.op]]
    /\ history' = [history EXCEPT ![w.order] =
           Append(@, [from |-> "PENDING", to |-> Target[w.op], by |-> Caller(w.op)])]

\* The order update and its history row: by id, whatever the status is by now.
SetStatus(w) ==
    /\ order' = [order EXCEPT ![w.order].status = Target[w.op]]
    /\ history' = [history EXCEPT ![w.order] =
           Append(@, [from |-> w.seen, to |-> Target[w.op], by |-> Caller(w.op)])]

\* The transaction of a handler.
CommitStatus(c) ==
    LET w == call[c] IN
    /\ w.pc = "commit"
    /\ SetStatus(w)
    /\ IF GivesBack(w.op)
       THEN /\ product' = StockReturned(w.items, w.view)
            /\ movement' = MovementsBack(w.order, w.items, w.view)
       ELSE UNCHANGED <<product, movement>>
    /\ call' = [call EXCEPT ![c].pc = "notify", ![c].todo = {w.order}]
    /\ UNCHANGED <<price, job, finVars, cart, suspended>>

---------------------------------------------------------------------------
(* After the transaction.                                                  *)

\* Mutation: the payment is recorded as soon as the order is accepted.
SettlesOnAccept(op) == op \in {"accept", "deliver"}

Settles(op) == op = "deliver"

\* One notification per order; a delivery goes on to record its payment.
Notify(c) ==
    LET w == call[c] IN
    /\ w.pc = "notify"
    /\ \E o \in w.todo :
          /\ Inform(o, NoticeOf[w.op], Addressee(w.op))
          /\ call' = [call EXCEPT ![c] =
                IF w.todo # {o} THEN [w EXCEPT !.todo = @ \ {o}]
                ELSE IF Settles(w.op) THEN [w EXCEPT !.pc = "settle", !.todo = {}]
                ELSE IdleCall]
    /\ UNCHANGED <<invVars, configVars, transaction, auditVars, filing, entry, order,
                   history, cart, suspended>>

\* recordForDeliveredOrder, its reads.
Settle(c) ==
    LET o == call[c].order IN
    /\ call[c].pc = "settle"
    /\ \/ /\ MayRecordDelivered(o)
          /\ PrepareDelivered(c, o, order[o].total)
          /\ call' = [call EXCEPT ![c].pc = "insert"]
       \/ /\ ~MayRecordDelivered(o)
          /\ call' = [call EXCEPT ![c] = IdleCall]
          /\ UNCHANGED entry
    /\ UNCHANGED <<invVars, configVars, transaction, auditVars, notification, filing,
                   order, history, cart, suspended>>

\* recordForDeliveredOrder, its insert.
Insert(c) ==
    /\ call[c].pc = "insert"
    /\ InsertTransaction(c)
    /\ call' = [call EXCEPT ![c] = IdleCall]
    /\ UNCHANGED <<invVars, order, history, cart, suspended>>

\* The transaction rolls back, a later statement fails or the process dies.
FailCall(c) ==
    /\ Faults
    /\ call[c].pc # "idle"
    /\ call' = [call EXCEPT ![c] = IdleCall]
    /\ entry' = [entry EXCEPT ![c] = NoEntry]
    /\ UNCHANGED <<invVars, configVars, transaction, auditVars, notification, filing,
                   order, history, cart, suspended>>

\* The update of transitionSeller (users.service.ts): suspended, or anything
\* else.  What it does next, identity record, audit row and notification,
\* touches no table that is modelled here.
SetSuspended(s) ==
    /\ suspended' = IF s \in suspended THEN suspended \ {s} ELSE suspended \cup {s}
    /\ UNCHANGED <<invVars, finVars, order, history, cart, call>>

---------------------------------------------------------------------------
StartCall(c) ==
    \/ \E k \in CartId : StartCheckout(c, k)
    \/ \E o \in OrderId : Accept(c, o) \/ Reject(c, o) \/ CancelMine(c, o)
                          \/ Prepare(c, o) \/ Deliver(c, o) \/ Cancel(c, o)

CallStep(c) ==
    \/ CommitCheckout(c) \/ ReadProducts(c) \/ CommitStatus(c)
    \/ Notify(c) \/ Settle(c) \/ Insert(c)

OrdNext ==
    \/ \E c \in Call : StartCall(c) \/ CallStep(c) \/ FailCall(c)
    \/ \E s \in Seller : SetSuspended(s)

Init == InvInit /\ FinInit /\ OrdInit

Next ==
    \/ OrdNext
    \/ InvNext /\ UNCHANGED <<finVars, ordVars>>
    \/ AdminNext /\ UNCHANGED <<invVars, ordVars>>

Spec == Init /\ [][Next]_vars

---------------------------------------------------------------------------
(* Properties that hold however the calls interleave and fail.             *)

OrdTypeOK ==
    /\ order \in [OrderId -> OrderRow]
    /\ history \in [OrderId -> Seq(HistoryRow)]
    /\ cart \in [CartId -> CartRow]
    /\ suspended \in SUBSET Seller
    /\ call \in [Call -> CallRecord]

\* The tables hold rows of the shape the schema declares.
TypeOK == InvTypeOK /\ FinTypeOK /\ OrdTypeOK

\* The status of an order is the one its history ends with: both are written in
\* one transaction, in every handler.
StatusIsLastEntry ==
    \A o \in OrderId :
        IF order[o].status = "NONE" THEN history[o] = <<>>
        ELSE history[o] # <<>> /\ history[o][Len(history[o])].to = order[o].status

LegalChange(from, to) ==
    \/ from = "PENDING" /\ to \in {"CONFIRMED", "CANCELLED"}
    \/ from = "CONFIRMED" /\ to \in {"PREPARING", "CANCELLED"}
    \/ from = "PREPARING" /\ to \in {"DELIVERED", "CANCELLED"}

\* Every change in the history is one the shop allows, and starts from a status
\* the order had reached before it.  So an order that was ever delivered had
\* been confirmed and prepared, and only checkout makes an order PENDING, even
\* when handlers act on a status that is no longer the order's.
EveryChangeHasItsCause ==
    \A o \in OrderId : \A i \in 1 .. Len(history[o]) :
        LET h == history[o][i] IN
        IF i = 1 THEN h.from = "NONE" /\ h.to = "PENDING"
        ELSE LegalChange(h.from, h.to) /\ \E k \in 1 .. i - 1 : history[o][k].to = h.from

Entries(o, statuses) == {i \in 1 .. Len(history[o]) : history[o][i].to \in statuses}
Notices(o, types) == {i \in 1 .. Len(notification[o]) : notification[o][i].type \in types}
StatusTold == [NEW_ORDER |-> "PENDING", ORDER_ACCEPTED |-> "CONFIRMED",
               ORDER_PREPARING |-> "PREPARING", ORDER_DELIVERED |-> "DELIVERED",
               ORDER_CANCELLED |-> "CANCELLED"]

\* Nobody is told of a change that did not happen, nor twice of one that did:
\* an order has no more notifications of a kind than changes of that kind.
NoticesAreEarned ==
    \A o \in OrderId : \A type \in DOMAIN StatusTold :
        Cardinality(Notices(o, {type})) <= Cardinality(Entries(o, {StatusTold[type]}))

\* A transaction is for an order that was delivered, and for its total.
TransactionMatchesOrder ==
    \A o \in OrderId : Exists(o) =>
        /\ Entries(o, {"DELIVERED"}) # {}
        /\ transaction[o].amount = order[o].total

\* Whoever has to know of the changes of an order is eventually told, if no
\* statement fails: an order with fewer notifications than changes catches up.
ChangesAreAnnounced ==
    \A o \in OrderId :
        (Len(history[o]) > Cardinality(Notices(o, DOMAIN StatusTold)))
            ~> (Len(history[o]) = Cardinality(Notices(o, DOMAIN StatusTold)))

\* A delivered order eventually has its transaction if no statement fails,
\* unless the platform is without a commission config or an active payment
\* method at some time after the delivery.
DeliveredIsSettled ==
    \A o \in OrderId : order[o].status = "DELIVERED"
        ~> (Exists(o) \/ CurrentConfigs = {} \/ MethodsFor("OTHER") = {})

---------------------------------------------------------------------------
(* Requests about orders and about stock one at a time.  The handlers      *)
(* check what they read and write it back by id, so the properties below   *)
(* all fail once requests overlap.                                         *)

OneAtATime ==
    /\ \A c, d \in Call : call[c].pc # "idle" /\ call[d].pc # "idle" => c = d
    /\ OneJob
    /\ \A c \in Call, j \in StockJob : call[c].pc = "idle" \/ job[j].pc = "idle"

SerialNext == Next /\ OneAtATime'

SerialSpec == Init /\ [][SerialNext]_vars

\* Each history row starts at the status the one before it ended with.
HistoryIsAChain ==
    \A o \in OrderId : \A i \in 2 .. Len(history[o]) :
        history[o][i].from = history[o][i - 1].to

\* The movements of product p that name order o, and those of them that change
\* the stock by n.
MovesOf(o, p) == {i \in 1 .. Len(movement[p]) : movement[p][i].order = o}
MovesBy(o, p, n) ==
    {i \in MovesOf(o, p) : movement[p][i].newStock - movement[p][i].previousStock = n}

\* The stock an order reserves is taken out of the stock once, for as long as the
\* order stands, and put back once when it is cancelled; nothing else is done in
\* the name of the order.
ReservationIsBalanced ==
    \A o \in OrderId, p \in Product :
        LET q == order[o].items[p] IN
        IF order[o].status = "NONE" \/ q = 0 THEN MovesOf(o, p) = {}
        ELSE /\ Cardinality(MovesBy(o, p, -q)) = 1
             /\ Cardinality(MovesBy(o, p, q)) = IF order[o].status = "CANCELLED" THEN 1 ELSE 0
             /\ MovesOf(o, p) = MovesBy(o, p, -q) \cup MovesBy(o, p, q)

\* A cart is ordered once: orders appear only as an active cart is converted.
CartIsOrderedOnce ==
    [][(\E o \in OrderId : order[o].status = "NONE" /\ order'[o].status # "NONE")
          => \E k \in CartId : cart[k].status = "ACTIVE" /\ cart'[k].status = "CONVERTED"]_vars

\* Doc of cancelMine: the buyer cancels a request while it is still PENDING.
BuyerCancelsOnlyPending ==
    [][\A o \in OrderId :
          LET n == Len(history'[o]) IN
          (n > Len(history[o]) /\ history'[o][n].by = "buyer" /\ history'[o][n].to = "CANCELLED")
              => order[o].status = "PENDING"]_vars

\* Orders and stock change as the order book says, each act in one step.  The
\* book's state is read off the tables.
Book == INSTANCE OrderBook WITH
            status <- [o \in OrderId |-> order[o].status],
            items <- [o \in OrderId |-> order[o].items],
            stock <- [p \in Product |-> product[p].stock]

ImplementsBook == Book!Spec

=============================================================================
