--------------------------- MODULE Orders_proofs ---------------------------
(***************************************************************************)
(* Theorems about Orders, for any number of orders, products, sellers and  *)
(* overlapping calls, stock jobs and administrators.                       *)
(***************************************************************************)
EXTENDS Orders, Inventory_proofs, Finance_proofs, FiniteSetTheorems

---------------------------------------------------------------------------
(* Type correctness, of all three modules together.  It is not inductive   *)
(* alone: a call must hold the cart or the order that it is about.         *)

CallOK(w) ==
    /\ w.pc = "checkout" => w.cart \in CartId /\ w.op = "checkout"
    /\ w.op # "checkout" => w.order \in OrderId
    /\ w.pc \in {"read", "commit", "settle", "insert"} => w.op # "checkout"

OrdInv == InvTypeOK /\ FinInv /\ OrdTypeOK /\ \A c \in Call : CallOK(call[c])

LEMMA NothingType == Nothing \in Quantities
  BY DEF Nothing, Quantities

LEMMA UnreadType == Unread \in View
  BY DEF Unread, View

LEMMA IdleCallType == IdleCall \in CallRecord /\ CallOK(IdleCall)
  BY NothingType, UnreadType DEF IdleCall, CallRecord, CallOK

LEMMA NoOrderRowType == NoOrderRow \in OrderRow
  BY NothingType, FinanceAssumption DEF NoOrderRow, OrderRow, Amount

\* What a handler reads of the products.
LEMMA ViewOfType ==
    ASSUME InvTypeOK, NEW items \in Quantities
    PROVE  ViewOf(items) \in View
  <1>1. \A p \in Product : /\ product[p].stock \in Int /\ price[p] \in Nat
                           /\ product[p].status \in ProductStatus \cup {"NONE"}
    BY StockAssumption DEF InvTypeOK, Row
  <1> QED
    BY <1>1 DEF ViewOf, View, Unread

LEMMA InvStutters == InvTypeOK /\ UNCHANGED invVars => InvTypeOK'
  BY NextTypeOK

LEMMA OrdersInitTypes == Init => OrdInv
  <1> SUFFICES ASSUME Init PROVE OrdTypeOK /\ \A c \in Call : CallOK(call[c])
    BY InitTypeOK, FinInitInv DEF Init, OrdInv
  <1>1. order \in [OrderId -> OrderRow]
    BY NoOrderRowType DEF Init, OrdInit
  <1>2. cart \in [CartId -> CartRow]
    BY OrdersAssumption DEF Init, OrdInit, CartRow
  <1>3. call \in [Call -> CallRecord] /\ \A c \in Call : CallOK(call[c])
    BY IdleCallType DEF Init, OrdInit
  <1> QED
    BY <1>1, <1>2, <1>3 DEF Init, OrdInit, OrdTypeOK

\* A step that only moves a call on to another record of its type.
LEMMA CallMoves ==
    ASSUME OrdInv, NEW c \in Call, NEW w \in CallRecord, CallOK(w),
           call' = [call EXCEPT ![c] = w],
           UNCHANGED <<invVars, finVars, order, history, cart, suspended>>
    PROVE  OrdInv'
  <1>1. OrdTypeOK'
    BY DEF OrdInv, OrdTypeOK
  <1>2. \A d \in Call : CallOK(call'[d])
    BY DEF OrdInv, OrdTypeOK
  <1> QED
    BY <1>1, <1>2, InvStutters, StutterKeepsInv DEF OrdInv

LEMMA StartCheckoutKeepsTypes ==
    ASSUME OrdInv, NEW c \in Call, NEW k \in CartId, StartCheckout(c, k)
    PROVE  OrdInv'
  <1> DEFINE items == cart[k].items
             w == [IdleCall EXCEPT !.pc = "checkout", !.cart = k, !.items = items,
                                   !.view = ViewOf(items)]
  <1>1. items \in Quantities
    BY DEF OrdInv, OrdTypeOK, CartRow
  <1>2. ViewOf(items) \in View
    BY <1>1, ViewOfType DEF OrdInv
  <1> HIDE DEF items
  <1>3. w \in CallRecord /\ CallOK(w)
    BY <1>1, <1>2, IdleCallType DEF CallRecord, IdleCall, CallOK, StatusChange
  <1> QED
    BY <1>3, CallMoves DEF StartCheckout, items

LEMMA OpenKeepsTypes ==
    ASSUME OrdInv, NEW c \in Call, NEW o \in OrderId, NEW op \in StatusChange, Open(c, o, op)
    PROVE  OrdInv'
  <1> DEFINE pc == IF GivesBack(op) THEN "read" ELSE "commit"
             w == [IdleCall EXCEPT !.pc = pc, !.op = op, !.order = o,
                                   !.seen = order[o].status, !.items = order[o].items]
  <1>1. order[o].status \in OrderStatus \cup {"NONE"} /\ order[o].items \in Quantities
    BY DEF OrdInv, OrdTypeOK, OrderRow
  <1>2. pc \in {"read", "commit"}
    OBVIOUS
  <1> HIDE DEF pc
  <1>3. w \in CallRecord /\ CallOK(w)
    BY <1>1, <1>2, IdleCallType, ZenonT(40) DEF CallRecord, IdleCall, CallOK, StatusChange
  <1> QED
    BY <1>3, CallMoves DEF Open, pc

LEMMA ReadProductsKeepsTypes ==
    ASSUME OrdInv, NEW c \in Call, ReadProducts(c)
    PROVE  OrdInv'
  <1> DEFINE v == ViewOf(call[c].items)
             w == [call[c] EXCEPT !.pc = "commit", !.view = v]
  <1>1. call[c] \in CallRecord
    BY DEF OrdInv, OrdTypeOK
  <1>2. v \in View
    BY <1>1, ViewOfType DEF OrdInv, CallRecord
  <1> HIDE DEF v
  <1>3. w \in CallRecord /\ CallOK(w)
    BY <1>1, <1>2 DEF CallRecord, CallOK, OrdInv, ReadProducts
  <1>4. call' = [call EXCEPT ![c] = w]
    BY DEF ReadProducts, OrdInv, OrdTypeOK, v
  <1> QED
    BY <1>3, <1>4, CallMoves DEF ReadProducts

\* What is written to the product rows by checkout and by a cancellation.
LEMMA StockTakenType ==
    ASSUME InvTypeOK, NEW items \in Quantities, NEW view \in View
    PROVE  StockTaken(items, view) \in [Product -> Row]
  <1> SUFFICES ASSUME NEW p \in Product PROVE StockTaken(items, view)[p] \in Row
    BY DEF StockTaken
  <1> DEFINE left == view[p].stock - items[p]
             st == StatusAfterExit(left, view[p].status)
             row == [product[p] EXCEPT !.stock = left, !.status = st]
  <1>1. left \in Int /\ view[p].status \in ProductStatus \cup {"NONE"}
    BY DEF View, Quantities
  <1>2. st \in ProductStatus \cup {"NONE"}
    BY <1>1 DEF StatusAfterExit, ProductStatus
  <1>3. product[p] \in Row
    BY DEF InvTypeOK
  <1>4. StockTaken(items, view)[p] = IF p \in In(items) THEN row ELSE product[p]
    BY DEF StockTaken
  <1> HIDE DEF left, st
  <1>5. row \in Row
    BY <1>1, <1>2, <1>3 DEF Row
  <1> QED
    BY <1>3, <1>4, <1>5

LEMMA StockReturnedType ==
    ASSUME InvTypeOK, NEW items \in Quantities, NEW view \in View
    PROVE  StockReturned(items, view) \in [Product -> Row]
  <1> SUFFICES ASSUME NEW p \in Product PROVE StockReturned(items, view)[p] \in Row
    BY DEF StockReturned
  <1> DEFINE back == view[p].stock + items[p]
             st == StatusAfterReturn(view[p].stock, view[p].status)
             row == [product[p] EXCEPT !.stock = back, !.status = st]
  <1>1. back \in Int /\ view[p].status \in ProductStatus \cup {"NONE"}
    BY DEF View, Quantities
  <1>2. st \in ProductStatus \cup {"NONE"}
    BY <1>1 DEF StatusAfterReturn, ProductStatus
  <1>3. product[p] \in Row
    BY DEF InvTypeOK
  <1>4. StockReturned(items, view)[p] = IF p \in In(items) THEN row ELSE product[p]
    BY DEF StockReturned
  <1> HIDE DEF back, st
  <1>5. row \in Row
    BY <1>1, <1>2, <1>3 DEF Row
  <1> QED
    BY <1>3, <1>4, <1>5

LEMMA MovementsBackType ==
    ASSUME InvTypeOK, NEW o \in OrderId, NEW items \in Quantities, NEW view \in View
    PROVE  MovementsBack(o, items, view) \in [Product -> Seq(Movement)]
  <1> SUFFICES ASSUME NEW p \in Product
               PROVE  MovementsBack(o, items, view)[p] \in Seq(Movement)
    BY DEF MovementsBack
  <1> DEFINE m == Moved("ENTRY", items[p], view[p].stock, view[p].stock + items[p], o)
  <1>1. items[p] \in Int /\ view[p].stock \in Int /\ view[p].stock + items[p] \in Int
    BY DEF View, Quantities
  <1>2. m \in Movement
    BY <1>1, MovedType DEF MovementType
  <1>3. movement[p] \in Seq(Movement)
    BY DEF InvTypeOK
  <1>4. MovementsBack(o, items, view)[p] = IF p \notin In(items) THEN movement[p]
                                           ELSE Append(movement[p], m)
    BY DEF MovementsBack
  <1> HIDE DEF m
  <1> QED
    BY <1>2, <1>3, <1>4

\* Splitting a cart by seller.
LEMMA ItemsOfType ==
    ASSUME NEW items \in Quantities, NEW s
    PROVE  ItemsOf(s, items) \in Quantities
  BY DEF ItemsOf, Quantities

LEMMA CommitCheckoutKeepsTypes ==
    ASSUME OrdInv, NEW c \in Call, CommitCheckout(c)
    PROVE  OrdInv'
  <1> DEFINE w == call[c]
             Placed(s) == ItemsOf(s, w.items)
  <1>1. w \in CallRecord
    BY DEF OrdInv, OrdTypeOK
  <1>2. w.items \in Quantities /\ w.view \in View /\ w.cart \in CartId
    BY <1>1 DEF CallRecord, OrdInv, CallOK, CommitCheckout
  <1>a. PICK new \in SUBSET {o \in OrderId : order[o].status = "NONE"} :
        \E sellerOf \in Bijection(new, SellersIn(w.items)) :
          /\ \A o \in new : TotalOf(Placed(sellerOf[o]), w.view) \in Amount
          /\ order' = [o \in OrderId |->
                IF o \notin new THEN order[o]
                ELSE [status |-> "PENDING", buyer |-> cart[w.cart].owner,
                      seller |-> sellerOf[o], items |-> Placed(sellerOf[o]),
                      total |-> TotalOf(Placed(sellerOf[o]), w.view)]]
          /\ history' = [o \in OrderId |->
                IF o \notin new THEN history[o]
                ELSE <<[from |-> "NONE", to |-> "PENDING", by |-> "buyer"]>>]
          /\ movement' = [p \in Product |->
                IF p \notin In(w.items) THEN movement[p]
                ELSE Append(movement[p],
                        Moved("EXIT", w.items[p], w.view[p].stock, w.view[p].stock - w.items[p],
                              CHOOSE o \in new : sellerOf[o] = SellerOf[p]))]
          /\ call' = [call EXCEPT ![c].pc = "notify", ![c].todo = new]
    BY DEF CommitCheckout
  <1>3. PICK sellerOf \in Bijection(new, SellersIn(w.items)) :
          /\ \A o \in new : TotalOf(Placed(sellerOf[o]), w.view) \in Amount
          /\ order' = [o \in OrderId |->
                IF o \notin new THEN order[o]
                ELSE [status |-> "PENDING", buyer |-> cart[w.cart].owner,
                      seller |-> sellerOf[o], items |-> Placed(sellerOf[o]),
                      total |-> TotalOf(Placed(sellerOf[o]), w.view)]]
          /\ history' = [o \in OrderId |->
                IF o \notin new THEN history[o]
                ELSE <<[from |-> "NONE", to |-> "PENDING", by |-> "buyer"]>>]
          /\ movement' = [p \in Product |->
                IF p \notin In(w.items) THEN movement[p]
                ELSE Append(movement[p],
                        Moved("EXIT", w.items[p], w.view[p].stock, w.view[p].stock - w.items[p],
                              CHOOSE o \in new : sellerOf[o] = SellerOf[p]))]
          /\ call' = [call EXCEPT ![c].pc = "notify", ![c].todo = new]
    BY <1>a
  <1>4. /\ sellerOf \in [new -> SellersIn(w.items)] /\ new \subseteq OrderId
        /\ \A s \in SellersIn(w.items) : \E o \in new : sellerOf[o] = s
    BY DEF Bijection, Injection, Surjection
  <1>5. SellersIn(w.items) \subseteq Seller
    BY OrdersAssumption DEF SellersIn, In
  <1>6. order' \in [OrderId -> OrderRow]
    <2> SUFFICES ASSUME NEW o \in OrderId PROVE order'[o] \in OrderRow
      BY <1>3
    <2>1. CASE o \notin new
      BY <1>3, <2>1 DEF OrdInv, OrdTypeOK
    <2>2. CASE o \in new
      <3>1. cart[w.cart].owner \in Buyer
        BY <1>2 DEF OrdInv, OrdTypeOK, CartRow
      <3>2. sellerOf[o] \in Seller
        BY <1>4, <1>5, <2>2
      <3>3. Placed(sellerOf[o]) \in Quantities
        BY <1>2, ItemsOfType
      <3>4. TotalOf(Placed(sellerOf[o]), w.view) \in Amount
        BY <1>3, <2>2
      <3>5. order'[o] = [status |-> "PENDING", buyer |-> cart[w.cart].owner,
                         seller |-> sellerOf[o], items |-> Placed(sellerOf[o]),
                         total |-> TotalOf(Placed(sellerOf[o]), w.view)]
        BY <1>3, <2>2
      <3> HIDE DEF Placed
      <3> QED
        BY <3>1, <3>2, <3>3, <3>4, <3>5 DEF OrderRow, OrderStatus
    <2> QED
      BY <2>1, <2>2
  <1>7. history' \in [OrderId -> Seq(HistoryRow)]
    <2>1. [from |-> "NONE", to |-> "PENDING", by |-> "buyer"] \in HistoryRow
      BY DEF HistoryRow, OrderStatus, Party
    <2> QED
      BY <1>3, <2>1 DEF OrdInv, OrdTypeOK
  <1>8. call' \in [Call -> CallRecord]
    <2>1. [w EXCEPT !.pc = "notify", !.todo = new] \in CallRecord
      BY <1>1, <1>4 DEF CallRecord
    <2>2. call' = [call EXCEPT ![c] = [w EXCEPT !.pc = "notify", !.todo = new]]
      BY <1>3 DEF OrdInv, OrdTypeOK
    <2> QED
      BY <2>1, <2>2 DEF OrdInv, OrdTypeOK
  <1>b. \A d \in Call : CallOK(call'[d])
    BY <1>1, <1>3 DEF OrdInv, OrdTypeOK, CallOK, CallRecord
  <1>9. cart' \in [CartId -> CartRow]
    BY <1>2, ZenonT(40) DEF CommitCheckout, Converted, OrdInv, OrdTypeOK, CartRow
  <1>10. product' \in [Product -> Row]
    BY <1>2, StockTakenType DEF CommitCheckout, OrdInv
  <1>11. movement' \in [Product -> Seq(Movement)]
    <2> SUFFICES ASSUME NEW p \in Product PROVE movement'[p] \in Seq(Movement)
      BY <1>3
    <2>1. movement[p] \in Seq(Movement)
      BY DEF OrdInv, InvTypeOK
    <2>2. CASE p \notin In(w.items)
      BY <1>3, <2>1, <2>2
    <2>3. CASE p \in In(w.items)
      <3> DEFINE its == CHOOSE o \in new : sellerOf[o] = SellerOf[p]
                 left == w.view[p].stock - w.items[p]
                 m == Moved("EXIT", w.items[p], w.view[p].stock, left, its)
      <3>1. SellerOf[p] \in SellersIn(w.items)
        BY <2>3 DEF SellersIn
      <3>2. its \in OrderId
        BY <1>4, <3>1
      <3>3. w.items[p] \in Int /\ w.view[p].stock \in Int /\ left \in Int
        BY <1>2 DEF View, Quantities
      <3>4. movement'[p] = Append(movement[p], m)
        BY <1>3, <2>3
      <3> HIDE DEF its, left
      <3>5. m \in Movement
        BY <3>2, <3>3, MovedType DEF MovementType
      <3> HIDE DEF m
      <3> QED
        BY <2>1, <3>4, <3>5
    <2> QED
      BY <2>2, <2>3
  <1>12. InvTypeOK'
    BY <1>10, <1>11 DEF CommitCheckout, OrdInv, InvTypeOK
  <1>13. OrdTypeOK'
    BY <1>6, <1>7, <1>8, <1>9 DEF CommitCheckout, OrdInv, OrdTypeOK
  <1>14. FinInv'
    BY StutterKeepsInv DEF CommitCheckout, OrdInv
  <1> QED
    BY <1>b, <1>12, <1>13, <1>14 DEF OrdInv

\* The row that a handler leaves in the history of its order.
LEMMA SetStatusType ==
    ASSUME OrdTypeOK, NEW w \in CallRecord, w.order \in OrderId, w.op \in StatusChange,
           SetStatus(w)
    PROVE  /\ order' \in [OrderId -> OrderRow]
           /\ history' \in [OrderId -> Seq(HistoryRow)]
  <1>1. Target[w.op] \in OrderStatus /\ Caller(w.op) \in Party
    BY DEF StatusChange, Target, Caller, OrderStatus, Party
  <1>2. w.seen \in OrderStatus \cup {"NONE"}
    BY DEF CallRecord
  <1> DEFINE row == [from |-> w.seen, to |-> Target[w.op], by |-> Caller(w.op)]
             new == [order[w.order] EXCEPT !.status = Target[w.op]]
  <1>3. row \in HistoryRow
    BY <1>1, <1>2 DEF HistoryRow
  <1>4. new \in OrderRow
    BY <1>1, ZenonT(40) DEF OrdTypeOK, OrderRow
  <1>5. /\ order' = [order EXCEPT ![w.order] = new]
        /\ history' = [history EXCEPT ![w.order] = Append(history[w.order], row)]
    BY DEF SetStatus, OrdTypeOK
  <1> HIDE DEF row, new
  <1> QED
    BY <1>3, <1>4, <1>5 DEF OrdTypeOK

LEMMA CommitStatusKeepsTypes ==
    ASSUME OrdInv, NEW c \in Call, CommitStatus(c)
    PROVE  OrdInv'
  <1> DEFINE w == call[c]
             next == [w EXCEPT !.pc = "notify", !.todo = {w.order}]
  <1>1. w \in CallRecord /\ CallOK(w) /\ w.pc = "commit"
    BY DEF OrdInv, OrdTypeOK, CommitStatus
  <1>2. /\ w.order \in OrderId /\ w.op \in StatusChange
        /\ w.items \in Quantities /\ w.view \in View
    BY <1>1 DEF CallRecord, CallOK
  <1>3. order' \in [OrderId -> OrderRow] /\ history' \in [OrderId -> Seq(HistoryRow)]
    BY <1>1, <1>2, SetStatusType DEF CommitStatus, OrdInv
  <1>4. product' \in [Product -> Row] /\ movement' \in [Product -> Seq(Movement)]
    <2>1. CASE GivesBack(w.op)
      BY <1>2, <2>1, StockReturnedType, MovementsBackType DEF CommitStatus, OrdInv
    <2>2. CASE ~GivesBack(w.op)
      BY <2>2 DEF CommitStatus, OrdInv, InvTypeOK
    <2> QED
      BY <2>1, <2>2
  <1>5. next \in CallRecord /\ CallOK(next)
    BY <1>1, <1>2 DEF CallRecord, CallOK
  <1>6. call' = [call EXCEPT ![c] = next]
    BY DEF CommitStatus, OrdInv, OrdTypeOK
  <1>7. InvTypeOK'
    BY <1>4 DEF CommitStatus, OrdInv, InvTypeOK
  <1>8. FinInv'
    BY StutterKeepsInv DEF CommitStatus, OrdInv
  <1> HIDE DEF next
  <1>9. OrdTypeOK' /\ \A d \in Call : CallOK(call'[d])
    BY <1>3, <1>5, <1>6 DEF CommitStatus, OrdInv, OrdTypeOK
  <1> QED
    BY <1>7, <1>8, <1>9 DEF OrdInv

LEMMA NotifyKeepsTypes ==
    ASSUME OrdInv, NEW c \in Call, Notify(c)
    PROVE  OrdInv'
  <1> DEFINE w == call[c]
  <1>1. w \in CallRecord /\ CallOK(w)
    BY DEF OrdInv, OrdTypeOK
  <1>2. PICK o \in w.todo :
          /\ Inform(o, NoticeOf[w.op], Addressee(w.op))
          /\ call' = [call EXCEPT ![c] =
                IF w.todo # {o} THEN [w EXCEPT !.todo = @ \ {o}]
                ELSE IF Settles(w.op) THEN [w EXCEPT !.pc = "settle", !.todo = {}]
                ELSE IdleCall]
    BY DEF Notify
  <1>3. /\ o \in OrderId /\ NoticeOf[w.op] \in NoticeType /\ Addressee(w.op) \in Party
    BY <1>1 DEF CallRecord, StatusChange, NoticeOf, NoticeType, Addressee, Party
  <1>4. notification' \in [OrderId -> Seq(Notice)]
    BY <1>2, <1>3, InformType DEF OrdInv, FinInv, FinTypeOK
  <1>5. [w EXCEPT !.todo = w.todo \ {o}] \in CallRecord /\ CallOK([w EXCEPT !.todo = w.todo \ {o}])
    BY <1>1 DEF CallRecord, CallOK
  <1>6. Settles(w.op) => /\ [w EXCEPT !.pc = "settle", !.todo = {}] \in CallRecord
                         /\ CallOK([w EXCEPT !.pc = "settle", !.todo = {}])
    BY <1>1 DEF CallRecord, CallOK, Settles
  <1>7. PICK v \in CallRecord : CallOK(v) /\ call' = [call EXCEPT ![c] = v]
    BY <1>2, <1>5, <1>6, IdleCallType
  <1>8. OrdTypeOK' /\ \A d \in Call : CallOK(call'[d])
    BY <1>7 DEF Notify, OrdInv, OrdTypeOK
  <1>9. FinInv'
    BY <1>4 DEF Notify, OrdInv, FinInv, FinTypeOK, FilingOK, configVars, auditVars
  <1> QED
    BY <1>8, <1>9, InvStutters DEF Notify, OrdInv

LEMMA SettleKeepsTypes ==
    ASSUME OrdInv, NEW c \in Call, Settle(c)
    PROVE  OrdInv'
  <1> DEFINE w == call[c]
             o == w.order
  <1>1. w \in CallRecord /\ CallOK(w) /\ w.pc = "settle"
    BY DEF OrdInv, OrdTypeOK, Settle
  <1>2. o \in OrderId
    BY <1>1 DEF CallOK
  <1>3. order[o].total \in Amount
    BY <1>2 DEF OrdInv, OrdTypeOK, OrderRow
  <1>4. entry' \in [Call -> Entry]
    <2>1. CASE MayRecordDelivered(o)
      <3>1. PICK row \in Transaction : entry' = [entry EXCEPT ![c] = [order |-> o, row |-> row]]
        BY <1>2, <1>3, <2>1, PreparedType DEF Settle, OrdInv
      <3> QED
        BY <1>2, <3>1 DEF Entry, OrdInv, FinInv, FinTypeOK
    <2>2. CASE ~MayRecordDelivered(o)
      BY <2>2 DEF Settle, OrdInv, FinInv, FinTypeOK
    <2> QED
      BY <2>1, <2>2
  <1>5. [w EXCEPT !.pc = "insert"] \in CallRecord /\ CallOK([w EXCEPT !.pc = "insert"])
    BY <1>1 DEF CallRecord, CallOK
  <1>6. call' \in {[call EXCEPT ![c] = [w EXCEPT !.pc = "insert"]], [call EXCEPT ![c] = IdleCall]}
    BY DEF Settle, OrdInv, OrdTypeOK
  <1>7. PICK v \in CallRecord : CallOK(v) /\ call' = [call EXCEPT ![c] = v]
    BY <1>5, <1>6, IdleCallType
  <1>8. OrdTypeOK' /\ \A d \in Call : CallOK(call'[d])
    BY <1>7 DEF Settle, OrdInv, OrdTypeOK
  <1>9. FinInv'
    BY <1>4 DEF Settle, OrdInv, FinInv, FinTypeOK, FilingOK, configVars, auditVars
  <1> QED
    BY <1>8, <1>9, InvStutters DEF Settle, OrdInv

LEMMA InsertKeepsTypes ==
    ASSUME OrdInv, NEW c \in Call, Insert(c)
    PROVE  OrdInv'
  <1>1. OrdTypeOK' /\ \A d \in Call : CallOK(call'[d])
    BY IdleCallType DEF Insert, OrdInv, OrdTypeOK
  <1>2. FinInv'
    BY InsertKeepsInv DEF Insert, OrdInv
  <1> QED
    BY <1>1, <1>2, InvStutters DEF Insert, OrdInv

LEMMA FailCallKeepsTypes ==
    ASSUME OrdInv, NEW c \in Call, FailCall(c)
    PROVE  OrdInv'
  <1>1. OrdTypeOK' /\ \A d \in Call : CallOK(call'[d])
    BY IdleCallType DEF FailCall, OrdInv, OrdTypeOK
  <1>2. NoEntry \in Entry
    BY NoTransactionType DEF NoEntry, Entry
  <1>3. entry' \in [Call -> Entry]
    BY <1>2 DEF FailCall, OrdInv, FinInv, FinTypeOK
  <1>4. FinInv'
    BY <1>3 DEF FailCall, OrdInv, FinInv, FinTypeOK, FilingOK, configVars, auditVars
  <1> QED
    BY <1>1, <1>4, InvStutters DEF FailCall, OrdInv

LEMMA CallKeepsTypes ==
    ASSUME OrdInv, NEW c \in Call, StartCall(c) \/ CallStep(c) \/ FailCall(c)
    PROVE  OrdInv'
  <1>1. ASSUME NEW o \in OrderId,
               Accept(c, o) \/ Reject(c, o) \/ CancelMine(c, o)
                  \/ Prepare(c, o) \/ Deliver(c, o) \/ Cancel(c, o)
        PROVE  OrdInv'
    <2>1. PICK op \in StatusChange : Open(c, o, op)
      BY <1>1 DEF Accept, Reject, CancelMine, Prepare, Deliver, Cancel, StatusChange
    <2> QED
      BY <2>1, OpenKeepsTypes
  <1>2. CASE StartCall(c)
    BY <1>1, <1>2, StartCheckoutKeepsTypes DEF StartCall
  <1>3. CASE CallStep(c)
    BY <1>3, CommitCheckoutKeepsTypes, ReadProductsKeepsTypes, CommitStatusKeepsTypes,
       NotifyKeepsTypes, SettleKeepsTypes, InsertKeepsTypes DEF CallStep
  <1> QED
    BY <1>2, <1>3, FailCallKeepsTypes

LEMMA OrdersNextKeepsTypes == OrdInv /\ [Next]_vars => OrdInv'
  <1> SUFFICES ASSUME OrdInv, [Next]_vars PROVE OrdInv'
    OBVIOUS
  <1>1. ASSUME NEW s \in Seller, SetSuspended(s) PROVE OrdInv'
    <2>1. OrdTypeOK' /\ \A d \in Call : CallOK(call'[d])
      BY <1>1 DEF SetSuspended, OrdInv, OrdTypeOK
    <2> QED
      BY <1>1, <2>1, InvStutters, StutterKeepsInv DEF SetSuspended, OrdInv
  <1>2. CASE OrdNext
    BY <1>1, <1>2, CallKeepsTypes DEF OrdNext
  <1>3. CASE InvNext /\ UNCHANGED <<finVars, ordVars>>
    <2>1. OrdTypeOK' /\ \A d \in Call : CallOK(call'[d])
      BY <1>3 DEF ordVars, OrdInv, OrdTypeOK
    <2> QED
      BY <1>3, <2>1, NextTypeOK, StutterKeepsInv DEF OrdInv
  <1>4. CASE AdminNext /\ UNCHANGED <<invVars, ordVars>>
    <2>1. OrdTypeOK' /\ \A d \in Call : CallOK(call'[d])
      BY <1>4 DEF ordVars, OrdInv, OrdTypeOK
    <2> QED
      BY <1>4, <2>1, InvStutters, AdminKeepsInv DEF OrdInv
  <1>5. CASE UNCHANGED vars
    <2>1. OrdTypeOK' /\ \A d \in Call : CallOK(call'[d])
      BY <1>5 DEF vars, ordVars, OrdInv, OrdTypeOK
    <2> QED
      BY <1>5, <2>1, InvStutters, StutterKeepsInv DEF vars, OrdInv
  <1> QED
    BY <1>2, <1>3, <1>4, <1>5 DEF Next

LEMMA OrdersInvariant == Spec => []OrdInv
  BY OrdersInitTypes, OrdersNextKeepsTypes, PTL DEF Spec

\* All tables of the three services keep the shape the schema declares, and all
\* the requests in flight theirs, whatever overlaps and fails: no handler writes
\* a status, a stock, a total or a commission that the schema does not have.
THEOREM OrdersTypeCorrect == Spec => []TypeOK
  <1>1. OrdInv => TypeOK
    BY DEF OrdInv, FinInv, TypeOK
  <1> QED
    BY <1>1, OrdersInvariant, PTL

---------------------------------------------------------------------------
(* The history of an order, whatever overlaps: it ends at the order's      *)
(* status, and each change in it is allowed and has its cause in it.       *)

Reached(o, status) == \E k \in 1 .. Len(history[o]) : history[o][k].to = status

\* What makes it inductive: a handler that has read its order acts on a status
\* that the order had reached, though it may have left it since.
SeenWasReached(w) ==
    w.pc \in {"read", "commit"} => w.seen \in Allowed[w.op] /\ Reached(w.order, w.seen)

HistoryInv ==
    /\ StatusIsLastEntry
    /\ EveryChangeHasItsCause
    /\ \A c \in Call : SeenWasReached(call[c])

Placement == [from |-> "NONE", to |-> "PENDING", by |-> "buyer"]
ChangeBy(w) == [from |-> w.seen, to |-> Target[w.op], by |-> Caller(w.op)]

\* The two steps that write orders, and what they write.
LEMMA CheckoutWrites ==
    ASSUME OrdInv, NEW c \in Call, CommitCheckout(c), NEW o \in OrderId
    PROVE  \/ history'[o] = history[o] /\ order'[o].status = order[o].status
           \/ /\ order[o].status = "NONE"
              /\ history'[o] = <<Placement>> /\ order'[o].status = "PENDING"
  <1> DEFINE w == call[c]
             Placed(s) == ItemsOf(s, w.items)
  <1>1. PICK new \in SUBSET {u \in OrderId : order[u].status = "NONE"} :
        \E sellerOf \in Bijection(new, SellersIn(w.items)) :
          /\ order' = [u \in OrderId |->
                IF u \notin new THEN order[u]
                ELSE [status |-> "PENDING", buyer |-> cart[w.cart].owner,
                      seller |-> sellerOf[u], items |-> Placed(sellerOf[u]),
                      total |-> TotalOf(Placed(sellerOf[u]), w.view)]]
          /\ history' = [u \in OrderId |-> IF u \notin new THEN history[u] ELSE <<Placement>>]
    BY DEF CommitCheckout, Placement
  <1> QED
    BY <1>1

LEMMA StatusWrites ==
    ASSUME OrdInv, NEW c \in Call, CommitStatus(c), NEW o \in OrderId
    PROVE  \/ history'[o] = history[o] /\ order'[o].status = order[o].status
           \/ /\ call[c].pc = "commit" /\ call[c].order = o /\ call[c].op \in StatusChange
              /\ history'[o] = Append(history[o], ChangeBy(call[c]))
              /\ order'[o].status = Target[call[c].op]
  <1>1. call[c] \in CallRecord /\ CallOK(call[c]) /\ call[c].pc = "commit"
    BY DEF OrdInv, OrdTypeOK, CommitStatus
  <1>2. call[c].order \in OrderId /\ call[c].op \in StatusChange
    BY <1>1 DEF CallRecord, CallOK
  <1>3. SetStatus(call[c])
    BY DEF CommitStatus
  <1>4. order[call[c].order] \in OrderRow
    BY <1>2 DEF OrdInv, OrdTypeOK
  <1> QED
    BY <1>1, <1>2, <1>3, <1>4 DEF SetStatus, ChangeBy, OrdInv, OrdTypeOK, OrderRow

\* No other step does.
LEMMA OnlyCommitsWrite ==
    ASSUME [Next]_vars
    PROVE  \/ UNCHANGED <<order, history>>
           \/ \E c \in Call : CommitCheckout(c) \/ CommitStatus(c)
  <1> DEFINE Kept == UNCHANGED <<order, history>>
  <1>1. ASSUME NEW c \in Call, StartCall(c) PROVE Kept
    <2>1. ASSUME NEW k \in CartId, StartCheckout(c, k) PROVE Kept
      BY <2>1 DEF StartCheckout
    <2>2. ASSUME NEW o, NEW op, Open(c, o, op) PROVE Kept
      BY <2>2 DEF Open
    <2> QED
      BY <1>1, <2>1, <2>2
         DEF StartCall, Accept, Reject, CancelMine, Prepare, Deliver, Cancel
  <1>2. ASSUME NEW c \in Call, ReadProducts(c) PROVE Kept
    BY <1>2 DEF ReadProducts
  <1>3. ASSUME NEW c \in Call, Notify(c) PROVE Kept
    BY <1>3 DEF Notify
  <1>4. ASSUME NEW c \in Call, Settle(c) \/ Insert(c) PROVE Kept
    BY <1>4 DEF Settle, Insert
  <1>5. ASSUME NEW c \in Call, FailCall(c) PROVE Kept
    BY <1>5 DEF FailCall
  <1>6. ASSUME NEW s \in Seller, SetSuspended(s) PROVE Kept
    BY <1>6 DEF SetSuspended
  <1>7. CASE UNCHANGED ordVars
    BY <1>7 DEF ordVars
  <1> QED
    BY <1>1, <1>2, <1>3, <1>4, <1>5, <1>6, <1>7 DEF Next, OrdNext, CallStep, vars

\* All that a step can do to an order's history and status.
LEMMA HistoryChanges ==
    ASSUME OrdInv, StatusIsLastEntry, [Next]_vars, NEW o \in OrderId
    PROVE  \/ history'[o] = history[o] /\ order'[o].status = order[o].status
           \/ /\ history[o] = <<>> /\ history'[o] = <<Placement>>
              /\ order'[o].status = "PENDING"
           \/ \E c \in Call :
                 /\ call[c].pc = "commit" /\ call[c].order = o /\ call[c].op \in StatusChange
                 /\ history'[o] = Append(history[o], ChangeBy(call[c]))
                 /\ order'[o].status = Target[call[c].op]
  <1>1. CASE UNCHANGED <<order, history>>
    BY <1>1
  <1>2. ASSUME NEW c \in Call, CommitCheckout(c)
        PROVE  \/ history'[o] = history[o] /\ order'[o].status = order[o].status
               \/ /\ history[o] = <<>> /\ history'[o] = <<Placement>>
                  /\ order'[o].status = "PENDING"
    BY <1>2, CheckoutWrites DEF StatusIsLastEntry
  <1> QED
    BY <1>1, <1>2, StatusWrites, OnlyCommitsWrite

\* So nothing is ever taken out of a history.
LEMMA HistoryGrows ==
    ASSUME OrdInv, StatusIsLastEntry, [Next]_vars, NEW o \in OrderId, NEW status,
           Reached(o, status)
    PROVE  Reached(o, status)'
  <1>1. history[o] \in Seq(HistoryRow)
    BY DEF OrdInv, OrdTypeOK
  <1>2. PICK k \in 1 .. Len(history[o]) : history[o][k].to = status
    BY DEF Reached
  <1>3. history[o] # <<>>
    BY <1>1, <1>2
  <1>4. CASE history'[o] = history[o]
    BY <1>2, <1>4 DEF Reached
  <1>5. ASSUME NEW c \in Call, history'[o] = Append(history[o], ChangeBy(call[c]))
        PROVE  Reached(o, status)'
    <2>1. k \in 1 .. Len(history'[o]) /\ history'[o][k] = history[o][k]
      BY <1>1, <1>5
    <2> QED
      BY <1>2, <2>1 DEF Reached
  <1> QED
    BY <1>3, <1>4, <1>5, HistoryChanges

\* A call comes to a status only by reading it off its order.
LEMMA CallsRead ==
    ASSUME OrdInv, [Next]_vars, NEW c \in Call, call'[c].pc \in {"read", "commit"}
    PROVE  \/ /\ call[c].pc \in {"read", "commit"} /\ call'[c].op = call[c].op
              /\ call'[c].order = call[c].order /\ call'[c].seen = call[c].seen
           \/ /\ call'[c].order \in OrderId /\ call'[c].op \in StatusChange
              /\ call'[c].seen \in Allowed[call'[c].op]
              /\ call'[c].seen = order[call'[c].order].status
              /\ UNCHANGED <<order, history>>
  <1> DEFINE Kept == /\ call[c].pc \in {"read", "commit"} /\ call'[c].op = call[c].op
                     /\ call'[c].order = call[c].order /\ call'[c].seen = call[c].seen
             Opened == /\ call'[c].order \in OrderId /\ call'[c].op \in StatusChange
                       /\ call'[c].seen \in Allowed[call'[c].op]
                       /\ call'[c].seen = order[call'[c].order].status
                       /\ UNCHANGED <<order, history>>
  <1>0. \A d \in Call : call[d] \in CallRecord
    BY DEF OrdInv, OrdTypeOK
  <1>a. call \in [Call -> CallRecord] /\ IdleCall.pc = "idle"
    BY DEF OrdInv, OrdTypeOK, IdleCall
  <1>1. CASE UNCHANGED call
    BY <1>1
  <1>2. ASSUME NEW d \in Call, NEW k \in CartId, StartCheckout(d, k) PROVE Kept
    BY <1>2, <1>a DEF StartCheckout, IdleCall
  <1>3. ASSUME NEW d \in Call, NEW o \in OrderId, NEW op \in StatusChange, Open(d, o, op)
        PROVE  Kept \/ Opened
    <2>1. CASE d = c
      BY <1>3, <1>a, <2>1 DEF Open, IdleCall
    <2>2. CASE d # c
      BY <1>3, <1>a, <2>2 DEF Open
    <2> QED
      BY <2>1, <2>2
  <1>4. ASSUME NEW d \in Call, CommitCheckout(d) PROVE Kept
    <2>1. PICK new : call' = [call EXCEPT ![d].pc = "notify", ![d].todo = new]
      BY <1>4 DEF CommitCheckout
    <2> QED
      BY <1>a, <2>1 DEF CallRecord
  <1>5. ASSUME NEW d \in Call, ReadProducts(d) PROVE Kept
    BY <1>5, <1>a DEF ReadProducts, CallRecord
  <1>6. ASSUME NEW d \in Call, CommitStatus(d) PROVE Kept
    BY <1>6, <1>a DEF CommitStatus, CallRecord
  <1>7. ASSUME NEW d \in Call, Notify(d) PROVE Kept
    <2>1. PICK o \in call[d].todo :
            call' = [call EXCEPT ![d] =
                IF call[d].todo # {o} THEN [call[d] EXCEPT !.todo = call[d].todo \ {o}]
                ELSE IF Settles(call[d].op) THEN [call[d] EXCEPT !.pc = "settle", !.todo = {}]
                ELSE IdleCall]
      BY <1>7 DEF Notify
    <2>2. call[d] \in CallRecord /\ call[d].pc = "notify"
      BY <1>7, <1>a DEF Notify
    <2>3. call'[d].pc \in {"notify", "settle", "idle"}
      BY <1>a, <2>1, <2>2 DEF CallRecord
    <2> QED
      BY <1>a, <2>1, <2>3
  <1>8. ASSUME NEW d \in Call, Settle(d) PROVE Kept
    BY <1>8, <1>a DEF Settle, CallRecord
  <1>9. ASSUME NEW d \in Call, Insert(d) \/ FailCall(d) PROVE Kept
    BY <1>9, <1>a DEF Insert, FailCall
  <1>10. \/ UNCHANGED call
         \/ \E d \in Call :
               \/ \E k \in CartId : StartCheckout(d, k)
               \/ \E o \in OrderId, op \in StatusChange : Open(d, o, op)
               \/ CommitCheckout(d) \/ ReadProducts(d) \/ CommitStatus(d)
               \/ Notify(d) \/ Settle(d) \/ Insert(d) \/ FailCall(d)
    BY DEF Next, OrdNext, StartCall, CallStep, Accept, Reject, CancelMine, Prepare,
           Deliver, Cancel, SetSuspended, ordVars, vars, StatusChange
  <1> QED
    BY <1>1, <1>2, <1>3, <1>4, <1>5, <1>6, <1>7, <1>8, <1>9, <1>10

LEMMA AllowedIsLegal ==
    ASSUME NEW op \in StatusChange, NEW seen \in Allowed[op]
    PROVE  LegalChange(seen, Target[op])
  BY DEF StatusChange, Allowed, Target, LegalChange

LEMMA HistoryInit == Init => HistoryInv
  <1> SUFFICES ASSUME Init PROVE HistoryInv
    OBVIOUS
  <1>1. \A o \in OrderId : order[o].status = "NONE" /\ history[o] = <<>>
    BY DEF Init, OrdInit, NoOrderRow
  <1>2. \A c \in Call : call[c].pc = "idle"
    BY DEF Init, OrdInit, IdleCall
  <1> QED
    BY <1>1, <1>2 DEF HistoryInv, StatusIsLastEntry, EveryChangeHasItsCause, SeenWasReached

LEMMA NextStatusIsLast == OrdInv /\ HistoryInv /\ [Next]_vars => StatusIsLastEntry'
  <1> SUFFICES ASSUME OrdInv, HistoryInv, [Next]_vars, NEW o \in OrderId
               PROVE  (IF order[o].status = "NONE" THEN history[o] = <<>>
                       ELSE /\ history[o] # <<>>
                            /\ history[o][Len(history[o])].to = order[o].status)'
    BY DEF StatusIsLastEntry
  <1>1. CASE history'[o] = history[o] /\ order'[o].status = order[o].status
    BY <1>1 DEF HistoryInv, StatusIsLastEntry
  <1>2. CASE history'[o] = <<Placement>> /\ order'[o].status = "PENDING"
    BY <1>2 DEF Placement
  <1>3. ASSUME NEW c \in Call, call[c].op \in StatusChange,
               history'[o] = Append(history[o], ChangeBy(call[c])),
               order'[o].status = Target[call[c].op]
        PROVE  /\ history'[o] # <<>> /\ order'[o].status # "NONE"
               /\ history'[o][Len(history'[o])].to = order'[o].status
    <2>1. history[o] \in Seq(HistoryRow)
      BY DEF OrdInv, OrdTypeOK
    <2>2. /\ Len(history'[o]) = Len(history[o]) + 1
          /\ history'[o][Len(history[o]) + 1] = ChangeBy(call[c])
      BY <1>3, <2>1
    <2>3. history'[o] # <<>>
      BY <2>1, <2>2
    <2>4. Target[call[c].op] # "NONE"
      BY <1>3 DEF StatusChange, Target
    <2> QED
      BY <1>3, <2>2, <2>3, <2>4 DEF ChangeBy
  <1> QED
    BY <1>1, <1>2, <1>3, HistoryChanges DEF HistoryInv

LEMMA NextHasItsCause == OrdInv /\ HistoryInv /\ [Next]_vars => EveryChangeHasItsCause'
  <1> SUFFICES ASSUME OrdInv, HistoryInv, [Next]_vars, NEW o \in OrderId,
                      NEW i \in 1 .. Len(history'[o])
               PROVE  LET h == history'[o][i] IN
                      IF i = 1 THEN h.from = "NONE" /\ h.to = "PENDING"
                      ELSE /\ LegalChange(h.from, h.to)
                           /\ \E k \in 1 .. i - 1 : history'[o][k].to = h.from
    BY DEF EveryChangeHasItsCause
  <1>1. CASE history'[o] = history[o]
    BY <1>1 DEF HistoryInv, EveryChangeHasItsCause
  <1>2. CASE history'[o] = <<Placement>>
    <2>1. i = 1 /\ history'[o][i] = Placement
      BY <1>2
    <2> QED
      BY <2>1 DEF Placement
  <1>3. ASSUME NEW c \in Call, call[c].pc = "commit", call[c].order = o,
               call[c].op \in StatusChange,
               history'[o] = Append(history[o], ChangeBy(call[c]))
        PROVE  LET h == history'[o][i] IN
               IF i = 1 THEN h.from = "NONE" /\ h.to = "PENDING"
               ELSE /\ LegalChange(h.from, h.to)
                    /\ \E k \in 1 .. i - 1 : history'[o][k].to = h.from
    <2>1. history[o] \in Seq(HistoryRow)
      BY DEF OrdInv, OrdTypeOK
    <2>2. /\ Len(history'[o]) = Len(history[o]) + 1
          /\ \A k \in 1 .. Len(history[o]) : history'[o][k] = history[o][k]
          /\ history'[o][Len(history[o]) + 1] = ChangeBy(call[c])
      BY <1>3, <2>1
    <2>3. CASE i \in 1 .. Len(history[o])
      <3>1. LET h == history[o][i] IN
            IF i = 1 THEN h.from = "NONE" /\ h.to = "PENDING"
            ELSE /\ LegalChange(h.from, h.to)
                 /\ \E k \in 1 .. i - 1 : history[o][k].to = h.from
        BY <2>3 DEF HistoryInv, EveryChangeHasItsCause
      <3>2. \A k \in 1 .. i - 1 : history'[o][k] = history[o][k]
        BY <2>1, <2>2, <2>3
      <3> QED
        BY <2>2, <2>3, <3>1, <3>2
    <2>4. CASE i = Len(history[o]) + 1
      <3>1. call[c].seen \in Allowed[call[c].op] /\ Reached(o, call[c].seen)
        BY <1>3 DEF HistoryInv, SeenWasReached
      <3>2. PICK k \in 1 .. Len(history[o]) : history[o][k].to = call[c].seen
        BY <3>1 DEF Reached
      <3>3. i # 1 /\ k \in 1 .. i - 1 /\ history'[o][k].to = call[c].seen
        BY <2>1, <2>2, <2>4, <3>2
      <3>4. history'[o][i].from = call[c].seen /\ history'[o][i].to = Target[call[c].op]
        BY <2>2, <2>4 DEF ChangeBy
      <3>5. LegalChange(history'[o][i].from, history'[o][i].to)
        BY <1>3, <3>1, <3>4, AllowedIsLegal
      <3> QED
        BY <3>3, <3>4, <3>5
    <2> QED
      BY <2>1, <2>2, <2>3, <2>4
  <1> QED
    BY <1>1, <1>2, <1>3, HistoryChanges DEF HistoryInv

LEMMA NextSeenWasReached ==
    OrdInv /\ HistoryInv /\ [Next]_vars => (\A c \in Call : SeenWasReached(call[c]))'
  <1> SUFFICES ASSUME OrdInv, HistoryInv, [Next]_vars, NEW c \in Call,
                      call'[c].pc \in {"read", "commit"}
               PROVE  /\ call'[c].seen \in Allowed[call'[c].op]
                      /\ \E k \in 1 .. Len(history'[call'[c].order]) :
                            history'[call'[c].order][k].to = call'[c].seen
    <2> DEFINE Goal(c) == /\ call'[c].seen \in Allowed[call'[c].op]
                          /\ \E k \in 1 .. Len(history'[call'[c].order]) :
                                history'[call'[c].order][k].to = call'[c].seen
    <2>1. (\A c \in Call : SeenWasReached(call[c]))'
             <=> \A c \in Call : call'[c].pc \in {"read", "commit"} => Goal(c)
      BY DEF SeenWasReached, Reached
    <2> QED
      BY <2>1
  <1>1. CASE /\ call[c].pc \in {"read", "commit"} /\ call'[c].op = call[c].op
             /\ call'[c].order = call[c].order /\ call'[c].seen = call[c].seen
    <2>1. call[c].seen \in Allowed[call[c].op] /\ Reached(call[c].order, call[c].seen)
      BY <1>1 DEF HistoryInv, SeenWasReached
    <2>2. call[c].order \in OrderId
      BY <1>1 DEF OrdInv, CallOK
    <2>3. \E k \in 1 .. Len(history'[call[c].order]) :
             history'[call[c].order][k].to = call[c].seen
      BY <2>1, <2>2, HistoryGrows DEF HistoryInv, Reached
    <2> QED
      BY <1>1, <2>1, <2>3
  <1>2. CASE /\ call'[c].order \in OrderId /\ call'[c].op \in StatusChange
             /\ call'[c].seen \in Allowed[call'[c].op]
             /\ call'[c].seen = order[call'[c].order].status
             /\ UNCHANGED <<order, history>>
    <2> DEFINE o == call'[c].order
    <2>1. call'[c].seen # "NONE"
      BY <1>2 DEF StatusChange, Allowed
    <2>2. history[o] # <<>> /\ history[o][Len(history[o])].to = call'[c].seen
      BY <1>2, <2>1 DEF HistoryInv, StatusIsLastEntry
    <2>3. history[o] \in Seq(HistoryRow)
      BY <1>2 DEF OrdInv, OrdTypeOK
    <2>4. Len(history[o]) \in 1 .. Len(history[o])
      BY <2>2, <2>3
    <2>5. history' = history
      BY <1>2
    <2> HIDE DEF o
    <2>6. \E k \in 1 .. Len(history'[o]) : history'[o][k].to = call'[c].seen
      BY <2>2, <2>4, <2>5
    <2> QED
      BY <1>2, <2>6 DEF o
  <1> QED
    BY <1>1, <1>2, CallsRead

LEMMA HistoryInvariant == Spec => [](OrdInv /\ HistoryInv)
  <1>1. OrdInv /\ HistoryInv /\ [Next]_vars => HistoryInv'
    BY NextStatusIsLast, NextHasItsCause, NextSeenWasReached DEF HistoryInv
  <1> QED
    BY <1>1, OrdersInitTypes, HistoryInit, OrdersNextKeepsTypes, PTL DEF Spec

\* The status of an order is always the one its history ends with, however many
\* handlers overlap, roll back or die between their statements.
THEOREM HistoryTellsStatus == Spec => []StatusIsLastEntry
  <1>1. HistoryInv => StatusIsLastEntry
    BY DEF HistoryInv
  <1> QED
    BY <1>1, HistoryInvariant, PTL

\* Every change in a history is allowed and starts from a status the order had
\* reached, though handlers may act on a status that the order has left.
THEOREM ChangesHaveCauses == Spec => []EveryChangeHasItsCause
  <1>1. HistoryInv => EveryChangeHasItsCause
    BY DEF HistoryInv
  <1> QED
    BY <1>1, HistoryInvariant, PTL

---------------------------------------------------------------------------
(* The transactions of orders.  What makes TransactionMatchesOrder         *)
(* inductive: a handler that goes on to record a payment, and a row about  *)
(* to be inserted, are of an order that was delivered.                     *)

Delivering(w) == w.pc = "settle" \/ (w.pc = "notify" /\ Settles(w.op))

TransactionInv ==
    /\ \A o \in OrderId : Exists(o) =>
          Reached(o, "DELIVERED") /\ transaction[o].amount = order[o].total
    /\ \A c \in Call : entry[c].order # NoOrder =>
          /\ Reached(entry[c].order, "DELIVERED")
          /\ entry[c].row.amount = order[entry[c].order].total
    /\ \A c \in Call : Delivering(call[c]) => Reached(call[c].order, "DELIVERED")
    /\ FiledExist

\* The total of an order is fixed once the order is there.
LEMMA TotalStays ==
    ASSUME OrdInv, [Next]_vars, NEW o \in OrderId, order[o].status # "NONE"
    PROVE  order'[o].total = order[o].total
  <1>1. CASE UNCHANGED <<order, history>>
    BY <1>1
  <1>2. ASSUME NEW c \in Call, CommitCheckout(c) PROVE order'[o] = order[o]
    <2> DEFINE w == call[c]
               Placed(s) == ItemsOf(s, w.items)
    <2>1. PICK new \in SUBSET {u \in OrderId : order[u].status = "NONE"} :
          \E sellerOf \in Bijection(new, SellersIn(w.items)) :
             order' = [u \in OrderId |->
                IF u \notin new THEN order[u]
                ELSE [status |-> "PENDING", buyer |-> cart[w.cart].owner,
                      seller |-> sellerOf[u], items |-> Placed(sellerOf[u]),
                      total |-> TotalOf(Placed(sellerOf[u]), w.view)]]
      BY <1>2 DEF CommitCheckout
    <2> QED
      BY <2>1
  <1>3. ASSUME NEW c \in Call, CommitStatus(c) PROVE order'[o].total = order[o].total
    <2>1. order' = [order EXCEPT ![call[c].order].status = Target[call[c].op]]
      BY <1>3 DEF CommitStatus, SetStatus
    <2>2. order \in [OrderId -> OrderRow]
      BY DEF OrdInv, OrdTypeOK
    <2> QED
      BY <2>1, <2>2 DEF OrderRow
  <1> QED
    BY <1>1, <1>2, <1>3, OnlyCommitsWrite

\* What an order has reached stays so, and so does its total.
LEMMA ReachedStays ==
    ASSUME OrdInv, HistoryInv, [Next]_vars, NEW o \in OrderId, NEW status, Reached(o, status)
    PROVE  Reached(o, status)' /\ order'[o].total = order[o].total
  <1>1. history[o] # <<>>
    <2>1. history[o] \in Seq(HistoryRow)
      BY DEF OrdInv, OrdTypeOK
    <2> QED
      BY <2>1 DEF Reached
  <1>2. order[o].status # "NONE"
    BY <1>1 DEF HistoryInv, StatusIsLastEntry
  <1> QED
    BY <1>2, HistoryGrows, TotalStays DEF HistoryInv

\* A handler comes to record a payment only by delivering its order.
LEMMA CallsDeliver ==
    ASSUME OrdInv, [Next]_vars, NEW c \in Call, Delivering(call'[c])
    PROVE  \/ Delivering(call[c]) /\ call'[c].order = call[c].order
           \/ /\ call'[c].order \in OrderId
              /\ \E k \in 1 .. Len(history'[call'[c].order]) :
                    history'[call'[c].order][k].to = "DELIVERED"
  <1> DEFINE Kept == Delivering(call[c]) /\ call'[c].order = call[c].order
             Delivered == /\ call'[c].order \in OrderId
                          /\ \E k \in 1 .. Len(history'[call'[c].order]) :
                                history'[call'[c].order][k].to = "DELIVERED"
  <1>a. call \in [Call -> CallRecord] /\ ~Delivering(IdleCall)
    BY DEF OrdInv, OrdTypeOK, IdleCall, Delivering
  <1>1. CASE UNCHANGED call
    BY <1>1
  <1>2. ASSUME NEW d \in Call, NEW k \in CartId, StartCheckout(d, k) PROVE Kept
    BY <1>2, <1>a DEF StartCheckout, IdleCall, Delivering
  <1>3. ASSUME NEW d \in Call, NEW o, NEW op, Open(d, o, op) PROVE Kept
    BY <1>3, <1>a DEF Open, IdleCall, Delivering
  <1>4. ASSUME NEW d \in Call, CommitCheckout(d) PROVE Kept
    <2>1. PICK new : call' = [call EXCEPT ![d].pc = "notify", ![d].todo = new]
      BY <1>4 DEF CommitCheckout
    <2>2. ~Settles(call[d].op)
      BY <1>4 DEF CommitCheckout, OrdInv, CallOK, Settles
    <2> QED
      BY <1>a, <2>1, <2>2 DEF CallRecord, Delivering
  <1>5. ASSUME NEW d \in Call, ReadProducts(d) PROVE Kept
    BY <1>5, <1>a DEF ReadProducts, CallRecord, Delivering
  <1>6. ASSUME NEW d \in Call, CommitStatus(d) PROVE Kept \/ Delivered
    <2>1. call' = [call EXCEPT ![d].pc = "notify", ![d].todo = {call[d].order}]
      BY <1>6 DEF CommitStatus
    <2>2. CASE d # c
      BY <1>a, <2>1, <2>2
    <2>3. CASE d = c
      <3>1. /\ call'[c].order = call[c].order /\ call'[c].op = call[c].op
            /\ call'[c].pc = "notify"
        BY <1>a, <2>1, <2>3 DEF CallRecord
      <3>2. call[c].op = "deliver"
        BY <3>1 DEF Delivering, Settles
      <3>3. call[c].order \in OrderId
        BY <3>2 DEF OrdInv, CallOK
      <3> DEFINE o == call[c].order
      <3>4. history[o] \in Seq(HistoryRow)
        BY <3>3 DEF OrdInv, OrdTypeOK
      <3>5. history'[o] = Append(history[o], ChangeBy(call[c]))
        BY <1>6, <2>3, <3>3 DEF CommitStatus, SetStatus, ChangeBy, OrdInv, OrdTypeOK
      <3> HIDE DEF o
      <3>6. /\ Len(history[o]) + 1 \in 1 .. Len(history'[o])
            /\ history'[o][Len(history[o]) + 1] = ChangeBy(call[c])
        BY <3>4, <3>5
      <3>7. ChangeBy(call[c]).to = "DELIVERED"
        BY <3>2 DEF ChangeBy, Target
      <3> QED
        BY <3>1, <3>3, <3>6, <3>7 DEF o
    <2> QED
      BY <2>2, <2>3
  <1>7. ASSUME NEW d \in Call, Notify(d) PROVE Kept
    <2>1. PICK o \in call[d].todo :
            call' = [call EXCEPT ![d] =
                IF call[d].todo # {o} THEN [call[d] EXCEPT !.todo = call[d].todo \ {o}]
                ELSE IF Settles(call[d].op) THEN [call[d] EXCEPT !.pc = "settle", !.todo = {}]
                ELSE IdleCall]
      BY <1>7 DEF Notify
    <2>2. call[d] \in CallRecord /\ call[d].pc = "notify"
      BY <1>7, <1>a DEF Notify
    <2>3. CASE d # c
      BY <1>a, <2>1, <2>3
    <2>4. CASE d = c
      <3>1. CASE call'[c] = [call[c] EXCEPT !.todo = call[c].todo \ {o}]
        BY <2>2, <2>4, <3>1 DEF CallRecord, Delivering
      <3>2. CASE Settles(call[c].op) /\ call'[c] = [call[c] EXCEPT !.pc = "settle", !.todo = {}]
        BY <2>2, <2>4, <3>2 DEF CallRecord, Delivering
      <3>3. CASE call'[c] = IdleCall
        BY <1>a, <3>3
      <3> QED
        BY <1>a, <2>1, <2>4, <3>1, <3>2, <3>3
    <2> QED
      BY <2>3, <2>4
  <1>8. ASSUME NEW d \in Call, Settle(d) PROVE Kept
    BY <1>8, <1>a DEF Settle, CallRecord, Delivering
  <1>9. ASSUME NEW d \in Call, Insert(d) \/ FailCall(d) PROVE Kept
    BY <1>9, <1>a DEF Insert, FailCall
  <1>10. \/ UNCHANGED call
         \/ \E d \in Call :
               \/ \E k \in CartId : StartCheckout(d, k)
               \/ \E o \in OrderId, op \in StatusChange : Open(d, o, op)
               \/ CommitCheckout(d) \/ ReadProducts(d) \/ CommitStatus(d)
               \/ Notify(d) \/ Settle(d) \/ Insert(d) \/ FailCall(d)
    BY DEF Next, OrdNext, StartCall, CallStep, Accept, Reject, CancelMine, Prepare,
           Deliver, Cancel, SetSuspended, ordVars, vars, StatusChange
  <1> QED
    BY <1>1, <1>2, <1>3, <1>4, <1>5, <1>6, <1>7, <1>8, <1>9, <1>10

\* A request that starts changes nothing but itself.
LEMMA StartsOnlyCalls ==
    ASSUME NEW c \in Call, StartCall(c)
    PROVE  UNCHANGED <<invVars, finVars, order, history, cart, suspended>>
  <1>1. ASSUME NEW k \in CartId, StartCheckout(c, k)
        PROVE  UNCHANGED <<invVars, finVars, order, history, cart, suspended>>
    BY <1>1 DEF StartCheckout
  <1>2. ASSUME NEW o, NEW op, Open(c, o, op)
        PROVE  UNCHANGED <<invVars, finVars, order, history, cart, suspended>>
    BY <1>2 DEF Open
  <1> QED
    BY <1>1, <1>2 DEF StartCall, Accept, Reject, CancelMine, Prepare, Deliver, Cancel

\* A row about to be inserted was there before, or a delivery has just made it
\* of its order's total, without a reference.
LEMMA EntriesMade ==
    ASSUME OrdInv, [Next]_vars, NEW c \in Call, entry'[c].order # NoOrder
    PROVE  \/ entry'[c] = entry[c]
           \/ /\ Delivering(call[c]) /\ call[c].order \in OrderId
              /\ entry'[c].order = call[c].order
              /\ entry'[c].row.amount = order[call[c].order].total
              /\ entry'[c].row.reference = NoReference
  <1> DEFINE Made == /\ Delivering(call[c]) /\ call[c].order \in OrderId
                     /\ entry'[c].order = call[c].order
                     /\ entry'[c].row.amount = order[call[c].order].total
                     /\ entry'[c].row.reference = NoReference
  <1>a. entry \in [Call -> Entry] /\ NoEntry.order = NoOrder
    BY DEF OrdInv, FinInv, FinTypeOK, NoEntry
  <1>1. CASE entry' = entry
    BY <1>1
  <1>2. ASSUME NEW d \in Call, Settle(d) PROVE entry'[c] = entry[c] \/ Made
    <2>1. CASE entry' = entry
      BY <2>1
    <2>2. ASSUME PrepareDelivered(d, call[d].order, order[call[d].order].total)
          PROVE  entry'[c] = entry[c] \/ Made
      <3> DEFINE amount == order[call[d].order].total
                 Inserted(i, m) == Completed(m, amount, commission[i].percentage, NoReference)
      <3>a. PICK i, m : entry' = [entry EXCEPT ![d] = [order |-> call[d].order, row |-> Inserted(i, m)]]
        BY <2>2 DEF PrepareDelivered
      <3>b. Inserted(i, m).amount = amount /\ Inserted(i, m).reference = NoReference
        BY DEF Completed
      <3>1. PICK row : /\ entry' = [entry EXCEPT ![d] = [order |-> call[d].order, row |-> row]]
                       /\ row.amount = amount /\ row.reference = NoReference
        BY <3>a, <3>b
      <3>2. call[d].order \in OrderId /\ Delivering(call[d])
        BY <1>2 DEF Settle, Delivering, OrdInv, CallOK
      <3> QED
        BY <1>a, <3>1, <3>2
    <2> QED
      BY <1>2, <2>1, <2>2 DEF Settle
  <1>3. ASSUME NEW d \in Call, entry' = [entry EXCEPT ![d] = NoEntry] PROVE entry'[c] = entry[c]
    BY <1>3, <1>a
  <1>4. \/ entry' = entry
        \/ \E d \in Call : Settle(d) \/ entry' = [entry EXCEPT ![d] = NoEntry]
    <2>1. CASE OrdNext
      <3>1. ASSUME NEW d \in Call, StartCall(d) PROVE entry' = entry
        BY <3>1, StartsOnlyCalls DEF finVars
      <3>2. ASSUME NEW d \in Call, CommitCheckout(d) \/ ReadProducts(d) \/ CommitStatus(d)
            PROVE  entry' = entry
        BY <3>2 DEF CommitCheckout, ReadProducts, CommitStatus, finVars
      <3>3. ASSUME NEW d \in Call, Notify(d) PROVE entry' = entry
        BY <3>3 DEF Notify
      <3>4. ASSUME NEW d \in Call, Insert(d) \/ FailCall(d)
            PROVE  entry' = [entry EXCEPT ![d] = NoEntry]
        BY <3>4 DEF Insert, InsertTransaction, FailCall
      <3>5. ASSUME NEW s \in Seller, SetSuspended(s) PROVE entry' = entry
        BY <3>5 DEF SetSuspended, finVars
      <3> QED
        BY <2>1, <3>1, <3>2, <3>3, <3>4, <3>5 DEF OrdNext, CallStep
    <2>2. CASE ~OrdNext
      BY <2>2, AdminKeepsEntries DEF Next, vars, finVars
    <2> QED
      BY <2>1, <2>2
  <1> QED
    BY <1>1, <1>2, <1>3, <1>4

\* The steps that touch transactions and the requests about them.
LEMMA OnlyFinanceWrites ==
    ASSUME [Next]_vars
    PROVE  \/ UNCHANGED <<transaction, filing>>
           \/ AdminNext
           \/ \E c \in Call : InsertTransaction(c) /\ UNCHANGED filing
  <1>1. CASE OrdNext
    <2> DEFINE Kept == UNCHANGED <<transaction, filing>>
    <2>1. ASSUME NEW d \in Call, StartCall(d) PROVE Kept
      BY <2>1, StartsOnlyCalls DEF finVars
    <2>2. ASSUME NEW d \in Call, CommitCheckout(d) \/ ReadProducts(d) \/ CommitStatus(d)
          PROVE  Kept
      BY <2>2 DEF CommitCheckout, ReadProducts, CommitStatus, finVars
    <2>3. ASSUME NEW d \in Call, Notify(d) \/ Settle(d) PROVE Kept
      BY <2>3 DEF Notify, Settle
    <2>4. ASSUME NEW d \in Call, Insert(d) PROVE InsertTransaction(d) /\ UNCHANGED filing
      BY <2>4 DEF Insert, InsertTransaction
    <2>5. ASSUME NEW d \in Call, FailCall(d) PROVE Kept
      BY <2>5 DEF FailCall
    <2>6. ASSUME NEW s \in Seller, SetSuspended(s) PROVE Kept
      BY <2>6 DEF SetSuspended, finVars
    <2> QED
      BY <1>1, <2>1, <2>2, <2>3, <2>4, <2>5, <2>6 DEF OrdNext, CallStep
  <1>2. CASE ~OrdNext
    BY <1>2 DEF Next, vars, finVars
  <1> QED
    BY <1>1, <1>2

\* A transaction keeps its amount; a new one is a row that was about to be inserted.
LEMMA TransactionsMade ==
    ASSUME OrdInv, FiledExist, [Next]_vars, NEW o \in OrderId
    PROVE  /\ Exists(o) => Exists(o)'
           /\ Exists(o)' => \/ Exists(o) /\ transaction'[o].amount = transaction[o].amount
                            \/ \E c \in Call : /\ entry[c].order = o
                                               /\ transaction'[o] = entry[c].row
  <1>1. CASE UNCHANGED <<transaction, filing>>
    BY <1>1 DEF Exists
  <1>2. CASE AdminNext
    BY <1>2, AdminKeepsFigures DEF OrdInv
  <1>3. ASSUME NEW c \in Call, InsertTransaction(c)
        PROVE  /\ Exists(o) => Exists(o)'
               /\ Exists(o)' => \/ Exists(o) /\ transaction'[o].amount = transaction[o].amount
                                \/ /\ entry[c].order = o
                                   /\ transaction'[o] = entry[c].row
    <2>1. transaction \in [OrderId -> Transaction]
      BY DEF OrdInv, FinInv, FinTypeOK
    <2> QED
      BY <1>3, <2>1 DEF InsertTransaction, Exists
  <1> QED
    BY <1>1, <1>2, <1>3, OnlyFinanceWrites

LEMMA NextFiledExist == OrdInv /\ FiledExist /\ [Next]_vars => FiledExist'
  <1> SUFFICES ASSUME OrdInv, FiledExist, [Next]_vars PROVE FiledExist'
    OBVIOUS
  <1>1. CASE AdminNext
    BY <1>1, AdminKeepsFiled DEF OrdInv
  <1>2. CASE UNCHANGED filing
    <2>1. \A f \in Filing : filing[f].pc = "status" => filing[f].order \in OrderId
      BY DEF OrdInv, FinInv, FilingOK
    <2> QED
      BY <1>2, <2>1, TransactionsMade DEF FiledExist, Exists
  <1> QED
    BY <1>1, <1>2, OnlyFinanceWrites

LEMMA NextTransactionInv ==
    OrdInv /\ HistoryInv /\ TransactionInv /\ [Next]_vars => TransactionInv'
  <1> SUFFICES ASSUME OrdInv, HistoryInv, TransactionInv, [Next]_vars PROVE TransactionInv'
    OBVIOUS
  <1>a. \A c \in Call : entry[c] \in Entry
    BY DEF OrdInv, FinInv, FinTypeOK
  <1>1. ASSUME NEW o \in OrderId, Exists(o)'
        PROVE  Reached(o, "DELIVERED")' /\ transaction'[o].amount = order'[o].total
    <2>1. Reached(o, "DELIVERED") /\ transaction'[o].amount = order[o].total
      BY <1>1, TransactionsMade, PlatformAssumption DEF TransactionInv
    <2> QED
      BY <2>1, ReachedStays
  <1>2. ASSUME NEW c \in Call, entry'[c].order # NoOrder
        PROVE  Reached(entry[c].order, "DELIVERED")' /\ (entry[c].row.amount = order[entry[c].order].total)'
    <2>1. PICK o \in OrderId : /\ entry'[c].order = o /\ Reached(o, "DELIVERED")
                               /\ entry'[c].row.amount = order[o].total
      BY <1>a, <1>2, EntriesMade DEF TransactionInv, Entry
    <2>2. Reached(o, "DELIVERED")' /\ order'[o].total = order[o].total
      BY <2>1, ReachedStays
    <2> QED
      BY <2>1, <2>2 DEF Reached
  <1>3. ASSUME NEW c \in Call, Delivering(call'[c]) PROVE Reached(call[c].order, "DELIVERED")'
    <2>1. CASE Delivering(call[c]) /\ call'[c].order = call[c].order
      <3>1. PICK o \in OrderId : o = call[c].order /\ Reached(o, "DELIVERED")
        BY <2>1 DEF TransactionInv, Delivering, Settles, OrdInv, CallOK
      <3>2. Reached(o, "DELIVERED")'
        BY <3>1, ReachedStays
      <3> QED
        BY <2>1, <3>1, <3>2 DEF Reached
    <2>2. CASE \E k \in 1 .. Len(history'[call'[c].order]) :
                  history'[call'[c].order][k].to = "DELIVERED"
      BY <2>2 DEF Reached
    <2> QED
      BY <1>3, <2>1, <2>2, CallsDeliver
  <1>4. FiledExist'
    BY NextFiledExist DEF TransactionInv
  <1> QED
    BY <1>1, <1>2, <1>3, <1>4 DEF TransactionInv, Delivering

\* A transaction is only ever recorded for an order that was delivered, and for
\* that order's total: not even a delivery that overlaps a cancellation, dies
\* between its steps or races another one records anything else.
THEOREM TransactionFollowsDelivery == Spec => []TransactionMatchesOrder
  <1>1. Init => TransactionInv
    BY DEF Init, OrdInit, FinInit, TransactionInv, FiledExist, Exists, Delivering, NoTransaction,
           NoEntry, IdleFiling, IdleCall
  <1>2. TransactionInv => TransactionMatchesOrder
    BY DEF TransactionInv, TransactionMatchesOrder, Reached, Entries
  <1> QED
    BY <1>1, <1>2, NextTransactionInv, HistoryInvariant, PTL DEF Spec

---------------------------------------------------------------------------
(* Stock under orders.  No handler holds a negative level, and a checkout  *)
(* holds levels from which its items can be taken.                         *)

ViewHolds(w) ==
    /\ \A p \in Product : w.view[p].stock >= 0
    /\ w.pc = "checkout" => \A p \in In(w.items) : w.view[p].stock >= w.items[p]

OrdStockInv == StockInv /\ \A c \in Call : ViewHolds(call[c])

\* The steps that touch products and the stock requests.
LEMMA OnlyTheseWriteStock ==
    ASSUME [Next]_vars
    PROVE  \/ [InvNext]_invVars
           \/ /\ job' = job
              /\ \E c \in Call : \/ /\ call[c].pc = "checkout"
                                    /\ product' = StockTaken(call[c].items, call[c].view)
                                 \/ product' = StockReturned(call[c].items, call[c].view)
  <1> DEFINE Kept == UNCHANGED invVars
             Written(c) == /\ job' = job
                           /\ \/ /\ call[c].pc = "checkout"
                                 /\ product' = StockTaken(call[c].items, call[c].view)
                              \/ product' = StockReturned(call[c].items, call[c].view)
  <1>1. ASSUME NEW c \in Call, StartCall(c) PROVE Kept
    BY <1>1, StartsOnlyCalls
  <1>2. ASSUME NEW c \in Call, CommitCheckout(c) PROVE Written(c)
    BY <1>2 DEF CommitCheckout
  <1>3. ASSUME NEW c \in Call, CommitStatus(c) PROVE Kept \/ Written(c)
    BY <1>3 DEF CommitStatus, invVars
  <1>4. ASSUME NEW c \in Call, ReadProducts(c) \/ Notify(c) \/ Settle(c) PROVE Kept
    BY <1>4 DEF ReadProducts, Notify, Settle
  <1>5. ASSUME NEW c \in Call, Insert(c) \/ FailCall(c) PROVE Kept
    BY <1>5 DEF Insert, FailCall
  <1>6. ASSUME NEW s \in Seller, SetSuspended(s) PROVE Kept
    BY <1>6 DEF SetSuspended
  <1>7. CASE UNCHANGED invVars
    BY <1>7
  <1> QED
    BY <1>1, <1>2, <1>3, <1>4, <1>5, <1>6, <1>7 DEF Next, OrdNext, CallStep, vars

\* What a call holds of the products was read in one piece.
LEMMA CallsView ==
    ASSUME OrdInv, [Next]_vars, NEW c \in Call
    PROVE  /\ \/ call'[c].view \in {call[c].view, Unread}
              \/ \E items \in Quantities : call'[c].view = ViewOf(items)
           /\ call'[c].pc = "checkout" =>
                 \/ /\ call[c].pc = "checkout"
                    /\ call'[c].view = call[c].view /\ call'[c].items = call[c].items
                 \/ /\ call'[c].view = ViewOf(call'[c].items)
                    /\ \A p \in In(call'[c].items) : Suffices(product[p].stock, call'[c].items[p])
  <1> DEFINE MovesOn == call'[c].pc # "checkout" /\ call'[c].view \in {call[c].view, Unread}
             Read == /\ \E items \in Quantities : call'[c].view = ViewOf(items)
                     /\ call'[c].pc = "checkout" =>
                           /\ call'[c].view = ViewOf(call'[c].items)
                           /\ \A p \in In(call'[c].items) :
                                 Suffices(product[p].stock, call'[c].items[p])
  <1>a. call \in [Call -> CallRecord] /\ IdleCall.pc = "idle" /\ IdleCall.view = Unread
    BY DEF OrdInv, OrdTypeOK, IdleCall
  <1>1. CASE call'[c] = call[c]
    BY <1>1
  <1>2. ASSUME NEW d \in Call, NEW k \in CartId, StartCheckout(d, k)
        PROVE  call'[c] = call[c] \/ Read
    <2>1. cart[k].items \in Quantities
      BY DEF OrdInv, OrdTypeOK, CartRow
    <2>2. \A p \in In(cart[k].items) : Suffices(product[p].stock, cart[k].items[p])
      BY <1>2 DEF StartCheckout, CanCheckout, Sellable
    <2>3. call' = [call EXCEPT ![d] = [IdleCall EXCEPT !.pc = "checkout", !.cart = k,
                       !.items = cart[k].items, !.view = ViewOf(cart[k].items)]]
      BY <1>2 DEF StartCheckout
    <2> QED
      BY <1>a, <2>1, <2>2, <2>3 DEF IdleCall
  <1>3. ASSUME NEW d \in Call, NEW o, NEW op, Open(d, o, op) PROVE call'[c] = call[c] \/ MovesOn
    BY <1>3, <1>a DEF Open, IdleCall
  <1>4. ASSUME NEW d \in Call, CommitCheckout(d) PROVE call'[c] = call[c] \/ MovesOn
    <2>1. PICK new : call' = [call EXCEPT ![d].pc = "notify", ![d].todo = new]
      BY <1>4 DEF CommitCheckout
    <2> QED
      BY <1>a, <2>1 DEF CallRecord
  <1>5. ASSUME NEW d \in Call, ReadProducts(d) PROVE call'[c] = call[c] \/ Read
    <2>1. call[d].items \in Quantities
      BY <1>a DEF CallRecord
    <2> QED
      BY <1>5, <1>a, <2>1 DEF ReadProducts, CallRecord
  <1>6. ASSUME NEW d \in Call, CommitStatus(d) PROVE call'[c] = call[c] \/ MovesOn
    BY <1>6, <1>a DEF CommitStatus, CallRecord
  <1>7. ASSUME NEW d \in Call, Notify(d) PROVE call'[c] = call[c] \/ MovesOn
    <2>1. PICK o \in call[d].todo :
            call' = [call EXCEPT ![d] =
                IF call[d].todo # {o} THEN [call[d] EXCEPT !.todo = call[d].todo \ {o}]
                ELSE IF Settles(call[d].op) THEN [call[d] EXCEPT !.pc = "settle", !.todo = {}]
                ELSE IdleCall]
      BY <1>7 DEF Notify
    <2>2. call[d] \in CallRecord /\ call[d].pc = "notify"
      BY <1>7, <1>a DEF Notify
    <2>3. /\ call'[d].pc \in {"notify", "settle", "idle"}
          /\ call'[d].view \in {call[d].view, Unread}
      BY <1>a, <2>1, <2>2 DEF CallRecord
    <2> QED
      BY <1>a, <2>1, <2>3
  <1>8. ASSUME NEW d \in Call, Settle(d) PROVE call'[c] = call[c] \/ MovesOn
    BY <1>8, <1>a DEF Settle, CallRecord
  <1>9. ASSUME NEW d \in Call, Insert(d) \/ FailCall(d) PROVE call'[c] = call[c] \/ MovesOn
    BY <1>9, <1>a DEF Insert, FailCall
  <1>10. \/ call'[c] = call[c]
         \/ \E d \in Call :
               \/ \E k \in CartId : StartCheckout(d, k)
               \/ \E o \in OrderId, op \in StatusChange : Open(d, o, op)
               \/ CommitCheckout(d) \/ ReadProducts(d) \/ CommitStatus(d)
               \/ Notify(d) \/ Settle(d) \/ Insert(d) \/ FailCall(d)
    BY DEF Next, OrdNext, StartCall, CallStep, Accept, Reject, CancelMine, Prepare,
           Deliver, Cancel, SetSuspended, ordVars, vars, StatusChange
  <1>11. call'[c] = call[c] \/ MovesOn \/ Read
    BY <1>2, <1>3, <1>4, <1>5, <1>6, <1>7, <1>8, <1>9, <1>10
  <1> QED
    BY <1>1, <1>11

LEMMA NextStockHolds == OrdInv /\ OrdStockInv /\ [Next]_vars => OrdStockInv'
  <1> SUFFICES ASSUME OrdInv, OrdStockInv, [Next]_vars PROVE OrdStockInv'
    OBVIOUS
  <1>1. InvTypeOK'
    BY OrdersNextKeepsTypes DEF OrdInv
  <1>a. \A c \in Call : call[c] \in CallRecord /\ ViewHolds(call[c])
    BY DEF OrdInv, OrdTypeOK, OrdStockInv
  <1>b. \A p \in Product : product[p] \in Row /\ product[p].stock \in Int /\ product[p].stock >= 0
    BY DEF OrdInv, InvTypeOK, Row, OrdStockInv, StockInv, StockNeverNegative
  <1>2. StockInv'
    <2>1. CASE [InvNext]_invVars
      BY <2>1, NextStockInv DEF OrdStockInv
    <2>2. ASSUME NEW c \in Call, call[c].pc = "checkout", job' = job,
                 product' = StockTaken(call[c].items, call[c].view)
          PROVE  StockInv'
      <3>1. ASSUME NEW p \in In(call[c].items)
            PROVE  product'[p].stock = call[c].view[p].stock - call[c].items[p]
        BY <1>b, <2>2 DEF StockTaken, Row, In
      <3>2. ASSUME NEW p \in Product PROVE product'[p].stock >= 0
        <4>1. CASE p \in In(call[c].items)
          <5>1. call[c].view[p].stock \in Int /\ call[c].items[p] \in Int
            BY <1>a DEF CallRecord, View, Quantities
          <5> QED
            BY <1>a, <2>2, <3>1, <4>1, <5>1 DEF ViewHolds
        <4>2. CASE p \notin In(call[c].items)
          BY <1>b, <2>2, <4>2 DEF StockTaken
        <4> QED
          BY <4>1, <4>2
      <3> QED
        BY <1>1, <2>2, <3>2 DEF OrdStockInv, StockInv, StockNeverNegative, PendingNotNegative
    <2>3. ASSUME NEW c \in Call, job' = job, product' = StockReturned(call[c].items, call[c].view)
          PROVE  StockInv'
      <3>1. ASSUME NEW p \in In(call[c].items)
            PROVE  product'[p].stock = call[c].view[p].stock + call[c].items[p]
        BY <1>b, <2>3 DEF StockReturned, Row, In
      <3>2. ASSUME NEW p \in Product PROVE product'[p].stock >= 0
        <4>1. CASE p \in In(call[c].items)
          <5>1. /\ call[c].view[p].stock \in Int /\ call[c].items[p] \in Nat
                /\ call[c].view[p].stock >= 0
            BY <1>a DEF CallRecord, View, Quantities, ViewHolds
          <5> QED
            BY <3>1, <4>1, <5>1
        <4>2. CASE p \notin In(call[c].items)
          BY <1>b, <2>3, <4>2 DEF StockReturned
        <4> QED
          BY <4>1, <4>2
      <3> QED
        BY <1>1, <2>3, <3>2 DEF OrdStockInv, StockInv, StockNeverNegative, PendingNotNegative
    <2> QED
      BY <2>1, <2>2, <2>3, OnlyTheseWriteStock
  <1>3. ASSUME NEW c \in Call PROVE ViewHolds(call'[c])
    <2>1. \A p \in Product : Unread[p].stock >= 0
      BY DEF Unread
    <2>2. \A items : \A p \in Product : ViewOf(items)[p].stock >= 0
      BY <1>b DEF ViewOf, Unread
    <2>3. \A p \in Product : call'[c].view[p].stock >= 0
      BY <1>a, <2>1, <2>2, CallsView DEF ViewHolds
    <2>4. ASSUME call'[c].pc = "checkout", NEW p \in In(call'[c].items)
          PROVE  call'[c].view[p].stock >= call'[c].items[p]
      <3>1. CASE /\ call[c].pc = "checkout"
                 /\ call'[c].view = call[c].view /\ call'[c].items = call[c].items
        BY <1>a, <2>4, <3>1 DEF ViewHolds
      <3>2. CASE /\ call'[c].view = ViewOf(call'[c].items)
                 /\ \A q \in In(call'[c].items) : Suffices(product[q].stock, call'[c].items[q])
        BY <2>4, <3>2 DEF ViewOf, Suffices, In
      <3> QED
        BY <2>4, <3>1, <3>2, CallsView
    <2> QED
      BY <2>3, <2>4 DEF ViewHolds
  <1> QED
    BY <1>2, <1>3 DEF OrdStockInv

\* Orders and stock requests may overlap, lose each other's updates and fail at
\* any statement: no product ever has a negative stock.
THEOREM OrdersKeepStockNatural == Spec => []StockNeverNegative
  <1>1. Init => OrdStockInv
    BY InitStockInv DEF Init, OrdInit, OrdStockInv, ViewHolds, IdleCall, Unread
  <1>2. OrdStockInv => StockNeverNegative
    BY DEF OrdStockInv, StockInv
  <1> QED
    BY <1>1, <1>2, NextStockHolds, OrdersInvariant, PTL DEF Spec

\* Stock and status of a product are read together and written together, so the
\* pairs that handlers hold fit as well.
ViewFits(w) == \A p \in Product : Fits(w.view[p].status, w.view[p].stock)

OrdOfferInv == OrdStockInv /\ OfferInv /\ \A c \in Call : ViewFits(call[c])

\* What checkout and a cancellation write to a product fits.
LEMMA OrdersFit ==
    ASSUME NEW status \in ProductStatus \cup {"NONE"}, NEW stock \in Int, NEW quantity \in Int,
           Fits(status, stock), stock >= 0, quantity > 0
    PROVE  /\ stock >= quantity => Fits(StatusAfterExit(stock - quantity, status), stock - quantity)
           /\ Fits(StatusAfterReturn(stock, status), stock + quantity)
  BY DEF Fits, StatusAfterExit, StatusAfterReturn, ProductStatus

LEMMA NextOfferHolds == HarmlessEdits /\ OrdInv /\ OrdOfferInv /\ [Next]_vars => OrdOfferInv'
  <1> SUFFICES ASSUME HarmlessEdits, OrdInv, OrdOfferInv, [Next]_vars PROVE OrdOfferInv'
    OBVIOUS
  <1>1. OrdStockInv' /\ StockInv'
    BY NextStockHolds DEF OrdOfferInv, OrdStockInv
  <1>a. \A c \in Call : call[c] \in CallRecord /\ ViewHolds(call[c]) /\ ViewFits(call[c])
    BY DEF OrdInv, OrdTypeOK, OrdStockInv, OrdOfferInv
  <1>b. \A p \in Product : product[p] \in Row /\ Fits(product[p].status, product[p].stock)
    BY DEF OrdInv, InvTypeOK, OrdOfferInv, OfferInv, OfferedIffInStock, Fits
  <1>c. \A c \in Call : \A p \in In(call[c].items) :
           /\ call[c].view[p].stock \in Int /\ call[c].view[p].stock >= 0
           /\ call[c].view[p].status \in ProductStatus \cup {"NONE"}
           /\ call[c].items[p] \in Int /\ call[c].items[p] > 0 /\ p \in Product
    BY <1>a DEF CallRecord, View, Quantities, ViewHolds, In
  <1>2. OfferInv'
    <2>1. CASE [InvNext]_invVars
      BY <1>1, <2>1, NextFits DEF OrdOfferInv, OfferInv
    <2>2. ASSUME NEW c \in Call, call[c].pc = "checkout", job' = job,
                 product' = StockTaken(call[c].items, call[c].view)
          PROVE  OfferInv'
      <3>1. ASSUME NEW p \in Product PROVE Fits(product'[p].status, product'[p].stock)
        <4>1. CASE p \in In(call[c].items)
          <5> DEFINE left == call[c].view[p].stock - call[c].items[p]
                     st == StatusAfterExit(left, call[c].view[p].status)
          <5>1. call[c].view[p].stock >= call[c].items[p]
            BY <1>a, <2>2, <4>1 DEF ViewHolds
          <5>2. Fits(st, left)
            BY <1>a, <1>c, <4>1, <5>1, OrdersFit DEF ViewFits
          <5>3. product'[p] = [product[p] EXCEPT !.stock = left, !.status = st]
            BY <2>2, <4>1 DEF StockTaken
          <5> HIDE DEF left, st
          <5> QED
            BY <1>b, <5>2, <5>3 DEF Row
        <4>2. CASE p \notin In(call[c].items)
          BY <1>b, <2>2, <4>2 DEF StockTaken
        <4> QED
          BY <4>1, <4>2
      <3> QED
        BY <1>1, <2>2, <3>1 DEF OrdOfferInv, OfferInv, OfferedIffInStock, PendingFits, Fits
    <2>3. ASSUME NEW c \in Call, job' = job, product' = StockReturned(call[c].items, call[c].view)
          PROVE  OfferInv'
      <3>1. ASSUME NEW p \in Product PROVE Fits(product'[p].status, product'[p].stock)
        <4>1. CASE p \in In(call[c].items)
          <5> DEFINE back == call[c].view[p].stock + call[c].items[p]
                     st == StatusAfterReturn(call[c].view[p].stock, call[c].view[p].status)
          <5>1. Fits(st, back)
            BY <1>a, <1>c, <4>1, OrdersFit DEF ViewFits
          <5>2. product'[p] = [product[p] EXCEPT !.stock = back, !.status = st]
            BY <2>3, <4>1 DEF StockReturned
          <5> HIDE DEF back, st
          <5> QED
            BY <1>b, <5>1, <5>2 DEF Row
        <4>2. CASE p \notin In(call[c].items)
          BY <1>b, <2>3, <4>2 DEF StockReturned
        <4> QED
          BY <4>1, <4>2
      <3> QED
        BY <1>1, <2>3, <3>1 DEF OrdOfferInv, OfferInv, OfferedIffInStock, PendingFits, Fits
    <2> QED
      BY <2>1, <2>2, <2>3, OnlyTheseWriteStock
  <1>3. ASSUME NEW c \in Call PROVE ViewFits(call'[c])
    <2>1. \A p \in Product : Fits(Unread[p].status, Unread[p].stock)
      BY DEF Unread, Fits
    <2>2. \A items : \A p \in Product : Fits(ViewOf(items)[p].status, ViewOf(items)[p].stock)
      BY <1>b, <2>1 DEF ViewOf
    <2> QED
      BY <1>a, <2>1, <2>2, CallsView DEF ViewFits
  <1> QED
    BY <1>1, <1>2, <1>3 DEF OrdOfferInv

\* With the seller's direct edits kept off stock and offer, no overlap of
\* checkouts, cancellations and stock requests puts a product without stock on
\* offer or leaves one with stock sold out.
THEOREM OrdersKeepOffer == HarmlessEdits => (Spec => []OfferedIffInStock)
  <1> SUFFICES ASSUME HarmlessEdits PROVE Spec => []OfferedIffInStock
    OBVIOUS
  <1>1. Init => OrdOfferInv
    BY InitStockInv, InitOfferInv
       DEF Init, OrdInit, OrdOfferInv, OrdStockInv, ViewHolds, ViewFits, IdleCall, Unread, Fits
  <1>2. OrdOfferInv => OfferedIffInStock
    BY DEF OrdOfferInv, OfferInv
  <1> QED
    BY <1>1, <1>2, NextOfferHolds, OrdersInvariant, PTL DEF Spec
---------------------------------------------------------------------------
(* Notifications are earned.  What makes NoticesAreEarned inductive: the   *)
(* calls that have yet to send a notification count as if they had.        *)

\* The calls that are to tell of order o with a notification of that type.
Tellers(o, type) == {c \in Call : call[c].pc = "notify" /\ o \in call[c].todo
                                     /\ NoticeOf[call[c].op] = type}
Told(o, type) == Cardinality(Notices(o, {type}))
Made(o, type) == Cardinality(Entries(o, {StatusTold[type]}))

Earned(o, type) ==
    IsFiniteSet(Tellers(o, type)) /\ Told(o, type) + Cardinality(Tellers(o, type)) <= Made(o, type)

EarnedInv == \A o \in OrderId, type \in DOMAIN StatusTold : Earned(o, type)

\* Counting: a set of positions of a sequence that may get the next one.
LEMMA OnePosition ==
    ASSUME NEW n \in Nat, NEW now, now \subseteq 1 .. n
    PROVE  Cardinality(now) \in Nat /\ Cardinality(now \cup {n + 1}) = Cardinality(now) + 1
  <1>1. IsFiniteSet(1 .. n)
    BY FS_Interval
  <1>2. IsFiniteSet(now)
    BY <1>1, FS_Subset
  <1>3. n + 1 \notin now
    OBVIOUS
  <1> QED
    BY <1>2, <1>3, FS_CardinalityType, FS_AddElement

\* A set that may lose elements, gets one, or loses one for sure.
LEMMA OneMoreOrLess ==
    ASSUME NEW now, NEW next, IsFiniteSet(now)
    PROVE  /\ Cardinality(now) \in Nat
           /\ next \subseteq now => IsFiniteSet(next) /\ Cardinality(next) <= Cardinality(now)
           /\ \A c : next \subseteq now \cup {c} =>
                 IsFiniteSet(next) /\ Cardinality(next) <= Cardinality(now) + 1
           /\ \A c : c \in now /\ next \subseteq now \ {c} =>
                 IsFiniteSet(next) /\ Cardinality(next) + 1 <= Cardinality(now)
  <1>1. Cardinality(now) \in Nat
    BY FS_CardinalityType
  <1>2. ASSUME next \subseteq now
        PROVE  IsFiniteSet(next) /\ Cardinality(next) <= Cardinality(now)
    BY <1>2, FS_Subset
  <1>3. ASSUME NEW c, next \subseteq now \cup {c}
        PROVE  IsFiniteSet(next) /\ Cardinality(next) <= Cardinality(now) + 1
    <2>1. /\ IsFiniteSet(now \cup {c})
          /\ Cardinality(now \cup {c}) \in {Cardinality(now), Cardinality(now) + 1}
      BY FS_AddElement
    <2>2. IsFiniteSet(next) /\ Cardinality(next) <= Cardinality(now \cup {c})
      BY <1>3, <2>1, FS_Subset
    <2>3. Cardinality(next) \in Nat
      BY <2>2, FS_CardinalityType
    <2> QED
      BY <1>1, <2>1, <2>2, <2>3
  <1>4. ASSUME NEW c, c \in now, next \subseteq now \ {c}
        PROVE  IsFiniteSet(next) /\ Cardinality(next) + 1 <= Cardinality(now)
    <2>1. IsFiniteSet(now \ {c}) /\ Cardinality(now \ {c}) = Cardinality(now) - 1
      BY <1>4, FS_RemoveElement
    <2>2. IsFiniteSet(next) /\ Cardinality(next) <= Cardinality(now \ {c})
      BY <1>4, <2>1, FS_Subset
    <2>3. Cardinality(next) \in Nat
      BY <2>2, FS_CardinalityType
    <2> QED
      BY <1>1, <2>1, <2>2, <2>3
  <1> QED
    BY <1>1, <1>2, <1>3, <1>4

\* Of the notifications of an order, and of its changes, a step adds one at most.
LEMMA NoticesCount ==
    ASSUME OrdInv, NEW o \in OrderId, NEW type
    PROVE  /\ Told(o, type) \in Nat
           /\ notification'[o] = notification[o] => Told(o, type)' = Told(o, type)
           /\ \A n : notification'[o] = Append(notification[o], n) =>
                 Told(o, type)' = Told(o, type) + (IF n.type = type THEN 1 ELSE 0)
  <1> DEFINE rows == notification[o]
  <1>1. rows \in Seq(Notice)
    BY DEF OrdInv, FinInv, FinTypeOK
  <1>2. PICK now, next : now = Notices(o, {type}) /\ next = Notices(o, {type})'
    OBVIOUS
  <1>3. Len(rows) \in Nat /\ now \subseteq 1 .. Len(rows)
    BY <1>1, <1>2 DEF Notices
  <1>4. notification'[o] = notification[o] => next = now
    BY <1>2 DEF Notices
  <1>5. ASSUME NEW n, notification'[o] = Append(rows, n)
        PROVE  next = IF n.type = type THEN now \cup {Len(rows) + 1} ELSE now
    <2>1. /\ Len(notification'[o]) = Len(rows) + 1
          /\ \A i \in 1 .. Len(rows) : notification'[o][i] = rows[i]
          /\ notification'[o][Len(rows) + 1] = n
      BY <1>1, <1>5
    <2> QED
      BY <1>2, <1>3, <2>1, SMTT(30) DEF Notices
  <1>6. Told(o, type) = Cardinality(now) /\ Told(o, type)' = Cardinality(next)
    BY <1>2 DEF Told
  <1>7. /\ Cardinality(now) \in Nat
        /\ Cardinality(now \cup {Len(rows) + 1}) = Cardinality(now) + 1
    <2>1. PICK n \in Nat : n = Len(rows) /\ now \subseteq 1 .. n
      BY <1>3
    <2>2. Cardinality(now) \in Nat
      BY <2>1, OnePosition
    <2>3. Cardinality(now \cup {n + 1}) = Cardinality(now) + 1
      BY <2>1, OnePosition
    <2> QED
      BY <2>1, <2>2, <2>3
  <1>8. ASSUME NEW n, notification'[o] = Append(rows, n)
        PROVE  Told(o, type)' = Told(o, type) + (IF n.type = type THEN 1 ELSE 0)
    <2>1. CASE n.type = type
      <3>1. Cardinality(next) = Cardinality(now) + 1
        BY <1>5, <1>7, <1>8, <2>1
      <3> QED
        BY <1>6, <2>1, <3>1
    <2>2. CASE ~(n.type = type)
      <3>1. next = now
        BY <1>5, <1>8, <2>2
      <3> QED
        BY <1>6, <1>7, <2>2, <3>1
    <2> QED
      BY <2>1, <2>2
  <1>9. /\ Told(o, type) \in Nat
        /\ notification'[o] = notification[o] => Told(o, type)' = Told(o, type)
    BY <1>4, <1>6, <1>7
  <1> QED
    BY <1>8, <1>9, Zenon

LEMMA EntriesCount ==
    ASSUME OrdInv, NEW o \in OrderId, NEW type
    PROVE  /\ Made(o, type) \in Nat
           /\ history'[o] = history[o] => Made(o, type)' = Made(o, type)
           /\ \A h : history'[o] = Append(history[o], h) =>
                 Made(o, type)' = Made(o, type) + (IF h.to = StatusTold[type] THEN 1 ELSE 0)
  <1> DEFINE rows == history[o]
  <1>1. rows \in Seq(HistoryRow)
    BY DEF OrdInv, OrdTypeOK
  <1>2. PICK now, next : /\ now = Entries(o, {StatusTold[type]})
                         /\ next = Entries(o, {StatusTold[type]})'
    OBVIOUS
  <1>3. Len(rows) \in Nat /\ now \subseteq 1 .. Len(rows)
    BY <1>1, <1>2 DEF Entries
  <1>4. history'[o] = history[o] => next = now
    BY <1>2 DEF Entries
  <1>5. ASSUME NEW h, history'[o] = Append(rows, h)
        PROVE  next = IF h.to = StatusTold[type] THEN now \cup {Len(rows) + 1} ELSE now
    <2>1. /\ Len(history'[o]) = Len(rows) + 1
          /\ \A i \in 1 .. Len(rows) : history'[o][i] = rows[i]
          /\ history'[o][Len(rows) + 1] = h
      BY <1>1, <1>5
    <2> QED
      BY <1>2, <1>3, <2>1, SMTT(30) DEF Entries
  <1>6. Made(o, type) = Cardinality(now) /\ Made(o, type)' = Cardinality(next)
    BY <1>2 DEF Made
  <1>7. /\ Cardinality(now) \in Nat
        /\ Cardinality(now \cup {Len(rows) + 1}) = Cardinality(now) + 1
    <2>1. PICK n \in Nat : n = Len(rows) /\ now \subseteq 1 .. n
      BY <1>3
    <2>2. Cardinality(now) \in Nat
      BY <2>1, OnePosition
    <2>3. Cardinality(now \cup {n + 1}) = Cardinality(now) + 1
      BY <2>1, OnePosition
    <2> QED
      BY <2>1, <2>2, <2>3
  <1>8. ASSUME NEW n, history'[o] = Append(rows, n)
        PROVE  Made(o, type)' = Made(o, type) + (IF n.to = StatusTold[type] THEN 1 ELSE 0)
    <2>1. CASE n.to = StatusTold[type]
      <3>1. Cardinality(next) = Cardinality(now) + 1
        BY <1>5, <1>7, <1>8, <2>1
      <3> QED
        BY <1>6, <2>1, <3>1
    <2>2. CASE ~(n.to = StatusTold[type])
      <3>1. next = now
        BY <1>5, <1>8, <2>2
      <3> QED
        BY <1>6, <1>7, <2>2, <3>1
    <2> QED
      BY <2>1, <2>2
  <1>9. /\ Made(o, type) \in Nat
        /\ history'[o] = history[o] => Made(o, type)' = Made(o, type)
    BY <1>4, <1>6, <1>7
  <1> QED
    BY <1>8, <1>9, Zenon

\* What an admin's step sends.
LEMMA AdminInforms ==
    ASSUME OrdInv, AdminNext, NEW o \in OrderId
    PROVE  \/ notification'[o] = notification[o]
           \/ \E n : n.type = "PAYMENT_UPDATE" /\ notification'[o] = Append(notification[o], n)
  <1>1. CASE notification' = notification
    BY <1>1
  <1>2. ASSUME NEW f \in Filing, InformSeller(f)
        PROVE  \/ notification'[o] = notification[o]
               \/ \E n : n.type = "PAYMENT_UPDATE" /\ notification'[o] = Append(notification[o], n)
    <2>1. PICK u, n : /\ n.type = "PAYMENT_UPDATE"
                      /\ notification' = [notification EXCEPT ![u] = Append(@, n)]
      BY <1>2 DEF InformSeller, Inform
    <2>2. notification \in [OrderId -> Seq(Notice)]
      BY DEF OrdInv, FinInv, FinTypeOK
    <2> QED
      BY <2>1, <2>2
  <1> QED
    BY <1>1, <1>2 DEF AdminNext, FilingStep, FileConfig, CommitConfig, AuditConfig, CreateMethod,
         UpdateMethod, WriteMethod, AuditMethod, FileStatus, WriteStatus, AuditStatus, FailFiling

\* The steps that notify, or come to it.
LEMMA NotifyingSteps ==
    ASSUME OrdInv, [Next]_vars
    PROVE  \/ /\ UNCHANGED notification
              /\ \A c \in Call : call'[c].pc = "notify" => call'[c] = call[c]
           \/ AdminNext /\ UNCHANGED call
           \/ \E c \in Call : CommitCheckout(c) \/ CommitStatus(c) \/ Notify(c)
  <1> DEFINE NoNews == /\ UNCHANGED notification
                       /\ \A c \in Call : call'[c].pc = "notify" => call'[c] = call[c]
  <1>a. call \in [Call -> CallRecord] /\ IdleCall.pc = "idle"
    BY DEF OrdInv, OrdTypeOK, IdleCall
  <1>1. CASE UNCHANGED <<call, notification>>
    BY <1>1
  <1>2. ASSUME NEW d \in Call, NEW k \in CartId, StartCheckout(d, k) PROVE NoNews
    BY <1>2, <1>a DEF StartCheckout, IdleCall, finVars
  <1>3. ASSUME NEW d \in Call, NEW o, NEW op, Open(d, o, op) PROVE NoNews
    BY <1>3, <1>a DEF Open, IdleCall, finVars
  <1>4. ASSUME NEW d \in Call, ReadProducts(d) PROVE NoNews
    BY <1>4, <1>a DEF ReadProducts, CallRecord, finVars
  <1>5. ASSUME NEW d \in Call, Settle(d) PROVE NoNews
    BY <1>5, <1>a DEF Settle, CallRecord
  <1>6. ASSUME NEW d \in Call, Insert(d) \/ FailCall(d) PROVE NoNews
    BY <1>6, <1>a DEF Insert, InsertTransaction, FailCall
  <1>7. \/ UNCHANGED <<call, notification>>
        \/ AdminNext /\ UNCHANGED call
        \/ \E d \in Call :
              \/ \E k \in CartId : StartCheckout(d, k)
              \/ \E o \in OrderId, op \in StatusChange : Open(d, o, op)
              \/ CommitCheckout(d) \/ ReadProducts(d) \/ CommitStatus(d)
              \/ Notify(d) \/ Settle(d) \/ Insert(d) \/ FailCall(d)
    BY DEF Next, OrdNext, StartCall, CallStep, Accept, Reject, CancelMine, Prepare,
           Deliver, Cancel, SetSuspended, ordVars, vars, finVars, StatusChange
  <1> QED
    BY <1>1, <1>2, <1>3, <1>4, <1>5, <1>6, <1>7

\* What a step may do to the notifications of an order and those to be sent.
Quiet(o, type) ==
    /\ Tellers(o, type)' \subseteq Tellers(o, type)
    /\ \/ notification'[o] = notification[o]
       \/ \E n : n.type # type /\ notification'[o] = Append(notification[o], n)
Earns(o, type) ==
    /\ \E c : Tellers(o, type)' \subseteq Tellers(o, type) \cup {c}
    /\ notification'[o] = notification[o]
    /\ \E h : h.to = StatusTold[type] /\ history'[o] = Append(history[o], h)
Tells(o, type) ==
    /\ \E c \in Tellers(o, type) : Tellers(o, type)' \subseteq Tellers(o, type) \ {c}
    /\ UNCHANGED history
    /\ \E n : n.type = type /\ notification'[o] = Append(notification[o], n)

LEMMA CheckoutEarns ==
    ASSUME OrdInv, StatusIsLastEntry, NEW c \in Call, CommitCheckout(c),
           NEW o \in OrderId, NEW type \in DOMAIN StatusTold
    PROVE  Quiet(o, type) \/ Earns(o, type)
  <1>1. notification' = notification
    BY DEF CommitCheckout, finVars
  <1>2. PICK new \in SUBSET {u \in OrderId : order[u].status = "NONE"} :
           /\ history' = [u \in OrderId |-> IF u \notin new THEN history[u] ELSE <<Placement>>]
           /\ call' = [call EXCEPT ![c].pc = "notify", ![c].todo = new]
    BY DEF CommitCheckout, Placement
  <1>3. call[c].op = "checkout" /\ call \in [Call -> CallRecord]
    BY DEF OrdInv, OrdTypeOK, CallOK, CommitCheckout
  <1>4. /\ \A d \in Call \ {c} : call'[d] = call[d]
        /\ call'[c].todo = new /\ call'[c].op = "checkout"
    BY <1>2, <1>3 DEF CallRecord
  <1>5. Tellers(o, type)' \subseteq Tellers(o, type) \cup {c}
    BY <1>4 DEF Tellers
  <1>6. CASE c \in Tellers(o, type)'
    <2>1. o \in new /\ type = "NEW_ORDER"
      BY <1>4, <1>6 DEF Tellers, NoticeOf
    <2>2. history'[o] = <<Placement>> /\ history[o] = <<>>
      BY <1>2, <2>1 DEF StatusIsLastEntry
    <2>3. history'[o] = Append(history[o], Placement) /\ Placement.to = StatusTold[type]
      BY <2>1, <2>2 DEF Placement, StatusTold
    <2> QED
      BY <1>1, <1>5, <2>3 DEF Earns
  <1>7. CASE c \notin Tellers(o, type)'
    BY <1>1, <1>5, <1>7 DEF Quiet
  <1> QED
    BY <1>6, <1>7

LEMMA StatusEarns ==
    ASSUME OrdInv, NEW c \in Call, CommitStatus(c),
           NEW o \in OrderId, NEW type \in DOMAIN StatusTold
    PROVE  Quiet(o, type) \/ Earns(o, type)
  <1>1. notification' = notification
    BY DEF CommitStatus, finVars
  <1>2. /\ call \in [Call -> CallRecord] /\ call[c].op \in StatusChange
        /\ call[c].pc = "commit" /\ call[c].order \in OrderId
    BY DEF OrdInv, OrdTypeOK, CallOK, CommitStatus, CallRecord
  <1>3. /\ \A d \in Call \ {c} : call'[d] = call[d]
        /\ call'[c].todo = {call[c].order} /\ call'[c].op = call[c].op
    BY <1>2 DEF CommitStatus, CallRecord
  <1>4. Tellers(o, type)' \subseteq Tellers(o, type) \cup {c}
    BY <1>3 DEF Tellers
  <1>5. CASE c \in Tellers(o, type)'
    <2>1. o = call[c].order /\ type = NoticeOf[call[c].op]
      BY <1>3, <1>5 DEF Tellers
    <2>2. history'[o] = Append(history[o], ChangeBy(call[c]))
      BY <2>1, <1>2 DEF CommitStatus, SetStatus, ChangeBy, OrdInv, OrdTypeOK
    <2>3. ChangeBy(call[c]).to = StatusTold[type]
      BY <1>2, <2>1 DEF ChangeBy, StatusTold, NoticeOf, StatusChange, Target
    <2> QED
      BY <1>1, <1>4, <2>2, <2>3 DEF Earns
  <1>6. CASE c \notin Tellers(o, type)'
    BY <1>1, <1>4, <1>6 DEF Quiet
  <1> QED
    BY <1>5, <1>6

LEMMA NotifyTells ==
    ASSUME OrdInv, NEW c \in Call, Notify(c), NEW o \in OrderId, NEW type \in DOMAIN StatusTold
    PROVE  Quiet(o, type) \/ Tells(o, type)
  <1>1. PICK u \in call[c].todo :
          /\ Inform(u, NoticeOf[call[c].op], Addressee(call[c].op))
          /\ call' = [call EXCEPT ![c] =
                IF call[c].todo # {u} THEN [call[c] EXCEPT !.todo = call[c].todo \ {u}]
                ELSE IF Settles(call[c].op) THEN [call[c] EXCEPT !.pc = "settle", !.todo = {}]
                ELSE IdleCall]
    BY DEF Notify
  <1>2. /\ call \in [Call -> CallRecord] /\ call[c].pc = "notify" /\ UNCHANGED history
        /\ notification \in [OrderId -> Seq(Notice)] /\ u \in OrderId
    BY <1>1 DEF OrdInv, FinInv, FinTypeOK, OrdTypeOK, Notify, CallRecord
  <1>3. /\ \A d \in Call \ {c} : call'[d] = call[d]
        /\ call'[c].pc = "notify" => call'[c].op = call[c].op
                                     /\ call'[c].todo = call[c].todo \ {u}
    BY <1>1, <1>2 DEF CallRecord, IdleCall
  <1>4. Tellers(o, type)' \subseteq Tellers(o, type)
    BY <1>2, <1>3 DEF Tellers
  <1> DEFINE n == [type |-> NoticeOf[call[c].op], to |-> Addressee(call[c].op)]
  <1>5. notification' = [notification EXCEPT ![u] = Append(notification[u], n)]
    BY <1>1 DEF Inform
  <1>6. CASE o # u
    BY <1>2, <1>4, <1>5, <1>6 DEF Quiet
  <1>7. CASE o = u /\ n.type # type
    BY <1>2, <1>4, <1>5, <1>7 DEF Quiet
  <1>8. CASE o = u /\ n.type = type
    <2>1. c \in Tellers(o, type) /\ c \notin Tellers(o, type)'
      BY <1>1, <1>2, <1>3, <1>8 DEF Tellers
    <2> QED
      BY <1>2, <1>4, <1>5, <1>8, <2>1 DEF Tells
  <1> QED
    BY <1>6, <1>7, <1>8

LEMMA EarnedSteps ==
    ASSUME OrdInv, StatusIsLastEntry, [Next]_vars, NEW o \in OrderId, NEW type \in DOMAIN StatusTold
    PROVE  Quiet(o, type) \/ Earns(o, type) \/ Tells(o, type)
  <1>1. CASE /\ UNCHANGED notification
             /\ \A c \in Call : call'[c].pc = "notify" => call'[c] = call[c]
    BY <1>1 DEF Quiet, Tellers
  <1>2. CASE AdminNext /\ UNCHANGED call
    <2>1. type # "PAYMENT_UPDATE"
      BY DEF StatusTold
    <2>2. Tellers(o, type)' = Tellers(o, type)
      BY <1>2 DEF Tellers
    <2> QED
      BY <1>2, <2>1, <2>2, AdminInforms DEF Quiet
  <1> QED
    BY <1>1, <1>2, NotifyingSteps, CheckoutEarns, StatusEarns, NotifyTells

LEMMA NextEarned ==
    ASSUME OrdInv, StatusIsLastEntry, [Next]_vars, NEW o \in OrderId, NEW type \in DOMAIN StatusTold,
           Earned(o, type)
    PROVE  Earned(o, type)'
  <1>1. PICK now, next, told, made, told2, made2 :
           /\ now = Tellers(o, type) /\ next = Tellers(o, type)'
           /\ told = Told(o, type) /\ told2 = Told(o, type)'
           /\ made = Made(o, type) /\ made2 = Made(o, type)'
    OBVIOUS
  <1>2. /\ told \in Nat /\ made \in Nat /\ IsFiniteSet(now)
        /\ told + Cardinality(now) <= made
    BY <1>1, NoticesCount, EntriesCount DEF Earned
  <1>3. Cardinality(now) \in Nat
    BY <1>2, FS_CardinalityType
  <1>4. made2 = made \/ made2 = made + 1
    <2>1. \/ history'[o] = history[o]
          \/ history[o] = <<>> /\ history'[o] = <<Placement>>
          \/ \E h : history'[o] = Append(history[o], h)
      BY HistoryChanges
    <2>2. history[o] = <<>> /\ history'[o] = <<Placement>> => history'[o] = Append(history[o], Placement)
      OBVIOUS
    <2>3. history'[o] = history[o] \/ \E h : history'[o] = Append(history[o], h)
      BY <2>1, <2>2
    <2>4. ASSUME NEW h, history'[o] = Append(history[o], h)
          PROVE  Made(o, type)' = Made(o, type) + (IF h.to = StatusTold[type] THEN 1 ELSE 0)
      BY <2>4, EntriesCount, Zenon
    <2>5. ASSUME NEW h, history'[o] = Append(history[o], h) PROVE made2 = made \/ made2 = made + 1
      <3>1. made2 = made + (IF h.to = StatusTold[type] THEN 1 ELSE 0)
        BY <1>1, <2>4, <2>5, Zenon
      <3> QED
        BY <1>2, <3>1
    <2>6. CASE history'[o] = history[o]
      BY <1>1, <2>6, EntriesCount, Zenon
    <2> QED
      BY <2>3, <2>5, <2>6
  <1>5. CASE Quiet(o, type)
    <2>1. told2 = told
      BY <1>1, <1>2, <1>5, NoticesCount DEF Quiet
    <2>2. IsFiniteSet(next) /\ Cardinality(next) <= Cardinality(now)
      BY <1>1, <1>2, <1>5, OneMoreOrLess DEF Quiet
    <2>3. Cardinality(next) \in Nat
      BY <2>2, FS_CardinalityType
    <2> QED
      BY <1>1, <1>2, <1>3, <1>4, <2>1, <2>2, <2>3 DEF Earned
  <1>6. CASE Earns(o, type)
    <2>1. told2 = told /\ made2 = made + 1
      <3>1. PICK h : h.to = StatusTold[type] /\ history'[o] = Append(history[o], h)
        BY <1>6 DEF Earns
      <3>2. Made(o, type)' = Made(o, type) + (IF h.to = StatusTold[type] THEN 1 ELSE 0)
        BY <3>1, EntriesCount, Zenon
      <3>3. Told(o, type)' = Told(o, type)
        BY <1>6, NoticesCount DEF Earns
      <3> QED
        BY <1>1, <3>1, <3>2, <3>3
    <2>2. IsFiniteSet(next) /\ Cardinality(next) <= Cardinality(now) + 1
      <3>1. PICK c : next \subseteq now \cup {c}
        BY <1>1, <1>6 DEF Earns
      <3> QED
        BY <1>2, <3>1, OneMoreOrLess, Zenon
    <2>3. Cardinality(next) \in Nat
      BY <2>2, FS_CardinalityType
    <2> QED
      BY <1>1, <1>2, <1>3, <2>1, <2>2, <2>3 DEF Earned
  <1>7. CASE Tells(o, type)
    <2>1. told2 = told + 1 /\ made2 = made
      BY <1>1, <1>2, <1>7, NoticesCount, EntriesCount DEF Tells
    <2>2. IsFiniteSet(next) /\ Cardinality(next) + 1 <= Cardinality(now)
      BY <1>1, <1>2, <1>7, OneMoreOrLess DEF Tells
    <2>3. Cardinality(next) \in Nat
      BY <2>2, FS_CardinalityType
    <2> QED
      BY <1>1, <1>2, <1>3, <2>1, <2>2, <2>3 DEF Earned
  <1> QED
    BY <1>5, <1>6, <1>7, EarnedSteps

LEMMA EarnedInit == Init => EarnedInv
  <1> SUFFICES ASSUME Init, NEW o \in OrderId, NEW type \in DOMAIN StatusTold PROVE Earned(o, type)
    BY DEF EarnedInv
  <1>1. notification[o] = <<>> /\ history[o] = <<>> /\ \A c \in Call : call[c].pc = "idle"
    BY DEF Init, FinInit, OrdInit, NoNotices, IdleCall
  <1>2. Tellers(o, type) = {} /\ Notices(o, {type}) = {} /\ Entries(o, {StatusTold[type]}) = {}
    BY <1>1 DEF Tellers, Notices, Entries
  <1> QED
    BY <1>2, FS_EmptySet DEF Earned, Told, Made

\* However calls overlap and fail, nobody is told of a change of an order that
\* did not happen, nor told twice of one that did.
THEOREM NoticesEarned == Spec => []NoticesAreEarned
  <1>1. OrdInv /\ HistoryInv /\ EarnedInv /\ [Next]_vars => EarnedInv'
    BY NextEarned DEF EarnedInv, HistoryInv
  <1>2. OrdInv /\ EarnedInv => NoticesAreEarned
    <2> SUFFICES ASSUME OrdInv, EarnedInv, NEW o \in OrderId, NEW type \in DOMAIN StatusTold
                 PROVE  Told(o, type) <= Made(o, type)
      BY DEF NoticesAreEarned, Told, Made
    <2>1. Told(o, type) \in Nat /\ Made(o, type) \in Nat /\ Earned(o, type)
      BY NoticesCount, EntriesCount DEF EarnedInv
    <2>2. Cardinality(Tellers(o, type)) \in Nat
      BY <2>1, FS_CardinalityType DEF Earned
    <2> QED
      BY <2>1, <2>2 DEF Earned
  <1> QED
    BY <1>1, <1>2, EarnedInit, HistoryInvariant, PTL DEF Spec

---------------------------------------------------------------------------
(* Requests about orders and about stock one at a time.  What makes the    *)
(* properties inductive: the request in flight still knows the rows as     *)
(* they are.                                                               *)

CallCurrent(w) ==
    /\ w.pc = "checkout" =>
          /\ cart[w.cart].status = "ACTIVE" /\ w.items # Nothing /\ w.view = ViewOf(w.items)
          /\ \A p \in In(w.items) : product[p].status # "NONE"
    /\ w.pc \in {"read", "commit"} =>
          /\ w.seen = order[w.order].status /\ w.items = order[w.order].items
          /\ w.seen \in Allowed[w.op]
    /\ w.pc = "commit" /\ GivesBack(w.op) => w.view = ViewOf(w.items)

\* The rows of the products that were ordered are there.
BoughtExist ==
    \A o \in OrderId : order[o].status # "NONE" =>
        \A p \in In(order[o].items) : product[p].status # "NONE"

SerialInv ==
    /\ OneAtATime
    /\ \A j \in StockJob : JobCurrent(job[j])
    /\ BoughtExist
    /\ \A c \in Call : CallCurrent(call[c])

LEMMA SerialInit == Init => SerialInv
  <1> SUFFICES ASSUME Init PROVE SerialInv
    OBVIOUS
  <1>1. \A c \in Call : call[c].pc = "idle"
    BY DEF Init, OrdInit, IdleCall
  <1>2. \A o \in OrderId : order[o].status = "NONE"
    BY DEF Init, OrdInit, NoOrderRow
  <1>3. SerialJobs
    BY InitSerialJobs DEF Init
  <1> QED
    BY <1>1, <1>2, <1>3 DEF SerialInv, SerialJobs, OneAtATime, BoughtExist, CallCurrent

\* A call comes to know rows only in a step that leaves them as they are.
LEMMA SerialCalls ==
    ASSUME OrdInv, [Next]_vars, NEW c \in Call, CallCurrent(call[c])
    PROVE  \/ call'[c] = call[c]
           \/ call'[c].pc \notin {"checkout", "read", "commit"}
           \/ UNCHANGED <<invVars, order, cart>> /\ CallCurrent(call[c])'
  <1> DEFINE MovesOn == call'[c].pc \notin {"checkout", "read", "commit"}
             Reads == UNCHANGED <<invVars, order, cart>> /\ CallCurrent(call[c])'
  <1>a. call \in [Call -> CallRecord] /\ IdleCall.pc = "idle"
    BY DEF OrdInv, OrdTypeOK, IdleCall
  <1>2. ASSUME NEW d \in Call, NEW k \in CartId, StartCheckout(d, k)
        PROVE  call'[c] = call[c] \/ Reads
    <2>0. PICK w : w = [IdleCall EXCEPT !.pc = "checkout", !.cart = k, !.items = cart[k].items,
                                        !.view = ViewOf(cart[k].items)]
      OBVIOUS
    <2>1. call' = [call EXCEPT ![d] = w] /\ UNCHANGED <<invVars, order, cart>>
      BY <1>2, <2>0 DEF StartCheckout
    <2>2. /\ cart[k].status = "ACTIVE" /\ cart[k].items # Nothing
          /\ \A p \in In(cart[k].items) : product[p].status = "ACTIVE"
      BY <1>2 DEF StartCheckout, CanCheckout, Sellable
    <2>3. /\ w.pc = "checkout" /\ w.cart = k /\ w.items = cart[k].items
          /\ w.view = ViewOf(cart[k].items)
      BY <2>0 DEF IdleCall
    <2>4. CASE d = c
      <3>1. call'[c] = w
        BY <1>a, <2>1, <2>4
      <3>2. UNCHANGED <<product, price>> /\ ViewOf(cart[k].items)' = ViewOf(cart[k].items)
        BY <2>1 DEF invVars, ViewOf
      <3>3. CallCurrent(w)'
        BY <2>1, <2>2, <2>3, <3>2 DEF CallCurrent
      <3> QED
        BY <2>1, <3>1, <3>3
    <2> QED
      BY <1>a, <2>1, <2>4
  <1>3. ASSUME NEW d \in Call, NEW o \in OrderId, NEW op \in StatusChange, Open(d, o, op)
        PROVE  call'[c] = call[c] \/ Reads
    <2>0. PICK w : w = [IdleCall EXCEPT !.pc = IF GivesBack(op) THEN "read" ELSE "commit",
                           !.op = op, !.order = o, !.seen = order[o].status,
                           !.items = order[o].items]
      OBVIOUS
    <2>1. call' = [call EXCEPT ![d] = w] /\ UNCHANGED <<invVars, order, cart>>
      BY <1>3, <2>0 DEF Open
    <2>2. /\ w.op = op /\ w.order = o /\ w.seen = order[o].status /\ w.items = order[o].items
          /\ w.pc = IF GivesBack(op) THEN "read" ELSE "commit"
      BY <2>0 DEF IdleCall
    <2>3. order[o].status \in Allowed[op]
      BY <1>3 DEF Open
    <2>4. CallCurrent(w)'
      BY <2>1, <2>2, <2>3 DEF CallCurrent
    <2>5. d = c => call'[c] = w
      BY <1>a, <2>1
    <2>6. d # c => call'[c] = call[c]
      BY <1>a, <2>1
    <2> QED
      BY <2>1, <2>4, <2>5, <2>6
  <1>4. ASSUME NEW d \in Call, CommitCheckout(d) PROVE call'[c] = call[c] \/ MovesOn
    <2>1. PICK new : call' = [call EXCEPT ![d].pc = "notify", ![d].todo = new]
      BY <1>4 DEF CommitCheckout
    <2> QED
      BY <1>a, <2>1 DEF CallRecord
  <1>5. ASSUME NEW d \in Call, ReadProducts(d) PROVE call'[c] = call[c] \/ Reads
    <2>0. PICK w : w = [call[d] EXCEPT !.pc = "commit", !.view = ViewOf(call[d].items)]
      OBVIOUS
    <2>1. call' = [call EXCEPT ![d] = w] /\ UNCHANGED <<invVars, order, cart>>
      BY <1>5, <1>a, <2>0 DEF ReadProducts, CallRecord
    <2>2. CASE d = c
      <3>1. call[c].pc = "read"
        BY <1>5, <2>2 DEF ReadProducts
      <3>2. /\ w.op = call[c].op /\ w.order = call[c].order /\ w.seen = call[c].seen
            /\ w.items = call[c].items /\ w.view = ViewOf(w.items) /\ w.pc = "commit"
        BY <1>a, <2>0, <2>2 DEF CallRecord
      <3>3. UNCHANGED <<product, price>> /\ ViewOf(w.items)' = ViewOf(w.items)
        BY <2>1 DEF invVars, ViewOf
      <3>4. CallCurrent(w)'
        BY <2>1, <3>1, <3>2, <3>3 DEF CallCurrent
      <3>5. call'[c] = w
        BY <1>a, <2>1, <2>2
      <3> QED
        BY <2>1, <3>4, <3>5
    <2> QED
      BY <1>a, <2>1, <2>2
  <1>6. ASSUME NEW d \in Call, CommitStatus(d) PROVE call'[c] = call[c] \/ MovesOn
    BY <1>6, <1>a DEF CommitStatus, CallRecord
  <1>7. ASSUME NEW d \in Call, Notify(d) PROVE call'[c] = call[c] \/ MovesOn
    <2>1. PICK o \in call[d].todo :
            call' = [call EXCEPT ![d] =
                IF call[d].todo # {o} THEN [call[d] EXCEPT !.todo = call[d].todo \ {o}]
                ELSE IF Settles(call[d].op) THEN [call[d] EXCEPT !.pc = "settle", !.todo = {}]
                ELSE IdleCall]
      BY <1>7 DEF Notify
    <2>2. call[d] \in CallRecord /\ call[d].pc = "notify"
      BY <1>7, <1>a DEF Notify
    <2>3. call'[d].pc \in {"notify", "settle", "idle"}
      BY <1>a, <2>1, <2>2 DEF CallRecord
    <2> QED
      BY <1>a, <2>1, <2>3
  <1>8. ASSUME NEW d \in Call, Settle(d) PROVE call'[c] = call[c] \/ MovesOn
    BY <1>8, <1>a DEF Settle, CallRecord
  <1>9. ASSUME NEW d \in Call, Insert(d) \/ FailCall(d) PROVE call'[c] = call[c] \/ MovesOn
    BY <1>9, <1>a DEF Insert, FailCall
  <1>10. \/ call'[c] = call[c]
         \/ \E d \in Call :
               \/ \E k \in CartId : StartCheckout(d, k)
               \/ \E o \in OrderId, op \in StatusChange : Open(d, o, op)
               \/ CommitCheckout(d) \/ ReadProducts(d) \/ CommitStatus(d)
               \/ Notify(d) \/ Settle(d) \/ Insert(d) \/ FailCall(d)
    BY DEF Next, OrdNext, StartCall, CallStep, Accept, Reject, CancelMine, Prepare,
           Deliver, Cancel, SetSuspended, ordVars, vars, StatusChange
  <1> HIDE DEF MovesOn, Reads
  <1>11. call'[c] = call[c] \/ MovesOn \/ Reads
    BY <1>2, <1>3, <1>4, <1>5, <1>6, <1>7, <1>8, <1>9, <1>10
  <1> QED
    BY <1>11 DEF MovesOn, Reads

\* The two transactions, and all the other steps.
LEMMA StepKinds ==
    ASSUME [Next]_vars
    PROVE  \/ UNCHANGED <<order, history, cart>> /\ [InvNext]_invVars
           \/ \E c \in Call : CommitCheckout(c) \/ CommitStatus(c)
  <1> DEFINE Kept == UNCHANGED <<order, history, cart>> /\ [InvNext]_invVars
  <1>1. ASSUME NEW c \in Call, StartCall(c) PROVE Kept
    BY <1>1, StartsOnlyCalls
  <1>2. ASSUME NEW c \in Call, ReadProducts(c) \/ Notify(c) \/ Settle(c) PROVE Kept
    BY <1>2 DEF ReadProducts, Notify, Settle
  <1>3. ASSUME NEW c \in Call, Insert(c) \/ FailCall(c) PROVE Kept
    BY <1>3 DEF Insert, FailCall
  <1>4. ASSUME NEW s \in Seller, SetSuspended(s) PROVE Kept
    BY <1>4 DEF SetSuspended
  <1>5. ASSUME InvNext, UNCHANGED ordVars PROVE Kept
    BY <1>5 DEF ordVars
  <1>6. ASSUME UNCHANGED <<invVars, ordVars>> PROVE Kept
    BY <1>6 DEF ordVars
  <1> QED
    BY <1>1, <1>2, <1>3, <1>4, <1>5, <1>6 DEF Next, OrdNext, CallStep, vars

\* What an order takes out of a product, and what a cancellation puts back.
Reserves(o, p) ==
    LET q == order'[o].items[p] IN
    /\ q > 0 /\ product[p].status # "NONE" /\ product'[p].status # "NONE"
    /\ product'[p].stock = product[p].stock - q
    /\ movement'[p] = Append(movement[p], Moved("EXIT", q, product[p].stock, product'[p].stock, o))
Returns(o, p) ==
    LET q == order[o].items[p] IN
    /\ q > 0 /\ product[p].status # "NONE" /\ product'[p].status # "NONE"
    /\ product'[p].stock = product[p].stock + q
    /\ movement'[p] = Append(movement[p], Moved("ENTRY", q, product[p].stock, product'[p].stock, o))
Untouched(p) == product'[p] = product[p] /\ movement'[p] = movement[p]

Places(new) ==
    /\ new # {} /\ \A o \in new : order[o].status = "NONE" /\ order'[o].status = "PENDING"
    /\ \A o \in OrderId \ new : order'[o] = order[o]
    /\ \A p \in Product :
          \/ Untouched(p) /\ \A o \in new : order'[o].items[p] = 0
          \/ \E o \in new : Reserves(o, p) /\ \A u \in new \ {o} : order'[u].items[p] = 0
    /\ job' = job /\ \A j \in StockJob : job[j].pc = "idle"
    /\ \E k \in CartId : cart[k].status = "ACTIVE" /\ cart'[k].status = "CONVERTED"

Changes(op, o) ==
    /\ order[o].status \in Allowed[op] /\ order'[o].status = Target[op]
    /\ order'[o].items = order[o].items
    /\ \A u \in OrderId \ {o} : order'[u] = order[u]
    /\ \A p \in Product : IF GivesBack(op) /\ order[o].items[p] > 0 THEN Returns(o, p)
                          ELSE Untouched(p)
    /\ job' = job /\ \A j \in StockJob : job[j].pc = "idle"

LEMMA SerialCheckout ==
    ASSUME OrdInv, SerialInv, NEW c \in Call, CommitCheckout(c)
    PROVE  \E new \in SUBSET OrderId : Places(new)
  <1> DEFINE w == call[c]
  <1>1. w \in CallRecord /\ w.pc = "checkout" /\ w.cart \in CartId /\ CallCurrent(w)
    BY DEF OrdInv, OrdTypeOK, CallOK, CommitCheckout, SerialInv
  <1>2. /\ w.items \in Quantities /\ w.items # Nothing /\ w.view = ViewOf(w.items)
        /\ \A p \in In(w.items) : product[p].status # "NONE"
        /\ cart[w.cart].status = "ACTIVE"
    BY <1>1 DEF CallRecord, CallCurrent
  <1>3. PICK new \in SUBSET {o \in OrderId : order[o].status = "NONE"} :
        \E sellerOf \in Bijection(new, SellersIn(w.items)) :
          /\ order' = [o \in OrderId |->
                IF o \notin new THEN order[o]
                ELSE [status |-> "PENDING", buyer |-> cart[w.cart].owner,
                      seller |-> sellerOf[o], items |-> ItemsOf(sellerOf[o], w.items),
                      total |-> TotalOf(ItemsOf(sellerOf[o], w.items), w.view)]]
          /\ movement' = [p \in Product |->
                IF p \notin In(w.items) THEN movement[p]
                ELSE Append(movement[p],
                        Moved("EXIT", w.items[p], w.view[p].stock, w.view[p].stock - w.items[p],
                              CHOOSE o \in new : sellerOf[o] = SellerOf[p]))]
    BY DEF CommitCheckout
  <1>4. PICK sellerOf \in Bijection(new, SellersIn(w.items)) :
          /\ order' = [o \in OrderId |->
                IF o \notin new THEN order[o]
                ELSE [status |-> "PENDING", buyer |-> cart[w.cart].owner,
                      seller |-> sellerOf[o], items |-> ItemsOf(sellerOf[o], w.items),
                      total |-> TotalOf(ItemsOf(sellerOf[o], w.items), w.view)]]
          /\ movement' = [p \in Product |->
                IF p \notin In(w.items) THEN movement[p]
                ELSE Append(movement[p],
                        Moved("EXIT", w.items[p], w.view[p].stock, w.view[p].stock - w.items[p],
                              CHOOSE o \in new : sellerOf[o] = SellerOf[p]))]
    BY <1>3
  <1>5. /\ sellerOf \in [new -> SellersIn(w.items)] /\ new \subseteq OrderId
        /\ \A s \in SellersIn(w.items) : \E o \in new : sellerOf[o] = s
        /\ \A o, u \in new : sellerOf[o] = sellerOf[u] => o = u
    BY DEF Bijection, Injection, Surjection, IsInjective
  <1>6. /\ \A o \in new : /\ order[o].status = "NONE" /\ order'[o].status = "PENDING"
                          /\ order'[o].items = ItemsOf(sellerOf[o], w.items)
        /\ \A o \in OrderId \ new : order'[o] = order[o]
    BY <1>4, <1>5
  <1>7. \A o \in new, p \in Product :
            order'[o].items[p] = IF SellerOf[p] = sellerOf[o] THEN w.items[p] ELSE 0
    <2> SUFFICES ASSUME NEW o \in new, NEW p \in Product
                 PROVE  order'[o].items[p] = IF SellerOf[p] = sellerOf[o] THEN w.items[p] ELSE 0
      OBVIOUS
    <2>1. order'[o].items = ItemsOf(sellerOf[o], w.items)
      BY <1>6
    <2> QED
      BY <2>1 DEF ItemsOf
  <1>8. new # {}
    <2>1. PICK p \in Product : w.items[p] # 0
      BY <1>2 DEF Nothing, Quantities
    <2>2. p \in In(w.items)
      BY <1>2, <2>1 DEF In, Quantities
    <2>3. SellerOf[p] \in SellersIn(w.items)
      BY <2>2 DEF SellersIn
    <2> QED
      BY <1>5, <2>3
  <1>9. product' = StockTaken(w.items, w.view)
    BY DEF CommitCheckout
  <1>10. ASSUME NEW p \in Product
         PROVE  \/ Untouched(p) /\ \A o \in new : order'[o].items[p] = 0
                \/ \E o \in new : Reserves(o, p) /\ \A u \in new \ {o} : order'[u].items[p] = 0
    <2>1. CASE p \notin In(w.items)
      <3>1. w.items[p] = 0
        BY <1>2, <2>1 DEF In, Quantities
      <3>2. Untouched(p)
        BY <1>4, <1>9, <2>1 DEF StockTaken, Untouched
      <3> QED
        BY <1>7, <3>1, <3>2
    <2>2. CASE p \in In(w.items)
      <3>1. PICK o \in new : o = CHOOSE u \in new : sellerOf[u] = SellerOf[p]
        BY <1>5, <2>2 DEF SellersIn
      <3>2. sellerOf[o] = SellerOf[p]
        BY <1>5, <2>2, <3>1 DEF SellersIn
      <3>3. order'[o].items[p] = w.items[p] /\ \A u \in new \ {o} : order'[u].items[p] = 0
        BY <1>5, <1>7, <3>2
      <3>4. w.items[p] > 0 /\ product[p].status # "NONE" /\ product[p] \in Row
        BY <1>2, <2>2 DEF In, OrdInv, InvTypeOK
      <3>5. w.view[p].stock = product[p].stock /\ w.view[p].status = product[p].status
        BY <1>2, <2>2 DEF ViewOf
      <3>6. product'[p] = [product[p] EXCEPT
                              !.stock = product[p].stock - w.items[p],
                              !.status = StatusAfterExit(product[p].stock - w.items[p],
                                                         product[p].status)]
        BY <1>9, <2>2, <3>5 DEF StockTaken
      <3>7. /\ product'[p].stock = product[p].stock - w.items[p]
            /\ product'[p].status # "NONE"
        BY <3>4, <3>6 DEF Row, StatusAfterExit
      <3>8. movement'[p] = Append(movement[p], Moved("EXIT", w.items[p], product[p].stock,
                                                     product'[p].stock, o))
        BY <1>4, <2>2, <3>1, <3>5, <3>7
      <3>9. Reserves(o, p)
        BY <3>3, <3>4, <3>7, <3>8 DEF Reserves
      <3> QED
        BY <3>3, <3>9
    <2> QED
      BY <2>1, <2>2
  <1>11. job' = job /\ \A j \in StockJob : job[j].pc = "idle"
    BY <1>1 DEF CommitCheckout, SerialInv, OneAtATime
  <1>12. cart'[w.cart].status = "CONVERTED"
    BY <1>1 DEF CommitCheckout, Converted, OrdInv, OrdTypeOK, CartRow
  <1>13. Places(new)
    BY <1>1, <1>2, <1>6, <1>8, <1>10, <1>11, <1>12 DEF Places
  <1> QED
    BY <1>5, <1>13

LEMMA SerialStatus ==
    ASSUME OrdInv, SerialInv, NEW c \in Call, CommitStatus(c)
    PROVE  \E op \in StatusChange, o \in OrderId : Changes(op, o)
  <1> DEFINE w == call[c]
             op == w.op
             o == w.order
  <1>1. w \in CallRecord /\ w.pc = "commit" /\ CallOK(w) /\ CallCurrent(w)
    BY DEF OrdInv, OrdTypeOK, CommitStatus, SerialInv
  <1>2. op \in StatusChange /\ o \in OrderId
    BY <1>1 DEF CallOK, CallRecord
  <1>3. /\ order[o].status \in Allowed[op] /\ w.items = order[o].items
        /\ GivesBack(op) => w.view = ViewOf(w.items)
    BY <1>1 DEF CallCurrent
  <1>4. /\ order'[o].status = Target[op] /\ order'[o].items = order[o].items
        /\ \A u \in OrderId \ {o} : order'[u] = order[u]
    <2>1. order[o] \in OrderRow
      BY <1>2 DEF OrdInv, OrdTypeOK
    <2>2. order' = [order EXCEPT ![o] = [order[o] EXCEPT !.status = Target[op]]]
      BY DEF CommitStatus, SetStatus
    <2> QED
      BY <1>2, <2>1, <2>2 DEF OrdInv, OrdTypeOK, OrderRow
  <1>5. job' = job /\ \A j \in StockJob : job[j].pc = "idle"
    BY <1>1 DEF CommitStatus, SerialInv, OneAtATime
  <1>6. \A p \in In(w.items) : product[p].status # "NONE"
    <2>1. order[o].status # "NONE"
      BY <1>2, <1>3 DEF Allowed, StatusChange
    <2> QED
      BY <1>2, <1>3, <2>1 DEF SerialInv, BoughtExist
  <1>7. IF GivesBack(op)
        THEN product' = StockReturned(w.items, w.view) /\ movement' = MovementsBack(o, w.items, w.view)
        ELSE UNCHANGED <<product, movement>>
    BY DEF CommitStatus
  <1>8. ASSUME NEW p \in Product
        PROVE  IF GivesBack(op) /\ order[o].items[p] > 0 THEN Returns(o, p) ELSE Untouched(p)
    <2>1. CASE GivesBack(op) /\ p \in In(w.items)
      <3>1. w.items[p] > 0 /\ product[p].status # "NONE" /\ product[p] \in Row
        BY <1>6, <2>1 DEF In, OrdInv, InvTypeOK
      <3>2. w.view[p].stock = product[p].stock /\ w.view[p].status = product[p].status
        BY <1>3, <2>1 DEF ViewOf
      <3>3. product'[p] = [product[p] EXCEPT
                              !.stock = product[p].stock + w.items[p],
                              !.status = StatusAfterReturn(product[p].stock, product[p].status)]
        BY <1>7, <2>1, <3>2 DEF StockReturned
      <3>4. /\ product'[p].stock = product[p].stock + w.items[p]
            /\ product'[p].status # "NONE"
        BY <3>1, <3>3 DEF Row, StatusAfterReturn
      <3>5. movement'[p] = Append(movement[p], Moved("ENTRY", w.items[p], product[p].stock,
                                                     product'[p].stock, o))
        BY <1>7, <2>1, <3>2, <3>4 DEF MovementsBack
      <3> QED
        BY <1>3, <2>1, <3>1, <3>4, <3>5 DEF Returns
    <2>2. CASE GivesBack(op) /\ p \notin In(w.items)
      BY <1>3, <1>7, <2>2 DEF StockReturned, MovementsBack, Untouched, In
    <2>3. CASE ~GivesBack(op)
      BY <1>7, <2>3 DEF Untouched
    <2> QED
      BY <2>1, <2>2, <2>3
  <1> HIDE DEF op, o
  <1>9. Changes(op, o)
    BY <1>3, <1>4, <1>5, <1>8 DEF Changes
  <1> QED
    BY <1>2, <1>9

\* What a step does, as long as requests come one at a time.
LEMMA SerialSteps ==
    ASSUME OrdInv, SerialInv, [Next]_vars
    PROVE  \/ UNCHANGED <<order, history, cart>> /\ [InvNext]_invVars
           \/ \E new \in SUBSET OrderId : Places(new)
           \/ \E op \in StatusChange, o \in OrderId : Changes(op, o)
  BY StepKinds, SerialCheckout, SerialStatus

\* Rows of products stay.
LEMMA ProductsStay ==
    ASSUME OrdInv, SerialInv, [Next]_vars, NEW p \in Product, product[p].status # "NONE"
    PROVE  product'[p].status # "NONE"
  <1>1. CASE [InvNext]_invVars
    <2>a. InvTypeOK /\ SerialJobs /\ product \in [Product -> Row] /\ job \in [StockJob -> Job]
      BY DEF OrdInv, SerialInv, OneAtATime, SerialJobs, InvTypeOK
    <2>1. ASSUME NEW q \in Product, NEW s \in StockLevel, NEW pr \in Price, Create(q, s, pr)
          PROVE  product'[p] = product[p]
      BY <2>1, <2>a DEF Create
    <2>2. ASSUME NEW j \in StockJob, StartJob(j) PROVE product'[p] = product[p]
      BY <2>2, <2>a, StartsCurrent
    <2>3. ASSUME NEW j \in StockJob, WriteProduct(j) PROVE product'[p].status # "NONE"
      <3>1. job[j].status # "NONE"
        BY <2>a DEF Job, JobRecord, ProductStatus
      <3>2. /\ job[j].p \in Product /\ product'[job[j].p].status \in {product[job[j].p].status, job[j].status}
            /\ \A q \in Product \ {job[j].p} : product'[q] = product[q]
        BY <2>3, <2>a, WriteAlone
      <3> QED
        BY <3>1, <3>2
    <2>4. ASSUME NEW j \in StockJob, LogMovement(j) \/ FailJob(j) PROVE product'[p] = product[p]
      BY <2>4 DEF LogMovement, FailJob
    <2> QED
      BY <1>1, <2>1, <2>2, <2>3, <2>4 DEF InvNext, JobStep, invVars
  <1>2. ASSUME NEW new, Places(new) PROVE product'[p].status # "NONE"
    BY <1>2 DEF Places, Untouched, Reserves
  <1>3. ASSUME NEW op, NEW o, Changes(op, o) PROVE product'[p].status # "NONE"
    BY <1>3 DEF Changes, Untouched, Returns
  <1> QED
    BY <1>1, <1>2, <1>3, SerialSteps

\* While no stock request is in flight, the rows that exist do not change.
LEMMA IdleStock ==
    ASSUME InvTypeOK, [InvNext]_invVars, NEW p \in Product, product[p].status # "NONE",
           \A j \in StockJob : job[j].pc = "idle" /\ job'[j].pc = "idle"
    PROVE  product'[p] = product[p] /\ price'[p] = price[p]
  <1>a. product \in [Product -> Row] /\ price \in [Product -> Price] /\ job \in [StockJob -> Job]
    BY DEF InvTypeOK
  <1>1. ASSUME NEW q \in Product, NEW s \in StockLevel, NEW pr \in Price, Create(q, s, pr)
        PROVE  product'[p] = product[p] /\ price'[p] = price[p]
    BY <1>1, <1>a DEF Create
  <1>2. ASSUME NEW j \in StockJob, StartJob(j) PROVE FALSE
    <2>1. PICK w : job' = [job EXCEPT ![j] = w] /\ w.pc = "write"
      BY <1>2, StartsCurrent
    <2> QED
      BY <1>a, <2>1
  <1>3. ASSUME NEW j \in StockJob, JobStep(j) \/ FailJob(j) PROVE FALSE
    BY <1>3 DEF JobStep, WriteProduct, LogMovement, FailJob
  <1> QED
    BY <1>1, <1>2, <1>3 DEF InvNext, invVars

LEMMA NextBoughtExist ==
    ASSUME OrdInv, SerialInv, [Next]_vars
    PROVE  BoughtExist'
  <1> SUFFICES ASSUME NEW o \in OrderId, order'[o].status # "NONE",
                      NEW p \in Product, order'[o].items[p] > 0
               PROVE  product'[p].status # "NONE"
    BY DEF BoughtExist, In
  <1>1. CASE order[o].status # "NONE" /\ order[o].items[p] > 0
    BY <1>1, ProductsStay DEF SerialInv, BoughtExist, In
  <1>2. CASE order' = order
    BY <1>1, <1>2
  <1>3. ASSUME NEW new \in SUBSET OrderId, Places(new), o \in new
        PROVE  product'[p].status # "NONE"
    <2>1. ~(order'[o].items[p] = 0)
      OBVIOUS
    <2> QED
      BY <1>3, <2>1 DEF Places, Reserves
  <1>4. ASSUME NEW new \in SUBSET OrderId, Places(new), o \notin new
        PROVE  product'[p].status # "NONE"
    BY <1>1, <1>4 DEF Places
  <1>5. ASSUME NEW op \in StatusChange, NEW u \in OrderId, Changes(op, u)
        PROVE  product'[p].status # "NONE"
    <2>1. order[o].status # "NONE" /\ order'[o].items = order[o].items
      BY <1>5 DEF Changes, Allowed, StatusChange
    <2> QED
      BY <1>1, <2>1
  <1> QED
    BY <1>2, <1>3, <1>4, <1>5, SerialSteps

\* What a call knows stays true until it moves on, for nothing else moves.
LEMMA NextCallCurrent ==
    ASSUME OrdInv, SerialInv, [Next]_vars, OneAtATime', NEW c \in Call
    PROVE  CallCurrent(call[c])'
  <1>a. call \in [Call -> CallRecord] /\ \A d \in Call : CallCurrent(call[d])
    BY DEF OrdInv, OrdTypeOK, SerialInv
  <1>1. CASE call'[c].pc \notin {"checkout", "read", "commit"}
    BY <1>1 DEF CallCurrent
  <1>2. CASE call'[c] = call[c] /\ call[c].pc \in {"checkout", "read", "commit"}
    <2>1. /\ \A d \in Call \ {c} : call[d].pc = "idle"
          /\ \A j \in StockJob : job[j].pc = "idle" /\ job'[j].pc = "idle"
      BY <1>2 DEF SerialInv, OneAtATime
    <2>2. ASSUME NEW d \in Call, CommitCheckout(d) \/ CommitStatus(d) PROVE FALSE
      <3>1. call[d].pc # "idle"
        BY <2>2 DEF CommitCheckout, CommitStatus
      <3>2. d = c
        BY <2>1, <3>1
      <3>3. \E new : call' = [call EXCEPT ![d].pc = "notify", ![d].todo = new]
        BY <2>2 DEF CommitCheckout, CommitStatus
      <3>4. call'[d].pc = "notify"
        BY <1>a, <3>3 DEF CallRecord
      <3> QED
        BY <1>2, <3>2, <3>4
    <2>3. UNCHANGED <<order, cart>> /\ [InvNext]_invVars
      BY <2>2, StepKinds
    <2>4. \A p \in Product : product[p].status # "NONE" =>
              product'[p] = product[p] /\ price'[p] = price[p]
      BY <2>1, <2>3, IdleStock DEF OrdInv
    <2>5. PICK w : w = call[c]
      OBVIOUS
    <2>6. \A p \in In(w.items) : product[p].status # "NONE"
      <3>1. CASE w.pc = "checkout"
        BY <1>a, <2>5, <3>1 DEF CallCurrent
      <3>2. CASE w.pc \in {"read", "commit"}
        <4>1. w.order \in OrderId /\ w.op \in StatusChange
          BY <1>a, <2>5, <3>2 DEF OrdInv, CallOK, CallRecord
        <4>2. w.items = order[w.order].items /\ order[w.order].status \in Allowed[w.op]
          BY <1>a, <2>5, <3>2 DEF CallCurrent
        <4>3. order[w.order].status # "NONE"
          BY <4>1, <4>2 DEF StatusChange, Allowed
        <4> QED
          BY <4>1, <4>2, <4>3 DEF SerialInv, BoughtExist
      <3> QED
        BY <1>2, <2>5, <3>1, <3>2
    <2>7. ViewOf(w.items)' = ViewOf(w.items)
      BY <2>4, <2>6 DEF ViewOf, In
    <2>8. CallCurrent(w) /\ call'[c] = w
      BY <1>2, <1>a, <2>5
    <2>9. \A p \in In(w.items) : product'[p].status # "NONE"
      BY <2>4, <2>6 DEF In
    <2>10. CallCurrent(w)'
      BY <2>3, <2>7, <2>8, <2>9 DEF CallCurrent
    <2> QED
      BY <2>8, <2>10
  <1> QED
    BY <1>1, <1>2, <1>a, SerialCalls

LEMMA NextSerialInv ==
    ASSUME OrdInv, SerialInv, [Next]_vars, OneAtATime'
    PROVE  SerialInv'
  <1>1. ASSUME NEW j \in StockJob PROVE JobCurrent(job[j])'
    <2>1. CASE [InvNext]_invVars
      <3>1. InvTypeOK /\ SerialJobs /\ OneJob'
        BY DEF OrdInv, SerialInv, SerialJobs, OneAtATime
      <3> QED
        BY <2>1, <3>1, NextSerialJobs DEF SerialJobs
    <2>2. CASE job' = job /\ \A k \in StockJob : job[k].pc = "idle"
      BY <2>2 DEF JobCurrent
    <2> QED
      BY <2>1, <2>2, SerialSteps DEF Places, Changes
  <1> QED
    BY <1>1, NextBoughtExist, NextCallCurrent DEF SerialInv

LEMMA SerialInvariant == SerialSpec => [](OrdInv /\ HistoryInv /\ SerialInv)
  <1>1. OrdInv /\ HistoryInv /\ SerialInv /\ [SerialNext]_vars => (OrdInv /\ HistoryInv /\ SerialInv)'
    <2> SUFFICES ASSUME OrdInv, HistoryInv, SerialInv, [SerialNext]_vars
                 PROVE  OrdInv' /\ HistoryInv' /\ SerialInv'
      OBVIOUS
    <2>1. [Next]_vars
      BY DEF SerialNext
    <2>2. OneAtATime'
      BY DEF SerialNext, SerialInv, OneAtATime, OneJob, vars, invVars, ordVars
    <2>3. HistoryInv'
      BY <2>1, NextStatusIsLast, NextHasItsCause, NextSeenWasReached DEF HistoryInv
    <2> QED
      BY <2>1, <2>2, <2>3, OrdersNextKeepsTypes, NextSerialInv
  <1> QED
    BY <1>1, OrdersInitTypes, HistoryInit, SerialInit, PTL DEF SerialSpec

\* While requests come one at a time, each change in an order's history starts
\* where the change before it ended, whatever fails.
THEOREM HistoryChains == SerialSpec => []HistoryIsAChain
  <1>1. Init => HistoryIsAChain
    BY DEF Init, OrdInit, HistoryIsAChain
  <1>2. OrdInv /\ HistoryInv /\ SerialInv /\ HistoryIsAChain /\ [SerialNext]_vars => HistoryIsAChain'
    <2> SUFFICES ASSUME OrdInv, HistoryInv, SerialInv, HistoryIsAChain, [Next]_vars,
                        NEW o \in OrderId, NEW i \in 2 .. Len(history'[o])
                 PROVE  history'[o][i].from = history'[o][i - 1].to
      BY DEF HistoryIsAChain, SerialNext
    <2>1. CASE history'[o] = history[o]
      BY <2>1 DEF HistoryIsAChain
    <2>2. CASE history'[o] = <<Placement>>
      BY <2>2
    <2>3. ASSUME NEW c \in Call, call[c].pc = "commit", call[c].order = o,
                 call[c].op \in StatusChange,
                 history'[o] = Append(history[o], ChangeBy(call[c]))
          PROVE  history'[o][i].from = history'[o][i - 1].to
      <3>1. history[o] \in Seq(HistoryRow)
        BY DEF OrdInv, OrdTypeOK
      <3>2. /\ Len(history'[o]) = Len(history[o]) + 1
            /\ \A k \in 1 .. Len(history[o]) : history'[o][k] = history[o][k]
            /\ history'[o][Len(history[o]) + 1] = ChangeBy(call[c])
        BY <2>3, <3>1
      <3>3. CASE i \in 2 .. Len(history[o])
        <4>1. i \in 1 .. Len(history[o]) /\ i - 1 \in 1 .. Len(history[o])
          BY <3>1, <3>3
        <4> QED
          BY <3>2, <3>3, <4>1 DEF HistoryIsAChain
      <3>4. CASE i = Len(history[o]) + 1
        <4>1. call[c].seen = order[o].status /\ order[o].status \in Allowed[call[c].op]
          BY <2>3 DEF SerialInv, CallCurrent
        <4>2. order[o].status # "NONE"
          BY <2>3, <4>1 DEF StatusChange, Allowed
        <4>3. history[o] # <<>> /\ history[o][Len(history[o])].to = order[o].status
          BY <4>2 DEF HistoryInv, StatusIsLastEntry
        <4>4. Len(history[o]) \in 1 .. Len(history[o]) /\ i - 1 = Len(history[o])
          BY <3>1, <3>4, <4>3
        <4> QED
          BY <3>2, <3>4, <4>1, <4>3, <4>4 DEF ChangeBy
      <3> QED
        BY <3>1, <3>2, <3>3, <3>4
    <2> QED
      BY <2>1, <2>2, <2>3, HistoryChanges DEF HistoryInv
  <1> QED
    BY <1>1, <1>2, SerialInvariant, PTL DEF SerialSpec

\* While requests come one at a time, an order appears only as an active cart is
\* converted: no cart is ordered twice.
THEOREM CartsOrderedOnce == SerialSpec => CartIsOrderedOnce
  <1> DEFINE Once == (\E o \in OrderId : order[o].status = "NONE" /\ order'[o].status # "NONE")
                     => \E k \in CartId : cart[k].status = "ACTIVE" /\ cart'[k].status = "CONVERTED"
  <1>1. OrdInv /\ SerialInv /\ [SerialNext]_vars => [Once]_vars
    <2> SUFFICES ASSUME OrdInv, SerialInv, [Next]_vars,
                        NEW o \in OrderId, order[o].status = "NONE", order'[o].status # "NONE"
                 PROVE  \E k \in CartId : cart[k].status = "ACTIVE" /\ cart'[k].status = "CONVERTED"
      BY DEF SerialNext
    <2>1. ASSUME NEW op \in StatusChange, NEW u \in OrderId, Changes(op, u) PROVE FALSE
      BY <2>1 DEF Changes, Allowed, StatusChange
    <2> QED
      BY <2>1, SerialSteps DEF Places
  <1> QED
    BY <1>1, SerialInvariant, PTL DEF SerialSpec, CartIsOrderedOnce

---------------------------------------------------------------------------
(* Reservations balance: the inductive invariant is the property itself,   *)
(* for each order and product, next to SerialInv.                          *)

Balanced(o, p) ==
    LET q == order[o].items[p] IN
    IF order[o].status = "NONE" \/ q = 0 THEN MovesOf(o, p) = {}
    ELSE /\ Cardinality(MovesBy(o, p, -q)) = 1
         /\ Cardinality(MovesBy(o, p, q)) = IF order[o].status = "CANCELLED" THEN 1 ELSE 0
         /\ MovesOf(o, p) = MovesBy(o, p, -q) \cup MovesBy(o, p, q)

\* The movements of a product in an order's name, as one more is recorded.
LEMMA MovesGrow ==
    ASSUME OrdInv, NEW o \in OrderId, NEW p \in Product, NEW n, NEW m,
           movement'[p] = Append(movement[p], m)
    PROVE  /\ MovesOf(o, p)' = IF m.order = o THEN MovesOf(o, p) \cup {Len(movement[p]) + 1}
                               ELSE MovesOf(o, p)
           /\ MovesBy(o, p, n)' = IF m.order = o /\ m.newStock - m.previousStock = n
                                  THEN MovesBy(o, p, n) \cup {Len(movement[p]) + 1}
                                  ELSE MovesBy(o, p, n)
  <1>1. movement[p] \in Seq(Movement)
    BY DEF OrdInv, InvTypeOK
  <1>2. /\ Len(movement[p]) \in Nat /\ Len(movement'[p]) = Len(movement[p]) + 1
        /\ \A i \in 1 .. Len(movement[p]) : movement'[p][i] = movement[p][i]
        /\ movement'[p][Len(movement[p]) + 1] = m
    BY <1>1
  <1>3. MovesOf(o, p)' = IF m.order = o THEN MovesOf(o, p) \cup {Len(movement[p]) + 1}
                         ELSE MovesOf(o, p)
    BY <1>2 DEF MovesOf
  <1>4. MovesOf(o, p) \subseteq 1 .. Len(movement[p])
    BY DEF MovesOf
  <1>5. MovesBy(o, p, n)' = {i \in MovesOf(o, p)' :
                                movement'[p][i].newStock - movement'[p][i].previousStock = n}
    BY DEF MovesBy
  <1>6. MovesBy(o, p, n)' = IF m.order = o /\ m.newStock - m.previousStock = n
                            THEN MovesBy(o, p, n) \cup {Len(movement[p]) + 1}
                            ELSE MovesBy(o, p, n)
    <2>1. CASE m.order = o
      BY <1>2, <1>3, <1>4, <1>5, <2>1 DEF MovesBy
    <2>2. CASE m.order # o
      BY <1>2, <1>3, <1>4, <1>5, <2>2 DEF MovesBy
    <2> QED
      BY <2>1, <2>2
  <1> QED
    BY <1>3, <1>6

LEMMA MovesCounted ==
    ASSUME OrdInv, NEW o \in OrderId, NEW p \in Product, NEW n
    PROVE  /\ Cardinality(MovesBy(o, p, n)) \in Nat
           /\ Cardinality(MovesBy(o, p, n) \cup {Len(movement[p]) + 1})
                 = Cardinality(MovesBy(o, p, n)) + 1
  <1>a. PICK now, k : now = MovesBy(o, p, n) /\ k = Len(movement[p])
    OBVIOUS
  <1>1. k \in Nat /\ now \subseteq 1 .. k
    <2>1. movement[p] \in Seq(Movement)
      BY DEF OrdInv, InvTypeOK
    <2> QED
      BY <1>a, <2>1 DEF MovesBy, MovesOf
  <1>2. Cardinality(now) \in Nat
    BY <1>1, OnePosition
  <1>3. Cardinality(now \cup {k + 1}) = Cardinality(now) + 1
    BY <1>1, OnePosition
  <1> QED
    BY <1>a, <1>2, <1>3

\* A step in which no movement of the product names the order keeps its balance,
\* unless it places or cancels the order.
LEMMA BalanceStays ==
    ASSUME OrdInv, NEW o \in OrderId, NEW p \in Product, Balanced(o, p),
           order'[o].items[p] = order[o].items[p],
           \/ order'[o].status = order[o].status
           \/ {order[o].status, order'[o].status} \cap {"NONE", "CANCELLED"} = {}
           \/ order[o].status # "NONE" /\ order'[o].status # "NONE" /\ order[o].items[p] = 0,
           \/ movement'[p] = movement[p]
           \/ \E m : m.order # o /\ movement'[p] = Append(movement[p], m)
    PROVE  Balanced(o, p)'
  <1>1. PICK q : q = order[o].items[p]
    OBVIOUS
  <1>2. /\ MovesOf(o, p)' = MovesOf(o, p)
        /\ \A n : MovesBy(o, p, n)' = MovesBy(o, p, n)
    <2>1. CASE movement'[p] = movement[p]
      BY <2>1 DEF MovesOf, MovesBy
    <2>2. ASSUME NEW m, m.order # o, movement'[p] = Append(movement[p], m)
          PROVE  /\ MovesOf(o, p)' = MovesOf(o, p)
                 /\ \A n : MovesBy(o, p, n)' = MovesBy(o, p, n)
      BY <2>2, MovesGrow
    <2> QED
      BY <2>1, <2>2
  <1>3. /\ MovesBy(o, p, q)' = MovesBy(o, p, q) /\ MovesBy(o, p, -q)' = MovesBy(o, p, -q)
        /\ order'[o].items[p] = q
    BY <1>1, <1>2
  <1> QED
    BY <1>1, <1>2, <1>3 DEF Balanced

LEMMA BalancedThen ==
    ASSUME NEW o \in OrderId, NEW p \in Product, NEW q, q = order'[o].items[p],
           Cardinality(MovesBy(o, p, -q)') = 1,
           Cardinality(MovesBy(o, p, q)') = IF order'[o].status = "CANCELLED" THEN 1 ELSE 0,
           MovesOf(o, p)' = MovesBy(o, p, -q)' \cup MovesBy(o, p, q)',
           order'[o].status # "NONE", q # 0
    PROVE  Balanced(o, p)'
  <1>1. PICK n : n = -q
    OBVIOUS
  <1>2. /\ MovesBy(o, p, n)' = MovesBy(o, p, -q)' /\ n = -(order'[o].items[p])
    BY <1>1
  <1> QED
    BY <1>1, <1>2 DEF Balanced

\* An order that is placed has one movement per product, out of the stock.
LEMMA PlacedBalances ==
    ASSUME OrdInv, NEW o \in OrderId, NEW p \in Product, Balanced(o, p),
           order[o].status = "NONE", order'[o].status = "PENDING", Reserves(o, p),
           order'[o].items[p] \in Nat
    PROVE  Balanced(o, p)'
  <1>1. PICK q, m : /\ q = order'[o].items[p] /\ q \in Nat
                    /\ m = Moved("EXIT", q, product[p].stock, product'[p].stock, o)
    OBVIOUS
  <1>2. /\ q > 0 /\ movement'[p] = Append(movement[p], m) /\ m.order = o
        /\ m.newStock - m.previousStock = -q
    <2>1. product[p].stock \in Int
      BY DEF OrdInv, InvTypeOK, Row
    <2> QED
      BY <1>1, <2>1 DEF Reserves, Moved
  <1>3. MovesOf(o, p) = {} /\ MovesBy(o, p, q) = {} /\ MovesBy(o, p, -q) = {}
    BY DEF Balanced, MovesBy
  <1>4. PICK i : i = Len(movement[p]) + 1
    OBVIOUS
  <1>5. MovesOf(o, p)' = {i}
    BY <1>2, <1>3, <1>4, MovesGrow
  <1>6. MovesBy(o, p, -q)' = {i} /\ MovesBy(o, p, q)' = {}
    <2>1. PICK n : n = -q
      OBVIOUS
    <2>2. MovesBy(o, p, n)' = MovesBy(o, p, n) \cup {i}
      BY <1>2, <1>4, <2>1, MovesGrow
    <2>3. MovesBy(o, p, q)' = MovesBy(o, p, q)
      BY <1>1, <1>2, MovesGrow
    <2> QED
      BY <1>3, <2>1, <2>2, <2>3
  <1>7. Cardinality({i}) = 1 /\ Cardinality({}) = 0
    BY FS_Singleton, FS_EmptySet
  <1>8. /\ Cardinality(MovesBy(o, p, -q)') = 1 /\ Cardinality(MovesBy(o, p, q)') = 0
        /\ MovesOf(o, p)' = MovesBy(o, p, -q)' \cup MovesBy(o, p, q)'
    BY <1>5, <1>6, <1>7
  <1> QED
    BY <1>1, <1>2, <1>8, BalancedThen

\* One that is cancelled gets its second, back into the stock.
LEMMA CancelledBalances ==
    ASSUME OrdInv, NEW o \in OrderId, NEW p \in Product, Balanced(o, p),
           order[o].status \notin {"NONE", "CANCELLED"}, order'[o].status = "CANCELLED",
           order'[o].items = order[o].items, Returns(o, p)
    PROVE  Balanced(o, p)'
  <1>1. PICK q, m : /\ q = order[o].items[p] /\ q \in Nat
                    /\ m = Moved("ENTRY", q, product[p].stock, product'[p].stock, o)
    BY DEF OrdInv, OrdTypeOK, OrderRow, Quantities
  <1>2. /\ q > 0 /\ movement'[p] = Append(movement[p], m) /\ m.order = o
        /\ m.newStock - m.previousStock = q
    <2>1. product[p].stock \in Int
      BY DEF OrdInv, InvTypeOK, Row
    <2> QED
      BY <1>1, <2>1 DEF Returns, Moved
  <1>3. /\ Cardinality(MovesBy(o, p, -q)) = 1 /\ Cardinality(MovesBy(o, p, q)) = 0
        /\ MovesOf(o, p) = MovesBy(o, p, -q) \cup MovesBy(o, p, q)
    BY <1>1, <1>2 DEF Balanced
  <1>4. PICK i : i = Len(movement[p]) + 1
    OBVIOUS
  <1>5. MovesOf(o, p)' = MovesOf(o, p) \cup {i} /\ MovesBy(o, p, q)' = MovesBy(o, p, q) \cup {i}
    BY <1>2, <1>4, MovesGrow
  <1>6. MovesBy(o, p, -q)' = MovesBy(o, p, -q)
    BY <1>1, <1>2, MovesGrow
  <1>7. Cardinality(MovesBy(o, p, q)') = 1
    BY <1>3, <1>4, <1>5, MovesCounted
  <1>8. order'[o].items[p] = q
    BY <1>1
  <1>9. /\ Cardinality(MovesBy(o, p, -q)') = 1
        /\ MovesOf(o, p)' = MovesBy(o, p, -q)' \cup MovesBy(o, p, q)'
    BY <1>3, <1>5, <1>6
  <1> QED
    BY <1>1, <1>2, <1>7, <1>8, <1>9, BalancedThen

\* A stock request records its movement in nobody's name.
LEMMA JobMoves ==
    ASSUME OrdInv, SerialInv, [InvNext]_invVars, NEW p \in Product
    PROVE  \/ movement'[p] = movement[p]
           \/ \E m : m.order = NoOrder /\ movement'[p] = Append(movement[p], m)
  <1>a. movement \in [Product -> Seq(Movement)] /\ job \in [StockJob -> Job]
    BY DEF OrdInv, InvTypeOK
  <1>1. ASSUME NEW q \in Product, NEW s \in StockLevel, NEW pr \in Price, Create(q, s, pr)
        PROVE  movement'[p] = movement[p]
    BY <1>1 DEF Create
  <1>2. ASSUME NEW j \in StockJob, StartJob(j) PROVE movement'[p] = movement[p]
    BY <1>2, StartsCurrent DEF OrdInv
  <1>3. ASSUME NEW j \in StockJob, WriteProduct(j) \/ FailJob(j) PROVE movement'[p] = movement[p]
    BY <1>3 DEF WriteProduct, FailJob
  <1>4. ASSUME NEW j \in StockJob, LogMovement(j), job[j].p = p
        PROVE  \E m : m.order = NoOrder /\ movement'[p] = Append(movement[p], m)
    <2>1. Pending(job[j])
      BY <1>4 DEF LogMovement, SerialInv, JobCurrent
    <2>2. job[j].moves \in Seq(Movement)
      BY <1>a DEF Job, JobRecord
    <2>3. movement'[p] = movement[p] \o job[j].moves
      BY <1>4, <1>a DEF LogMovement
    <2>4. movement'[p] = Append(movement[p], job[j].moves[1])
      BY <1>a, <2>1, <2>2, <2>3, OneLogged DEF Pending
    <2> QED
      BY <2>1, <2>4 DEF Pending
  <1>5. ASSUME NEW j \in StockJob, LogMovement(j), job[j].p # p PROVE movement'[p] = movement[p]
    BY <1>5, <1>a DEF LogMovement
  <1> QED
    BY <1>1, <1>2, <1>3, <1>4, <1>5 DEF InvNext, JobStep, invVars

LEMMA NextBalanced ==
    ASSUME OrdInv, OrdInv', SerialInv, [Next]_vars, NEW o \in OrderId, NEW p \in Product,
           Balanced(o, p)
    PROVE  Balanced(o, p)'
  <1>1. CASE UNCHANGED order /\ [InvNext]_invVars
    <2>1. NoOrder # o
      BY PlatformAssumption
    <2> QED
      BY <1>1, <2>1, JobMoves, BalanceStays
  <1>2. ASSUME NEW new \in SUBSET OrderId, Places(new) PROVE Balanced(o, p)'
    <2>1. CASE o \in new
      <3>1. order[o].status = "NONE" /\ order'[o].status = "PENDING"
        BY <1>2, <2>1 DEF Places
      <3>2. CASE Reserves(o, p)
        <4>1. order'[o].items[p] \in Nat
          BY DEF OrdInv, OrdTypeOK, OrderRow, Quantities
        <4> QED
          BY <3>1, <3>2, <4>1, PlacedBalances
      <3>3. CASE ~Reserves(o, p)
        <4>1. /\ order'[o].items[p] = 0
              /\ \/ movement'[p] = movement[p]
                 \/ \E m : m.order # o /\ movement'[p] = Append(movement[p], m)
          BY <1>2, <2>1, <3>3, ZenonT(40) DEF Places, Untouched, Reserves, Moved
        <4>2. MovesOf(o, p) = {}
          BY <3>1 DEF Balanced
        <4>3. MovesOf(o, p)' = MovesOf(o, p)
          <5>1. CASE movement'[p] = movement[p]
            BY <5>1 DEF MovesOf
          <5>2. ASSUME NEW m, m.order # o, movement'[p] = Append(movement[p], m)
                PROVE  MovesOf(o, p)' = MovesOf(o, p)
            BY <5>2, MovesGrow
          <5> QED
            BY <4>1, <5>1, <5>2
        <4> QED
          BY <4>1, <4>2, <4>3 DEF Balanced
      <3> QED
        BY <3>2, <3>3
    <2>2. CASE o \notin new
      <3>1. order'[o] = order[o]
        BY <1>2, <2>2 DEF Places
      <3>2. \/ movement'[p] = movement[p]
            \/ \E m : m.order # o /\ movement'[p] = Append(movement[p], m)
        BY <1>2, <2>2 DEF Places, Untouched, Reserves, Moved
      <3> QED
        BY <3>1, <3>2, BalanceStays
    <2> QED
      BY <2>1, <2>2
  <1>3. ASSUME NEW op \in StatusChange, NEW u \in OrderId, Changes(op, u) PROVE Balanced(o, p)'
    <2>1. CASE o # u
      <3>1. order'[o] = order[o]
        BY <1>3, <2>1 DEF Changes
      <3>2. \/ movement'[p] = movement[p]
            \/ \E m : m.order # o /\ movement'[p] = Append(movement[p], m)
        BY <1>3, <2>1 DEF Changes, Untouched, Returns, Moved
      <3> QED
        BY <3>1, <3>2, BalanceStays
    <2>2. CASE o = u
      <3>1. /\ order'[o].items = order[o].items /\ order'[o].status = Target[op]
            /\ order[o].status \notin {"NONE", "CANCELLED"} /\ Target[op] # "NONE"
        BY <1>3, <2>2 DEF Changes, Allowed, Target, StatusChange
      <3>2. CASE GivesBack(op) /\ order[o].items[p] > 0
        <4>1. Returns(o, p) /\ order'[o].status = "CANCELLED"
          BY <1>3, <2>2, <3>1, <3>2 DEF Changes, GivesBack
        <4> QED
          BY <3>1, <4>1, CancelledBalances
      <3>3. CASE ~(GivesBack(op) /\ order[o].items[p] > 0)
        <4>1. movement'[p] = movement[p]
          BY <1>3, <2>2, <3>3 DEF Changes, Untouched
        <4>2. order[o].items[p] \in Nat
          BY DEF OrdInv, OrdTypeOK, OrderRow, Quantities
        <4>3. order'[o].status # "CANCELLED" \/ order[o].items[p] = 0
          BY <3>1, <3>3, <4>2 DEF GivesBack
        <4>4. order'[o].items[p] = order[o].items[p]
          BY <3>1
        <4>5. \/ {order[o].status, order'[o].status} \cap {"NONE", "CANCELLED"} = {}
              \/ order[o].status # "NONE" /\ order'[o].status # "NONE" /\ order[o].items[p] = 0
          BY <3>1, <4>3
        <4> QED
          BY <4>1, <4>4, <4>5, BalanceStays
      <3> QED
        BY <3>2, <3>3
    <2> QED
      BY <2>1, <2>2
  <1> QED
    BY <1>1, <1>2, <1>3, SerialSteps

\* While requests come one at a time, what an order reserves is taken out of the
\* stock once and, when it is cancelled, put back once, whatever fails.
THEOREM ReservationsBalance == SerialSpec => []ReservationIsBalanced
  <1> DEFINE AllBalanced == \A o \in OrderId, p \in Product : Balanced(o, p)
  <1>1. Init => AllBalanced
    BY DEF Init, OrdInit, InvInit, NoOrderRow, Balanced, MovesOf
  <1>2. OrdInv /\ OrdInv' /\ SerialInv /\ AllBalanced /\ [SerialNext]_vars => AllBalanced'
    <2> SUFFICES ASSUME OrdInv, OrdInv', SerialInv, AllBalanced, [Next]_vars
                 PROVE  AllBalanced'
      BY DEF SerialNext
    <2> QED
      BY NextBalanced
  <1>3. AllBalanced => ReservationIsBalanced
    BY DEF Balanced, ReservationIsBalanced
  <1> QED
    BY <1>1, <1>2, <1>3, SerialInvariant, PTL DEF SerialSpec

---------------------------------------------------------------------------
(* The ledger, with orders: as in Inventory, and both transactions record  *)
(* every unit they take or give back.                                      *)

LEMMA MoveChains ==
    ASSUME OrdInv, NEW p \in Product, NEW type, NEW q, NEW o, NEW s,
           Chained(movement[p]), EndsAt(movement[p], product[p].stock),
           movement'[p] = Append(movement[p], Moved(type, q, product[p].stock, s, o))
    PROVE  Chained(movement'[p]) /\ EndsAt(movement'[p], s)
  <1>1. PICK m : m = Moved(type, q, product[p].stock, s, o)
    OBVIOUS
  <1>2. m.previousStock = product[p].stock /\ m.newStock = s
    BY <1>1 DEF Moved
  <1>3. movement[p] \in Seq(Movement)
    BY DEF OrdInv, InvTypeOK
  <1>4. Chained(Append(movement[p], m)) /\ EndsAt(Append(movement[p], m), m.newStock)
    BY <1>2, <1>3, ChainGrows
  <1> QED
    BY <1>1, <1>2, <1>4

LEMMA NextOrdLedger ==
    ASSUME NoStockEdits, OrdInv, SerialInv, LedgerInv, [Next]_vars, OneAtATime'
    PROVE  LedgerInv'
  <1>1. CASE [InvNext]_invVars
    <2>1. InvTypeOK /\ SerialJobs /\ OneJob'
      BY DEF OrdInv, SerialInv, OneAtATime, SerialJobs
    <2> QED
      BY <1>1, <2>1, NextLedger
  <1>2. ASSUME job' = job, \A j \in StockJob : job[j].pc = "idle",
               \A p \in Product : \/ Untouched(p)
                                  \/ \E o : Reserves(o, p)
                                  \/ \E o : Returns(o, p)
        PROVE  LedgerInv'
    <2>1. ASSUME NEW p \in Product
          PROVE  /\ product'[p].status = "NONE" => movement'[p] = <<>>
                 /\ Chained(movement'[p]) /\ EndsAt(movement'[p], product'[p].stock)
      <3>1. /\ product[p].status = "NONE" => movement[p] = <<>>
            /\ Chained(movement[p]) /\ EndsAt(movement[p], product[p].stock)
        BY <1>2 DEF LedgerInv
      <3>2. CASE Untouched(p)
        BY <3>1, <3>2 DEF Untouched
      <3>3. ASSUME NEW o, NEW type, NEW q, product'[p].status # "NONE",
                   movement'[p] = Append(movement[p], Moved(type, q, product[p].stock,
                                                            product'[p].stock, o))
            PROVE  /\ product'[p].status = "NONE" => movement'[p] = <<>>
                   /\ Chained(movement'[p]) /\ EndsAt(movement'[p], product'[p].stock)
        <4>1. PICK s : s = product'[p].stock
          OBVIOUS
        <4>2. Chained(movement'[p]) /\ EndsAt(movement'[p], s)
          BY <3>1, <3>3, <4>1, MoveChains
        <4> QED
          BY <3>3, <4>1, <4>2
      <3> QED
        BY <1>2, <3>2, <3>3 DEF Reserves, Returns
    <2> QED
      BY <1>2, <2>1 DEF LedgerInv
  <1>3. ASSUME NEW new, Places(new) PROVE LedgerInv'
    BY <1>2, <1>3 DEF Places
  <1>4. ASSUME NEW op, NEW o, Changes(op, o) PROVE LedgerInv'
    BY <1>2, <1>4 DEF Changes
  <1> QED
    BY <1>1, <1>3, <1>4, SerialSteps

\* While requests about orders and stock come one at a time, none fails and none
\* edits the stock column, the ledger accounts for every unit of the stock.
THEOREM OrdersLedgerExplained == NoStockEdits => (SerialSpec => []LedgerExplainsStock)
  <1> SUFFICES ASSUME NoStockEdits PROVE SerialSpec => []LedgerExplainsStock
    OBVIOUS
  <1>1. Init => LedgerInv
    BY InitLedger DEF Init
  <1>2. OrdInv /\ SerialInv /\ LedgerInv /\ [SerialNext]_vars => LedgerInv'
    <2> SUFFICES ASSUME OrdInv, SerialInv, LedgerInv, [SerialNext]_vars PROVE LedgerInv'
      OBVIOUS
    <2>1. [Next]_vars
      BY DEF SerialNext
    <2>2. OneAtATime'
      BY DEF SerialNext, SerialInv, OneAtATime, OneJob, vars, invVars, ordVars
    <2> QED
      BY <2>1, <2>2, NextOrdLedger
  <1>3. OrdInv /\ SerialInv /\ LedgerInv => LedgerExplainsStock
    BY LedgerInvExplains DEF OrdInv, SerialInv, SerialJobs, OneAtATime
  <1> QED
    BY <1>1, <1>2, <1>3, SerialInvariant, PTL DEF SerialSpec

---------------------------------------------------------------------------
(* Orders implement the order book, step by step: each transaction is one  *)
(* act of the book, a stock request's update is the seller's, and all the  *)
(* other steps of the handlers leave the book as it is.                    *)

LEMMA InitBook == Init => Book!Init
  <1> SUFFICES ASSUME Init PROVE Book!Init
    OBVIOUS
  <1>1. \A p \in Product : product[p].stock \in Nat
    BY StockAssumption DEF Init, InvInit, NoRow, FreshRow
  <1>2. \A o \in OrderId : order[o].status = "NONE" /\ order[o].items = [p \in Product |-> 0]
    BY DEF Init, OrdInit, NoOrderRow, Nothing
  <1> QED
    BY <1>1, <1>2 DEF Book!Init

LEMMA PlaceInBook ==
    ASSUME OrdInv, OrdInv', StockNeverNegative', NEW new \in SUBSET OrderId, Places(new)
    PROVE  Book!Place
  <1>1. new \in (SUBSET Book!Unplaced) \ {{}}
    BY DEF Places, Book!Unplaced
  <1>2. [o \in OrderId |-> order[o].status]'
            = [o \in OrderId |-> IF o \in new THEN "PENDING"
                                 ELSE [u \in OrderId |-> order[u].status][o]]
    BY DEF Places
  <1>3. [o \in OrderId |-> order[o].items]' \in [OrderId -> [Product -> Nat]]
    BY DEF OrdInv, OrdTypeOK, OrderRow, Quantities
  <1>4. \A o \in OrderId \ new : [u \in OrderId |-> order[u].items]'[o]
                                    = [u \in OrderId |-> order[u].items][o]
    BY DEF Places
  <1>5. [p \in Product |-> product[p].stock]' \in [Product -> Nat]
    BY DEF OrdInv, InvTypeOK, Row, StockNeverNegative
  <1>6. ASSUME NEW p \in Product
        PROVE  \E o \in new : Book!Takes(o, p) /\ \A u \in new \ {o} :
                                 [v \in OrderId |-> order[v].items]'[u][p] = 0
    <2>1. CASE Untouched(p) /\ \A o \in new : order'[o].items[p] = 0
      <3>1. PICK o \in new : o \in OrderId
        BY DEF Places
      <3>2. product[p].stock \in Int
        BY DEF OrdInv, InvTypeOK, Row
      <3>3. Book!Takes(o, p)
        BY <2>1, <3>1, <3>2 DEF Book!Takes, Untouched
      <3> QED
        BY <2>1, <3>1, <3>3
    <2>2. ASSUME NEW o \in new, Reserves(o, p), \A u \in new \ {o} : order'[u].items[p] = 0
          PROVE  Book!Takes(o, p) /\ \A u \in new \ {o} :
                                 [v \in OrderId |-> order[v].items]'[u][p] = 0
      BY <2>2 DEF Reserves, Book!Takes
    <2> QED
      BY <2>1, <2>2 DEF Places
  <1> QED
    BY <1>1, <1>2, <1>3, <1>4, <1>5, <1>6 DEF Book!Place

LEMMA ChangeInBook ==
    ASSUME OrdInv, NEW op \in StatusChange, NEW o \in OrderId, Changes(op, o)
    PROVE  Book!Advance(o) \/ Book!Cancel(o)
  <1>1. /\ order[o].status \in Allowed[op] /\ order'[o].status = Target[op]
        /\ \A u \in OrderId : order'[u].items = order[u].items
        /\ \A u \in OrderId \ {o} : order'[u].status = order[u].status
    BY DEF Changes
  <1>2. o \in Book!Open
    BY <1>1 DEF Book!Open, Book!Successor, StatusChange, Allowed
  <1>3. UNCHANGED [u \in OrderId |-> order[u].items]
    BY <1>1
  <1>4. [u \in OrderId |-> order[u].status]'
           = [[u \in OrderId |-> order[u].status] EXCEPT ![o] = Target[op]]
    BY <1>1
  <1>5. CASE GivesBack(op)
    <2>1. ASSUME NEW p \in Product PROVE product'[p].stock = product[p].stock + order[o].items[p]
      <3>1. product[p].stock \in Int /\ order[o].items[p] \in Nat
        BY DEF OrdInv, InvTypeOK, Row, OrdTypeOK, OrderRow, Quantities
      <3>2. CASE order[o].items[p] > 0
        BY <1>5, <3>2 DEF Changes, Returns
      <3>3. CASE order[o].items[p] = 0
        BY <1>5, <3>1, <3>3 DEF Changes, Untouched
      <3> QED
        BY <3>1, <3>2, <3>3
    <2>2. Target[op] = "CANCELLED"
      BY <1>5 DEF GivesBack
    <2> QED
      BY <1>2, <1>3, <1>4, <2>1, <2>2 DEF Book!Cancel
  <1>6. CASE ~GivesBack(op)
    <2>1. Target[op] = Book!Successor[order[o].status]
      BY <1>1, <1>6 DEF GivesBack, StatusChange, Allowed, Target, Book!Successor
    <2>2. \A p \in Product : product'[p].stock = product[p].stock
      BY <1>6 DEF Changes, Untouched
    <2> QED
      BY <1>2, <1>3, <1>4, <2>1, <2>2 DEF Book!Advance
  <1> QED
    BY <1>5, <1>6

LEMMA SupplyInBook ==
    ASSUME OrdInv, OrdInv', SerialInv, StockNeverNegative', UNCHANGED order, [InvNext]_invVars
    PROVE  [\E p \in Product : Book!Supply(p)]_Book!vars
  <1>a. /\ InvTypeOK /\ SerialJobs /\ product \in [Product -> Row]
        /\ \A p \in Product : product'[p].stock \in Nat
    BY DEF OrdInv, InvTypeOK, Row, SerialInv, OneAtATime, SerialJobs, StockNeverNegative
  <1>1. ASSUME NEW p \in Product, \A q \in Product \ {p} : product'[q] = product[q]
        PROVE  Book!Supply(p)
    BY <1>1, <1>a DEF Book!Supply
  <1>2. ASSUME NEW p \in Product, NEW s \in StockLevel, NEW pr \in Price, Create(p, s, pr)
        PROVE  Book!Supply(p)
    BY <1>1, <1>2, <1>a DEF Create
  <1>3. ASSUME NEW j \in StockJob, WriteProduct(j)
        PROVE  \E p \in Product : Book!Supply(p)
    <2>1. /\ job[j].p \in Product
          /\ \A q \in Product \ {job[j].p} : product'[q] = product[q]
      BY <1>3, <1>a, WriteAlone
    <2> QED
      BY <1>1, <2>1
  <1>4. CASE product' = product
    BY <1>4 DEF Book!vars
  <1>5. ASSUME NEW j \in StockJob, StartJob(j) \/ LogMovement(j) \/ FailJob(j)
        PROVE  product' = product
    BY <1>5, <1>a, StartsCurrent DEF LogMovement, FailJob
  <1> QED
    BY <1>2, <1>3, <1>4, <1>5 DEF InvNext, JobStep, invVars

\* While requests come one at a time, every act of the order book happens in one
\* step, with the stock it takes or gives back, and nothing else changes orders.
THEOREM OrdersImplementBook == SerialSpec => ImplementsBook
  <1>1. OrdInv /\ OrdInv' /\ SerialInv /\ OrdStockInv' /\ [SerialNext]_vars => [Book!Next]_Book!vars
    <2> SUFFICES ASSUME OrdInv, OrdInv', SerialInv, OrdStockInv', [Next]_vars
                 PROVE  [Book!Next]_Book!vars
      BY DEF SerialNext
    <2>1. StockNeverNegative'
      BY DEF OrdStockInv, StockInv
    <2>2. CASE UNCHANGED order /\ [InvNext]_invVars
      BY <2>1, <2>2, SupplyInBook DEF Book!Next
    <2>3. ASSUME NEW new \in SUBSET OrderId, Places(new) PROVE Book!Next
      BY <2>1, <2>3, PlaceInBook DEF Book!Next
    <2>4. ASSUME NEW op \in StatusChange, NEW o \in OrderId, Changes(op, o) PROVE Book!Next
      BY <2>4, ChangeInBook DEF Book!Next
    <2> QED
      BY <2>2, <2>3, <2>4, SerialSteps
  <1>2. SerialSpec => []OrdStockInv
    <2>1. Init => OrdStockInv
      BY InitStockInv DEF Init, OrdInit, OrdStockInv, ViewHolds, IdleCall, Unread
    <2>2. [SerialNext]_vars => [Next]_vars
      BY DEF SerialNext
    <2> QED
      BY <2>1, <2>2, NextStockHolds, SerialInvariant, PTL DEF SerialSpec
  <1> QED
    BY <1>1, <1>2, InitBook, SerialInvariant, PTL DEF SerialSpec, ImplementsBook, Book!Spec

=============================================================================
