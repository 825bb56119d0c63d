-------------------------------- MODULE Cart --------------------------------
(***************************************************************************)
(* Carts: CartService, and the two requests that pay for one through       *)
(* PayPal (PaypalPaymentsService).  What a checkout does to orders and     *)
(* stock is modules Orders' and Payments' matter: here it prices a cart    *)
(* and converts it.  Sellers edit and administrators suspend as they       *)
(* please.                                                                 *)
(***************************************************************************)
EXTENDS Requests

CONSTANTS
    Buyer,
    Product,
    CartPrice,      \* prices a product may have
    MaxUnits,       \* bound: the stock a product may have, and what a request asks for
    MaxCarts,       \* bound: rows of table carts
    MaxItems        \* bound: rows of table cart_items, deleted ones included

ASSUME CartAssumption ==
    /\ CartPrice \subseteq Nat \ {0}
    /\ MaxUnits \in Nat /\ MaxCarts \in Nat \ {0} /\ MaxItems \in Nat \ {0}

Cart == 1 .. MaxCarts
Item == 1 .. MaxItems
None == 0
CartStatus == {"NONE", "ACTIVE", "CONVERTED"}

VARIABLES
    shelf,      \* the products, and whether their seller is suspended
    cart,       \* table carts, in the order they are created
    item,       \* table cart_items, in the order they are created; quantity 0 is no row
    wanted,     \* history: what the answers to a buyer's requests say the cart holds
    bill        \* the PayPal order of a buyer, and its history

cartVars == <<shelf, cart, item, wanted, bill>>

Shelf == [stock : 0 .. MaxUnits, price : CartPrice, sold : BOOLEAN, suspended : BOOLEAN]
CartRow == [owner : Buyer \cup {None}, status : CartStatus]
ItemRow == [cart : Cart \cup {None}, product : Product \cup {None}, quantity : Nat]

\* quoted: the amount PayPal asks for (0: no order); paid: what it has captured;
\* ordered: what the orders made of it amount to; stirred: the cart or a price
\* has changed since it was priced for PayPal.
Bill == [quoted : Nat, paid : Nat, ordered : Nat, stirred : BOOLEAN]

\* Nothing in the carts yet, or a buyer has put a unit of a product in one.
CartInit ==
    /\ shelf \in [Product -> {s \in Shelf : s.stock = MaxUnits /\ s.sold /\ ~s.suspended}]
    /\ \E b \in Buyer, p \in Product, q \in {0, 1} :
          /\ cart = [c \in Cart |-> IF q = 1 /\ c = 1 THEN [owner |-> b, status |-> "ACTIVE"]
                                    ELSE [owner |-> None, status |-> "NONE"]]
          /\ item = [i \in Item |-> IF q = 1 /\ i = 1
                                    THEN [cart |-> 1, product |-> p, quantity |-> q]
                                    ELSE [cart |-> None, product |-> None, quantity |-> 0]]
          /\ wanted = [x \in Buyer |-> [y \in Product |-> IF x = b /\ y = p THEN q ELSE 0]]
    /\ bill = [b \in Buyer |-> [quoted |-> 0, paid |-> 0, ordered |-> 0, stirred |-> FALSE]]

CartArgs == [buyer |-> None, product |-> None, quantity |-> 0, stock |-> 0, cart |-> None,
             item |-> None, held |-> 0, paid |-> FALSE]

---------------------------------------------------------------------------
ActiveCarts(b) == {c \in Cart : cart[c].owner = b /\ cart[c].status = "ACTIVE"}
ItemsOf(c) == {i \in Item : item[i].cart = c /\ item[i].quantity > 0}

\* The units of the smallest price there are in what a cart holds.
Cents(i) == {i} \X (1 .. item[i].quantity * shelf[item[i].product].price)
Total(c) == Cardinality(UNION {Cents(i) : i \in ItemsOf(c)})

\* assertProductPurchasable
Purchasable(p, q) ==
    /\ shelf[p].sold
    /\ ~shelf[p].suspended
    /\ q <= shelf[p].stock

\* The cart or a price of these buyers has changed.
Stir(B) == [b \in Buyer |-> IF b \in B THEN [bill[b] EXCEPT !.stirred = TRUE] ELSE bill[b]]

(* Requests.                                                               *)

AddItem(r, b, p, q) ==
    /\ Purchasable(p, q)
    /\ Begin(r, <<"findCart", "findItem", "writeItem">>,
             [CartArgs EXCEPT !.buyer = b, !.product = p, !.quantity = q,
                              !.stock = shelf[p].stock])

GetCart(r, b) == Begin(r, <<"findCart">>, [CartArgs EXCEPT !.buyer = b])

\* getOwnedItem: the item may be of any cart of the buyer, a converted one too.
Owned(b, i) == item[i].quantity > 0 /\ cart[item[i].cart].owner = b

UpdateItemQuantity(r, b, i, q) ==
    /\ Owned(b, i)
    /\ Purchasable(item[i].product, q)
    /\ Begin(r, <<"setItem">>, [CartArgs EXCEPT !.buyer = b, !.item = i, !.quantity = q])

RemoveItem(r, b, i) ==
    /\ Owned(b, i)
    /\ Begin(r, <<"setItem">>, [CartArgs EXCEPT !.buyer = b, !.item = i])

CreateCheckoutOrder(r, b) == Begin(r, <<"findCart", "quote">>, [CartArgs EXCEPT !.buyer = b])

\* The buyer has approved the PayPal order.
CaptureCheckoutOrder(r, b) ==
    /\ bill[b].quoted > 0
    /\ Begin(r, <<"capture", "checkout", "convert">>,
             [CartArgs EXCEPT !.buyer = b, !.paid = TRUE])

\* The same checkout without PayPal.
CheckoutCart(r, b) == Begin(r, <<"checkout", "convert">>, [CartArgs EXCEPT !.buyer = b])

(* Statements.                                                             *)

\* getOrCreateActiveCart reads; the cart is created in a statement of its own.
FindCart(r) ==
    LET arg == req[r].arg IN
    /\ At(r, "findCart")
    /\ IF ActiveCarts(arg.buyer) = {}
       THEN Proceed(r, <<"createCart">> \o Tail(req[r].todo), arg)
       ELSE \E c \in ActiveCarts(arg.buyer) : AdvanceWith(r, [arg EXCEPT !.cart = c])
    /\ UNCHANGED cartVars

CreateCart(r) ==
    LET arg == req[r].arg IN
    /\ At(r, "createCart")
    /\ \E c \in Cart :
          /\ \A d \in Cart : cart[d].status = "NONE" <=> d >= c
          /\ cart' = [cart EXCEPT ![c] = [owner |-> arg.buyer, status |-> "ACTIVE"]]
          /\ AdvanceWith(r, [arg EXCEPT !.cart = c])
    /\ UNCHANGED <<shelf, item, wanted, bill>>

\* Adding to an item keeps to the stock the handler has read.
FindItem(r) ==
    LET arg == req[r].arg
        same == {i \in ItemsOf(arg.cart) : item[i].product = arg.product}
    IN
    /\ At(r, "findItem")
    /\ IF same = {} THEN Advance(r)
       ELSE \E i \in same :
               IF item[i].quantity + arg.quantity > arg.stock THEN Quit(r)
               ELSE AdvanceWith(r, [arg EXCEPT !.item = i, !.held = item[i].quantity])
    /\ UNCHANGED cartVars

\* Mutation: the quantity asked for replaces the one held.
AddedReplaces(held, asked) == asked

Added(held, asked) == held + asked

\* A second item of the same product breaks the unique pair; an update of an
\* item deleted meanwhile fails.
WriteItem(r) ==
    LET arg == req[r].arg
        kept == [wanted EXCEPT ![arg.buyer][arg.product] =
                    IF cart[arg.cart].status = "ACTIVE" THEN @ + arg.quantity ELSE @]
    IN
    /\ At(r, "writeItem")
    /\ IF arg.item = None
       THEN IF \E i \in ItemsOf(arg.cart) : item[i].product = arg.product
            THEN Quit(r) /\ UNCHANGED <<item, wanted, bill>>
            ELSE \E i \in Item :
                    /\ \A j \in Item : item[j].cart = None <=> j >= i
                    /\ item' = [item EXCEPT ![i] = [cart |-> arg.cart, product |-> arg.product,
                                                    quantity |-> arg.quantity]]
                    /\ wanted' = kept /\ bill' = Stir({arg.buyer}) /\ Advance(r)
       ELSE IF item[arg.item].quantity = 0
            THEN Quit(r) /\ UNCHANGED <<item, wanted, bill>>
            ELSE /\ item' = [item EXCEPT ![arg.item].quantity = Added(arg.held, arg.quantity)]
                 /\ wanted' = kept /\ bill' = Stir({arg.buyer}) /\ Advance(r)
    /\ UNCHANGED <<shelf, cart>>

\* updateItemQuantity and removeItem, by the id of the item.
SetItem(r) ==
    LET arg == req[r].arg  row == item[arg.item] IN
    /\ At(r, "setItem")
    /\ IF row.quantity = 0
       THEN Quit(r) /\ UNCHANGED <<item, wanted, bill>>
       ELSE /\ item' = [item EXCEPT ![arg.item].quantity = arg.quantity]
            /\ wanted' = [wanted EXCEPT ![arg.buyer][row.product] =
                             IF cart[row.cart].status = "ACTIVE" THEN arg.quantity ELSE @]
            /\ bill' = Stir({arg.buyer})
            /\ Advance(r)
    /\ UNCHANGED <<shelf, cart>>

\* Mutation: a unit of each item.
PriceOfOneEach(c) == Cardinality(ItemsOf(c))

PriceOf(c) == Total(c)

\* createCheckoutOrder prices the cart it finds.
Quote(r) ==
    LET arg == req[r].arg IN
    /\ At(r, "quote")
    /\ IF ItemsOf(arg.cart) = {}
       THEN Quit(r) /\ UNCHANGED bill
       ELSE /\ bill' = [bill EXCEPT ![arg.buyer] =
                           [@ EXCEPT !.quoted = PriceOf(arg.cart), !.stirred = FALSE]]
            /\ Advance(r)
    /\ UNCHANGED <<shelf, cart, item, wanted>>

\* PayPal captures an order once.
Capture(r) ==
    LET b == req[r].arg.buyer IN
    /\ At(r, "capture")
    /\ IF bill[b].quoted = 0
       THEN Quit(r) /\ UNCHANGED bill
       ELSE /\ bill' = [bill EXCEPT ![b].paid = bill[b].quoted, ![b].quoted = 0,
                                    ![b].ordered = 0]
            /\ Advance(r)
    /\ UNCHANGED <<shelf, cart, item, wanted>>

\* OrdersService.checkout reads an active cart and refuses what cannot be sold.
Checkout(r) ==
    LET arg == req[r].arg IN
    /\ At(r, "checkout")
    /\ IF ActiveCarts(arg.buyer) = {} THEN Quit(r)
       ELSE \E c \in ActiveCarts(arg.buyer) :
               IF \/ ItemsOf(c) = {}
                  \/ \E i \in ItemsOf(c) : ~Purchasable(item[i].product, item[i].quantity)
               THEN Quit(r)
               ELSE AdvanceWith(r, [arg EXCEPT !.cart = c, !.held = Total(c)])
    /\ UNCHANGED cartVars

Convert(r) ==
    LET arg == req[r].arg IN
    /\ At(r, "convert")
    /\ cart' = [cart EXCEPT ![arg.cart].status = "CONVERTED"]
    /\ bill' = [bill EXCEPT ![arg.buyer].ordered = IF arg.paid THEN arg.held ELSE @]
    /\ wanted' = [wanted EXCEPT ![arg.buyer] = [p \in Product |-> 0]]
    /\ Advance(r)
    /\ UNCHANGED <<shelf, item>>

---------------------------------------------------------------------------
\* A seller edits a product, or an administrator suspends or readmits the seller.
EditProduct(p) ==
    /\ AtOnce
    /\ \/ \E row \in Shelf :
             /\ row # shelf[p] /\ row.suspended = shelf[p].suspended
             /\ shelf' = [shelf EXCEPT ![p] = row]
             /\ bill' = IF row.price # shelf[p].price THEN Stir(Buyer) ELSE bill
       \/ /\ shelf' = [shelf EXCEPT ![p].suspended = ~@]
          /\ UNCHANGED bill
    /\ UNCHANGED <<cart, item, wanted>>

CartStep(r) ==
    \/ FindCart(r) \/ CreateCart(r) \/ FindItem(r) \/ WriteItem(r) \/ SetItem(r)
    \/ Quote(r) \/ Capture(r) \/ Checkout(r) \/ Convert(r)

StartCart(r) ==
    \E b \in Buyer :
        \/ GetCart(r, b) \/ CheckoutCart(r, b)
        \/ CreateCheckoutOrder(r, b) \/ CaptureCheckoutOrder(r, b)
        \/ \E q \in 1 .. MaxUnits :
              \/ \E p \in Product : AddItem(r, b, p, q)
              \/ \E i \in Item : UpdateItemQuantity(r, b, i, q)
        \/ \E i \in Item : RemoveItem(r, b, i)

CartNext ==
    \/ \E r \in Slot : ((StartCart(r) \/ Break(r)) /\ UNCHANGED cartVars) \/ CartStep(r)
    \/ \E p \in Product : EditProduct(p)

CartSpec == ReqInit /\ CartInit /\ [][CartNext]_<<reqVars, cartVars>>

---------------------------------------------------------------------------
(* Properties.                                                             *)

\* The tables hold rows of the shape the schema declares.
CartTypeOK ==
    /\ shelf \in [Product -> Shelf]
    /\ cart \in [Cart -> CartRow]
    /\ item \in [Item -> ItemRow]
    /\ wanted \in [Buyer -> [Product -> Nat]]
    /\ bill \in [Buyer -> Bill]

\* While requests neither overlap nor fail, a buyer has one active cart at most
\* and it holds what the answers said it would: additions add up, an update or
\* a removal counts only in the active cart, and a conversion empties it.
\* (First requests that overlap create two carts; additions that overlap lose one.)
CartHoldsWhatWasAdded ==
    smooth /\ AllRest => \A b \in Buyer :
        /\ Cardinality(ActiveCarts(b)) <= 1
        /\ \A c \in ActiveCarts(b), p \in Product :
              LET held == {i \in ItemsOf(c) : item[i].product = p}
              IN IF wanted[b][p] = 0 THEN held = {}
                 ELSE \E i \in held : held = {i} /\ item[i].quantity = wanted[b][p]

\* What PayPal has captured is what the orders amount to, as long as nobody has
\* touched the cart or a price since it was quoted and requests do not overlap.
\* (The capture prices the cart again, and does not compare.)
PaidIsOrdered ==
    [][\A b \in Buyer :
          smooth' /\ ~bill[b].stirred /\ bill[b].ordered = 0 /\ bill'[b].ordered # 0
              => bill'[b].ordered = bill'[b].paid]_<<reqVars, cartVars>>

=============================================================================
