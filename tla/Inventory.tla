----------------------------- MODULE Inventory -----------------------------
(***************************************************************************)
(* Product rows and their inventory ledger: ProductsService (create,       *)
(* update, updateStock, remove) and InventoryService (registerEntry,       *)
(* registerExit).                                                          *)
(*                                                                         *)
(* Every handler first reads the product and then issues its statements    *)
(* one by one, with no transaction around them.  A handler in flight is a  *)
(* job: "write" (the product update is due), then "log" (the movement is   *)
(* due).  The values it will write were computed from the row as it was    *)
(* when the handler read it.                                               *)
(***************************************************************************)
EXTENDS Platform, SequencesExt

CONSTANTS
    Product,        \* product ids
    NoProduct,      \* not a product: the product of an idle job
    StockJob,       \* slots for requests to these handlers that overlap
    StockLevel,     \* values of dto.stock
    Quantity,       \* values of dto.quantity
    Price,          \* values of dto.price
    EditColumns,    \* sets of columns a PATCH /products/:id may carry
    EditStatus,     \* values of dto.status
    MaxStock,       \* bound: no entry or adjustment starts above it
    MaxMoves        \* bound: no stock job starts on a product with so many movements

ProductStatus == {"ACTIVE", "OUT_OF_STOCK", "INACTIVE"}
EditableColumn == {"stock", "status", "price"}
MovementType == {"ENTRY", "EXIT", "ADJUSTMENT"}

ASSUME StockAssumption ==
    /\ NoProduct \notin Product
    /\ StockLevel \subseteq Nat
    /\ Quantity \subseteq Nat \ {0}     \* create-entry.dto.ts, create-exit.dto.ts: @Min(1)
    /\ Price \subseteq Nat
    /\ EditColumns \subseteq SUBSET EditableColumn
    /\ EditStatus \subseteq ProductStatus
    /\ MaxStock \in Nat /\ MaxMoves \in Nat

VARIABLES
    product,    \* table products: [Product -> Row]; status "NONE" is no row
    price,      \* its price column
    movement,   \* table inventory_movements, per product, in the order they commit
    job         \* the stock handlers in flight

invVars == <<product, price, movement, job>>

Row == [status : ProductStatus \cup {"NONE"}, stock : Int, deleted : BOOLEAN]
NoRow == [status |-> "NONE", stock |-> 0, deleted |-> FALSE]

\* `order' is the order the reason names, NoOrder for a manual movement.
Movement == [type : MovementType, quantity : Int, previousStock : Int,
             newStock : Int, order : OrderId \cup {NoOrder}]

\* Mutation: the two stock levels swapped.
MovedSwapped(type, quantity, previousStock, newStock, order) ==
    [type |-> type, quantity |-> quantity, previousStock |-> newStock,
     newStock |-> previousStock, order |-> order]

Moved(type, quantity, previousStock, newStock, order) ==
    [type |-> type, quantity |-> quantity, previousStock |-> previousStock,
     newStock |-> newStock, order |-> order]

\* What is left to do of a handler: the columns it sets on row p and the values
\* they get, and the movements (none or one) it creates next.
JobRecord == [pc : {"idle", "write", "log"}, p : Product \cup {NoProduct},
              cols : SUBSET (EditableColumn \cup {"deleted"}),
              stock : Int, status : ProductStatus, price : Price \cup {0},
              moves : Seq(Movement)]
Job == {w \in JobRecord : "price" \in w.cols => w.price \in Price}

IdleJob == [pc |-> "idle", p |-> NoProduct, cols |-> {}, stock |-> 0,
            status |-> "ACTIVE", price |-> 0, moves |-> <<>>]

---------------------------------------------------------------------------
(* The status a handler computes from the stock and status it has read.    *)

StatusOnCreate(stock) == IF stock = 0 THEN "OUT_OF_STOCK" ELSE "ACTIVE"

\* Mutation: an entry puts any product on offer.
StatusAfterEntryAlways(status) == "ACTIVE"

StatusAfterEntry(status) == IF status = "OUT_OF_STOCK" THEN "ACTIVE" ELSE status

StatusAfterExit(newStock, status) ==
    IF newStock = 0 /\ status = "ACTIVE" THEN "OUT_OF_STOCK" ELSE status

StatusAfterAdjustment(stock, status) ==
    IF stock > 0 THEN StatusAfterEntry(status) ELSE StatusAfterExit(stock, status)

---------------------------------------------------------------------------
FreshRow(stock) == [status |-> StatusOnCreate(stock), stock |-> stock, deleted |-> FALSE]

\* Products as create() leaves them, or not created yet.
InvInit ==
    /\ product \in [Product -> {NoRow} \cup {FreshRow(s) : s \in StockLevel}]
    /\ price \in [Product -> Price]
    /\ movement = [p \in Product |-> <<>>]
    /\ job = [j \in StockJob |-> IdleJob]

\* POST /products.  One insert; there is no movement for the initial stock.
Create(p, s, pr) ==
    /\ product[p].status = "NONE"
    /\ product' = [product EXCEPT ![p] = FreshRow(s)]
    /\ price' = [price EXCEPT ![p] = pr]
    /\ UNCHANGED <<movement, job>>

\* getOwnedProduct by the owner or an admin; any other request ends in an
\* error and changes nothing.  The soft-delete extension hides deleted rows.
Found(j, p) ==
    /\ job[j].pc = "idle"
    /\ product[p].status # "NONE"
    /\ ~product[p].deleted

Start(j, p, cols, stock, status, pr, moves) ==
    /\ job' = [job EXCEPT ![j] = [pc |-> "write", p |-> p, cols |-> cols, stock |-> stock,
                                  status |-> status, price |-> pr, moves |-> moves]]
    /\ UNCHANGED <<product, price, movement>>

StockColumns == {"stock", "status"}

\* POST /products/:productId/inventory/entries
RegisterEntry(j, p, q) ==
    LET previous == product[p].stock IN
    /\ Found(j, p)
    /\ previous + q <= MaxStock /\ Len(movement[p]) < MaxMoves
    /\ Start(j, p, StockColumns, previous + q, StatusAfterEntry(product[p].status), 0,
             <<Moved("ENTRY", q, previous, previous + q, NoOrder)>>)

CanTake(q, stock) == q <= stock

\* POST /products/:productId/inventory/exits
RegisterExit(j, p, q) ==
    LET previous == product[p].stock IN
    /\ Found(j, p)
    /\ CanTake(q, previous)
    /\ Len(movement[p]) < MaxMoves
    /\ Start(j, p, StockColumns, previous - q,
             StatusAfterExit(previous - q, product[p].status), 0,
             <<Moved("EXIT", q, previous, previous - q, NoOrder)>>)

\* PATCH /products/:id/stock: a movement only if the level changes.
UpdateStock(j, p, s) ==
    LET previous == product[p].stock IN
    /\ Found(j, p)
    /\ Len(movement[p]) < MaxMoves
    /\ Start(j, p, StockColumns, s, StatusAfterAdjustment(s, product[p].status), 0,
             IF s = previous THEN <<>>
             ELSE <<Moved("ADJUSTMENT", s - previous, previous, s, NoOrder)>>)

\* PATCH /products/:id sets the columns the request carries, and makes no movement.
Update(j, p, cols, s, st, pr) ==
    /\ Found(j, p)
    /\ Start(j, p, cols, s, st, pr, <<>>)

\* DELETE /products/:id
RemoveProduct(j, p) ==
    /\ Found(j, p)
    /\ Start(j, p, {"deleted"}, 0, "ACTIVE", 0, <<>>)

\* The product update of the handler: absolute values, by id.
WriteProduct(j) ==
    LET w == job[j] IN
    /\ w.pc = "write"
    /\ product' = [product EXCEPT ![w.p] =
          [status |-> IF "status" \in w.cols THEN w.status ELSE @.status,
           stock |-> IF "stock" \in w.cols THEN w.stock ELSE @.stock,
           deleted |-> @.deleted \/ "deleted" \in w.cols]]
    /\ price' = IF "price" \in w.cols THEN [price EXCEPT ![w.p] = w.price] ELSE price
    /\ job' = [job EXCEPT ![j] = IF w.moves = <<>> THEN IdleJob ELSE [w EXCEPT !.pc = "log"]]
    /\ UNCHANGED movement

\* The movement it records, after and apart from the product update.
LogMovement(j) ==
    /\ job[j].pc = "log"
    /\ movement' = [movement EXCEPT ![job[j].p] = @ \o job[j].moves]
    /\ job' = [job EXCEPT ![j] = IdleJob]
    /\ UNCHANGED <<product, price>>

\* A statement of the handler fails, or the process dies: what is written stays.
FailJob(j) ==
    /\ Faults
    /\ job[j].pc # "idle"
    /\ job' = [job EXCEPT ![j] = IdleJob]
    /\ UNCHANGED <<product, price, movement>>

StartJob(j) ==
    \E p \in Product :
        \/ \E q \in Quantity : RegisterEntry(j, p, q) \/ RegisterExit(j, p, q)
        \/ \E s \in StockLevel : UpdateStock(j, p, s)
        \/ \E cols \in EditColumns :
           \E s \in (IF "stock" \in cols THEN StockLevel ELSE {0}),
              st \in (IF "status" \in cols THEN EditStatus ELSE {"ACTIVE"}),
              pr \in (IF "price" \in cols THEN Price ELSE {0}) :
                 Update(j, p, cols, s, st, pr)
        \/ RemoveProduct(j, p)

JobStep(j) == WriteProduct(j) \/ LogMovement(j)

InvNext ==
    \/ \E p \in Product, s \in StockLevel, pr \in Price : Create(p, s, pr)
    \/ \E j \in StockJob : StartJob(j) \/ JobStep(j) \/ FailJob(j)

InvSpec == InvInit /\ [][InvNext]_invVars

\* Stock requests one at a time.
OneJob == \A i, j \in StockJob : job[i].pc # "idle" /\ job[j].pc # "idle" => i = j

InvSerialSpec == InvInit /\ [][InvNext /\ OneJob']_invVars

---------------------------------------------------------------------------
(* Properties.                                                             *)

\* The tables hold rows of the shape the schema declares.
InvTypeOK ==
    /\ product \in [Product -> Row]
    /\ price \in [Product -> Price]
    /\ movement \in [Product -> Seq(Movement)]
    /\ job \in [StockJob -> Job]

\* Stock never goes below zero, however the handlers interleave: every write is
\* absolute and was checked against the row its handler had read.
StockNeverNegative == \A p \in Product : product[p].stock >= 0

\* While nobody edits stock or status directly, a product is offered exactly
\* when it has stock, in spite of lost updates: each handler writes the two
\* columns together, both computed from one row.
OfferedIffInStock ==
    \A p \in Product :
        /\ product[p].status = "ACTIVE" => product[p].stock > 0
        /\ product[p].status = "OUT_OF_STOCK" => product[p].stock = 0

\* Consecutive movements of a product continue each other, and the last one
\* ends at the stock the product has.
LedgerExplains(p) ==
    LET moves == movement[p] IN
    /\ \A i \in 1 .. Len(moves) - 1 : moves[i + 1].previousStock = moves[i].newStock
    /\ moves # <<>> => Last(moves).newStock = product[p].stock

\* When stock handlers run one at a time and none fails halfway, the ledger of
\* a product explains its stock (but see Update, which writes no movement).
LedgerExplainsStock ==
    \A p \in Product : (\A j \in StockJob : job[j].p # p) => LedgerExplains(p)

\* A product the seller has hidden (INACTIVE) is not put back on offer by a
\* stock handler: only an edit of the status column may do it.  Handlers that
\* run one at a time keep this; overlapping ones do not, because they write
\* back the status they had read.
HiddenStaysHidden ==
    [][\A p \in Product :
          product[p].status = "INACTIVE" /\ product'[p].status # "INACTIVE"
              => \E j \in StockJob :
                    job[j].p = p /\ job[j].moves = <<>> /\ "status" \in job[j].cols]_invVars

=============================================================================
