-------------------------- MODULE Inventory_proofs --------------------------
(***************************************************************************)
(* Theorems about Inventory, for any number of products and of overlapping *)
(* handlers.                                                               *)
(***************************************************************************)
EXTENDS Inventory, TLAPS

---------------------------------------------------------------------------
(* Type correctness.                                                       *)

\* A movement made by Moved from integers is a row of the ledger.
LEMMA MovedType ==
    ASSUME NEW type \in MovementType, NEW q \in Int, NEW prev \in Int, NEW new \in Int,
           NEW o \in OrderId \cup {NoOrder}
    PROVE  Moved(type, q, prev, new, o) \in Movement
  BY DEF Moved, Movement

\* What a handler computes for the status is a status.
LEMMA StatusType ==
    ASSUME NEW st \in ProductStatus, NEW s \in Int
    PROVE  /\ StatusOnCreate(s) \in ProductStatus
           /\ StatusAfterEntry(st) \in ProductStatus
           /\ StatusAfterExit(s, st) \in ProductStatus
           /\ StatusAfterAdjustment(s, st) \in ProductStatus
  BY DEF ProductStatus, StatusOnCreate, StatusAfterEntry, StatusAfterExit,
         StatusAfterAdjustment

\* Every row the platform starts with or creates is a row.
LEMMA FreshRowType ==
    ASSUME NEW s \in Int
    PROVE  FreshRow(s) \in Row
  BY StatusType DEF FreshRow, Row, ProductStatus, StatusOnCreate

LEMMA IdleJobType == IdleJob \in Job
  BY DEF IdleJob, Job, JobRecord, ProductStatus

\* What is left of a handler once it has written the product.
LEMMA LogNextType ==
    ASSUME NEW w \in Job
    PROVE  [w EXCEPT !.pc = "log"] \in Job
  <1>1. [w EXCEPT !.pc = "log"] =
           [pc |-> "log", p |-> w.p, cols |-> w.cols, stock |-> w.stock,
            status |-> w.status, price |-> w.price, moves |-> w.moves]
    BY DEF Job, JobRecord
  <1> QED
    BY <1>1 DEF Job, JobRecord

LEMMA InitTypeOK == InvInit => InvTypeOK
  <1> SUFFICES ASSUME InvInit PROVE InvTypeOK
    OBVIOUS
  <1>1. product \in [Product -> Row]
    <2>1. NoRow \in Row
      BY DEF NoRow, Row
    <2>2. \A s \in StockLevel : FreshRow(s) \in Row
      BY FreshRowType, StockAssumption
    <2> QED
      BY <2>1, <2>2 DEF InvInit
  <1>2. price \in [Product -> Price]
    BY DEF InvInit
  <1>3. movement \in [Product -> Seq(Movement)]
    BY DEF InvInit
  <1>4. job \in [StockJob -> Job]
    BY IdleJobType DEF InvInit
  <1> QED
    BY <1>1, <1>2, <1>3, <1>4 DEF InvTypeOK

\* A handler that starts with values of the right type leaves the types right.
LEMMA StartTypeOK ==
    ASSUME InvTypeOK, NEW j \in StockJob, NEW p \in Product,
           NEW cols \in SUBSET (EditableColumn \cup {"deleted"}), NEW s \in Int,
           NEW st \in ProductStatus, NEW pr \in Price \cup {0}, NEW moves \in Seq(Movement),
           "price" \in cols => pr \in Price,
           Start(j, p, cols, s, st, pr, moves)
    PROVE  InvTypeOK'
  <1>1. [pc |-> "write", p |-> p, cols |-> cols, stock |-> s, status |-> st,
         price |-> pr, moves |-> moves] \in Job
    BY DEF Job, JobRecord
  <1> QED
    BY <1>1 DEF Start, InvTypeOK

\* A step of InvNext leaves the types right.
LEMMA NextTypeOK == InvTypeOK /\ [InvNext]_invVars => InvTypeOK'
  <1> SUFFICES ASSUME InvTypeOK, [InvNext]_invVars PROVE InvTypeOK'
    OBVIOUS
  <1>1. ASSUME NEW p \in Product, NEW s \in StockLevel, NEW pr \in Price, Create(p, s, pr)
        PROVE  InvTypeOK'
    <2>1. FreshRow(s) \in Row
      BY FreshRowType, StockAssumption
    <2> QED
      BY <1>1, <2>1 DEF Create, InvTypeOK
  <1>2. ASSUME NEW j \in StockJob, StartJob(j) PROVE InvTypeOK'
    <2>0. \A p \in Product : Found(j, p) =>
            product[p].stock \in Int /\ product[p].status \in ProductStatus
      BY DEF Found, InvTypeOK, Row
    <2>a. /\ "price" \notin StockColumns /\ StockColumns \in SUBSET (EditableColumn \cup {"deleted"})
          /\ {"deleted"} \in SUBSET (EditableColumn \cup {"deleted"}) /\ 0 \in Price \cup {0}
      BY DEF StockColumns, EditableColumn
    <2>1. ASSUME NEW p \in Product, NEW q \in Quantity, RegisterEntry(j, p, q)
          PROVE  InvTypeOK'
      <3> DEFINE m == Moved("ENTRY", q, product[p].stock, product[p].stock + q, NoOrder)
      <3>1. /\ product[p].stock + q \in Int /\ StatusAfterEntry(product[p].status) \in ProductStatus
            /\ <<m>> \in Seq(Movement)
        BY <2>0, <2>1, StockAssumption, StatusType, MovedType DEF RegisterEntry, MovementType
      <3>2. Start(j, p, StockColumns, product[p].stock + q, StatusAfterEntry(product[p].status),
                  0, <<m>>)
        BY <2>1 DEF RegisterEntry
      <3> QED
        BY <2>a, <3>1, <3>2, StartTypeOK
    <2>2. ASSUME NEW p \in Product, NEW q \in Quantity, RegisterExit(j, p, q)
          PROVE  InvTypeOK'
      <3> DEFINE left == product[p].stock - q
                 m == Moved("EXIT", q, product[p].stock, left, NoOrder)
      <3>0. /\ left \in Int /\ product[p].stock \in Int /\ product[p].status \in ProductStatus
            /\ q \in Int
        BY <2>0, <2>2, StockAssumption DEF RegisterExit
      <3>1. StatusAfterExit(left, product[p].status) \in ProductStatus
        BY <3>0, StatusType
      <3>b. m \in Movement
        BY <3>0, MovedType DEF MovementType
      <3>c. <<m>> \in Seq(Movement)
        BY <3>b
      <3>2. Start(j, p, StockColumns, left, StatusAfterExit(left, product[p].status), 0, <<m>>)
        BY <2>2 DEF RegisterExit
      <3> QED
        BY <2>a, <3>0, <3>1, <3>c, <3>2, StartTypeOK
    <2>3. ASSUME NEW p \in Product, NEW s \in StockLevel, UpdateStock(j, p, s)
          PROVE  InvTypeOK'
      <3> DEFINE m == Moved("ADJUSTMENT", s - product[p].stock, product[p].stock, s, NoOrder)
                 moves == IF s = product[p].stock THEN <<>> ELSE <<m>>
      <3>0. /\ s \in Int /\ product[p].stock \in Int /\ product[p].status \in ProductStatus
            /\ s - product[p].stock \in Int
        BY <2>0, <2>3, StockAssumption DEF UpdateStock
      <3>1. StatusAfterAdjustment(s, product[p].status) \in ProductStatus
        BY <3>0, StatusType
      <3>b. m \in Movement
        BY <3>0, MovedType DEF MovementType
      <3>c. moves \in Seq(Movement)
        BY <3>b
      <3>2. Start(j, p, StockColumns, s, StatusAfterAdjustment(s, product[p].status), 0, moves)
        BY <2>3 DEF UpdateStock
      <3> QED
        BY <2>a, <3>0, <3>1, <3>c, <3>2, StartTypeOK
    <2>4. ASSUME NEW p \in Product, NEW cols \in EditColumns,
                 NEW s \in (IF "stock" \in cols THEN StockLevel ELSE {0}),
                 NEW st \in (IF "status" \in cols THEN EditStatus ELSE {"ACTIVE"}),
                 NEW pr \in (IF "price" \in cols THEN Price ELSE {0}),
                 Update(j, p, cols, s, st, pr)
          PROVE  InvTypeOK'
      <3>1. /\ cols \in SUBSET (EditableColumn \cup {"deleted"}) /\ s \in Int
            /\ st \in ProductStatus /\ pr \in Price \cup {0} /\ <<>> \in Seq(Movement)
            /\ "price" \in cols => pr \in Price
        BY StockAssumption DEF ProductStatus
      <3> QED
        BY <2>4, <3>1, StartTypeOK DEF Update
    <2>5. ASSUME NEW p \in Product, RemoveProduct(j, p) PROVE InvTypeOK'
      <3>1. [pc |-> "write", p |-> p, cols |-> {"deleted"}, stock |-> 0, status |-> "ACTIVE",
             price |-> 0, moves |-> <<>>] \in Job
        BY DEF Job, JobRecord, EditableColumn, ProductStatus
      <3> QED
        BY <2>5, <3>1 DEF RemoveProduct, Start, InvTypeOK
    <2> QED
      BY <1>2, <2>1, <2>2, <2>3, <2>4, <2>5 DEF StartJob
  <1>3. ASSUME NEW j \in StockJob, WriteProduct(j) PROVE InvTypeOK'
    <2> DEFINE w == job[j]
               row == [status |-> IF "status" \in w.cols THEN w.status ELSE product[w.p].status,
                       stock |-> IF "stock" \in w.cols THEN w.stock ELSE product[w.p].stock,
                       deleted |-> product[w.p].deleted \/ "deleted" \in w.cols]
    <2>1. w \in Job
      BY DEF InvTypeOK
    <2>2. w.p \in Product => row \in Row
      BY <2>1 DEF InvTypeOK, Job, JobRecord, Row
    <2>3. product' \in [Product -> Row]
      BY <1>3, <2>2 DEF WriteProduct, InvTypeOK
    <2>4. price' \in [Product -> Price]
      BY <1>3, <2>1 DEF WriteProduct, InvTypeOK, Job, JobRecord
    <2>5. [w EXCEPT !.pc = "log"] \in Job
      BY <2>1, LogNextType
    <2>6. job' \in [StockJob -> Job]
      BY <1>3, <2>5, IdleJobType DEF WriteProduct, InvTypeOK
    <2> QED
      BY <1>3, <2>3, <2>4, <2>6 DEF WriteProduct, InvTypeOK
  <1>4. ASSUME NEW j \in StockJob, LogMovement(j) PROVE InvTypeOK'
    <2>1. job[j].moves \in Seq(Movement)
      BY DEF InvTypeOK, Job, JobRecord
    <2>2. \A s \in Seq(Movement) : s \o job[j].moves \in Seq(Movement)
      BY <2>1
    <2>3. movement' \in [Product -> Seq(Movement)]
      BY <1>4, <2>2 DEF LogMovement, InvTypeOK
    <2> QED
      BY <1>4, <2>3, IdleJobType DEF LogMovement, InvTypeOK
  <1>5. ASSUME NEW j \in StockJob, FailJob(j) PROVE InvTypeOK'
    BY <1>5, IdleJobType DEF FailJob, InvTypeOK
  <1>6. CASE UNCHANGED invVars
    BY <1>6 DEF invVars, InvTypeOK
  <1> QED
    BY <1>1, <1>2, <1>3, <1>4, <1>5, <1>6 DEF InvNext, JobStep

\* The product, ledger and handler states always have the types of the schema.
THEOREM InvTypeCorrect == InvSpec => []InvTypeOK
  BY InitTypeOK, NextTypeOK, PTL DEF InvSpec

---------------------------------------------------------------------------
(* Stock never goes below zero.                                            *)

\* What makes it inductive: no handler is about to write a negative level.
PendingNotNegative == \A j \in StockJob : job[j].stock >= 0
StockInv == InvTypeOK /\ StockNeverNegative /\ PendingNotNegative

\* A handler that starts with a level that is not negative leaves StockInv true.
LEMMA StartNotNegative ==
    ASSUME StockInv, NEW j \in StockJob, NEW p, NEW cols, NEW s \in Int, NEW st, NEW pr,
           NEW moves, Start(j, p, cols, s, st, pr, moves), s >= 0
    PROVE  (StockNeverNegative /\ PendingNotNegative)'
  BY DEF StockInv, InvTypeOK, StockNeverNegative, PendingNotNegative, Start

LEMMA NextNotNegative ==
    StockInv /\ [InvNext]_invVars => (StockNeverNegative /\ PendingNotNegative)'
  <1> SUFFICES ASSUME StockInv, [InvNext]_invVars
               PROVE  (StockNeverNegative /\ PendingNotNegative)'
    OBVIOUS
  <1>1. ASSUME NEW p \in Product, NEW s \in StockLevel, NEW pr \in Price, Create(p, s, pr)
        PROVE  (StockNeverNegative /\ PendingNotNegative)'
    BY <1>1, StockAssumption
       DEF StockInv, InvTypeOK, StockNeverNegative, PendingNotNegative, Create, FreshRow
  <1>2. ASSUME NEW j \in StockJob, StartJob(j)
        PROVE  (StockNeverNegative /\ PendingNotNegative)'
    <2>0. \A p \in Product : product[p].stock \in Int /\ product[p].stock >= 0
      BY DEF StockInv, StockNeverNegative, InvTypeOK, Row
    <2>1. ASSUME NEW p \in Product, NEW q \in Quantity, RegisterEntry(j, p, q)
          PROVE  (StockNeverNegative /\ PendingNotNegative)'
      <3>1. product[p].stock + q \in Int /\ product[p].stock + q >= 0
        BY <2>0, StockAssumption
      <3> QED
        BY <2>1, <3>1, StartNotNegative DEF RegisterEntry
    <2>2. ASSUME NEW p \in Product, NEW q \in Quantity, RegisterExit(j, p, q)
          PROVE  (StockNeverNegative /\ PendingNotNegative)'
      <3>1. product[p].stock - q \in Int /\ product[p].stock - q >= 0
        BY <2>0, <2>2, StockAssumption DEF RegisterExit, CanTake
      <3> QED
        BY <2>2, <3>1, StartNotNegative DEF RegisterExit
    <2>3. ASSUME NEW p \in Product, NEW s \in StockLevel, UpdateStock(j, p, s)
          PROVE  (StockNeverNegative /\ PendingNotNegative)'
      <3>1. s \in Int /\ s >= 0
        BY StockAssumption
      <3> QED
        BY <2>3, <3>1, StartNotNegative DEF UpdateStock
    <2>4. ASSUME NEW p \in Product, NEW cols \in EditColumns,
                 NEW s \in (IF "stock" \in cols THEN StockLevel ELSE {0}),
                 NEW st \in (IF "status" \in cols THEN EditStatus ELSE {"ACTIVE"}),
                 NEW pr \in (IF "price" \in cols THEN Price ELSE {0}),
                 Update(j, p, cols, s, st, pr)
          PROVE  (StockNeverNegative /\ PendingNotNegative)'
      <3>1. s \in Int /\ s >= 0
        BY StockAssumption
      <3> QED
        BY <2>4, <3>1, StartNotNegative DEF Update
    <2>5. ASSUME NEW p \in Product, RemoveProduct(j, p)
          PROVE  (StockNeverNegative /\ PendingNotNegative)'
      BY <2>5 DEF StockInv, InvTypeOK, StockNeverNegative, PendingNotNegative,
                  RemoveProduct, Start
    <2> QED
      BY <1>2, <2>1, <2>2, <2>3, <2>4, <2>5 DEF StartJob
  <1>3. ASSUME NEW j \in StockJob, WriteProduct(j)
        PROVE  (StockNeverNegative /\ PendingNotNegative)'
    <2>1. StockNeverNegative'
      BY <1>3 DEF StockInv, InvTypeOK, StockNeverNegative, PendingNotNegative, WriteProduct
    <2>2. ASSUME NEW k \in StockJob PROVE job'[k].stock \in {job[k].stock, 0}
      <3>1. [job[j] EXCEPT !.pc = "log"].stock = job[j].stock
        BY DEF StockInv, InvTypeOK, Job, JobRecord
      <3> QED
        BY <1>3, <3>1 DEF WriteProduct, IdleJob, StockInv, InvTypeOK
    <2> QED
      BY <2>1, <2>2 DEF StockInv, PendingNotNegative
  <1>4. ASSUME NEW j \in StockJob, LogMovement(j) \/ FailJob(j)
        PROVE  (StockNeverNegative /\ PendingNotNegative)'
    <2>1. job' = [job EXCEPT ![j] = IdleJob] /\ product' = product
      BY <1>4 DEF LogMovement, FailJob
    <2> QED
      BY <2>1 DEF StockInv, InvTypeOK, StockNeverNegative, PendingNotNegative, IdleJob
  <1>5. CASE UNCHANGED invVars
    BY <1>5 DEF StockInv, StockNeverNegative, PendingNotNegative, invVars
  <1> QED
    BY <1>1, <1>2, <1>3, <1>4, <1>5 DEF InvNext, JobStep

LEMMA InitStockInv == InvInit => StockInv
  <1> SUFFICES ASSUME InvInit PROVE StockNeverNegative /\ PendingNotNegative
    BY InitTypeOK DEF StockInv
  <1>1. StockNeverNegative
    BY StockAssumption DEF InvInit, StockNeverNegative, FreshRow, NoRow
  <1>2. PendingNotNegative
    BY DEF InvInit, PendingNotNegative, IdleJob
  <1> QED
    BY <1>1, <1>2

LEMMA NextStockInv == StockInv /\ [InvNext]_invVars => StockInv'
  <1> SUFFICES ASSUME StockInv, [InvNext]_invVars PROVE StockInv'
    OBVIOUS
  <1>1. InvTypeOK'
    BY NextTypeOK DEF StockInv
  <1>2. StockNeverNegative' /\ PendingNotNegative'
    BY NextNotNegative
  <1> QED
    BY <1>1, <1>2 DEF StockInv

\* However many handlers overlap, and wherever they fail, no product ever has
\* a negative stock.
THEOREM StockStaysNatural == InvSpec => []StockNeverNegative
  <1>1. StockInv => StockNeverNegative
    BY DEF StockInv
  <1> QED
    BY InitStockInv, NextStockInv, <1>1, PTL DEF InvSpec

---------------------------------------------------------------------------
(* What is offered is in stock.                                            *)

\* What a PATCH /products/:id may carry here: it does not set the stock, and of
\* the statuses only INACTIVE.
HarmlessEdits ==
    \A cols \in EditColumns :
        "stock" \notin cols /\ ("status" \in cols => EditStatus \subseteq {"INACTIVE"})

\* The status fits the stock.
Fits(status, stock) ==
    (status = "ACTIVE" => stock > 0) /\ (status = "OUT_OF_STOCK" => stock = 0)

\* What makes it inductive: a handler is about to write both columns, and they
\* fit; or to hide the product; or neither column.
PendingFits ==
    \A j \in StockJob :
        LET w == job[j] IN
        \/ w.cols \cap StockColumns = {}
        \/ w.cols \cap StockColumns = {"status"} /\ w.status = "INACTIVE"
        \/ StockColumns \subseteq w.cols /\ Fits(w.status, w.stock)
OfferInv == StockInv /\ OfferedIffInStock /\ PendingFits

\* The status each handler computes fits the stock it computes with it.
LEMMA ComputedFits ==
    ASSUME NEW status \in ProductStatus, NEW stock \in Int, NEW new \in Int,
           Fits(status, stock), stock >= 0, new >= 0
    PROVE  /\ Fits(StatusOnCreate(new), new)
           /\ new > stock => Fits(StatusAfterEntry(status), new)
           /\ new < stock => Fits(StatusAfterExit(new, status), new)
           /\ Fits(StatusAfterAdjustment(new, status), new)
  BY DEF ProductStatus, Fits, StatusOnCreate, StatusAfterEntry, StatusAfterExit,
         StatusAfterAdjustment

\* A handler that starts with columns that fit leaves the invariant true.
LEMMA StartFits ==
    ASSUME OfferInv, NEW j \in StockJob, NEW p, NEW cols, NEW s, NEW st, NEW pr, NEW moves,
           Start(j, p, cols, s, st, pr, moves),
           \/ cols \cap StockColumns = {}
           \/ cols \cap StockColumns = {"status"} /\ st = "INACTIVE"
           \/ StockColumns \subseteq cols /\ Fits(st, s)
    PROVE  (OfferedIffInStock /\ PendingFits)'
  <1>1. OfferedIffInStock'
    BY DEF Start, OfferInv, OfferedIffInStock
  <1>2. ASSUME NEW k \in StockJob
        PROVE  \/ job'[k].cols \cap StockColumns = {}
               \/ job'[k].cols \cap StockColumns = {"status"} /\ job'[k].status = "INACTIVE"
               \/ StockColumns \subseteq job'[k].cols /\ Fits(job'[k].status, job'[k].stock)
    BY DEF Start, OfferInv, PendingFits, StockInv, InvTypeOK
  <1> QED
    BY <1>1, <1>2 DEF PendingFits

LEMMA NextFits ==
    HarmlessEdits /\ OfferInv /\ [InvNext]_invVars => (OfferedIffInStock /\ PendingFits)'
  <1> SUFFICES ASSUME HarmlessEdits, OfferInv, [InvNext]_invVars
               PROVE  (OfferedIffInStock /\ PendingFits)'
    OBVIOUS
  <1>0. \A p \in Product : /\ product[p].stock \in Int /\ product[p].stock >= 0
                           /\ Fits(product[p].status, product[p].stock)
    BY DEF OfferInv, StockInv, StockNeverNegative, InvTypeOK, Row, OfferedIffInStock, Fits
  <1>1. ASSUME NEW p \in Product, NEW s \in StockLevel, NEW pr \in Price, Create(p, s, pr)
        PROVE  (OfferedIffInStock /\ PendingFits)'
    <2>1. Fits(StatusOnCreate(s), s)
      BY StockAssumption DEF Fits, StatusOnCreate
    <2>2. OfferedIffInStock'
      BY <1>1, <2>1 DEF Create, FreshRow, OfferInv, OfferedIffInStock, Fits, StockInv, InvTypeOK
    <2> QED
      BY <1>1, <2>2 DEF Create, OfferInv, PendingFits
  <1>2. ASSUME NEW j \in StockJob, StartJob(j)
        PROVE  (OfferedIffInStock /\ PendingFits)'
    <2>0. \A p \in Product : Found(j, p) => product[p].status \in ProductStatus
      BY DEF Found, OfferInv, StockInv, InvTypeOK, Row
    <2>1. ASSUME NEW p \in Product, NEW q \in Quantity, RegisterEntry(j, p, q)
          PROVE  (OfferedIffInStock /\ PendingFits)'
      <3>1. Fits(StatusAfterEntry(product[p].status), product[p].stock + q)
        BY <1>0, <2>0, <2>1, StockAssumption, ComputedFits DEF RegisterEntry
      <3> QED
        BY <2>1, <3>1, StartFits DEF RegisterEntry
    <2>2. ASSUME NEW p \in Product, NEW q \in Quantity, RegisterExit(j, p, q)
          PROVE  (OfferedIffInStock /\ PendingFits)'
      <3>1. Fits(StatusAfterExit(product[p].stock - q, product[p].status), product[p].stock - q)
        BY <1>0, <2>0, <2>2, StockAssumption, ComputedFits DEF RegisterExit, CanTake
      <3> QED
        BY <2>2, <3>1, StartFits DEF RegisterExit
    <2>3. ASSUME NEW p \in Product, NEW s \in StockLevel, UpdateStock(j, p, s)
          PROVE  (OfferedIffInStock /\ PendingFits)'
      <3>1. Fits(StatusAfterAdjustment(s, product[p].status), s)
        BY <1>0, <2>0, <2>3, StockAssumption, ComputedFits DEF UpdateStock
      <3> QED
        BY <2>3, <3>1, StartFits DEF UpdateStock
    <2>4. ASSUME NEW p \in Product, NEW cols \in EditColumns,
                 NEW s \in (IF "stock" \in cols THEN StockLevel ELSE {0}),
                 NEW st \in (IF "status" \in cols THEN EditStatus ELSE {"ACTIVE"}),
                 NEW pr \in (IF "price" \in cols THEN Price ELSE {0}),
                 Update(j, p, cols, s, st, pr)
          PROVE  (OfferedIffInStock /\ PendingFits)'
      <3>1. \/ cols \cap StockColumns = {}
            \/ cols \cap StockColumns = {"status"} /\ st = "INACTIVE"
        BY DEF HarmlessEdits, StockColumns
      <3> QED
        BY <2>4, <3>1, StartFits DEF Update
    <2>5. ASSUME NEW p \in Product, RemoveProduct(j, p)
          PROVE  (OfferedIffInStock /\ PendingFits)'
      <3>1. {"deleted"} \cap StockColumns = {}
        BY DEF StockColumns
      <3> QED
        BY <2>5, <3>1, StartFits DEF RemoveProduct
    <2> QED
      BY <1>2, <2>1, <2>2, <2>3, <2>4, <2>5 DEF StartJob
  <1>3. ASSUME NEW j \in StockJob, WriteProduct(j)
        PROVE  (OfferedIffInStock /\ PendingFits)'
    <2> DEFINE w == job[j]
    <2>1. OfferedIffInStock'
      <3>1. CASE w.cols \cap StockColumns = {}
        BY <1>3, <3>1 DEF OfferInv, StockInv, InvTypeOK, OfferedIffInStock, WriteProduct,
                          StockColumns
      <3>2. CASE w.cols \cap StockColumns = {"status"} /\ w.status = "INACTIVE"
        BY <1>3, <3>2 DEF OfferInv, StockInv, InvTypeOK, OfferedIffInStock, WriteProduct,
                          StockColumns
      <3>3. CASE StockColumns \subseteq w.cols /\ Fits(w.status, w.stock)
        BY <1>3, <3>3 DEF OfferInv, StockInv, InvTypeOK, OfferedIffInStock, WriteProduct,
                          StockColumns, Fits
      <3> QED
        BY <3>1, <3>2, <3>3 DEF OfferInv, PendingFits
    <2>2. ASSUME NEW k \in StockJob
          PROVE  \/ job'[k].cols = {}
                 \/ /\ job'[k].cols = job[k].cols
                    /\ job'[k].status = job[k].status /\ job'[k].stock = job[k].stock
      <3>1. w \in JobRecord
        BY DEF OfferInv, StockInv, InvTypeOK, Job
      <3>2. /\ [w EXCEPT !.pc = "log"].cols = w.cols
            /\ [w EXCEPT !.pc = "log"].status = w.status
            /\ [w EXCEPT !.pc = "log"].stock = w.stock
        BY <3>1 DEF JobRecord
      <3> QED
        BY <1>3, <3>2 DEF WriteProduct, IdleJob, OfferInv, StockInv, InvTypeOK
    <2> QED
      BY <2>1, <2>2 DEF OfferInv, PendingFits
  <1>4. ASSUME NEW j \in StockJob, LogMovement(j) \/ FailJob(j)
        PROVE  (OfferedIffInStock /\ PendingFits)'
    <2>1. job' = [job EXCEPT ![j] = IdleJob] /\ product' = product
      BY <1>4 DEF LogMovement, FailJob
    <2>2. \A k \in StockJob : job'[k] = job[k] \/ job'[k].cols = {}
      BY <2>1 DEF IdleJob, OfferInv, StockInv, InvTypeOK
    <2>3. OfferedIffInStock'
      BY <2>1 DEF OfferInv, OfferedIffInStock
    <2> QED
      BY <2>2, <2>3 DEF OfferInv, PendingFits
  <1>5. CASE UNCHANGED invVars
    BY <1>5 DEF OfferInv, OfferedIffInStock, PendingFits, invVars
  <1> QED
    BY <1>1, <1>2, <1>3, <1>4, <1>5 DEF InvNext, JobStep

LEMMA InitOfferInv == InvInit => OfferInv
  <1> SUFFICES ASSUME InvInit PROVE OfferedIffInStock /\ PendingFits
    BY InitStockInv DEF OfferInv
  <1>1. OfferedIffInStock
    BY StockAssumption DEF InvInit, OfferedIffInStock, FreshRow, NoRow, StatusOnCreate
  <1> QED
    BY <1>1 DEF InvInit, PendingFits, IdleJob

\* As long as no edit sets the stock, or a status other than INACTIVE, a product
\* is on offer only with stock and sold out only without, however the handlers
\* that compute the two columns overlap and lose each other's updates.
THEOREM OfferFollowsStock == HarmlessEdits => (InvSpec => []OfferedIffInStock)
  <1> SUFFICES ASSUME HarmlessEdits PROVE InvSpec => []OfferedIffInStock
    OBVIOUS
  <1>1. InvInit => OfferInv
    BY InitOfferInv
  <1>2. OfferInv /\ [InvNext]_invVars => OfferInv'
    <2> SUFFICES ASSUME OfferInv, [InvNext]_invVars PROVE OfferInv'
      OBVIOUS
    <2>1. StockInv'
      BY NextStockInv DEF OfferInv
    <2>2. OfferedIffInStock' /\ PendingFits'
      BY NextFits
    <2> QED
      BY <2>1, <2>2 DEF OfferInv
  <1>3. OfferInv => OfferedIffInStock
    BY DEF OfferInv
  <1> QED
    BY <1>1, <1>2, <1>3, PTL DEF InvSpec

---------------------------------------------------------------------------
(* Stock requests one at a time.  What makes the properties inductive: the *)
(* handler in flight still knows the row as it is.                         *)

\* A handler that records a movement writes the level and the status that the
\* movement tells, computed from the row as it is; the movement names no order.
Pending(w) == w.moves # <<>> /\ Len(w.moves) = 1 /\ w.moves[1].order = NoOrder
JobCurrent(w) ==
    /\ w.pc # "idle" => w.p \in Product /\ product[w.p].status # "NONE"
    /\ w.pc = "write" /\ w.moves # <<>> =>
          /\ Pending(w) /\ StockColumns \subseteq w.cols
          /\ w.moves[1].previousStock = product[w.p].stock /\ w.moves[1].newStock = w.stock
          /\ product[w.p].status = "INACTIVE" => w.status = "INACTIVE"
    /\ w.pc = "log" => Pending(w) /\ w.moves[1].newStock = product[w.p].stock

SerialJobs == OneJob /\ \A j \in StockJob : JobCurrent(job[j])

\* A handler that leaves no movement leaves the level as it is, unless it is an
\* edit of the stock column.
Silent(w) == w.moves = <<>> /\ "stock" \in w.cols =>
                w.stock = product[w.p].stock \/ w.cols \in EditColumns

LEMMA StartIsCurrent ==
    ASSUME InvTypeOK, NEW j \in StockJob, NEW p \in Product, NEW cols, NEW s \in Int,
           NEW st, NEW pr, NEW moves, Found(j, p), Start(j, p, cols, s, st, pr, moves),
           \/ moves = <<>> /\ ("stock" \in cols => s = product[p].stock \/ cols \in EditColumns)
           \/ /\ \E type, q : moves = <<Moved(type, q, product[p].stock, s, NoOrder)>>
              /\ cols = StockColumns
              /\ product[p].status = "INACTIVE" => st = "INACTIVE"
    PROVE  /\ UNCHANGED <<product, price, movement>>
           /\ \E w : /\ job' = [job EXCEPT ![j] = w] /\ w.pc = "write"
                     /\ JobCurrent(w) /\ Silent(w)
  <1> DEFINE w == [pc |-> "write", p |-> p, cols |-> cols, stock |-> s, status |-> st,
                   price |-> pr, moves |-> moves]
  <1>1. job' = [job EXCEPT ![j] = w] /\ UNCHANGED <<product, price, movement>>
    BY DEF Start
  <1>2. CASE moves = <<>> /\ ("stock" \in cols => s = product[p].stock \/ cols \in EditColumns)
    <2>1. JobCurrent(w) /\ Silent(w)
      BY <1>2 DEF JobCurrent, Silent, Found
    <2> QED
      BY <1>1, <2>1
  <1>3. ASSUME NEW type, NEW q, moves = <<Moved(type, q, product[p].stock, s, NoOrder)>>,
               cols = StockColumns, product[p].status = "INACTIVE" => st = "INACTIVE"
        PROVE  JobCurrent(w) /\ Silent(w)
    <2>1. /\ moves # <<>> /\ Len(moves) = 1 /\ moves[1].order = NoOrder
          /\ moves[1].previousStock = product[p].stock /\ moves[1].newStock = s
      BY <1>3 DEF Moved
    <2> QED
      BY <1>3, <2>1 DEF JobCurrent, Silent, Pending, Found
  <1> HIDE DEF w
  <1> QED
    BY <1>1, <1>2, <1>3 DEF w

\* The steps that stock requests consist of.
LEMMA StartsCurrent ==
    ASSUME InvTypeOK, NEW j \in StockJob, StartJob(j)
    PROVE  /\ UNCHANGED <<product, price, movement>>
           /\ \E w : /\ job' = [job EXCEPT ![j] = w] /\ w.pc = "write"
                     /\ JobCurrent(w) /\ Silent(w)
  <1> DEFINE Goal == /\ UNCHANGED <<product, price, movement>>
                     /\ \E w : /\ job' = [job EXCEPT ![j] = w] /\ w.pc = "write"
                               /\ JobCurrent(w) /\ Silent(w)
  <1>0. \A p \in Product : Found(j, p) =>
            product[p].stock \in Int /\ product[p].status \in ProductStatus
    BY DEF Found, InvTypeOK, Row
  <1>1. ASSUME NEW p \in Product, NEW q \in Quantity, RegisterEntry(j, p, q) PROVE Goal
    <2> DEFINE s == product[p].stock + q
               st == StatusAfterEntry(product[p].status)
    <2>1. /\ s \in Int /\ Found(j, p)
          /\ Start(j, p, StockColumns, s, st, 0, <<Moved("ENTRY", q, product[p].stock, s, NoOrder)>>)
      BY <1>0, <1>1, StockAssumption DEF RegisterEntry
    <2>2. product[p].status = "INACTIVE" => st = "INACTIVE"
      BY DEF StatusAfterEntry
    <2> HIDE DEF s, st, Goal
    <2> QED
      BY <2>1, <2>2, StartIsCurrent DEF Goal
  <1>2. ASSUME NEW p \in Product, NEW q \in Quantity, RegisterExit(j, p, q) PROVE Goal
    <2> DEFINE s == product[p].stock - q
               st == StatusAfterExit(s, product[p].status)
    <2>1. /\ s \in Int /\ Found(j, p)
          /\ Start(j, p, StockColumns, s, st, 0, <<Moved("EXIT", q, product[p].stock, s, NoOrder)>>)
      BY <1>0, <1>2, StockAssumption DEF RegisterExit
    <2>2. product[p].status = "INACTIVE" => st = "INACTIVE"
      BY DEF StatusAfterExit
    <2> HIDE DEF s, st, Goal
    <2> QED
      BY <2>1, <2>2, StartIsCurrent DEF Goal
  <1>3. ASSUME NEW p \in Product, NEW s \in StockLevel, UpdateStock(j, p, s) PROVE Goal
    <2> DEFINE st == StatusAfterAdjustment(s, product[p].status)
               m == Moved("ADJUSTMENT", s - product[p].stock, product[p].stock, s, NoOrder)
    <2>1. /\ s \in Int /\ Found(j, p)
          /\ Start(j, p, StockColumns, s, st, 0, IF s = product[p].stock THEN <<>> ELSE <<m>>)
      BY <1>3, StockAssumption DEF UpdateStock
    <2>2. product[p].status = "INACTIVE" => st = "INACTIVE"
      BY DEF StatusAfterAdjustment, StatusAfterEntry, StatusAfterExit
    <2> HIDE DEF st, Goal
    <2>3. CASE s = product[p].stock
      <3>1. Start(j, p, StockColumns, s, st, 0, <<>>)
        BY <2>1, <2>3
      <3> QED
        BY <2>1, <2>3, <3>1, StartIsCurrent DEF Goal
    <2>4. CASE s # product[p].stock
      <3>1. Start(j, p, StockColumns, s, st, 0, <<m>>)
        BY <2>1, <2>4
      <3> QED
        BY <2>1, <2>2, <3>1, StartIsCurrent DEF Goal
    <2> QED
      BY <2>3, <2>4
  <1>4. ASSUME NEW p \in Product, NEW cols \in EditColumns,
               NEW s \in (IF "stock" \in cols THEN StockLevel ELSE {0}), NEW st, NEW pr,
               Update(j, p, cols, s, st, pr)
        PROVE  Goal
    <2>1. s \in Int /\ Found(j, p) /\ Start(j, p, cols, s, st, pr, <<>>)
      BY <1>4, StockAssumption DEF Update
    <2> HIDE DEF Goal
    <2> QED
      BY <2>1, StartIsCurrent DEF Goal
  <1>5. ASSUME NEW p \in Product, RemoveProduct(j, p) PROVE Goal
    <2>1. Found(j, p) /\ Start(j, p, {"deleted"}, 0, "ACTIVE", 0, <<>>)
      BY <1>5 DEF RemoveProduct
    <2> HIDE DEF Goal
    <2> QED
      BY <2>1, StartIsCurrent DEF Goal
  <1> HIDE DEF Goal
  <1>6. Goal
    BY <1>1, <1>2, <1>3, <1>4, <1>5 DEF StartJob
  <1> QED
    BY <1>6 DEF Goal

\* What the product update of the only handler in flight does.
LEMMA WriteAlone ==
    ASSUME InvTypeOK, SerialJobs, NEW j \in StockJob, WriteProduct(j)
    PROVE  LET w == job[j] IN
           /\ w.p \in Product /\ w.pc = "write" /\ product[w.p].status # "NONE"
           /\ \A k \in StockJob \ {j} : job[k].pc = "idle" /\ job'[k] = job[k]
           /\ \A p \in Product \ {w.p} : product'[p] = product[p]
           /\ product'[w.p].status \in {product[w.p].status, w.status}
           /\ w.moves = <<>> => job'[j] = IdleJob
           /\ w.moves = <<>> /\ "status" \notin w.cols =>
                  product'[w.p].status = product[w.p].status
           /\ w.moves = <<>> /\ "stock" \notin w.cols =>
                  product'[w.p].stock = product[w.p].stock
           /\ w.moves = <<>> /\ "stock" \in w.cols => product'[w.p].stock = w.stock
           /\ w.moves # <<>> =>
                 /\ job'[j].pc = "log" /\ job'[j].p = w.p /\ job'[j].moves = w.moves
                 /\ product'[w.p].stock = w.moves[1].newStock
                 /\ product'[w.p].status = w.status
           /\ UNCHANGED movement
  <1> DEFINE w == job[j]
  <1>1. w \in Job /\ w.pc = "write" /\ JobCurrent(w)
    BY DEF InvTypeOK, WriteProduct, SerialJobs
  <1>2. w.p \in Product /\ product[w.p].status # "NONE" /\ product[w.p] \in Row
    BY <1>1 DEF JobCurrent, InvTypeOK
  <1>3. \A k \in StockJob \ {j} : job[k].pc = "idle"
    BY <1>1 DEF SerialJobs, OneJob
  <1>4. job' = [job EXCEPT ![j] = IF w.moves = <<>> THEN IdleJob ELSE [w EXCEPT !.pc = "log"]]
    BY DEF WriteProduct
  <1>5. product' = [product EXCEPT ![w.p] =
            [status |-> IF "status" \in w.cols THEN w.status ELSE product[w.p].status,
             stock |-> IF "stock" \in w.cols THEN w.stock ELSE product[w.p].stock,
             deleted |-> product[w.p].deleted \/ "deleted" \in w.cols]]
    BY DEF WriteProduct
  <1>6. /\ \A p \in Product \ {w.p} : product'[p] = product[p]
        /\ product'[w.p].status = IF "status" \in w.cols THEN w.status ELSE product[w.p].status
        /\ product'[w.p].stock = IF "stock" \in w.cols THEN w.stock ELSE product[w.p].stock
    BY <1>2, <1>5 DEF InvTypeOK
  <1>7. w.moves # <<>> => /\ "stock" \in w.cols /\ "status" \in w.cols
                          /\ w.moves[1].newStock = w.stock
    BY <1>1 DEF JobCurrent, StockColumns
  <1>8. \A k \in StockJob \ {j} : job'[k] = job[k]
    BY <1>4 DEF InvTypeOK
  <1>9. /\ w.moves = <<>> => job'[j] = IdleJob
        /\ w.moves # <<>> => job'[j].pc = "log" /\ job'[j].p = w.p /\ job'[j].moves = w.moves
    BY <1>1, <1>4 DEF InvTypeOK, Job, JobRecord
  <1>10. UNCHANGED movement
    BY DEF WriteProduct
  <1> QED
    BY <1>1, <1>2, <1>3, <1>6, <1>7, <1>8, <1>9, <1>10

LEMMA IdleIsCurrent == JobCurrent(IdleJob) /\ IdleJob.pc = "idle"
  BY DEF JobCurrent, IdleJob

LEMMA NextSerialJobs ==
    ASSUME InvTypeOK, SerialJobs, [InvNext]_invVars, OneJob'
    PROVE  SerialJobs'
  <1> SUFFICES ASSUME NEW k \in StockJob PROVE JobCurrent(job[k])'
    BY DEF SerialJobs
  <1>a. /\ JobCurrent(job[k]) /\ job \in [StockJob -> Job] /\ product \in [Product -> Row]
        /\ job'[k].pc = "idle" => JobCurrent(job[k])'
    BY DEF SerialJobs, InvTypeOK, JobCurrent
  <1>1. ASSUME NEW p \in Product, NEW s \in StockLevel, NEW pr \in Price, Create(p, s, pr)
        PROVE  JobCurrent(job[k])'
    <2>1. job[k].pc # "idle" => job[k].p # p
      BY <1>1, <1>a DEF Create, JobCurrent
    <2>2. \A q \in Product \ {p} : product'[q] = product[q]
      BY <1>1, <1>a DEF Create
    <2>3. job' = job
      BY <1>1 DEF Create
    <2> QED
      BY <1>a, <2>1, <2>2, <2>3 DEF JobCurrent
  <1>2. ASSUME NEW j \in StockJob, StartJob(j) PROVE JobCurrent(job[k])'
    <2>1. PICK w : job' = [job EXCEPT ![j] = w] /\ JobCurrent(w) /\ UNCHANGED product
      BY <1>2, StartsCurrent
    <2>2. job'[k] = job[k] \/ job'[k] = w
      BY <1>a, <2>1
    <2> QED
      BY <1>a, <2>1, <2>2 DEF JobCurrent
  <1>3. ASSUME NEW j \in StockJob, WriteProduct(j) PROVE JobCurrent(job[k])'
    <2>1. job'[j].pc = "idle" \/ job[j].moves # <<>>
      BY <1>3, WriteAlone, IdleIsCurrent
    <2>2. CASE k = j /\ job[j].moves # <<>>
      <3>1. /\ job[j].p \in Product /\ job'[j].pc = "log" /\ job'[j].p = job[j].p
            /\ job'[j].moves = job[j].moves
            /\ product'[job[j].p].stock = job[j].moves[1].newStock
            /\ product'[job[j].p].status = job[j].status
        BY <1>3, <2>2, WriteAlone
      <3>2. Pending(job[j]) /\ job[j].status # "NONE"
        BY <1>3, <1>a, <2>2 DEF JobCurrent, WriteProduct, Job, JobRecord, ProductStatus
      <3> QED
        BY <2>2, <3>1, <3>2 DEF JobCurrent, Pending
    <2>3. CASE k # j
      BY <1>3, <1>a, <2>3, WriteAlone
    <2> QED
      BY <1>a, <2>1, <2>2, <2>3
  <1>4. ASSUME NEW j \in StockJob, LogMovement(j) \/ FailJob(j) PROVE JobCurrent(job[k])'
    <2>1. job' = [job EXCEPT ![j] = IdleJob] /\ product' = product
      BY <1>4 DEF LogMovement, FailJob
    <2>2. job'[k] = job[k] \/ job'[k].pc = "idle"
      BY <1>a, <2>1, IdleIsCurrent
    <2> QED
      BY <1>a, <2>1, <2>2 DEF JobCurrent
  <1>5. CASE UNCHANGED invVars
    BY <1>5, <1>a DEF JobCurrent, invVars
  <1> QED
    BY <1>1, <1>2, <1>3, <1>4, <1>5 DEF InvNext, JobStep

LEMMA InitSerialJobs == InvInit => SerialJobs
  BY IdleIsCurrent DEF InvInit, SerialJobs, OneJob

\* A product that its seller has hidden comes back only by an edit of its status.
LEMMA NextHidden ==
    ASSUME InvTypeOK, SerialJobs, [InvNext]_invVars, NEW p \in Product,
           product[p].status = "INACTIVE", product'[p].status # "INACTIVE"
    PROVE  \E j \in StockJob : job[j].p = p /\ job[j].moves = <<>> /\ "status" \in job[j].cols
  <1>a. product \in [Product -> Row]
    BY DEF InvTypeOK
  <1>1. ASSUME NEW q \in Product, NEW s \in StockLevel, NEW pr \in Price, Create(q, s, pr)
        PROVE  FALSE
    BY <1>1, <1>a DEF Create
  <1>2. ASSUME NEW j \in StockJob, StartJob(j) \/ LogMovement(j) \/ FailJob(j) PROVE FALSE
    BY <1>2, StartsCurrent DEF LogMovement, FailJob
  <1>3. ASSUME NEW j \in StockJob, WriteProduct(j)
        PROVE  job[j].p = p /\ job[j].moves = <<>> /\ "status" \in job[j].cols
    <2>1. job[j].p = p
      BY <1>3, WriteAlone
    <2>2. ASSUME job[j].moves # <<>> PROVE FALSE
      <3>1. job[j].status = "INACTIVE"
        BY <1>3, <2>1, <2>2, WriteAlone DEF SerialJobs, JobCurrent
      <3> QED
        BY <1>3, <2>1, <2>2, <3>1, WriteAlone
    <2> QED
      BY <1>3, <2>1, <2>2, WriteAlone
  <1> QED
    BY <1>1, <1>2, <1>3 DEF InvNext, JobStep, invVars

LEMMA SerialJobsInvariant == InvSerialSpec => [](InvTypeOK /\ SerialJobs)
  <1>1. InvTypeOK /\ SerialJobs /\ [InvNext /\ OneJob']_invVars => (InvTypeOK /\ SerialJobs)'
    <2> SUFFICES ASSUME InvTypeOK, SerialJobs, [InvNext /\ OneJob']_invVars
                 PROVE  InvTypeOK' /\ SerialJobs'
      OBVIOUS
    <2>1. [InvNext]_invVars
      OBVIOUS
    <2>2. OneJob'
      BY DEF SerialJobs, OneJob, invVars
    <2> QED
      BY <2>1, <2>2, NextTypeOK, NextSerialJobs
  <1> QED
    BY <1>1, InitTypeOK, InitSerialJobs, PTL DEF InvSerialSpec

\* While stock requests come one at a time, and wherever they fail, none but an
\* edit of the status puts a hidden product back on offer.
THEOREM HiddenStays == InvSerialSpec => HiddenStaysHidden
  <1> DEFINE Hidden == \A p \in Product :
                product[p].status = "INACTIVE" /\ product'[p].status # "INACTIVE"
                   => \E j \in StockJob :
                         job[j].p = p /\ job[j].moves = <<>> /\ "status" \in job[j].cols
  <1>1. InvTypeOK /\ SerialJobs /\ [InvNext /\ OneJob']_invVars => [Hidden]_invVars
    BY NextHidden
  <1> QED
    BY <1>1, SerialJobsInvariant, PTL DEF InvSerialSpec, HiddenStaysHidden

---------------------------------------------------------------------------
(* The ledger explains the stock while requests come one at a time, none   *)
(* fails and none edits the stock column.                                  *)

NoStockEdits == Faults = FALSE /\ \A cols \in EditColumns : "stock" \notin cols

Chained(moves) == \A i \in 1 .. Len(moves) - 1 : moves[i + 1].previousStock = moves[i].newStock
EndsAt(moves, s) == moves # <<>> => moves[Len(moves)].newStock = s

\* What makes it inductive: only the handler about to record its movement makes
\* the ledger lag, and that movement is the one that is missing.
LedgerInv ==
    /\ \A p \in Product :
          /\ product[p].status = "NONE" => movement[p] = <<>>
          /\ Chained(movement[p])
          /\ \/ EndsAt(movement[p], product[p].stock)
             \/ \E j \in StockJob : job[j].pc = "log" /\ job[j].p = p
    /\ \A j \in StockJob :
          /\ job[j].pc = "write" => Silent(job[j])
          /\ job[j].pc = "log" => EndsAt(movement[job[j].p], job[j].moves[1].previousStock)

LEMMA ChainGrows ==
    ASSUME NEW moves \in Seq(Movement), NEW m, Chained(moves), EndsAt(moves, m.previousStock)
    PROVE  Chained(Append(moves, m)) /\ EndsAt(Append(moves, m), m.newStock)
  <1> DEFINE n == Len(moves)
             next == Append(moves, m)
  <1>1. /\ n \in Nat /\ Len(next) = n + 1 /\ next[n + 1] = m /\ next # <<>>
        /\ \A i \in 1 .. n : next[i] = moves[i]
        /\ n > 0 => moves # <<>>
    OBVIOUS
  <1>2. ASSUME NEW i \in 1 .. Len(next) - 1 PROVE next[i + 1].previousStock = next[i].newStock
    <2>1. CASE i = n
      BY <1>1, <2>1 DEF EndsAt
    <2>2. CASE i < n
      <3>1. i \in 1 .. Len(moves) - 1 /\ i \in 1 .. n /\ i + 1 \in 1 .. n
        BY <1>1, <2>2
      <3>2. moves[i + 1].previousStock = moves[i].newStock
        BY <3>1 DEF Chained
      <3> QED
        BY <1>1, <3>1, <3>2
    <2> QED
      BY <1>1, <2>1, <2>2
  <1> HIDE DEF next
  <1>3. Chained(next) /\ EndsAt(next, m.newStock)
    BY <1>1, <1>2 DEF Chained, EndsAt
  <1> QED
    BY <1>3 DEF next

\* A handler records one movement.
LEMMA OneLogged ==
    ASSUME NEW S, NEW s \in Seq(S), NEW t \in Seq(S), Len(t) = 1
    PROVE  s \o t = Append(s, t[1])
  <1>1. t = <<t[1]>> /\ t[1] \in S
    OBVIOUS
  <1>2. ASSUME NEW e \in S PROVE s \o <<e>> = Append(s, e)
    OBVIOUS
  <1>3. s \o <<t[1]>> = Append(s, t[1])
    BY <1>1, <1>2
  <1> QED
    BY <1>1, <1>3

LEMMA InitLedger == InvInit => LedgerInv
  BY DEF InvInit, LedgerInv, Chained, EndsAt, IdleJob

LEMMA NextLedger ==
    ASSUME NoStockEdits, InvTypeOK, SerialJobs, LedgerInv, [InvNext]_invVars, OneJob'
    PROVE  LedgerInv'
  <1>a. /\ product \in [Product -> Row] /\ movement \in [Product -> Seq(Movement)]
        /\ job \in [StockJob -> Job]
    BY DEF InvTypeOK
  <1>1. ASSUME NEW p \in Product, NEW s \in StockLevel, NEW pr \in Price, Create(p, s, pr)
        PROVE  LedgerInv'
    <2>1. /\ job' = job /\ movement' = movement /\ movement[p] = <<>>
          /\ \A q \in Product \ {p} : product'[q] = product[q]
      BY <1>1, <1>a DEF Create, LedgerInv
    <2>2. product'[p].status # "NONE"
      BY <1>1, <1>a DEF Create, FreshRow, StatusOnCreate
    <2>3. \A j \in StockJob : job[j].pc # "idle" => job[j].p # p /\ job[j].p \in Product
      BY <1>1 DEF SerialJobs, JobCurrent, Create
    <2>4. \A q \in Product : EndsAt(movement'[q], product'[q].stock)
                             \/ \E j \in StockJob : job'[j].pc = "log" /\ job'[j].p = q
      BY <2>1 DEF LedgerInv, EndsAt
    <2>5. \A q \in Product : /\ product'[q].status = "NONE" => movement'[q] = <<>>
                             /\ Chained(movement'[q])
      BY <2>1, <2>2 DEF LedgerInv
    <2>6. \A j \in StockJob :
             /\ job'[j].pc = "write" => Silent(job[j])'
             /\ job'[j].pc = "log" => EndsAt(movement'[job'[j].p], job'[j].moves[1].previousStock)
      BY <2>1, <2>3 DEF LedgerInv, Silent
    <2> QED
      BY <2>4, <2>5, <2>6 DEF LedgerInv
  <1>2. ASSUME NEW j \in StockJob, StartJob(j) PROVE LedgerInv'
    <2>1. PICK w : /\ job' = [job EXCEPT ![j] = w] /\ w.pc = "write" /\ Silent(w)
                   /\ UNCHANGED <<product, price, movement>>
      BY <1>2, StartsCurrent
    <2>2. job[j].pc = "idle"
      BY <1>2 DEF StartJob, RegisterEntry, RegisterExit, UpdateStock, Update, RemoveProduct, Found
    <2>3. \A k \in StockJob : job'[k] = job[k] \/ (job'[k] = w /\ job[k].pc = "idle")
      BY <1>a, <2>1, <2>2
    <2>4. \A k \in StockJob : job[k].pc = "log" => job'[k] = job[k]
      BY <2>3
    <2>5. \A q \in Product : EndsAt(movement'[q], product'[q].stock)
                             \/ \E k \in StockJob : job'[k].pc = "log" /\ job'[k].p = q
      BY <2>1, <2>4 DEF LedgerInv
    <2>6. \A k \in StockJob :
             /\ job'[k].pc = "write" => Silent(job[k])'
             /\ job'[k].pc = "log" => EndsAt(movement'[job'[k].p], job'[k].moves[1].previousStock)
      BY <2>1, <2>3 DEF LedgerInv, Silent
    <2> QED
      BY <2>1, <2>5, <2>6 DEF LedgerInv
  <1>3. ASSUME NEW j \in StockJob, WriteProduct(j) PROVE LedgerInv'
    <2> DEFINE w == job[j]
    <2>1. /\ w.p \in Product /\ w.pc = "write" /\ product[w.p].status # "NONE"
          /\ \A k \in StockJob \ {j} : job[k].pc = "idle" /\ job'[k] = job[k]
          /\ \A p \in Product \ {w.p} : product'[p] = product[p]
          /\ UNCHANGED movement
      BY <1>3, WriteAlone
    <2>2. /\ Silent(w) /\ \A p \in Product : EndsAt(movement[p], product[p].stock)
      BY <2>1 DEF LedgerInv
    <2>3. \A p \in Product : /\ product'[p].status = "NONE" => movement'[p] = <<>>
                             /\ Chained(movement'[p])
      <3>1. product'[w.p].status # "NONE"
        <4>1. w.status # "NONE"
          BY <1>a DEF Job, JobRecord, ProductStatus
        <4> QED
          BY <1>3, <2>1, <4>1, WriteAlone
      <3> QED
        BY <2>1, <3>1 DEF LedgerInv
    <2>4. CASE w.moves = <<>>
      <3>1. job'[j] = IdleJob
        BY <1>3, <2>4, WriteAlone
      <3>2. product'[w.p].stock = product[w.p].stock
        BY <1>3, <2>2, <2>4, WriteAlone DEF Silent, NoStockEdits
      <3>3. \A p \in Product : product'[p].stock = product[p].stock
        BY <2>1, <3>2
      <3>4. \A k \in StockJob : job'[k].pc = "idle"
        BY <2>1, <3>1, IdleIsCurrent
      <3> QED
        BY <2>1, <2>2, <2>3, <3>3, <3>4 DEF LedgerInv
    <2>5. CASE w.moves # <<>>
      <3>1. job'[j].pc = "log" /\ job'[j].p = w.p /\ job'[j].moves = w.moves
        BY <1>3, <2>5, WriteAlone
      <3>2. w.moves[1].previousStock = product[w.p].stock
        BY <2>1, <2>5 DEF SerialJobs, JobCurrent
      <3>3. EndsAt(movement'[job'[j].p], job'[j].moves[1].previousStock)
        BY <2>1, <2>2, <3>1, <3>2
      <3>4. \A p \in Product : EndsAt(movement'[p], product'[p].stock)
                               \/ \E k \in StockJob : job'[k].pc = "log" /\ job'[k].p = p
        BY <2>1, <2>2, <3>1
      <3>5. \A k \in StockJob :
               /\ job'[k].pc = "write" => Silent(job[k])'
               /\ job'[k].pc = "log" => EndsAt(movement'[job'[k].p], job'[k].moves[1].previousStock)
        BY <2>1, <3>1, <3>3
      <3> QED
        BY <2>3, <3>4, <3>5 DEF LedgerInv
    <2> QED
      BY <2>4, <2>5
  <1>4. ASSUME NEW j \in StockJob, LogMovement(j) PROVE LedgerInv'
    <2> DEFINE w == job[j]
               m == w.moves[1]
    <2>1. /\ w.pc = "log" /\ w.p \in Product /\ Pending(w) /\ m.newStock = product[w.p].stock
          /\ EndsAt(movement[w.p], m.previousStock) /\ product[w.p].status # "NONE"
      BY <1>4 DEF LogMovement, SerialJobs, JobCurrent, LedgerInv
    <2>2. \A k \in StockJob : job'[k].pc = "idle"
      BY <1>4, <1>a, <2>1, IdleIsCurrent DEF LogMovement, SerialJobs, OneJob
    <2>3. /\ product' = product
          /\ \A p \in Product \ {w.p} : movement'[p] = movement[p]
          /\ movement'[w.p] = movement[w.p] \o w.moves
      BY <1>4, <1>a, <2>1 DEF LogMovement
    <2>4. w.moves \in Seq(Movement) /\ Len(w.moves) = 1 /\ movement[w.p] \in Seq(Movement)
      BY <1>a, <2>1 DEF Pending, Job, JobRecord
    <2>5. movement'[w.p] = Append(movement[w.p], m)
      BY <2>3, <2>4, OneLogged
    <2>6. Chained(movement'[w.p]) /\ EndsAt(movement'[w.p], m.newStock)
      <3>1. Chained(movement[w.p])
        BY <2>1 DEF LedgerInv
      <3> HIDE DEF m, w
      <3>2. Chained(Append(movement[w.p], m)) /\ EndsAt(Append(movement[w.p], m), m.newStock)
        BY <2>1, <2>4, <3>1, ChainGrows
      <3> QED
        BY <2>5, <3>2
    <2>7. \A p \in Product \ {w.p} : EndsAt(movement[p], product[p].stock)
      BY <1>a, <2>1 DEF LedgerInv, SerialJobs, OneJob
    <2>8. \A p \in Product : /\ product'[p].status = "NONE" => movement'[p] = <<>>
                             /\ Chained(movement'[p])
                             /\ EndsAt(movement'[p], product'[p].stock)
      BY <2>1, <2>3, <2>6, <2>7 DEF LedgerInv
    <2> QED
      BY <2>2, <2>8 DEF LedgerInv
  <1>5. ASSUME NEW j \in StockJob, FailJob(j) PROVE FALSE
    BY <1>5 DEF FailJob, NoStockEdits
  <1>6. CASE UNCHANGED invVars
    BY <1>6 DEF LedgerInv, Silent, invVars
  <1> QED
    BY <1>1, <1>2, <1>3, <1>4, <1>5, <1>6 DEF InvNext, JobStep

LEMMA LedgerInvExplains ==
    ASSUME InvTypeOK, LedgerInv, SerialJobs PROVE LedgerExplainsStock
  <1> SUFFICES ASSUME NEW p \in Product, \A j \in StockJob : job[j].p # p
               PROVE  LedgerExplains(p)
    BY DEF LedgerExplainsStock
  <1>1. Chained(movement[p]) /\ EndsAt(movement[p], product[p].stock)
    BY DEF LedgerInv
  <1> QED
    BY <1>1 DEF LedgerExplains, Chained, EndsAt, Last

\* While stock requests come one at a time and none fails, and the stock column
\* is not edited, the ledger of a product accounts for every unit of its stock.
THEOREM LedgerExplained == NoStockEdits => (InvSerialSpec => []LedgerExplainsStock)
  <1> SUFFICES ASSUME NoStockEdits PROVE InvSerialSpec => []LedgerExplainsStock
    OBVIOUS
  <1>1. InvTypeOK /\ SerialJobs /\ LedgerInv /\ [InvNext /\ OneJob']_invVars => LedgerInv'
    <2> SUFFICES ASSUME InvTypeOK, SerialJobs, LedgerInv, [InvNext /\ OneJob']_invVars
                 PROVE  LedgerInv'
      OBVIOUS
    <2>1. [InvNext]_invVars
      OBVIOUS
    <2>2. OneJob'
      BY DEF SerialJobs, OneJob, invVars
    <2> QED
      BY <2>1, <2>2, NextLedger
  <1>2. InvTypeOK /\ SerialJobs /\ LedgerInv => LedgerExplainsStock
    BY LedgerInvExplains
  <1> QED
    BY <1>1, <1>2, SerialJobsInvariant, InitLedger, PTL DEF InvSerialSpec

=============================================================================
