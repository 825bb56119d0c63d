-------------------------------- MODULE Seed --------------------------------
(***************************************************************************)
(* The seed script, prisma/seed.ts: it looks whether there are             *)
(* departments, and then draws and inserts the rows of one table after     *)
(* another, the large tables in several batches, with no transaction       *)
(* around them.  It may die anywhere, be started again, or by two people.  *)
(*                                                                         *)
(* A batch is followed by one row of it, any that may be drawn: its        *)
(* status, its dates, the tables it refers to and, in "of", the earlier    *)
(* row it is made from.  Names, places, comments and prices in full are    *)
(* left out; the dates are days.                                           *)
(***************************************************************************)
EXTENDS Platform

CONSTANTS
    Execution,      \* executions of the script
    Now,            \* when the script runs; the history it invents begins at 0
    Gap,            \* how much later one thing may happen than another
    Amount          \* what the items of an order may cost, in cents

ASSUME SeedAssumption ==
    /\ Execution # {}
    /\ Now \in Nat
    /\ Gap \subseteq Nat /\ 0 \in Gap
    /\ Amount \subseteq Nat \ {0}

VARIABLES
    stage,      \* per execution: how many tables it has filled, or how it ended
    filled,     \* per execution: the tables that hold some of its rows, and all of them
    latest      \* the row followed of the latest batch

seedVars == <<stage, filled, latest>>

\* The order of the calls of batchCreate.
Batches == <<"departments", "municipalities", "categories", "subcategories", "payment_methods",
             "users", "commission_configs", "locations", "seller_profiles",
             "identity_verifications", "products", "product_images", "carts", "cart_items",
             "favorites", "orders", "order_items", "seller_reviews", "product_reviews",
             "reports", "notifications", "transactions", "audit_logs">>

Table == {Batches[i] : i \in DOMAIN Batches}

\* More rows than BATCH_SIZE.
Large == {"users", "locations", "products", "product_images", "carts", "cart_items", "favorites", "orders",
          "order_items", "seller_reviews", "product_reviews", "notifications", "audit_logs"}

\* Rows that are the same in every execution, under a unique column.
Fixed == {"departments", "municipalities", "categories", "subcategories"}

Unstarted == -1
Refused == -2
Dead == -3

---------------------------------------------------------------------------
(* What is drawn: the rows each table may get.                             *)

Never == -1

\* Mutation: dates are not brought back to the present.
ClampNot(t) == t

Clamp(t) == IF t > Now THEN Now ELSE t

\* growthDate
Drawn == 0 .. Now
After(t) == {t + g : g \in Gap}

Row(refs) == [refs |-> refs]

SeededUser == {[refs |-> {}, created |-> t] : t \in Drawn}

SeededMethods ==
    {[refs |-> {}, provider |-> p, active |-> p # "OTHER"] :
        p \in {"PAYPAL", "CREDIT_CARD", "DEBIT_CARD", "OTHER"}}

\* Five percentages, in per mille; each is in force until the next.
Percentages == <<50, 60, 65, 70, 75>>
SeededCommissions ==
    [i \in DOMAIN Percentages |->
        [percentage |-> Percentages[i], from |-> i, active |-> i = Len(Percentages),
         to |-> IF i = Len(Percentages) THEN Never ELSE i + 1]]

\* Every seller has a primary location, and some buyers.
SeededLocation == {Row({"users", "departments", "municipalities"})}

SeededProfile ==
    {[refs |-> {"users"}, status |-> s, created |-> c,
      reviewed |-> IF s = "PENDING" THEN Never ELSE c + g] :
        s \in {"VERIFIED", "PENDING", "UNDER_REVIEW", "REJECTED", "SUSPENDED"},
        c \in UNION {After(u.created) : u \in SeededUser}, g \in Gap}

SeededIdentity == {[refs |-> {"seller_profiles"}, status |-> p.status, of |-> p] : p \in SeededProfile}

\* A deleted product is INACTIVE, and one that is out of stock has none.
SeededProduct ==
    {[refs |-> {"seller_profiles", "subcategories"}, created |-> Clamp(c), deleted |-> d,
      status |-> IF d THEN "INACTIVE" ELSE s,
      stock |-> IF s = "OUT_OF_STOCK" /\ ~d THEN 0 ELSE 5] :
        s \in {"ACTIVE", "OUT_OF_STOCK", "INACTIVE"}, d \in BOOLEAN,
        c \in UNION {After(p.created) : p \in SeededProfile}}

SeededImages == {[refs |-> {"products"}, places |-> 0 .. n] : n \in 0 .. 3}

SeededCart ==
    {[refs |-> {"users"}, status |-> s, created |-> Clamp(c)] :
        s \in {"ACTIVE", "CONVERTED", "ABANDONED"},
        c \in UNION {After(u.created) : u \in SeededUser}}

\* Products that are not deleted, each once in a cart.
SeededCartItem == {[refs |-> {"carts", "products"}, of |-> p] : p \in {x \in SeededProduct : ~x.deleted}}

SeededFavorite == {Row({"users", "products"}), Row({"users", "seller_profiles"})}

SeededOrder ==
    {[refs |-> {"users", "seller_profiles"}, status |-> s, created |-> c, total |-> a,
      confirmed |-> IF s \in {"PENDING", "CANCELLED"} THEN Never ELSE Clamp(c + g),
      delivered |-> IF s = "DELIVERED" THEN Clamp(c + g + h) ELSE Never,
      cancelled |-> IF s = "CANCELLED" THEN Clamp(c + g) ELSE Never] :
        s \in {"DELIVERED", "CONFIRMED", "PREPARING", "PENDING", "CANCELLED"},
        c \in Drawn, g \in Gap, h \in Gap, a \in Amount}

SeededOrderItem == {[refs |-> {"orders", "products"}, subtotal |-> o.total, of |-> o] : o \in SeededOrder}

Delivered == {o \in SeededOrder : o.status = "DELIVERED"}
Confirmed == {o \in SeededOrder : o.status \notin {"PENDING", "CANCELLED"}}
Cancelled == {o \in SeededOrder : o.status = "CANCELLED"}

\* Of a delivered order: the seller, and the product of the first item.
SeededReview(about) ==
    UNION {{[refs |-> {"orders", "users", about}, created |-> Clamp(c), status |-> s, of |-> o] :
               c \in After(o.delivered), s \in {"APPROVED", "PENDING_REVIEW", "REJECTED"}} :
           o \in Delivered}

SeededReport ==
    {[refs |-> {"users", about}, status |-> s, created |-> c,
      resolved |-> IF s = "PENDING" THEN Never ELSE Clamp(c + g)] :
        about \in {"products", "seller_profiles", "product_reviews", "seller_reviews"},
        s \in {"RESOLVED", "REVIEWED", "PENDING", "DISMISSED"}, c \in Drawn, g \in Gap}

\* Notices of type about rows, at one of the times of each.
NoticesOf(type, times) ==
    UNION {{[refs |-> {"users"}, type |-> type, created |-> Clamp(t), of |-> x] : t \in times[x]} :
           x \in DOMAIN times}

SeededNotification ==
    LET Reviewed(status) == {p \in SeededProfile : p.status = status} IN
    NoticesOf("NEW_ORDER", [o \in SeededOrder |-> {o.created}])
    \cup NoticesOf("ORDER_ACCEPTED", [o \in Confirmed |-> After(o.created)])
    \cup NoticesOf("ORDER_CANCELLED", [o \in Cancelled |-> After(o.created)])
    \cup NoticesOf("SELLER_APPROVED", [p \in Reviewed("VERIFIED") |-> {p.reviewed}])
    \cup NoticesOf("SELLER_REJECTED", [p \in Reviewed("REJECTED") |-> {p.reviewed}])
    \cup NoticesOf("NEW_REVIEW", [v \in SeededReview("seller_profiles") |-> {v.created}])
    \cup NoticesOf("REPORT_RECEIVED", [t \in SeededReport |-> {t.created}])

\* At the commission in force, with a method that is active.
SeededTransaction ==
    LET rate == Percentages[Len(Percentages)] IN
    UNION {{[refs |-> {"orders", "payment_methods"}, provider |-> m.provider, status |-> s,
             amount |-> o.total, rate |-> rate, commission |-> (o.total * rate + 500) \div 1000,
             created |-> Clamp(c), of |-> o] :
               m \in {x \in SeededMethods : x.active},
               s \in {"COMPLETED", "PENDING", "FAILED", "REFUNDED"}, c \in After(o.delivered)} :
           o \in Delivered}

\* Entries about rows, from a status to the one each has got.
EntriesOf(action, from, to) ==
    {[refs |-> {"users"}, action |-> action, from |-> from, to |-> to[x], of |-> x] : x \in DOMAIN to}

StatusOf(rows) == [x \in rows |-> x.status]

SeededAudit ==
    EntriesOf("SELLER_VERIFICATION_UPDATED", "PENDING",
              StatusOf({p \in SeededProfile : p.status # "PENDING"}))
    \cup EntriesOf("REPORT_RESOLVED", "PENDING", StatusOf({t \in SeededReport : t.status # "PENDING"}))
    \cup {[refs |-> {"users"}, action |-> "COMMISSION_CONFIG_UPDATED", of |-> SeededCommissions[i],
            oldPercentage |-> Percentages[i - 1], newPercentage |-> Percentages[i]] :
             i \in 2 .. Len(Percentages)}
    \cup EntriesOf("PRODUCT_STATUS_CHANGED", "ACTIVE", StatusOf({p \in SeededProduct : p.status # "ACTIVE"}))
    \cup EntriesOf("ORDER_CREATED", "NONE", [o \in SeededOrder |-> "PENDING"])
    \cup EntriesOf("ORDER_STATUS_CHANGED", "PENDING", StatusOf(Confirmed))

RowsOf(table) ==
    CASE table \in {"departments", "categories"} -> {Row({})}
      [] table = "municipalities" -> {Row({"departments"})}
      [] table = "subcategories" -> {Row({"categories"})}
      [] table = "payment_methods" -> SeededMethods
      [] table = "users" -> SeededUser
      [] table = "commission_configs" -> {[refs |-> {"users"}, configs |-> SeededCommissions]}
      [] table = "locations" -> SeededLocation
      [] table = "seller_profiles" -> SeededProfile
      [] table = "identity_verifications" -> SeededIdentity
      [] table = "products" -> SeededProduct
      [] table = "product_images" -> SeededImages
      [] table = "carts" -> SeededCart
      [] table = "cart_items" -> SeededCartItem
      [] table = "favorites" -> SeededFavorite
      [] table = "orders" -> SeededOrder
      [] table = "order_items" -> SeededOrderItem
      [] table = "seller_reviews" -> SeededReview("seller_profiles")
      [] table = "product_reviews" -> SeededReview("order_items")
      [] table = "reports" -> SeededReport
      [] table = "notifications" -> SeededNotification
      [] table = "transactions" -> SeededTransaction
      [] table = "audit_logs" -> SeededAudit

---------------------------------------------------------------------------
SeedInit ==
    /\ stage = [x \in Execution |-> Unstarted]
    /\ filled = [x \in Execution |-> [some |-> {}, all |-> {}]]
    /\ latest = Row({})

NotEmpty(table) == \E x \in Execution : table \in filled[x].some

\* main begins: a database with departments is left alone.
CountDepartments(x) ==
    /\ stage[x] = Unstarted
    /\ stage' = [stage EXCEPT ![x] = IF NotEmpty("departments") THEN Refused ELSE 0]
    /\ UNCHANGED <<filled, latest>>

\* Mutation: no column is unique.
ClashesNever(x, table) == FALSE

RowsClash(x, table) ==
    table \in Fixed /\ \E y \in Execution \ {x} : table \in filled[y].some

Filling(x) == stage[x] \in 0 .. Len(Batches) - 1

\* batchCreate: one batch, the last or not the last of its table.
WriteBatch(x) ==
    LET table == Batches[stage[x] + 1] IN
    /\ Filling(x)
    /\ ~RowsClash(x, table)
    /\ latest' \in RowsOf(table)
    /\ \/ /\ table \in Large \ filled[x].some
          /\ filled' = [filled EXCEPT ![x].some = @ \cup {table}]
          /\ UNCHANGED stage
       \/ /\ table \notin Large \ filled[x].some
          /\ filled' = [filled EXCEPT ![x].some = @ \cup {table}, ![x].all = @ \cup {table}]
          /\ stage' = [stage EXCEPT ![x] = @ + 1]

\* A batch is refused, or the script dies: process.exit(1).
Die(x) ==
    /\ Filling(x)
    /\ Faults \/ RowsClash(x, Batches[stage[x] + 1])
    /\ stage' = [stage EXCEPT ![x] = Dead]
    /\ UNCHANGED <<filled, latest>>

SeedNext == \E x \in Execution : CountDepartments(x) \/ WriteBatch(x) \/ Die(x)

SeedSpec == SeedInit /\ [][SeedNext]_seedVars

---------------------------------------------------------------------------
(* Properties.                                                             *)

\* Executions stand somewhere, and tables hold rows.
SeedTypeOK ==
    /\ stage \in [Execution -> {Unstarted, Refused, Dead} \cup 0 .. Len(Batches)]
    /\ filled \in [Execution -> [some : SUBSET Table, all : SUBSET Table]]
    /\ latest.refs \in SUBSET Table

\* However often the script is started, by whom, and wherever it dies, the
\* database holds the rows of one execution at most, every row finds the rows it
\* refers to, and an execution that ends has filled every table.
SeededOnce ==
    /\ \A x, y \in Execution : filled[x].some # {} /\ filled[y].some # {} => x = y
    /\ \E x \in Execution : latest.refs \subseteq filled[x].all
    /\ \A x \in Execution :
          stage[x] = Len(Batches) => filled[x].all = Table

Has(field) == field \in DOMAIN latest

\* The rows obey what the services keep of theirs: one commission in force, each
\* from where the one before it ended; stock and status of a product agree; the
\* dates of an order follow one another, up to the present, as its status says;
\* only delivered orders are reviewed and paid, after the delivery, for their
\* total and with a commission within it; an audit entry ends at the row's
\* status, or leads from one commission to the next.
SeedObeysTheRules ==
    LET row == latest IN
    /\ Has("configs") =>
          \A i, j \in DOMAIN row.configs :
              /\ row.configs[i].active /\ row.configs[j].active => i = j
              /\ row.configs[i].active = (row.configs[i].to = Never)
              /\ j = i + 1 => row.configs[i].to = row.configs[j].from
    /\ Has("stock") =>
          /\ row.status = "OUT_OF_STOCK" <=> row.stock = 0
          /\ row.deleted => row.status = "INACTIVE"
    /\ Has("total") =>
          /\ row.delivered # Never <=> row.status = "DELIVERED"
          /\ row.confirmed # Never <=> row.status \in {"CONFIRMED", "PREPARING", "DELIVERED"}
          /\ row.cancelled # Never <=> row.status = "CANCELLED"
          /\ row.delivered # Never => row.confirmed <= row.delivered /\ row.delivered <= Now
          /\ row.confirmed # Never => row.created <= row.confirmed /\ row.confirmed <= Now
          /\ row.cancelled # Never => row.created <= row.cancelled /\ row.cancelled <= Now
    /\ Has("created") /\ Has("of") /\ "orders" \in row.refs =>
          /\ row.of.status = "DELIVERED"
          /\ row.of.delivered <= row.created /\ row.created <= Now
    /\ Has("commission") =>
          row.amount = row.of.total /\ row.commission <= row.amount /\ row.provider # "OTHER"
    /\ Has("to") => row.to \in {row.of.status, "PENDING"} /\ row.from # row.to
    /\ Has("oldPercentage") =>
          /\ row.newPercentage = row.of.percentage
          /\ \E i \in DOMAIN SeededCommissions :
                /\ SeededCommissions[i].to = row.of.from
                /\ SeededCommissions[i].percentage = row.oldPercentage

=============================================================================
