\* Requests about one order, an administrator's and stock requests overlap, and may fail.
CONSTANTS
    Product = {p1}
    NoProduct = NoProduct
    StockJob = {j1, j2}
    StockLevel = {0, 2}
    Quantity = {1}
    Price = {10}
    EditColumns <- StatusEditsOnly
    EditStatus = {"INACTIVE"}
    MaxStock = 2
    MaxMoves = 2
    OrderId = {o1}
    NoOrder = NoOrder
    Faults = TRUE
    Call = {c1, c2}
    Filing = {f1}
    MethodId = {m1}
    NoMethod = NoMethod
    Provider = {"OTHER"}
    MethodEdits <- NoMethodEdits
    Percentage = {5}
    Reference = {}
    NoReference = NoReference
    InitialConfigs <- FiveOrNothing
    InitialMethods <- OtherMethod
    MaxAmount = 1000
    MaxConfigs = 1
    MaxAudit = 0
    Seller = {s1}
    SellerOf <- OneSeller
    Buyer = {b1, b2}
    Nobody = Nobody
    CartId = {k1}
    CartContents <- OneOrTwoUnits
    MaxHistory = 4
    p1 = p1
    p2 = p2
    s1 = s1
    s2 = s2
    m1 = m1
SPECIFICATION SceneSpec
SYMMETRY Interchangeable
INVARIANTS
    TypeOK
    StatusIsLastEntry
    EveryChangeHasItsCause
    NoticesAreEarned
    TransactionMatchesOrder
    StockNeverNegative
    OfferedIffInStock
CHECK_DEADLOCK FALSE
