\* Requests one at a time, none failing; a cart holds products of two sellers.
CONSTANTS
    Product = {p1, p2}
    NoProduct = NoProduct
    StockJob = {}
    StockLevel = {2}
    Quantity = {1}
    Price = {10}
    EditColumns <- NoEdits
    EditStatus = {}
    MaxStock = 4
    MaxMoves = 3
    OrderId = {o1, o2, o3}
    NoOrder = NoOrder
    Faults = FALSE
    Call = {c1, c2}
    Filing = {}
    MethodId = {}
    NoMethod = NoMethod
    Provider = {"OTHER"}
    MethodEdits <- NoMethodEdits
    Percentage = {5}
    Reference = {}
    NoReference = NoReference
    InitialConfigs <- NothingConfigured
    InitialMethods <- NoMethodYet
    MaxAmount = 1000
    MaxConfigs = 0
    MaxAudit = 0
    Seller = {s1, s2}
    SellerOf <- TwoSellers
    Buyer = {b1, b2}
    Nobody = Nobody
    CartId = {k1, k2}
    CartContents <- OneOrBoth
    MaxHistory = 5
    p1 = p1
    p2 = p2
    s1 = s1
    s2 = s2
    m1 = m1
SPECIFICATION SerialSpec
SYMMETRY Symmetry
INVARIANTS
    HistoryIsAChain
    ReservationIsBalanced
    LedgerExplainsStock
PROPERTIES
    CartIsOrderedOnce
    ImplementsBook
CHECK_DEADLOCK FALSE
