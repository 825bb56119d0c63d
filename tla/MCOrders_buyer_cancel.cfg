\* A buyer cancels a request while its seller accepts it.
CONSTANTS
    Product = {p1}
    NoProduct = NoProduct
    StockJob = {}
    StockLevel = {2}
    Quantity = {1}
    Price = {10}
    EditColumns <- NoEdits
    EditStatus = {}
    MaxStock = 4
    MaxMoves = 3
    OrderId = {o1}
    NoOrder = NoOrder
    Faults = FALSE
    Call = {c1, c2}
    Filing = {}
    MethodId = {m1}
    NoMethod = NoMethod
    Provider = {"OTHER"}
    MethodEdits <- NoMethodEdits
    Percentage = {5}
    Reference = {}
    NoReference = NoReference
    InitialConfigs <- FivePercent
    InitialMethods <- OtherMethod
    MaxAmount = 1000
    MaxConfigs = 0
    MaxAudit = 0
    Seller = {s1}
    SellerOf <- OneSeller
    Buyer = {b1}
    Nobody = Nobody
    CartId = {k1}
    CartContents <- OneUnit
    MaxHistory = 4
    p1 = p1
    p2 = p2
    s1 = s1
    s2 = s2
    m1 = m1
SPECIFICATION Spec
PROPERTIES
    BuyerCancelsOnlyPending
CHECK_DEADLOCK FALSE
