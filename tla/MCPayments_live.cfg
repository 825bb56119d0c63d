\* A paid checkout, another request and an administrator overlap, and no statement fails.
CONSTANTS
    Product = {p1}
    NoProduct = NoProduct
    StockJob = {}
    StockLevel = {2}
    Quantity = {1}
    Price = {100}
    EditColumns <- NoEdits
    EditStatus = {}
    MaxStock = 4
    MaxMoves = 3
    OrderId = {o1}
    NoOrder = NoOrder
    Faults = FALSE
    Call = {c1, c2}
    Filing = {f1}
    MethodId = {m1}
    NoMethod = NoMethod
    Provider = {"PAYPAL"}
    MethodEdits <- NoMethodEdits
    Percentage = {5}
    Reference = {r1}
    NoReference = NoReference
    InitialConfigs <- FivePercent
    InitialMethods <- PaypalMethod
    MaxAmount = 1000
    MaxConfigs = 2
    MaxAudit = 0
    Seller = {s1}
    SellerOf <- OneSeller
    Buyer = {b1}
    Nobody = Nobody
    CartId = {k1}
    CartContents <- OneUnit
    MaxHistory = 4
    Rate = 247
    p1 = p1
    p2 = p2
    s1 = s1
    s2 = s2
    m1 = m1
SPECIFICATION PayFairSpec
INVARIANTS
    PayTypeOK
PROPERTIES
    TransactionHasCause
    ChangesAreAnnounced
    DeliveredIsSettled
    PaidOrdersAreSettled
CHECK_DEADLOCK FALSE
