\* A paid checkout makes the orders of two sellers, and may fail at any point.
CONSTANTS
    Product = {p1, p2}
    NoProduct = NoProduct
    StockJob = {}
    StockLevel = {2}
    Quantity = {1}
    Price = {100}
    EditColumns <- NoEdits
    EditStatus = {}
    MaxStock = 4
    MaxMoves = 3
    OrderId = {o1, o2, o3}
    NoOrder = NoOrder
    Faults = TRUE
    Call = {c1}
    Filing = {}
    MethodId = {m1}
    NoMethod = NoMethod
    Provider = {"PAYPAL"}
    MethodEdits <- NoMethodEdits
    Percentage = {5}
    Reference = {r1, r2}
    NoReference = NoReference
    InitialConfigs <- FivePercent
    InitialMethods <- PaypalMethod
    MaxAmount = 1000
    MaxConfigs = 0
    MaxAudit = 0
    Seller = {s1, s2}
    SellerOf <- TwoSellers
    Buyer = {b1, b2}
    Nobody = Nobody
    CartId = {k1, k2}
    CartContents <- OneOrBoth
    MaxHistory = 1
    Rate = 247
    p1 = p1
    p2 = p2
    s1 = s1
    s2 = s2
    m1 = m1
SPECIFICATION PaySpec
INVARIANTS
    OneCheckoutPerCapture
CHECK_DEADLOCK FALSE
