\* Each part of the market by itself: two requests overlap and may fail.
CONSTANTS
    OrderId = {o1}
    NoOrder = NoOrder
    Faults = TRUE
    Slot = {r1, r2}
    NoArgs = NoArgs
    MaxRequests = 4
    MaxClashing = 3
    Buyer = {b1}
    Product = {p1, p2}
    CartPrice = {1, 2}
    MaxUnits = 2
    MaxCarts = 2
    MaxItems = 3
    OrderItem = {i1}
    ItemOrder <- FirstOrder
    Merchant = Merchant
    Admin = {a1, a2}
    Report = {t1}
    Category = {c1}
    Key = {k1}
    Setting = {v1, v2}
    Member = {m1}
    Thing = {x1}
    Rating = {1}
    Document = {d1, d2}
    MaxFiles = 4
    MaxPictures = 3
    MaxBatch = 2
    Lifetime = {2, 4}
    Margin = 2
    MaxDelay = 1
    MaxTime = 8
    Execution = {s1, s2}
    Now = 1
    Gap = {0, 1}
    Amount = {333}
    i1 = i1
    o1 = o1
SPECIFICATION MarketSpec
SYMMETRY Symmetry
INVARIANTS
    MarketTypeOK
    CartHoldsWhatWasAdded
    NewsIsDelivered
    JournalLeadsHere
    PicturesResolve
    TokenIsGood
    SeededOnce
    SeedObeysTheRules
PROPERTIES
    PaidIsOrdered
CHECK_DEADLOCK FALSE
