SPECIFICATION SceneSpec
CHECK_DEADLOCK FALSE
CONSTANTS
    wine = wine
    acme = acme
    best = best
    None = None
    Products = {wine}
    Vendors = {acme, best}
    Orders = {order1, order2}
    Threshold <- One
    StartStock <- One
    StartLinks <- FromBoth
    StartPreferred <- PreferAcme
    HasEmail = {acme}
    CaseSize <- Cases
    MinOrder <- NoMinimum
    DefaultQuantity <- NoDefault
    MaxReceived = 3
    MaxListEdits = 1
    MaxAttempts = 2
    MaxMails = 2
    MaxRetries = 1
    MaxLost = 1
    MaxCrashes = 1
    MaxConfigEdits = 1
    CloudSync = TRUE
    Tags = {shelf1, shelf2}
    Prices = {3, 4}
    SalePrice <- Two
    SaleStart <- One
    SaleEnd <- Two
    MaxPushes = 2
    LastInstant = 2
    MaxTagEdits = 3
    MaxPulls = 1
    MaxCharges = 2
    MaxKioskCrashes = 1
    MaxRevokes = 1
    DiskFails = TRUE
    KeepsToken = {TRUE, FALSE}
INVARIANTS
    TypesHold
    OrdersFollow
    TagsTellThePrice
    KioskTellsTheTruth
PROPERTIES
    Settles
