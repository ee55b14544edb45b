SPECIFICATION SceneSpec
CHECK_DEADLOCK FALSE
CONSTANTS
    ann = ann
    ben = ben
    None = None
    Products <- MCProducts
    BasePrice <- MCBasePrice
    SoldBy <- MCSoldBy
    Taxable = {"soap"}
    BenefitEligible = {"fish"}
    SalePrices <- MCSalePrices
    StartStock <- MCStartStock
    Customers = {ann, ben}
    TaxRateBps = 888
    PricesIncludeTax = FALSE
    DefaultLimit = 600
    SnapAccepted = TRUE
    SaleRequests <- MCSaleRequests
    PaymentRequests <- MCPaymentRequests
    RefundRequests <- MCRefundRequests
    DrawerMovements <- MCDrawerMovements
    Prefix = 2
    RangeSize = 3
    ForeignReceipts = {9}
    OpeningTill = 100
    LastDay = 2
    MaxEdits = 1
    Edited = {ann}
    wine = wine
    logo = logo
    owner = owner
    cashier = cashier
    sell = sell
    counter = counter
    office = office
    family = family
    friends = friends
    Shelf = {wine}
    ShelfStart <- MCShelfStart
    ShelfStock = {0, 3}
    Counts = {1, 2}
    MaxMoves = 2
    MaxApplied = 2
    Goods = {wine}
    PlainTenders = {"cash"}
    MaxQuantity = 1
    MaxKeys = 2
    MaxCharges = 1
    MaxParked = 1
    Images = {logo}
    Keep <- MCKeep
    Latest = 2
    MaxRung = 1
    MaxBackups = 3
    Price = 2
    MaxPrices = 1
    MaxEvents = 3
    MaxMachines = 3
    Staff = {owner, cashier}
    Permissions = {sell}
    MaxAttempts = 2
    LockTime = 1
    IdleTime = 1
    ElevationTime = 1
    MaxTime = 1
    Devices = {counter, office}
    CloudAccounts = {family, friends}
    Legacy = {office}
    MaxSales = 2
    MaxSignIns = 3
INVARIANTS
    TypesHold
    BooksExplained
    DrawerCountedRight
    CentsAddUp
    RepliesAreRecorded
    CreditIsReturnedGoods
    CountCorrects
    OneSalePerCustomer
    RestoresGiveBack
    OwnersDecide
    ManagersKeepApart
