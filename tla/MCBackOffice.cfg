CONSTANTS
    Checked = {"cache", "dashboard", "mails", "commissions", "promotions", "accounts", "pages",
               "searches", "income", "texts", "expenses"}
    Vehicles = {"v1", "v2"}
    Categories = {"c1", "c2"}
    Widgets = {1, 2}
    TTL = 2
    Wait = 1
    MaxTime = 4
    MaxMoves = 1
    PayMethods = {"Efectivo", "Transferencia"}
    Langs = {"es"}
    Window = 1
    MaxRetries = 1
    Advance = 1
    Total = 3
    LastMail = 1
    MaxEvents = 2
    MaxRestarts = 1
    Models = {"m1"}
    LastDay = 2
    MaxPromos = 2
    MaxUpdates = 1
    Emails = {"e1", "e2"}
    MaxUsers = 2
    MaxBookings = 1
    MaxPasswords = 2
    MaxRequests = 2
    Fleet = {"v1", "v2", "v3"}
    ServiceDays = {1, 2}
    MaxSearched = 1
    MaxSwaps = 2
    Concierges = {"ana"}
    TheStore = "TIENDA"
    CommissionedCarts <- OwnedCarts
    NewTotals = {5}
    Percentages = {10}
    ExtensionCosts = {2}
    DeliveryCharge = 1
    OwnPercentages <- OwnRates
    MaxEarned = 2
    MaxRetouches = 1
    Outlays = {2, 5}
    LastOutlay = 1
    MaxMovements = 2
    MaxPaid = 1
    MaxRevisions = 4
    Rentals <- RentedCarts
    RentalMethods = {"cash", "transfer", "none"}
    ServicePrices = {0, 7}
    StatementMonths <- TwoMonths
    LastRental = 3
    MaxEntries = 2
    SaleKinds <- BookingKinds
    StaffLists <- PaymentLists
    StaffAmounts = {0, 9}
    MonthLength = 3
    WeekLength = 2
    YearLength = 2
    LastMetricsDay = 3
    MaxSales = 2
    PageRows = 2
    ListedNames = {1, 2, 3, 4}
    MaxListed = 4
    MaxShifts = 2
    Goods = {"i1", "i2"}
    Bought <- SoldCarts
    GoodsPrices = {5, 7}
    DeliveryFee = 2
    MaxRewrites = 3
SPECIFICATION OfficeSpec
INVARIANTS
    CacheExpires WidgetsAgree    
     SearchesAgree  MailsAddUp ExpensesAgree
PROPERTIES SettledStays
CHECK_DEADLOCK FALSE
