SPECIFICATION FrontSpec
CONSTANTS
    q1 = q1
    q2 = q2
    q3 = q3
    c1 = c1
    c2 = c2
    Customers = {c1, c2}
    Purchases = {q1, q2, q3}
    Owner <- TwoOwners
    Products = {q1, q3}
    WithAddon = {q1}
    WithCode = {q1, q2}
    Free = {q2}
    Admins = {a1, a2}
    ServerInputs = {"server", "foreign", "null", "absent"}
    None = None
    InitialStock = 1
    MaxUses = 1
    MaxCrashes = 1
    Package = 10
    Steps = {9, 1}
    MaxBought = 2
    MaxDeleted = 1
    MaxUsed = 20
    Visitors = {"v", "w"}
    Phones = {"p"}
    Names = {"n"}
    NoPhone = "none"
    MaxCustomers = 2
    MaxEvents = 2
    Prices = {2, 3}
    Amounts = {2}
    Sizes = {50000}
    Stocks = {1}
    MaxSaves = 1
    MaxOrders = 2
SYMMETRY Symmetry
INVARIANTS CountsPaid AddonsKept OncePerPurchase AccountsWhole CatalogueHolds
PROPERTIES ExhaustedStays
CHECK_DEADLOCK FALSE
