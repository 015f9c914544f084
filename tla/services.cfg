SPECIFICATION ServicesSpec
CONSTANTS
    None = None
    a = a
    b = b
    x = x
    y = y
    z = z
    Events = {"e1", "e2"}
    Replicas = {a, b}
    kindOf <- kinds
    AttemptLimit = 2
    Batch = 2
    Cooldown = 2
    MaxDelay = 2
    Limits = 1
    Stops = 1
    Resends = 1
    Tabs = {a, b, "t1", "t2"}
    Browsers = {"browser", "b1", "b2"}
    browserOf <- browsers
    Links = {"link"}
    Resetters = {a, b}
    Registered = TRUE
    MaxTokens = 3
    MaxPasswords = 2
    Catalog = {"c1", "c2"}
    BatchOf <- batchOf
    StockOf <- stockOf
    Seeders = {a, b}
    Orders = {"order"}
    Edits = 1
    Resets = 1
    Interruptions = 1
    Absent = Absent
    CartIds = {x, y, z}
    CartTabs = {"tab"}
    Customers = {"ana"}
    Calls = {1}
    Stock = 2
    Failures = 0
SYMMETRY Sym
CHECK_DEADLOCK FALSE
INVARIANTS
    TypesOK
    EveryMailOnce
    ExchangedOnce
    NoSessionOutlivesReset
    ShownIsGranted
    CartsAreKept
    NothingIsFree
    StoreIsKept
PROPERTIES
    CartsStayTheirOwners
    ChangesAreExact
