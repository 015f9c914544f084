SPECIFICATION OvertakenSpec
CONSTANTS
    a = a  b = b  k1 = k1  k2 = k2
    Orders = {"order"}
    Variants = {"variant"}
    Customers = {"ana"}
    Carts = {"cart"}
    OpeningCarts = {"cart"}
    Proofs = {"proof"}
    Choices = {"CASH", "BANK_TRANSFER", "CARD_STRIPE", "PAYMENT_LINK", "CARD_MERCADO_PAGO"}
    Destinations = {"PICKUP", "TIZIMIN", "MERIDA"}
    OpeningStock <- OneEach
    Baskets <- SmallBaskets
    MaxQty = 1
    Recounts = {}
    LocalFee = 1
    Quotes = {1, 2}
    ShortLife = 1  TransferLife = 1  CashLife = 2  QuoteLife = 1
    LastCall = 1
    MaxTime = 1
    MaxAttempts = 2
    MaximumUses = 1  PerCustomerLimit = 1
    WelcomeOnly = FALSE
    Charges = {k1, k2}
    Workers = {a, b}
    Moves <- AllMoves
    Faults = TRUE
    Shipments = {"shipment"}
    Employees = {a, b}
SYMMETRY Sym
CHECK_DEADLOCK FALSE
INVARIANTS
    SoldIsNotRefunded
