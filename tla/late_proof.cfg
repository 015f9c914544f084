SPECIFICATION ShopsSpec
CONSTANTS
    o1 = o1  o2 = o2  v1 = v1  v2 = v2  c1 = c1  c2 = c2  c3 = c3  d1 = d1  d2 = d2
    Orders = {o1, o2}
    Variants = {v1, v2}
    Customers = {"ana", "luis"}
    Carts = {c1, c2, c3}
    OpeningCarts = {c1, c2}
    Proofs = {d1, d2}
    Choices = {"CASH", "BANK_TRANSFER", "CARD_STRIPE"}
    Destinations = {"PICKUP", "TIZIMIN", "MERIDA"}
    OpeningStock <- TwoEach
    Baskets <- MixedCarts
    MaxQty = 2
    Recounts = {1}
    LocalFee = 1
    Quotes = {2}
    ShortLife = 1  TransferLife = 2  CashLife = 3  QuoteLife = 2
    LastCall = 3
    MaxTime = 5
    MaxAttempts = 3
    MaximumUses = 1  PerCustomerLimit = 1
    WelcomeOnly = TRUE
SYMMETRY OrderSymmetry
CHECK_DEADLOCK FALSE
INVARIANT ProofsOfPayableAttempts
