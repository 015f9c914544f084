SPECIFICATION PagesSpec
CONSTANTS
    None = None
    a = a
    b = b
    x = x
    y = y
    z = z
    Editors = {a, b}
    Edits = {"edit"}
    Half = "half"
    Presses = 2
    Faults = 0
    Loads = 0
    Renderings = 0
    Outages = 0
    Tokens = {"cart", x, y}
    Addresses = {"address"}
    Nothing = None
    Configurations <- offered
    MaxPresses = 1
    Tried <- allChoices
SYMMETRY Sym
CHECK_DEADLOCK FALSE
INVARIANTS
    TypesOK
    HistoryIsComplete
    PublishedIsWhole
    PlacedIsComplete
    ToldIsTrue
    EnteredOnce
PROPERTIES
    SettledStays
