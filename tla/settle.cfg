SPECIFICATION Spec
CONSTANTS
    None = None
CHECK_DEADLOCK FALSE
PROPERTIES
    StockComesBack
    OrdersSettle
    ChargesSettle
    EventsSettle
    WorkIsDone
    PagesCatchUp
