SPECIFICATION Spec
CONSTANTS
    Tickers = {daemon}
    NoTicker = none
    MaxIterations = 2
    Budget = 2
    StallAfter = 1
    Orders = {"running"}
    MaxOrders = 1
    MaxFaults = 0
INVARIANTS CountedOnce
CHECK_DEADLOCK FALSE
