SPECIFICATION FairSpec
CONSTANTS
    Tickers = {daemon}
    NoTicker = none
    MaxIterations = 2
    Budget = 2
    StallAfter = 2
    Orders = {"running", "paused"}
    MaxOrders = 2
    MaxFaults = 1
INVARIANTS TypeOK OneInFlight LimitHolds PaidOnce
PROPERTIES EveryRunIsBilled
CHECK_DEADLOCK FALSE
