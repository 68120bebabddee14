SPECIFICATION FairSpec
CONSTANTS
    Members = {m1}
    Main = main
    Everyone = everyone
    Stranger = stranger
    Tickers = {daemon}
    Consoles = {tui}
    MessageBudget = 1
    MaxDepth = 1
    MaxMessages = 2
    MaxOrders = 1
    MaxFaults = 1
INVARIANTS
    TypeOK
    WokenOnce
    TurnsWithinBudget
    SettledWasCarried
    MainMailKept
PROPERTIES MailIsTried
CHECK_DEADLOCK FALSE
