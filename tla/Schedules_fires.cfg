SPECIFICATION Spec
CONSTANTS
    Tickers = {daemon}
    NoTicker = none
    Lease = 1
    Grace = 1
    MaxReplay = 2
    Window = 5
    BreakAfter = 2
    Misfires = {"fire_once", "skip", "fire_all"}
    Overlaps = {"skip", "replace", "allow"}
    MaxTime = 3
    MaxPersonal = 1
    MaxFaults = 1
INVARIANTS
    TypeOK
    InstantRunsOnce
    SettledAreOver
    CountIsEarned
    BreakerHolds
CHECK_DEADLOCK FALSE
