SPECIFICATION FairSpec
CONSTANTS
    Runs = {r1}
    GoalRuns = {r1}
    Procs = {tui, daemon}
    Launchers = {tui}
    Killers = {}
    Sweepers = {daemon}
    NoRun = NoRun
    NoProc = NoProc
    MaxConcurrent = 1
    MaxDeaths = 0
    StoreFaults = FALSE
    SupFaults = TRUE
    Forgets = FALSE
PROPERTIES EventuallySettled
CHECK_DEADLOCK FALSE
