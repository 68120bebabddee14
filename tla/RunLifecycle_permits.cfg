SPECIFICATION Spec
CONSTANTS
    Runs = {r1, r2}
    GoalRuns = {}
    Procs = {tui}
    Launchers = {tui}
    Killers = {}
    Sweepers = {}
    NoRun = NoRun
    NoProc = NoProc
    MaxConcurrent = 1
    MaxDeaths = 1
    StoreFaults = FALSE
    SupFaults = TRUE
    Forgets = TRUE
INVARIANTS ConcurrencyCap
PROPERTIES ImplementsRunView
CHECK_DEADLOCK FALSE
