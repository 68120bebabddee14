SPECIFICATION Spec
CONSTANTS
    Runs = {r1}
    GoalRuns = {r1}
    Procs = {tui, daemon}
    Launchers = {tui}
    Killers = {tui}
    Sweepers = {daemon}
    NoRun = NoRun
    NoProc = NoProc
    MaxConcurrent = 1
    MaxDeaths = 0
    StoreFaults = TRUE
    SupFaults = TRUE
    Forgets = FALSE
INVARIANTS TypeOK CompletedIsOver StoppedMeansStopped WatchedWhileRunning
PROPERTIES StatusNeverReopens
CHECK_DEADLOCK FALSE
