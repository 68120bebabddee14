SPECIFICATION Spec
CONSTANTS
    Main = main
    Manager = manager
    Worker = worker
    Others = {sub}
    NoConv = NoConv
    Clients = {tui, mcp}
    Ends = {"completed"}
    MaxRuns = 6
    MaxStops = 1
    MaxReports = 2
    MaxFaults = 1
INVARIANTS TypeOK RecordedIsStopped ReplacedOnce BranchIsDown BranchComesBack
SYMMETRY Symmetry
CHECK_DEADLOCK FALSE
