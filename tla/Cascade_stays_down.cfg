SPECIFICATION FairSpec
CONSTANTS
    Main = main
    Manager = manager
    Worker = worker
    Others = {}
    NoConv = NoConv
    Clients = {tui}
    Ends = {}
    MaxRuns = 5
    MaxStops = 1
    MaxReports = 2
    MaxFaults = 0
PROPERTIES StoppedComesBack
CHECK_DEADLOCK FALSE
