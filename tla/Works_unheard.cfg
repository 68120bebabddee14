SPECIFICATION Spec
CONSTANTS
    Sessions = {a}
    First = t0
    Planned = {t1}
    RawPaths <- MCPaths
    Upper <- MCUpper
    Lower <- MCLower
    Daemon = daemon
    Person = person
    MaxTurns = 1
INVARIANT DeliveredWasHeard
CHECK_DEADLOCK FALSE
