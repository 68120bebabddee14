SPECIFICATION FairSpec
CONSTANTS
    Sessions = {a}
    First = t0
    Planned = {t1}
    RawPaths <- MCPaths
    Upper <- MCUpper
    Lower <- MCLower
    Daemon = daemon
    Person = person
    MaxTurns = 1
INVARIANTS TypeOK OwnersDisjoint
PROPERTIES RunningLeftAlone MarkedWhenHeld AnswersAreTried ClosesInTheEnd
CHECK_DEADLOCK FALSE
