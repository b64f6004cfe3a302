SPECIFICATION Spec
CONSTANTS
    Wrap = 2
    Speed = 1
    Grace = 1
    HasHC = {TRUE, FALSE}
    Losable = {"ifName"}
    Linked = {"s1"}
    NoServer = NoServer
    MaxTime = 2
    MaxHappenings = 2
    Protocols = {"nxapi", "snmp"}
    MaxActions = 2
    MaxEvents = 1
INVARIANT NeverAstronomical
PROPERTIES ShutIsQuiet OnlyTheAsked IncidentsSettle NewestIsCurrent RequestsSettle
CHECK_DEADLOCK FALSE
