SPECIFICATION Spec
CONSTANTS
    Wrap = 2
    Speed = 1
    Grace = 1
    HasHC = {TRUE}
    Losable = {"ifHC"}
    Linked = {"s1"}
    NoServer = NoServer
    MaxTime = 3
    MaxHappenings = 1
    Protocols = {"snmp"}
    MaxActions = 1
    MaxEvents = 0
INVARIANT NeverAstronomical
CHECK_DEADLOCK FALSE
