SPECIFICATION FairSpec
CONSTANTS
    Muted = {"ip_down"}
    BatchLimit = 2
    MaxEvents = 4
INVARIANT AlertsRight
PROPERTY HeardUntilAcked
