SPECIFICATION Spec
CONSTANTS
    LastHour = 4
    HoursPerDay = 2
    Window = 2
    DaysBack = 1
    Retention = 4
    MaxSleep = 1
    MaxFlow = 2
    MaxEvents = 1
INVARIANT CountedOnce
PROPERTIES UsageNeverFalls SettledStays
