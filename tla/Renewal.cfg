SPECIFICATION FairSpec
CONSTANTS
    FirstRenewal = 1
    Period = 2
    DaysBefore = 1
    NoticeDays = 1
    LastDay = 4
    MaxInvoices = 5
    MaxEvents = 2
INVARIANTS IInv NoticedOnce
PROPERTY DateIsServed
CHECK_DEADLOCK FALSE
