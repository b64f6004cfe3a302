SPECIFICATION FairSpec
CONSTANTS
    Invoices = {i1}
    Payments = {p1, p2}
    Handlers = {h1, h2}
    None = None
    RequestKinds = {"start", "return", "retry", "mark"}
    Misdirected = FALSE
    MaxFaults = 2
    MaxCrashes = 0
PROPERTY MoneyKept
