SPECIFICATION Spec
CONSTANTS
    Invoices = {i1, i2}
    Payments = {p1}
    Handlers = {h1, h2}
    None = None
    RequestKinds = {"start", "return", "verify", "retry", "mark"}
    Misdirected = TRUE
    MaxFaults = 1
    MaxCrashes = 1
SYMMETRY Symmetry
CONSTRAINT OneMishap
INVARIANTS IInv 
PROPERTIES PaidIsFinal ImplementsSettlement
