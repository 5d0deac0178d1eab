SPECIFICATION Spec
CONSTANTS
    h1 = h1
    h2 = h2
    Paths = {p1}
    FormKey = form
    Handlers = {h1, h2}
    MaxContracts = 2
    MaxJobs = 1
    MaxRequests = 3
    Limit = 1
    Modes = {"observe", "enforce"}
    Faults <- AllFaults
    MaxFaults = 1
    None = None
INVARIANTS OneHolder ReservationIsPaid RepeatedJobNeedsReason DocumentIsKept UnfinishedHasJob
SYMMETRY Alike
CHECK_DEADLOCK FALSE
