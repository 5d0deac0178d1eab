SPECIFICATION FairSpec
CONSTANTS
    h1 = h1
    h2 = h2
    d1 = d1
    d2 = d2
    Files = {1, 2, 3}
    Rejected = {2}
    Invalid = {3}
    Handlers = {h1, h2}
    Senders = {d1, d2}
    MaxJobs = 2
    MaxAttempts = 2
    Faults <- AllFaults
    MaxFaults = 2
    None = None
INVARIANTS ReceiptComesFirst NothingLostQuietly RepeatedReviewNeedsReason
PROPERTIES ImplementsOutbox OutboxSettles
CHECK_DEADLOCK FALSE
