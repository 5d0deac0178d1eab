SPECIFICATION FairSpec
CONSTANTS
    m1 = m1
    m2 = m2
    t1 = t1
    c1 = c1
    NoMessage = NoMessage
    NoWorker = NoWorker
    NoContract = NoContract
    Messages = {m1, m2}
    Threads = {t1}
    ThreadOf <- OneThread
    Contracts = {c1}
    ContractOf <- ReviewsContract
    Workers = {w1, w2}
    MaxAttempts = 2
    MaxTokens = 2
    Faults = {"crash", "slow", "timeout", "uninstall", "reinstall", "overlap"}
    MaxFaults = 2
INVARIANTS
    InactiveHasNothingOpen
PROPERTIES
    ThreadsKeepOrder
    ImplementsOutbox
    RepliesSettle
    DisconnectedIsSilent
CHECK_DEADLOCK FALSE
