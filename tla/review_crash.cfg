SPECIFICATION FairSpec
CONSTANTS
    s1 = s1
    s2 = s2
    e1 = e1
    c1 = c1
    NoJob = NoJob
    NoWorker = NoWorker
    Jobs = {s1}
    SlackJobs = {s1}
    Contracts = {c1}
    ContractOf <- OneContract
    Workers = {w1, w2}
    MaxAttempts = 2
    Faults = {"crash", "stall", "republish"}
    MaxFaults = 3
INVARIANTS
    DeadLetterAnswered
PROPERTIES
    ReviewNotRetracted
    ImplementsPromise
CHECK_DEADLOCK FALSE
