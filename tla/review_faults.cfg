SPECIFICATION Spec
CONSTANTS
    s1 = s1
    s2 = s2
    e1 = e1
    c1 = c1
    NoJob = NoJob
    NoWorker = NoWorker
    Jobs = {s1, s2}
    SlackJobs = {s1, s2}
    Contracts = {c1}
    ContractOf <- OneContract
    Workers = {w1, w2}
    MaxAttempts = 2
    Faults = {"crash", "disconnect", "outage", "unconfirmed", "republish", "repass"}
    MaxFaults = 2
SYMMETRY Symmetry
INVARIANTS
    OneReviewerPerSubmission
    CompletedMeansAnswered
    NoSubmissionLost
    QuietContractIsSettled
CHECK_DEADLOCK FALSE
