SPECIFICATION Spec
CONSTANTS
    e1 = e1
    f1 = f1
    f2 = f2
    w1 = w1
    w2 = w2
    NoEvent = NoEvent
    NoFile = NoFile
    NoWorker = NoWorker
    Events = {e1}
    Files = {f1, f2}
    FilesOf <- TwoFiles
    Workers = {w1, w2}
    MaxEventAttempts = 2
    Faults = {"crash", "slow", "unconfirmed", "outage", "metrics", "attempt"}
    MaxFaults = 1
INVARIANTS
    TypeOK
    CompletedFileIsAccountedFor
    ProcessedEventIsComplete
    ReceiptComesFirst
SYMMETRY WorkerSymmetry
CHECK_DEADLOCK FALSE
