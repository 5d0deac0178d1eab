SPECIFICATION Spec
CONSTANTS
    e1 = e1
    f1 = f1
    f2 = f2
    w1 = w1
    w2 = w2
    NoEvent = NoEvent
    NoFile = NoFile
    NoWorker = NoWorker
    Events = {e1}
    Files = {f1}
    FilesOf <- OneFile
    Workers = {w1, w2}
    MaxEventAttempts = 2
    Faults = {"crash"}
    MaxFaults = 1
PROPERTY
    ActiveContractIsNotReset
CHECK_DEADLOCK FALSE
