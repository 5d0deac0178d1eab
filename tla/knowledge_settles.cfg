SPECIFICATION FairSpec
CONSTANTS
    NoDoc = NoDoc
    Docs = {d1}
    Workers = {w1, w2}
    Senders = {s1}
    MaxAttempts = 2
    MaxPublish = 2
    MaxCommands = 0
    Faults = {"crash", "outage", "unconfirmed"}
    MaxFaults = 2
PROPERTY
    IndexSettles
CHECK_DEADLOCK FALSE
