SPECIFICATION Spec
CONSTANTS
    NoDoc = NoDoc
    Docs = {d1}
    Workers = {w1, w2}
    Senders = {s1, s2}
    MaxAttempts = 2
    MaxPublish = 1
    MaxCommands = 1
    Faults = {"crash", "disconnect", "outage", "slow", "unconfirmed"}
    MaxFaults = 1
INVARIANTS
    ReadyHasChunks
    NothingForgotten
SYMMETRY Alike
CHECK_DEADLOCK FALSE
