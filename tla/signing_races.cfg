SPECIFICATION Spec
CONSTANTS
    s1 = s1
    s2 = s2
    s3 = s3
    anna = anna
    bert = bert
    Requests = {r1, r2}
    Signers = {s1, s2, s3}
    EmailOf <- Mailboxes
    Required = {s1, s3}
    EventIds = {e1, e2}
    Recordable = {"viewed", "signed", "declined"}
    Handlers = {h1, h2}
    MaxCrashes = 1
    NoRequest = NoRequest
    NoEvent = NoEvent
INVARIANTS OneActiveRequest FlagFollowsStatus
PROPERTIES RepeatsNeedOverlap
CHECK_DEADLOCK FALSE
