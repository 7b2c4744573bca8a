SPECIFICATION LiveSpec
CONSTANTS
    e1 = e1
    e2 = e2
    t1 = t1
    t2 = t2
    r1 = r1
    r2 = r2
    r3 = r3
    w1 = w1
    w2 = w2
    None = None
    Endpoints = {e1}
    Trusts = {t1, t2}
    Requests = {r1, r2, r3}
    Workers = {w1}
    QueueLength = 1
    MaxSubscriptions = 1
    Choices <- MCChoices
    MaxNotices = 1
    MaxFaults = 1
    MaxStarts = 2
INVARIANTS
    SendsHaveAuthority
    RemovedTrustsAreForgotten
    EnabledBrowsersStay
PROPERTIES
    RequestsEnd
CHECK_DEADLOCK FALSE
