SPECIFICATION LiveSpec
CONSTANTS
    a = a
    b = b
    t1 = t1
    t2 = t2
    idle = idle
    busy = busy
    h1 = h1
    l1 = l1
    None = None
    Panes = {a, b}
    Tabs = {t1}
    Statuses = {idle, busy}
    Homes = {h1}
    Leases = {l1}
    MaxChanges = 2
    MaxBreaks = 1
INVARIANTS
    HomesAreCurrent
    LeasesEndAtGaps
    NoticesAreWitnessed
PROPERTIES
    HomeCatchesUp
