SPECIFICATION Spec
CONSTANTS
    p1 = p1
    p2 = p2
    c1 = c1
    c2 = c2
    h1 = h1
    h2 = h2
    f1 = f1
    f2 = f2
    f3 = f3
    None = None
    Size <- MCSize
    Procs = {p1}
    Conns = {c1, c2}
    Homes = {}
    Files = {f1, f2, f3}
    Limit = 2
    Total = 3
    MaxTerm = 1
    MaxStarts = 2
    MaxFaults = 1
    MaxMisreads = 1
INVARIANTS
    StorageAgrees
    ReportedFilesStay
    DeletedFilesStayGone
SYMMETRY Symmetry
