SPECIFICATION LiveSpec
CONSTANTS
    w1 = w1
    w2 = w2
    s1 = s1
    s2 = s2
    s3 = s3
    c1 = c1
    c2 = c2
    f1 = f1
    f2 = f2
    f3 = f3
    None = None
    Workspaces = {w1}
    Sends = {s1, s2}
    Cleaners = {c1}
    Folders = {f1, f2}
    IDsReturn = FALSE
    MaxPublications = 2
    MaxFaults = 1
    MaxCrashes = 1
    MaxVanished = 1
INVARIANTS
    UploadsAgree
    FoldersInUseStay
    ForwardedFilesRemain
    AbsentWorkspacesAreCleared

    
