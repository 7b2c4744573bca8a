SPECIFICATION Spec
CONSTANTS
    p1 = p1
    p2 = p2
    s1 = s1
    s2 = s2
    s3 = s3
    w1 = w1
    w2 = w2
    Pages = {p1, p2}
    Sizes = {s1, s2}
    AppSizes = {w1}
    RecentSizes = 8
    MaxKeeps = 2
    MaxUnread = 2
    MaxResizes = 1
INVARIANTS
    TakeBacksAreEarned
    KeepsTakeBackOnce
SYMMETRY MCSymmetry
