SPECIFICATION Spec
CONSTANTS
    r1 = r1
    r2 = r2
    a = a
    b = b
    h = h
    None = None
    Requests = {r1, r2}
    Terminals = {a, b, h}
    HomeOrder <- MCHomeOrder
    Begun <- MCBegun
    Families <- MCFamilies
    MaxChanges = 1
SYMMETRY MCSymmetry
INVARIANTS
    ActionTypeOK
    WorkersEndFirst
PROPERTIES
    AnswersAreTruthful
    ConfirmedFactsHold
CHECK_DEADLOCK FALSE
