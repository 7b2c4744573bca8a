SPECIFICATION LiveSpec
CONSTANTS
    s1 = s1
    u1 = u1
    i1 = i1
    Streams = {s1}
    Sends = {u1}
    Inputs = {i1}
    Chunks = 2
    MaxFaults = 2
    None = None
INVARIANTS
    ChildrenAreCounted
    StdinStaysInOrder
PROPERTIES
    AnswersAreTruthful
    TerminalWorkEnds
CHECK_DEADLOCK FALSE
