CONSTANTS
    A = a
    B = b
    C = c
    Candidates <- ThreeHosts
    Narrow <- SecondNarrow
    MaxPorts = 2
    Queued = 2
    HopAfter = 2
    ConnectWithin = 2
    CloseWithin = 1
    OldAge = 5
    MaxFaults = 1
SPECIFICATION Spec
INVARIANTS CandidatesKept
CHECK_DEADLOCK FALSE
