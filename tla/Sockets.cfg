CONSTANTS
    A = a
    B = b
    C = c
    Candidates <- ThreeHosts
    Narrow <- SecondNarrow
    MaxPorts = 2
    Queued = 1
    HopAfter = 2
    ConnectWithin = 2
    CloseWithin = 1
    OldAge = 2
    MaxFaults = 2
SPECIFICATION Spec
INVARIANTS TypeOK LeadsToServer FewCandidatesClosed
PROPERTIES PruneSpares Resumes
CHECK_DEADLOCK FALSE
