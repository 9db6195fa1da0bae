\* Every fault, two commands in a reply.
CONSTANTS
    sub = sub
    p1 = p1
    p2 = p2
    p3 = p3
    None = None
    Sub <- sub
    Requests <- MCRequests
    Batches <- MCBatches
    Faults <- MCAllFaults
    MaxFaults = 4
    MaxCmds = 2
    MaxOutstanding = 2
SPECIFICATION AtSpec
INVARIANTS NeverAllAsleep HeapIsQueue ParserOwnership
SYMMETRY MCSymmetry
CHECK_DEADLOCK FALSE
