\* The faults the code recovers from: nothing is left unanswered, and the console keeps listening.
CONSTANTS
    sub = sub
    p1 = p1
    p2 = p2
    p3 = p3
    None = None
    Sub <- sub
    Requests <- MCRequests
    Batches <- MCBatches
    Faults <- MCHandledFaults
    MaxFaults = 3
    MaxCmds = 2
    MaxOutstanding = 2
SPECIFICATION AtFairSpec
INVARIANT NotDeaf
PROPERTIES EventuallyAnswered KeepsListening
