\* Every fault: the handlers fit together and implement the abstract queue.
CONSTANTS
    r1 = r1
    r2 = r2
    r3 = r3
    None = None
    Requests <- MCRequests
    Batches <- MCBatches
    Faults <- MCAllFaults
    MaxFaults = 5
SPECIFICATION Spec
INVARIANTS TypeOK SocketFollowsState BusyHasRequest AnswerIsForHead
PROPERTY AtLeastOnceDelivery
CHECK_DEADLOCK FALSE
