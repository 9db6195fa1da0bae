\* A write from VHTTPC_IDLE that is not accepted in full.
CONSTANTS
    r1 = r1
    r2 = r2
    r3 = r3
    None = None
    Requests <- MCRequests
    Batches <- MCBatches
    Faults = {"write_fails_idle", "peer_close"}
    MaxFaults = 2
SPECIFICATION FairSpec
PROPERTY EventuallyAnswered
CHECK_DEADLOCK FALSE
