\* Three messages, of the user and of the console, and two requests to publish.
CONSTANTS
    sub = sub
    p1 = p1
    p2 = p2
    None = None
    Requests <- MCRequests
    Batches <- MCBatches
    Sub = sub
    MaxLog = 3
    MaxLevel = 2
    MaxOutstanding = 2
SPECIFICATION ChannelFairSpec
INVARIANTS ChannelTypeOK ListenedIsRun PassedByResponsesOnly TwiceOnlyWhenCut
PROPERTIES ListenedRuns
CHECK_DEADLOCK FALSE
