\* Commands one after the other; power lost anywhere, writes that fail.
CONSTANTS
    key = key
    trace1 = trace1
    trace2 = trace2
    Default = Default
    Absent = Absent
    Empty = Empty
    Zero = Zero
    Nothing = Nothing
    Freed = Freed
    Order <- MCOrder
    Strings = {key}
    Keys = {key}
    Traces = {trace1, trace2}
    Values <- MCValues
    Faults = {"power_loss", "torn_write", "write_fails"}
    MaxFaults = 2
    Unparsable = Unparsable
    None = None
SPECIFICATION CmdSpec
INVARIANTS CmdTypeOK OneTerminalResponse OkMeansDone Settled
PROPERTY MasksSaved
