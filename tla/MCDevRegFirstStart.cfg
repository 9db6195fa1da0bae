\* Power lost on the first start.
CONSTANTS
    port = port
    key = key
    trace1 = trace1
    trace2 = trace2
    Default = Default
    Absent = Absent
    Empty = Empty
    Zero = Zero
    Nothing = Nothing
    Freed = Freed
    Order <- MCOrder
    Strings = {key}
    Keys = {key}
    Traces = {trace1, trace2}
    Values <- MCValues
    Faults = {"power_loss"}
    MaxFaults = 1
SPECIFICATION Spec
INVARIANT Initialised
