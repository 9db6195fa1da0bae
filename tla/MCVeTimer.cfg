\* One timer used as this program does, and three set, reloaded and cancelled.
CONSTANTS
    t1 = t1
    t2 = t2
    t3 = t3
    Null = Null
    Timers <- MCTimers
    Uses <- MCUses
    MaxValue = 4
SPECIFICATION Spec
INVARIANTS TypeOK RunningIsLinked
PROPERTY FiresWhenDue
