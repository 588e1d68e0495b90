SPECIFICATION FairSpec
CONSTANTS
    Timers = {t1, t2}
    Delays = {1, 4}
    Interval <- TwoWheels
    Level = 2
    ErrorMax = 1
    TriggerMax = 1
    Prompt = TRUE
    Overdue = 3
    None = None
INVARIANTS
    OnTime
PROPERTIES
    Triggered
