SPECIFICATION Spec
CONSTANTS
    Timers = {t1}
    Delays = {7}
    Interval <- TwoWheels
    Level = 2
    ErrorMax = 1
    TriggerMax = 1
    Prompt = TRUE
    Overdue = 3
    None = None
INVARIANTS
    MaxErrorKept
