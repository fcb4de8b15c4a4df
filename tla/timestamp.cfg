SPECIFICATION Spec
CONSTANTS
    MaxDays = 146098
    BySeconds = 1
INVARIANTS
    TimestampIsCivil
CHECK_DEADLOCK FALSE
