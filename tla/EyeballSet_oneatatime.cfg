SPECIFICATION Spec
CONSTANTS
    Attempts = {a1, a2}
    NoAttempt = NoAttempt
    Unset = Unset
    MaxFinish = 1
INVARIANTS OneAtATimeWithoutTimeout
CHECK_DEADLOCK FALSE
