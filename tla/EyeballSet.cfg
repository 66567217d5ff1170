SPECIFICATION FairSpec
CONSTANTS
    Attempts = {a1, a2, a3}
    NoAttempt = NoAttempt
    Unset = Unset
    MaxFinish = 3
INVARIANTS TypeOK AttemptsAccounted OnlyUnstartedLost FailureIsComplete FirstErrorReported PreferenceOrder
PROPERTIES NoDelayNoGrowth ImplementsRace StaggerProgress TimeoutReturns SuccessReturns
CHECK_DEADLOCK FALSE
