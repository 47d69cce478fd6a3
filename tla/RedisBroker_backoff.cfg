CONSTANTS
    MaxMsgs = 0
    PendCap = 1
    OutCap = 1
    MaxAttempt = 40
    MaxOutages = 1
SPECIFICATION Spec
INVARIANT SleepMatchesSpec
