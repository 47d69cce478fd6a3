CONSTANTS
    MaxMsgs = 3
    PendCap = 2
    OutCap = 1
    MaxAttempt = 3
    MaxOutages = 2
SPECIFICATION Spec
INVARIANT TypeOK
PROPERTY BrokerStreamRefined
PROPERTY SubscriberReturns
