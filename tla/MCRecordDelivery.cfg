CONSTANTS
    Senders = {w1, w2}
    FailuresToOpen = 2
    ProbeInterval = 1
    FailureCap = 2
    Records = {r1, r2}
    MaxTries = 2
    Width = 2
    MaxOutages = 1
    None = None
SPECIFICATION FairDeliverySpec
INVARIANTS
    StoredOnce
    DroppedIfDenied
PROPERTIES
    ProbesAreRationed
    RecoveryDelivers
CHECK_DEADLOCK FALSE
