SPECIFICATION Spec
CONSTANTS
    t1 = t1
    n1 = n1
    u1 = u1
    NoDelivery = NoDelivery
    Deliveries = {t1}
    Tests = {t1}
    Users = {u1}
    Owner <- MCOwner
    Lease = 2
    StatusDelay <- MCStatusDelay
    SendBackoff <- MCSendBackoff
    MaxAttempts = 3
    MaxBackoff = 2
    RetryAfters = {0, 4}
    TestInterval = 1
    TestDayMax = 5
    MaxFaults = 1
PROPERTIES ManualCheckNeverMovesBack
