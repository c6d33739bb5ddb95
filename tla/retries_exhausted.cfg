\* One payload, one retry, and faults enough to spend it.
SPECIFICATION BillingSpec
CONSTANTS
    Session = {1}
    Plan = {1}
    MaxEvents = 1
    MaxDeliveries = 1
    MaxRetries = 1
    MaxPrunes = 1
    MaxFaults = 2
INVARIANTS ExhaustedKept
CHECK_DEADLOCK FALSE
