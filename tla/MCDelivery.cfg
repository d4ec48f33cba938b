CONSTANTS
    Runners = {"cycle"}
    Flushers = {"flush"}
    Artifacts = {"record", "leak"}
    Vendor = {"leak"}
    MaxReviewed = 1
    MaxIncidents = 1
SPECIFICATION DeliverySpec
PROPERTIES
    GuardHolds
    QueueKept
    QueueDelivered
