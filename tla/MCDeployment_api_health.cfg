SPECIFICATION Spec
CONSTANTS
    p1 = p1  p2 = p2
    j1 = j1  j2 = j2
    Pods = {p1, p2}
    Jobs = {j1}
    BackoffLimit = 4
    MaxFaults = 0
PROPERTIES
    FailedMigrationHoldsApi
