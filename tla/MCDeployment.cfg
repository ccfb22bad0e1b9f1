SPECIFICATION LiveSpec
CONSTANTS
    p1 = p1  p2 = p2
    j1 = j1  j2 = j2
    Pods = {p1, p2}
    Jobs = {j1, j2}
    BackoffLimit = 3
    MaxFaults = 3
INVARIANTS
    TypeOK
    SchemaWhole
    SuccessMeansTables
PROPERTIES
    MigrationSettles
    UndisturbedJobsSucceed
