SPECIFICATION Spec
CONSTANTS
    r1 = r1  r2 = r2
    u1 = u1  u2 = u2
    e1 = e1  e2 = e2
    j1 = j1  j2 = j2  j3 = j3
    Requests = {r1, r2}
    UserIds = {u1, u2}
    Emails = {e1}
    Jtis = {j1, j2, j3}
    None = None
    AccessTTL = 2
    RefreshTTL = 4
    TicksPerSecond = 2
    MaxTime = 2
SYMMETRY MCSymmetry
INVARIANTS
    TypeOK
    EmailUnique
    InactiveLockedOut
    FamiliesAreTrees
    LogoutRevokes
    AccessWindow
    WalletBacked
PROPERTIES
    RevocationAccounted
    LateExchangeRefused
    RowsOnlyRevoke
    LedgerImplemented
