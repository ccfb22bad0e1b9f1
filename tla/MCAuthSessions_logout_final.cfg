SPECIFICATION Spec
CONSTANTS
    r1 = r1  r2 = r2
    u1 = u1  u2 = u2
    e1 = e1  e2 = e2
    j1 = j1  j2 = j2  j3 = j3
    Requests = {r1, r2}
    UserIds = {u1, u2}
    Emails = {e1}
    Jtis = {j1, j2, j3}
    None = None
    AccessTTL = 1
    RefreshTTL = 2
    TicksPerSecond = 1
    MaxTime = 2
SYMMETRY MCSymmetry
PROPERTIES
    LogoutIsFinal
