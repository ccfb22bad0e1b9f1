SPECIFICATION LiveSpec
CONSTANTS
    r1 = r1  r2 = r2
    u1 = u1  u2 = u2
    e1 = e1  e2 = e2
    google = google  github = github
    x1 = x1
    s1 = s1  s2 = s2
    Requests = {r1, r2}
    UserIds = {u1, u2}
    Emails = {e1, e2}
    Providers = {google, github}
    GitHub = github
    Subjects = {x1}
    States = {s1, s2}
    None = None
    StateTTL = 2
INVARIANTS
    TypeOK
    EmailUnique
    SignInsByOwner
    NobodyLockedOut
PROPERTIES
    LinkedByStarter
    BornVerified
    VerifiedSticks
    RegistryImplemented
    StatesExpire
