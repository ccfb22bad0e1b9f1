SPECIFICATION Spec
CONSTANTS
    p1 = p1  p2 = p2
    r1 = r1  r2 = r2
    Pods = {p1, p2}
    Lanes = {r1, r2}
    None = None
    Budget = 5
SYMMETRY MCSymmetry
INVARIANTS
    TypeOK
    ViewAddsUp
    ViewIsPast
    PollsGoForward
