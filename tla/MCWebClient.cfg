SPECIFICATION LiveSpec
CONSTANTS
    t1 = t1  t2 = t2
    l1 = l1  l2 = l2
    Tokens = {t1, t2}
    Lanes = {l1, l2}
    None = None
    RlMax = 2
    RlWindow = 2
INVARIANTS
    TypeOK
    ShownSessionIsLive
    LoggedOutStaysForgotten
PROPERTIES
    BarCountsItsWindow
    FormsComeBack
