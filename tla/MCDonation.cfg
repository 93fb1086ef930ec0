CONSTANTS
    p1 = p1
    p2 = p2
    r1 = r1
    r2 = r2
    s1 = s1
    s2 = s2
    b1 = b1
    b2 = b2
    x1 = x1
    None = None
    Asked = 2
    Refs = {p1, p2}
    Keyed = {p1, p2}
    Starters = {r1, r2}
    Settlers = {s1, s2}
    Refunders = {b1, b2}
    Auditors = {x1}
    Collectable = {1, 2}
    Drift = {0, 1}
    Faults = {}
SPECIFICATION KindSpec
SYMMETRY Symmetry
INVARIANT TypeOK
INVARIANT RaisedIsCollected
INVARIANT NotRefundedAndRaised
INVARIANT RefundedMeansReturned
INVARIANT FailedHasNoPage
PROPERTY ImplementsLedger
CHECK_DEADLOCK FALSE
