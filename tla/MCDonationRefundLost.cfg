CONSTANTS
    None = None
    Asked = 2
    Refs = {p1}
    Keyed = {}
    Starters = {r1}
    Settlers = {s1}
    Refunders = {b1}
    Auditors = {}
    Collectable = {1, 2}
    Drift = {0}
    Faults = {"refundReplyLost"}
SPECIFICATION Spec
INVARIANT NotRefundedAndRaised
CHECK_DEADLOCK FALSE
