CONSTANTS
    None = None
    Asked = 2
    Refs = {p1}
    Keyed = {p1}
    Starters = {r1, r2}
    Settlers = {s1}
    Refunders = {}
    Auditors = {}
    Collectable = {2}
    Drift = {0}
    Faults = {}
SPECIFICATION Spec
INVARIANT FailedHasNoCheckout
CHECK_DEADLOCK FALSE
