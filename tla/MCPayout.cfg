CONSTANTS
    v1 = v1
    d1 = d1
    d2 = d2
    w1 = w1
    w2 = w2
    c1 = c1
    a1 = a1
    a2 = a2
    None = None
    Victims = {v1}
    Disbursements = {d1, d2}
    Workers = {w1, w2}
    Checkers = {c1}
    Accounts = {a1}
    MinTransfer = 1
    MaxRaised = 2
    Spurious4xx = FALSE
SPECIFICATION Spec
SYMMETRY Symmetry
INVARIANT TypeOK
INVARIANT OneActivePerVictim
INVARIANT NeverOverdrawn
INVARIANT MovedIsNotReleased
INVARIANT MovedWithinDonations
PROPERTY NoTransferWhilePaused
PROPERTY StatusMovesForward
