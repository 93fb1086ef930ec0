CONSTANTS
    a1 = a1
    a2 = a2
    None = None
    Admins = {a1, a2}
    SuperAdmins = {a1, a2}
    Handlers = {"adminEdit", "bankEdit", "anonymize", "claim", "childFlag", "feature", "legalHold"}
SPECIFICATION KindSpec
SYMMETRY Symmetry
INVARIANT TypeOK
INVARIANT PublishedIsReviewed
INVARIANT ChildReviewedByTwo
INVARIANT PublishedTextWasSeen
INVARIANT ClosedTakesNoDonations
