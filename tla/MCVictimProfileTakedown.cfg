CONSTANTS
    None = None
    Admins = {a1, a2}
    SuperAdmins = {a1, a2}
    Handlers = {"bankEdit"}
SPECIFICATION Spec
INVARIANT TakedownHidesProfile
