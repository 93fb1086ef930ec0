CONSTANTS
  Otps = {1, 2}
  Sessions = {1, 2, 3}
  Requests = {r1, r2}
  OtpMaxAttempts = 1
  MaxLoginAttempts = 1
  Providers = {"google", "facebook"}
  None = None
  Challenges = {1, 2}
  Codes = {"c1"}
  Callers = {r1, r2}
  Steps = {1, 2}
  MaxTries = 2
  Nobody = None
SPECIFICATION Spec
SYMMETRY Symmetry
INVARIANTS
  CodesWorkOnce  AccountsConsistent
CHECK_DEADLOCK FALSE
