CONSTANTS
  Otps = {1, 2}
  Sessions = {1}
  Requests = {r1}
  OtpMaxAttempts = 1
  MaxLoginAttempts = 1
  Providers = {}
  Phones = {p1, p2, p3}
  Anon = Anon
  None = None
SPECIFICATION AccountSpec
INVARIANT PhoneWasProven
CHECK_DEADLOCK FALSE
