CONSTANTS
  NUsers = 1
  BATCH_SIZE = 1
  Workers = {"w1"}
  Admins = {"a", "b"}
  Author = "a"
  Texts = {"t", "u"}
  MaxFaults = 0
  MAX_BROADCAST_ATTEMPTS = 1
  MAX_DELIVERY_ATTEMPTS = 1
  None = None
SPECIFICATION SignSpec
INVARIANT ApprovedTextOnly
CHECK_DEADLOCK FALSE
