CONSTANTS
  None = None
  NUsers = 2
  BATCH_SIZE = 1
  Workers = {"w1", "w2"}
  Admins = {"a"}
  Author = "a"
  Texts = {"t"}
  MaxFaults = 2
  MAX_BROADCAST_ATTEMPTS = 1
  MAX_DELIVERY_ATTEMPTS = 1
  Protocol = "entity"
  Procs = {"p", "q"}
  Readers = {"r"}
  Writers = {"w"}
  MaxWrites = 2
  MaxFailures = 2
  Overlap = "no"
  MaxRows = 4
  ConfirmTokens = {"t1", "t2"}
  Purgers = {"w1", "w2"}
  PURGE_BATCH = 1
  VERIFY_BATCH = 1
  Rows = {1, 2}
  Holds = {"g", "h"}
  Supers = {"a", "b"}
  Approvals = {1, 2}
  Policies = {"p"}
SPECIFICATION Spec
INVARIANTS
  PlatformConsistent BroadcastReachesAllOnce OneEffectPerKey ChainStaysVerifiable
  HoldsProtect ViewsMaskedAndLogged CacheCoherent
PROPERTIES
  StepsFollowRules ModerationMatchesEffect
CHECK_DEADLOCK FALSE
