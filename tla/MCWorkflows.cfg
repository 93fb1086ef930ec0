CONSTANTS
  None = None
SPECIFICATION Spec
INVARIANTS
  WorkflowsConsistent SubmittedOnce FilteredListsFollowRules
PROPERTIES
  CasesShownByDecision DecisionsStand
CHECK_DEADLOCK FALSE
