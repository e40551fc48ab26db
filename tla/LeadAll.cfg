SPECIFICATION Spec
CONSTANTS
  NONE = NONE
  Emails = {"ann", "bea"}
  Kinds = {"checklist", "calculator"}
  Captures = {"c1", "c2", "c3", "c4"}
  Unsubs = {"u1"}
  Form <- FourForms
CHECK_DEADLOCK FALSE
INVARIANT TypeOK
INVARIANT EventsHaveLead
INVARIANT FollowedUpOnce
INVARIANT FollowedUpUnlessFailed
INVARIANT UnsubscribedInBoth
