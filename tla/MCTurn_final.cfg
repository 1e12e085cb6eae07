CONSTANTS
  Replica = {r1}
  Decider = {d1, d2}
  Sender = {}
  Approval = {x}
  Form = {}
  None = None
  MaxMessages = 0
  MaxCrashes = 0
  MaxWaits = 0
SPECIFICATION Spec
PROPERTIES DecisionIsFinal
CHECK_DEADLOCK FALSE
