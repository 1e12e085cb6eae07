CONSTANTS
  Replica = {r1}
  Decider = {}
  Sender = {p1}
  Approval = {x}
  Form = {}
  None = None
  MaxMessages = 1
  MaxCrashes = 1
  MaxWaits = 0
SPECIFICATION Spec
INVARIANTS TaskIsAttended
CHECK_DEADLOCK FALSE
