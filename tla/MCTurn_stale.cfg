CONSTANTS
  Replica = {r1, r2}
  Decider = {d1}
  Sender = {}
  Approval = {x}
  Form = {}
  None = None
  MaxMessages = 0
  MaxCrashes = 0
  MaxWaits = 0
SPECIFICATION Spec
PROPERTIES CallClosedByItsTurn
CHECK_DEADLOCK FALSE
