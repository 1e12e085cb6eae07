CONSTANTS
  Replica = {r1, r2}
  Decider = {d1}
  Sender = {p1}
  Approval = {x}
  Form = {}
  None = None
  MaxMessages = 1
  MaxCrashes = 0
  MaxWaits = 0
SPECIFICATION Spec
INVARIANTS OneDriver
PROPERTIES MailboxSpec
SYMMETRY Replicas
CHECK_DEADLOCK FALSE
