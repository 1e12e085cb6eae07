CONSTANTS
  Replica = {r1}
  Decider = {d1}
  Sender = {p1}
  Approval = {x}
  Form = {f}
  None = None
  MaxMessages = 1
  MaxCrashes = 1
  MaxWaits = 1
SPECIFICATION FairSpec
INVARIANTS TypeOK NoForgottenDecision
PROPERTIES CallClosedByItsTurn BusyEnds DecisionDelivered
CHECK_DEADLOCK FALSE
