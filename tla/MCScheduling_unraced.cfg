CONSTANTS
  a = a  b = b  c = c  d = d  b1 = b1  b2 = b2  p1 = p1
  Task = {a, b, c, d}
  Deps <- Fan
  Rank <- RankOf
  Main = main
  Branch = {b1, b2}
  None = None
  MaxSessions = 2
  Starter = starter
  People = {p1}
  AgentMoves <- WorkOrFail
  PersonMoves <- Finish
  TurnEnds = {"ok"}
  Diligent = TRUE
  Obedient = TRUE
  MaxMessages = 0
  MaxCrashes = 0
SPECIFICATION UnracedSpec
INVARIANTS RestIsOver NoSleepingOwner ReadyIsAssigned OneCompletion WithinSessionLimit
PROPERTIES RunFinishes
CHECK_DEADLOCK FALSE
