CONSTANTS
  a = a  b = b  c = c  d = d  b1 = b1  b2 = b2  p1 = p1
  Task = {a, b}
  Deps <- Roots
  Rank <- RankOf
  Main = main
  Branch = {b1}
  None = None
  MaxSessions = 2
  Starter = starter
  People = {}
  AgentMoves <- WorkMoves
  PersonMoves = {}
  TurnEnds = {"ok"}
  Diligent = TRUE
  Obedient = FALSE
  MaxMessages = 1
  MaxCrashes = 1
SPECIFICATION Spec
INVARIANTS FinishedMeansTerminal
PROPERTIES OwnerIsFinal
CHECK_DEADLOCK FALSE
