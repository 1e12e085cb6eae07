CONSTANTS
  a = a  b = b  c = c  d = d  b1 = b1  b2 = b2  p1 = p1
  Task = {a, b, c, d}
  Deps <- Braid
  Rank <- RankOf
  Main = main
  Branch = {b1, b2}
  None = None
  MaxSessions = 2
  Starter = starter
  People = {}
  AgentMoves <- WorkOrFail
  PersonMoves = {}
  TurnEnds = {"ok"}
  Diligent = FALSE
  Obedient = TRUE
  MaxMessages = 0
  MaxCrashes = 0
SPECIFICATION Spec
INVARIANTS TypeOK OnlyOwnersRun StartedAfterDeps DoneBranchHoldsNothing
PROPERTIES OutlineSpec
SYMMETRY Branches
CHECK_DEADLOCK FALSE
