CONSTANTS
  Rev = {a, b}
  Sync = {j1, j2}
  Runner = {u1}
  Designer = {u2}
  Nothing = Nothing
  Mail = {m1, m2}
  Poison = {m2}
  Worker = {w1, w2}
  Nobody = Nobody
  BatchSize = 2
  MaxAttempts = 2
  MaxDeaths = 1
  MaxDoubts = 1
  Source = {s1, s2}
  Page = {p1}
  Job = {k1, k2}
  Unheld = Unheld
  Answer = {q1, q2}
  t1 = t1
  t2 = t2
  Task = {t1, t2}
  Deps <- Chain
  Approvals = 2
  Handler = {h1, h2}
  Insistent = FALSE
  Initiator = Initiator
  NoOne = NoOne
  Turns = 2
  Length = 2
  Losses = 1
  Editor = {e1}
  Curator = {v1}
  Design = {x, y}
  NoTasks = NoTasks
  MaxVersions = 2
  Template = {g1, g2, g3}
  Few = {g1, g2}
  Author = {b1, b2}
  NoTemplate = NoTemplate
  Side = {c1, c2}
  Guest = {n1, n2}
  NoSide = NoSide
  MaxWaits = 2
  MaxCuts = 1
SPECIFICATION MCSpec
INVARIANTS
  ServicesTypeOK
  CurrentOnDisk PinSurvives
  SentOncePerDoubt
  CitationsExist NoLostEdit NothingLeftHanging
  AnswerIsResult ReceiptIsTrue OpenOnlyWhileWaited
  GrantReaches OneAuthority
  NoMissedWake QuietIsCurrent
  RunsArePublished
  NoCycleUnlessBlind RunKeepsOrder
  DecisionCloses
PROPERTIES
  SettledIsFinal
  NoCallWhileAsked
SYMMETRY Mirror
CHECK_DEADLOCK FALSE
