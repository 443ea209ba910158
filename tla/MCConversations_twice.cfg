SPECIFICATION Spec
CONSTANTS
  Clients = {s1, s2}
  Convs = {c1, c2}
  Handlers = {h1, h2}
  None = None
  MaxMessages = 2
  MaxSubscribers = 2
  DbMayFail = FALSE
  MayCrash = FALSE
  AgentMayGiveUp = FALSE
INVARIANT SavedOnce
CHECK_DEADLOCK FALSE
