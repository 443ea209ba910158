SPECIFICATION FairSpec
CONSTANTS
  Clients = {s1, s2}
  Convs = {c1}
  Handlers = {h1, h2}
  None = None
  MaxMessages = 2
  MaxSubscribers = 2
  DbMayFail = FALSE
  MayCrash = FALSE
  AgentMayGiveUp = TRUE
INVARIANT NothingUnheard
PROPERTY LastWordCloses
CHECK_DEADLOCK FALSE
