SPECIFICATION Spec
CONSTANTS
  Clients = {s1, s2}
  Convs = {c1, c2}
  Handlers = {h1, h2}
  None = None
  MaxMessages = 1
  MaxSubscribers = 2
  DbMayFail = TRUE
  MayCrash = TRUE
  AgentMayGiveUp = FALSE
SYMMETRY Symmetry
INVARIANTS TypeOK NothingUnsaved CompletedHasLastWord BindingsAgree
CONSTRAINT FewListeners
PROPERTIES ImplementsChatLog SessionEndsForAReason
