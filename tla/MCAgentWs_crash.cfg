SPECIFICATION Spec
CONSTANTS
  Sockets = {s1, s2}
  Payloads = {p, q}
  None = None
  NoSession = NoSession
  MaxAttempts = 3
  MaxSends = 2
  MaxHeard = 2
  MaxSubscribers = 2
  MaxPings = 2
  MaxOrphans = 1
INVARIANT ClosingIsSafe
