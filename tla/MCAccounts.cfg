SPECIFICATION Spec
CONSTANTS
  e1 = e1
  e2 = e2
  p1 = p1
  p2 = p2
  Names = {1, 2}
  Emails = {e1, e2}
  Passwords = {p1, p2}
  Admin <- Root
  Bodies <- People
  Updates <- Changes
  Requests = {h1, h2}
  MaxUsers = 3
  MaxTokens = 1
  None = None
SYMMETRY Symmetry
INVARIANTS TypeOK OneAccountPerLogin TokensEarned
PROPERTIES OnlyAskedChanges CreationHidesNone
