SPECIFICATION Spec
CONSTANTS
  a = a
  b = b
  d = d
  accuracy = accuracy
  Tests = {t1, t2}
  Suites = {s1, s2}
  Skills = {a, b}
  Metrics = {accuracy}
  Subsets = {d}
  Requests = {h1, h2}
  Dtos <- Bodies
  None = None
SYMMETRY Symmetry
INVARIANT SubsetOfItsTest
