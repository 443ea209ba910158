SPECIFICATION Spec
CONSTANTS
  Names = {1, 2}
  Bounds = {1, 2, 3}
  Bodies <- ThreeBodies
  Updates <- FourUpdates
  Requests = {h1, h2}
  MaxMetrics = 3
  None = None
SYMMETRY Symmetry
INVARIANTS TypeOK ServingHasLookups AnswersTrue
PROPERTIES RangeKeptUnlessRaced OnlyAskedChanges OneWriteHidesOne
