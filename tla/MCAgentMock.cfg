SPECIFICATION Spec
CONSTANTS
  Requests = {r1, r2}
  MaxAnswers = 6
SYMMETRY Symmetry
INVARIANTS TypeOK RestoreMatchesLiveUnlessRaced AcceptedMeansYesUnlessRaced
           CompletedMeansEndedUnlessRaced
