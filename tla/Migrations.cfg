\* Two containers, started three times in all, that die at any point.  When
\* the starts are used up nothing is left to happen: no deadlock check.
SPECIFICATION Spec
CHECK_DEADLOCK FALSE
CONSTANTS
  r1 = r1
  r2 = r2
  Runs = {r1, r2}
  MaxStarts = 3
  Cards <- TwoCards
  Plan <- AllVersions
SYMMETRY Symmetry
INVARIANTS
  SuccessIsApplied
  RanIsPrefix
PROPERTIES
  FailsOnlyOnRepeats
