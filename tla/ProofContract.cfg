SPECIFICATION Spec
CONSTANTS
  Keys = {k1, k2}
  Evidence <- SomeEvidence
  Lists <- SomeLists
  MaxFindings = 3
CHECK_DEADLOCK FALSE
SYMMETRY Symmetry
INVARIANTS
  TypeOK
  LevelsAreJustified
  CollapsedAsReference
  SecondPassKeeps
