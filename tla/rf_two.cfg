SPECIFICATION Spec
CONSTANTS
  Item = {a, b, c, d}
  NumLists = 2
  MaxLen = 3
  MaxSize = 3
SYMMETRY Symmetry
CHECK_DEADLOCK FALSE
INVARIANTS ResultIsRankFusion FusionRespectsLists
