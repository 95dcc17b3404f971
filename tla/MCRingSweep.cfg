SPECIFICATION SweepSpec
CONSTANTS
  s1 = s1
  s2 = s2
  s3 = s3
  Sources = {s1, s2, s3}
SYMMETRY Symmetry
INVARIANTS
  SweepsTheStaleOnly
CHECK_DEADLOCK FALSE
