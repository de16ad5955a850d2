CONSTANTS
  s1 = s1
  s2 = s2
  Spans <- MCSpans
  NTypes = 2
  MaxCrashes = 1
SYMMETRY MCSymmetry
SPECIFICATION Spec
INVARIANTS
  DescriptorDurable
