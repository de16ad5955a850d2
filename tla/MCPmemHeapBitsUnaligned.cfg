CONSTANTS
  ObjSize = 48
  NObjs = 3
  Patterns <- MCPatterns
SPECIFICATION Spec
INVARIANTS
  ObjectBitsDurable
