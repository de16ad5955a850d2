CONSTANTS
  ObjSize = 64
  NObjs = 3
  Patterns <- MCPatterns
SPECIFICATION Spec
INVARIANTS
  ObjectBitsDurable
