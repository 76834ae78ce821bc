\* Every IR file of MCInputs.  The generator stops when it has written all.
CONSTANTS
  A = A
  B = B
  C = C
  E = E
  Names <- MCNames
  Errors <- MCErrors
  Inputs <- MCInputs
  S = S
  Services <- MCServices
  LayoutsOf <- MCLayoutsOf
SPECIFICATION GeneratorSpec
CHECK_DEADLOCK FALSE
INVARIANTS
  TypeOK
  FiniteSize
  SettersFit
  AccessorsFit
  SkippedIsDefaulted
  CopyIsDeep
  CrateIsWhole
