\* The same IR files; the documented comparisons of generated types.
CONSTANTS
  A = A
  B = B
  C = C
  E = E
  Names <- MCNames
  Errors <- MCErrors
  Inputs <- MCInputs
SPECIFICATION Spec
CHECK_DEADLOCK FALSE
INVARIANTS
  ComparisonsCompile
