\* The same IR files; the documented shape of generated errors.
CONSTANTS
  A = A
  B = B
  C = C
  E = E
  Names <- MCNames
  Errors <- MCErrors
  Inputs <- MCInputs
SPECIFICATION Spec
CHECK_DEADLOCK FALSE
INVARIANTS
  ErrorsAreObjects
