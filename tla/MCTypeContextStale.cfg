\* Objects A = {B, bearertoken} and B = {A}; the comment of type_log_safety_ref taken at its word.
CONSTANTS
  A = A
  B = B
  C = C
  x = x
  y = y
  Names <- MCNames
  Args <- MCArgs
  Inputs <- MCStaleInputs
SPECIFICATION Spec
INVARIANTS
  SafeArgsAreSafe
