\* Three names, two arguments; every schema of MCInputs.
CONSTANTS
  A = A
  B = B
  C = C
  x = x
  y = y
  Names <- MCNames
  Args <- MCArgs
  Inputs <- MCInputs
SPECIFICATION FairSpec
INVARIANTS
  TypeOK
  NeverReentered
  Justified
  ExactUnlessStale
  EduceCoversDoubles
PROPERTIES
  AnswersStable
  QuestionsAnswered
