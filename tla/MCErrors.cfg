\* Every object is built; every error is raised and passes through two services.
CONSTANTS
  Types <- MCTypes
  MaxFilled = 4
  ErrorArgs <- MCErrorArgs
  Ids = {i1, i2}
  NoId = NoId
  Notes <- MCNotes
  NoteKeys <- MCNoteKeys
  MaxNotes = 1
  MaxHops = 2
SPECIFICATION Spec
CHECK_DEADLOCK FALSE
INVARIANTS
  TypeOK
  StageFieldsFit
  SafeIsDeclared
  ErrorSurvives
  CheckedInIsGenerated
PROPERTIES
  BuilderPromise
