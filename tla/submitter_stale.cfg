SPECIFICATION RegSpec
CONSTANTS
  RegQueries = {q1}
  RegHere = {q1}
  RegIds = {q1}
  RegForms = {f1}
  RegHandledLimit = 2
  MaxRegEvents = 1
INVARIANTS
  SubmitterRefreshed
CHECK_DEADLOCK FALSE
