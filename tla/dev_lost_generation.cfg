CONSTANTS
  DevGenerations = {1, 2}
  DevTexts = {1, 2, 3}
  MaxDevEdits = 2
  MaxDevStarts = 2
SPECIFICATION DevSpec
INVARIANT
  DevKeepsGeneration
CHECK_DEADLOCK FALSE
