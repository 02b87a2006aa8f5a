SPECIFICATION Spec
CONSTANTS
  a = a
  b = b
  d1 = d1
  d2 = d2
  Docs = {d1, d2}
  NoDoc = NoDoc
  Letters = {a, b}
  Boundaries = {Space}
  Blanks = {}
  InitialText <- MCInitialText
  LookbackChars = 5
  MaxTokenChars = 3
  Corrections <- MCCorrections
  Selections <- MCSelections
  MaxLocks = 1
  Budget <- MCBudget
PROPERTIES
  OnlyTheDetectedWordIsReplaced
CHECK_DEADLOCK FALSE
