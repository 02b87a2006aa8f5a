CONSTANTS
  Windows = {w1, w2}
  NoWindow = noWindow
  AdapterWindows = {w1}
  Spellings = {typo, right}
  Typo = typo
  Slip = right
  Right = right
  Corrections <- MCCorrections
  SuggestOnly = FALSE
  MaxWords = 1
  MaxMoves = 1
  MaxToggles = 0
  Budget <- MCBudget
SPECIFICATION Spec
INVARIANTS NeverBothPaths
CHECK_DEADLOCK FALSE
