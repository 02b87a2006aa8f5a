CONSTANTS
  Windows = {w1, w2}
  NoWindow = noWindow
  AdapterWindows = {w1, w2}
  Spellings = {typo, slip, right}
  Typo = typo
  Slip = slip
  Right = right
  Corrections <- MCCorrectionChain
  SuggestOnly = FALSE
  MaxWords = 1
  MaxMoves = 1
  MaxToggles = 1
  Budget <- MCBudget
SPECIFICATION FairSpec
INVARIANTS TypeOK GuardedWordsAreLeftToTsf AtMostOneStaleAnswer
PROPERTIES HostsSettle
CHECK_DEADLOCK FALSE
