CONSTANTS
  MaxTokenChars = 2
  MinWordLen = 1
  ReplacementLen = 1
  Fields = {a, b}
  Windows = {w1, w2}
  FirstWindow = w1
  SecondWindow = w2
  SecondWindowFields = {b}
  WindowOf <- MCWindowOf
  NoWindow = noWindow
  ProseFields = {a, b}
  ExcludedWindows = {}
  QueueCapacity = 2
  Pairs = {p1}
  NoPair = noPair
  BlockedPairs = {}
  UserKeys = {"char", "boundary", "backspace", "reset", "ignore"}
  UserTasks = {"click", "switch", "hurry"}
  MaxActs = 5
  MaxToggles = 0
  MaxContacts = 0
  Budget <- MCBudget
SPECIFICATION Spec
INVARIANTS TypeOK QueueInOrder UndoOnlyFromIdleSession 
PROPERTIES LastCheckFindsTheWord UndoRestoresTheText
