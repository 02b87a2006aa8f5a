CONSTANTS
  MaxTokenChars = 1
  MinWordLen = 1
  ReplacementLen = 1
  Fields = {a}
  Windows = {w1}
  FirstWindow = w1
  SecondWindow = w1
  SecondWindowFields = {}
  WindowOf <- MCWindowOf
  NoWindow = noWindow
  ProseFields = {a}
  ExcludedWindows = {}
  QueueCapacity = 2
  Pairs = {p1}
  NoPair = noPair
  BlockedPairs = {}
  UserKeys = {"char", "boundary"}
  UserTasks = {"enabled", "paused", "unreadable", "hurry"}
  MaxActs = 4
  MaxToggles = 2
  MaxContacts = 1
  Budget <- MCBudget
SPECIFICATION Spec
INVARIANTS AtMostOneLateCommit
