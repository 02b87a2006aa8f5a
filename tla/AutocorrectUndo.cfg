CONSTANTS
  MaxTokenChars = 1
  MinWordLen = 1
  ReplacementLen = 2
  Fields = {a}
  Windows = {w1}
  FirstWindow = w1
  SecondWindow = w1
  SecondWindowFields = {}
  WindowOf <- MCWindowOf
  NoWindow = noWindow
  ProseFields = {a}
  ExcludedWindows = {}
  QueueCapacity = 1
  Pairs = {p1, p2, p3}
  NoPair = noPair
  BlockedPairs = {p3}
  UserKeys = {"char", "boundary", "backspace"}
  UserTasks = {"fail", "partial", "expire"}
  MaxActs = 8
  MaxToggles = 0
  MaxContacts = 0
  Budget <- MCBudget
SPECIFICATION Spec
INVARIANTS UndoMatchesTheText
PROPERTIES RejectedTwiceNeverReapplied BoundaryCommitsOnce
