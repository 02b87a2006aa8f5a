CONSTANTS
  MaxTokenChars = 1
  MinWordLen = 1
  ReplacementLen = 1
  Fields = {a, b, c}
  Windows = {w1, w2}
  FirstWindow = w1
  SecondWindow = w2
  SecondWindowFields = {b}
  WindowOf <- MCWindowOf
  NoWindow = noWindow
  ProseFields = {a, b}
  ExcludedWindows = {w2}
  QueueCapacity = 1
  Pairs = {p1}
  NoPair = noPair
  BlockedPairs = {}
  UserKeys = {"char", "boundary"}
  UserTasks = {"switch", "enabled", "paused", "exit", "hurry"}
  MaxActs = 2
  MaxToggles = 2
  MaxContacts = 0
  Budget <- MCBudget
SPECIFICATION FairSpec

PROPERTIES EventsAreProcessed CaptureFollowsTheField KillSwitchStopsCapture ExitCompletes
CHECK_DEADLOCK FALSE
