SPECIFICATION Spec
CONSTANTS
  Alphabet <- MCAlphabet
  MinWordLen = 3
  NoText = NoText
  RawMatchCap = 4
  MaxLexiconCandidates = 3
  LongTokenLen = 4
  Frequencies <- MCFrequencies
  MaxFrequency = 2147483647
  RuleFrequency = 1000000
  Reward <- MCReward
  Typos <- MCTypos
  Adjacent <- MCAdjacent
  MaxFieldLen = 8
  BufSize = 16
  Lexicons <- MCLexicons
  Texts <- MCTexts
  Lines <- MCLines
  MaxLines = 2
  MaxTokenChars = 4
  DefaultMaxTokenChars = 5
  MaxPersonalEntries = 2
  MaxPersonalWordLen = 4
INVARIANTS
  AutomaticIsClearDespiteTheCap
CHECK_DEADLOCK FALSE
