SPECIFICATION Spec
CONSTANTS
  Alphabet <- MCAlphabet
  MinWordLen = 1
  NoText = NoText
  ModifierKeys <- MCModifierKeys
  TextKeys <- MCTextKeys
  MaxTokenChars = 2
  FieldMemory = 4
  MaxPresses = 4
  MaxTroubles = 2
INVARIANTS
  TypeOK
  FlagsAgree
  TokenIsTheText
PROPERTIES
  WordsAreWhole
CHECK_DEADLOCK FALSE
