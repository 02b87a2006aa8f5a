------------------------------- MODULE Words --------------------------------
(***************************************************************************)
(* What the program makes of the text of a word before any dictionary is   *)
(* asked: its case shape (langcheck-core/src/token.rs), its class and its  *)
(* lookup form (langcheck-core/src/classify.rs).                           *)
(*                                                                         *)
(* A text is its symbols in lower case and the set of positions that are   *)
(* in upper case.  A symbol is a letter of Alphabet or one of the marks    *)
(* that classify_token_bounded looks for.                                  *)
(***************************************************************************)
EXTENDS Integers, Sequences, FiniteSets

CONSTANTS
  Alphabet,       \* the letters, in the order of their bytes
  MinWordLen,     \* MIN_NATURAL_WORD_LEN
  NoText          \* None

Letters == {Alphabet[i] : i \in DOMAIN Alphabet}
Marks == {"@", ":", "/", "\\", "1", "_", "'", ".", "-", "non-ascii"}

\* What the words of a dictionary are made of.
DictionarySymbols == Letters \cup {"'"}

ASSUME WordsAssumption ==
  /\ Alphabet \in Seq(Letters) /\ MinWordLen \in Nat \ {0}
  /\ Letters \cap Marks = {}
  /\ \A i, j \in DOMAIN Alphabet : Alphabet[i] = Alphabet[j] => i = j
  /\ NoText \notin [symbols : Seq(Letters \cup Marks), upper : SUBSET Nat]

Text(symbols, upper) == [symbols |-> symbols, upper |-> upper]
Lower(symbols) == Text(symbols, {})

LetterPositions(symbols) == {i \in DOMAIN symbols : symbols[i] \in Letters}

\* normalize_lookup.
Normalize(text) == text.symbols

CasePattern(text) ==
  LET at == LetterPositions(text.symbols) IN
  CASE at = {}                      -> "Mixed"
    [] at # {} /\ text.upper = {}   -> "AllLower"
    [] at # {} /\ text.upper = at   -> "AllUpper"
    [] text.upper # at /\ \E i \in at : text.upper = {i} /\ \A j \in at : i <= j -> "Capitalized"
    [] OTHER                        -> "Mixed"

\* restore_case.
RestoreCase(original, symbols) ==
  LET at == LetterPositions(symbols)
      pattern == CasePattern(original)
  IN  CASE symbols = <<>> \/ pattern = "Mixed" -> NoText
        [] symbols # <<>> /\ pattern = "AllLower"    -> Text(symbols, {})
        [] symbols # <<>> /\ pattern = "AllUpper"    -> Text(symbols, at)
        [] symbols # <<>> /\ pattern = "Capitalized" -> Text(symbols, at \cap {1})

\* classify_token_bounded: the first test that applies decides.
Classify(text, maxChars) ==
  LET s == text.symbols
      Has(marks) == \E i \in DOMAIN s : s[i] \in marks
      odd == {i \in DOMAIN s : /\ s[i] \notin Letters
                               /\ s[i] = "'" => i \in {1, Len(s)}}
      first == CHOOSE i \in odd : \A j \in odd : i <= j
      link == \E i \in 1 .. Len(s) - 2 : SubSeq(s, i, i + 2) = <<":", "/", "/">>
  IN  IF s = <<>> THEN "TooShort"
      ELSE IF Len(s) > maxChars THEN "TooLong"
      ELSE IF Has({"non-ascii"}) THEN "UnsupportedUnicode"
      ELSE IF Has({"@"}) \/ link THEN "EmailOrUrl"
      ELSE IF Has({"/", "\\"}) THEN "Path"
      ELSE IF Has({"1"}) THEN "NumericOrMixed"
      ELSE IF Has({"_"}) THEN "CodeOrIdentifier"
      ELSE IF odd # {} THEN IF s[first] = "." THEN "EmailOrUrl" ELSE "CodeOrIdentifier"
      ELSE IF Cardinality({i \in DOMAIN s : s[i] = "'"}) > 1 THEN "CodeOrIdentifier"
      ELSE IF Len(s) < MinWordLen THEN "TooShort"
      ELSE IF CasePattern(text) \in {"AllLower", "Capitalized"} THEN "NaturalWord"
      ELSE "CodeOrIdentifier"

=============================================================================
