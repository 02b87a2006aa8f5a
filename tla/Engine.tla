------------------------------- MODULE Engine -------------------------------
(***************************************************************************)
(* The two ways a word is decided: at a boundary on the keystroke path     *)
(* (langcheck-app/src/coordinator.rs) and for the TSF adapter through the  *)
(* pipe (langcheck-app/src/engine.rs), with the personal dictionary that   *)
(* both consult (langcheck-lexicon/src/personal.rs).                       *)
(***************************************************************************)
EXTENDS Decision, Wire

CONSTANTS
  Lexicons,             \* the dictionaries to look at
  Texts,                \* the words a user may type
  Lines,                \* per file, the lines a user may write into it
  MaxLines,             \* how many lines that may be
  MaxTokenChars,        \* config.performance.max_token_chars
  DefaultMaxTokenChars, \* DEFAULT_MAX_TOKEN_CHARS
  MaxPersonalEntries,   \* MAX_PERSONAL_ENTRIES
  MaxPersonalWordLen    \* MAX_PERSONAL_WORD_LEN

\* A dictionary keeps words of letters and apostrophes, MAX_DICTIONARY_WORD_LEN at most.
ASSUME EngineAssumption ==
  /\ \A lex \in Lexicons :
       /\ IsFiniteSet(DOMAIN lex)
       /\ \A w \in DOMAIN lex : /\ w \in Seq(DictionarySymbols) \ {<<>>}
                                /\ Len(w) <= MaxFieldLen /\ lex[w] \in Frequencies
  /\ \A t \in Texts : /\ t = Text(t.symbols, t.upper)
                       /\ t.symbols \in Seq(Letters \cup Marks)
                       /\ t.upper \subseteq LetterPositions(t.symbols)
  /\ DOMAIN Lines = {"words", "forced", "blocked"}
  /\ Lines.words \subseteq Seq(Letters \cup Marks)
  /\ \A f \in {"forced", "blocked"} :
       \A pair \in Lines[f] : /\ pair = <<pair[1], pair[2]>>
                              /\ \A k \in {1, 2} : pair[k] \in Seq(Letters \cup Marks)
  /\ MaxLines \in Nat /\ MaxPersonalEntries \in Nat \ {0}
  /\ MaxPersonalWordLen \in Nat /\ MaxPersonalWordLen <= MaxFieldLen
  /\ MaxTokenChars \in Nat /\ DefaultMaxTokenChars \in Nat
  /\ DefaultMaxTokenChars <= MaxFieldLen
  /\ \A w \in DOMAIN Typos : Len(Typos[w]) <= MaxFieldLen

VARIABLES
  lexicon,   \* the dictionary
  files,     \* user_words.txt, autocorrect.tsv, blocked_pairs.tsv: sequences of lines
  personal,  \* the PersonalDictionary that is loaded
  last       \* the word that was decided last, and what came of it on both paths

vars == <<lexicon, files, personal, last>>

-----------------------------------------------------------------------------
(* PersonalDictionary.                                                     *)

NothingPersonal == [words |-> {}, forced |-> {}, blocked |-> {}]

IsValidWord(w) ==
  /\ w # <<>> /\ Len(w) <= MaxPersonalWordLen
  /\ ToSet(w) \subseteq DictionarySymbols

AddWord(dict, w) ==
  IF IsValidWord(w) /\ Cardinality(dict.words) < MaxPersonalEntries
  THEN [dict EXCEPT !.words = @ \cup {w}] ELSE dict

\* A second pair for a word instead of its only one.
AddForcedToo(dict, pair) ==
  IF IsValidWord(pair[1]) /\ IsValidWord(pair[2]) /\ Cardinality(dict.forced) < MaxPersonalEntries
  THEN [dict EXCEPT !.forced = @ \cup {pair}] ELSE dict

\* At the bound not even a pair that is there can be changed.
AddForced(dict, pair) ==
  IF IsValidWord(pair[1]) /\ IsValidWord(pair[2]) /\ Cardinality(dict.forced) < MaxPersonalEntries
  THEN [dict EXCEPT !.forced = {p \in @ : p[1] # pair[1]} \cup {pair}] ELSE dict

BlockPair(dict, pair) ==
  IF IsValidWord(pair[1]) /\ IsValidWord(pair[2]) /\ Cardinality(dict.blocked) < MaxPersonalEntries
  THEN [dict EXCEPT !.blocked = @ \cup {pair}] ELSE dict

\* from_parts: a line that is not an entry counts for the bound on lines all the same.
FromParts(parts) ==
  LET words == FoldLeft(AddWord, NothingPersonal, FirstOf(parts.words, MaxPersonalEntries))
      forced == FoldLeft(AddForced, words, FirstOf(parts.forced, MaxPersonalEntries))
  IN  FoldLeft(BlockPair, forced, FirstOf(parts.blocked, MaxPersonalEntries))

PairBefore(p, q) == Precedes(p[1], q[1]) \/ (p[1] = q[1] /\ Precedes(p[2], q[2]))

\* Pairs that are written the wrong way round.
ToPartsReversed(dict) ==
  LET reversed == {<<p[2], p[1]>> : p \in dict.forced}
  IN  [words |-> InOrder(dict.words, Precedes),
       forced |-> InOrder(reversed, PairBefore),
       blocked |-> InOrder(dict.blocked, PairBefore)]

\* user_words_text, autocorrect_tsv and blocked_pairs_tsv, in the order of the keys.
ToParts(dict) ==
  [words |-> InOrder(dict.words, Precedes),
   forced |-> InOrder(dict.forced, PairBefore),
   blocked |-> InOrder(dict.blocked, PairBefore)]

-----------------------------------------------------------------------------
(* The two paths.                                                          *)

Leave == Simple["Leave"]

IsBlocked(w, replacement) == <<w, Normalize(replacement)>> \in personal.blocked

\* try_commit, when nothing else stands in the way and the session has no rejections.
AtBoundary(text, late) ==
  LET class == Classify(text, MaxTokenChars)
      decision == EngineDecide(lexicon, personal, text, class, late)
  IN  IF decision.kind = "AutoCorrect" /\ ~IsBlocked(Normalize(text), decision.text)
      THEN Replace(decision.text) ELSE Leave

\* A broker that forgets the blocked pairs.
EvaluateRequestBlockedToo(request) ==
  LET class == Classify(request.token, DefaultMaxTokenChars)
      decision == EngineDecide(lexicon, personal, request.token, class, FALSE)
  IN  IF decision.kind = "AutoCorrect" THEN Replace(decision.text) ELSE Leave

\* evaluate_request, for a token; the class comes from the default bound.
EvaluateRequest(request) ==
  LET class == Classify(request.token, DefaultMaxTokenChars)
      decision == EngineDecide(lexicon, personal, request.token, class, FALSE)
  IN  IF decision.kind = "AutoCorrect" /\ ~IsBlocked(Normalize(request.token), decision.text)
      THEN Replace(decision.text) ELSE Leave

Handle(request) ==
  IF request.kind \in {"Ping", "Active"} THEN Simple["Pong"] ELSE EvaluateRequest(request)

\* What the adapter makes of the broker's answer.
ThroughThePipe(text, boundary) ==
  LET request == Delivered(EvaluateToken(text, boundary))
      answer == IF request.kind = "Error" THEN request ELSE Returned(Handle(request))
  IN  IF answer.kind = "Replace" THEN answer ELSE Leave

-----------------------------------------------------------------------------
NoWord == [text |-> NoText, late |-> FALSE, keys |-> Leave, tsf |-> Leave]

Init ==
  /\ lexicon \in Lexicons
  /\ files = [f \in DOMAIN Lines |-> <<>>]
  /\ personal = NothingPersonal
  /\ last = NoWord

\* A line written into a file is read at the next start.
EditAndRestart(file, line) ==
  /\ last = NoWord
  /\ Len(files.words) + Len(files.forced) + Len(files.blocked) < MaxLines
  /\ files' = [files EXCEPT ![file] = Append(@, line)]
  /\ personal' = FromParts(files')
  /\ UNCHANGED <<lexicon, last>>

\* Nothing is kept from one word to the next, so that one word per start is enough.
Word(text, late) ==
  /\ last = NoWord
  /\ last' = [text |-> text, late |-> late,
              keys |-> AtBoundary(text, late), tsf |-> ThroughThePipe(text, "Semicolon")]
  /\ UNCHANGED <<lexicon, files, personal>>

Next ==
  \/ \E file \in DOMAIN Lines : \E line \in Lines[file] : EditAndRestart(file, line)
  \/ \E text \in Texts, late \in BOOLEAN : Word(text, late)

Spec == Init /\ [][Next]_vars

-----------------------------------------------------------------------------
(* Properties.                                                             *)

Decided == last.text # NoText
Asked == Normalize(last.text)
Natural == Classify(last.text, MaxTokenChars) = "NaturalWord"

\* The words one edit away, a swap of neighbours being one.
Neighbours(w) == OneEdit(w) \cup {Swap(w, i) : i \in SwapsAt(w)}

\* The words of the dictionary that candidates looks for, and whether they are too many.
Near(w) == DOMAIN lexicon \cap (Within(w, MaxEditDistance(w)) \cup Neighbours(w))
CapReached(w) == Cardinality(Near(w)) > RawMatchCap

\* A correction the user asked for: by a pair of the personal dictionary, unless it
\* is of a word with itself, or by one of the built-in misspellings.
WantedFor(w) == {p[2] : p \in Forced(personal, w)}
RuleFor(w) == IF w \in DOMAIN Typos THEN {Typos[w]} ELSE {}

\* What is loaded is within its bounds, made of valid words, and maps a word to one.
TypeOK ==
  /\ lexicon \in Lexicons
  /\ DOMAIN files = DOMAIN Lines
  /\ \A f \in DOMAIN personal : Cardinality(personal[f]) <= MaxPersonalEntries
  /\ \A w \in personal.words : IsValidWord(w)
  /\ \A p \in personal.forced \cup personal.blocked : IsValidWord(p[1]) /\ IsValidWord(p[2])
  /\ \A p, q \in personal.forced : p[1] = q[1] => p = q
  /\ last.keys.kind \in {"Leave", "Replace"} /\ last.tsf.kind \in {"Leave", "Replace"}

\* As long as the cap on raw matches is not reached, the candidates are the best of all
\* the words near the token, under distances defined without a table: a swap is one
\* edit, short words have one edit, long ones two (compact_fst.rs 150-224).
CandidatesAreTheBest ==
  Decided /\ ~CapReached(Asked) =>
    LET Distance(w) == IF w = Asked THEN 0 ELSE IF w \in Neighbours(Asked) THEN 1 ELSE 2
    IN  Candidates(lexicon, Asked) =
          FirstOf(InOrder({Raw(lexicon, w, Distance(w)) : w \in Near(Asked)}, Better),
                  MaxLexiconCandidates)

\* What the dictionary alone corrects is one edit away, and no other word that is as
\* near has more than a third of its frequency (confidence.rs 169-191), unless its own is
\* the highest that can be counted: the product with the ratio saturates there.
ClearWinnerOf(w, answer) ==
  LET c == Normalize(answer.replacement)
      rivals == (DOMAIN lexicon \cap Neighbours(w)) \ {c, w}
  IN  /\ c \in Neighbours(w)
      /\ lexicon[c] # MaxFrequency => \A r \in rivals : 3 * lexicon[r] <= lexicon[c]

ByDictionary == /\ Decided /\ last.keys.kind = "Replace"
                /\ Normalize(last.keys.replacement) \notin WantedFor(Asked) \cup RuleFor(Asked)

AutomaticIsClear ==
  ByDictionary /\ ~CapReached(Asked) => ClearWinnerOf(Asked, last.keys)

\* A word of the dictionary or of the user is changed only into what a built-in rule or
\* a pair of the user says (engine.rs 33-37, confidence.rs 122-135); a pair of a word
\* with itself is the exception: it makes the word unknown and proposes nothing.
KnownWordsStay ==
  (/\ Decided /\ Asked \in DOMAIN lexicon \cup personal.words
   /\ Asked \notin WantedFor(Asked)
   /\ last.keys.kind = "Replace") =>
    Normalize(last.keys.replacement) \in WantedFor(Asked) \cup RuleFor(Asked)

\* A pair of the user wins over every rule and every word of the dictionary, unless the
\* user has blocked it too (engine.rs 60-67, rank.rs 80-84).
ForcedPairWins ==
  Decided /\ Natural /\ ~last.late =>
    \A c \in WantedFor(Asked) \ {Asked} :
      last.keys = IF <<Asked, c>> \in personal.blocked THEN Leave
                  ELSE Replace(RestoreCase(last.text, c))

\* The two paths decide alike, the second one over the wire, for words within both
\* bounds on length and when the deadline of the first has not passed: "the two paths
\* can never diverge" (engine.rs 1-9).
PathsAgree ==
  (Decided /\ ~last.late /\ Len(Asked) <= MaxTokenChars /\ Len(Asked) <= DefaultMaxTokenChars) =>
    last.keys = last.tsf

\* A correction with a word of the dictionary is not corrected again, by either path,
\* unless that word has a rule or a pair of the user itself: the bundled dictionary holds
\* five of the misspellings of BUILTIN_TYPOS, and lacks one of their corrections.  The
\* adapter reads its own corrections back from the document.
CorrectionsAreFinal ==
  Decided /\ last.tsf.kind = "Replace" =>
    LET c == last.tsf.replacement
        w == Normalize(c)
    IN  (w \in DOMAIN lexicon /\ WantedFor(w) \cup RuleFor(w) = {}) =>
          AtBoundary(c, FALSE) = Leave /\ ThroughThePipe(c, "Space") = Leave

\* A dictionary that is written out and read back is the same (personal.rs 94-173),
\* at the bound on entries too.
PersonalRoundTrip == FromParts(ToParts(personal)) = personal

-----------------------------------------------------------------------------
(* What the comments of the code state and the code does not do.           *)

\* confidence.rs: the top must be much more frequent than "the most frequent EQUALLY-CLOSE
\* rival"; one that the cap on raw matches cut is not compared with.
AutomaticIsClearDespiteTheCap == ByDictionary => ClearWinnerOf(Asked, last.keys)

=============================================================================
