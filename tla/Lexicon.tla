------------------------------ MODULE Lexicon -------------------------------
(***************************************************************************)
(* The dictionary backend, langcheck-lexicon/src/compact_fst.rs: a map     *)
(* from words to frequencies that is searched, in key order, for the words *)
(* near a token.  The edit distances are those of langcheck-lexicon/src/   *)
(* lib.rs and langcheck-core/src/candidate.rs, row by row as they compute  *)
(* them; Within is what the automaton of the fst crate accepts, stated     *)
(* without a table.                                                        *)
(***************************************************************************)
EXTENDS Words, SequencesExt

CONSTANTS
  RawMatchCap,           \* RAW_MATCH_CAP
  MaxLexiconCandidates,  \* MAX_LEXICON_CANDIDATES
  LongTokenLen           \* the length from which two edits are searched

\* Three candidates at least: the token itself, a correction and a rival of it.
ASSUME LexiconAssumption ==
  /\ RawMatchCap \in Nat \ {0} /\ LongTokenLen \in Nat
  /\ MaxLexiconCandidates \in Nat /\ MaxLexiconCandidates >= 3

-----------------------------------------------------------------------------
(* Edit distances.                                                         *)

\* A row of the table and its cell for j symbols of b; swaps only if the row before the
\* previous one is given.
WithCell(before, prev, a, i, b, row, j) ==
  LET edits == {prev[j + 1] + 1, Last(row) + 1, prev[j] + IF a[i] = b[j] THEN 0 ELSE 1}
      swaps == IF before # <<>> /\ i > 1 /\ j > 1 /\ a[i] = b[j - 1] /\ a[i - 1] = b[j]
               THEN {before[j - 1] + 1} ELSE {}
  IN  Append(row, Min(edits \cup swaps))

\* The row of the table for the first i symbols of a.
NextRow(before, prev, a, i, b) ==
  FoldLeftDomain(LAMBDA row, j : WithCell(before, prev, a, i, b, row, j), <<i>>, b)

FirstRow(b) == [j \in 1 .. Len(b) + 1 |-> j - 1]

\* osa_distance.
OsaDistance(a, b) ==
  LET Step(rows, i) == <<rows[2], NextRow(rows[1], rows[2], a, i, b)>>
  IN  Last(FoldLeftDomain(Step, <<<<>>, FirstRow(b)>>, a)[2])

\* The row after a row, none as soon as a whole row is above max.
BoundedRow(a, b, max, row, i) ==
  LET next == NextRow(<<>>, row, a, i, b)
  IN  IF row = <<>> \/ Min(ToSet(next)) > max THEN <<>> ELSE next

\* bounded_levenshtein.
BoundedLevenshtein(a, b, max) ==
  LET end == FoldLeftDomain(LAMBDA row, i : BoundedRow(a, b, max, row, i), FirstRow(b), a)
  IN  IF Len(a) - Len(b) > max \/ Len(b) - Len(a) > max \/ end = <<>> THEN max + 1
      ELSE Min({Last(end), max + 1})

\* The words one insertion, deletion or substitution away.
OneEdit(w) ==
  {RemoveAt(w, i) : i \in DOMAIN w}
    \cup {InsertAt(w, i, c) : i \in 1 .. Len(w) + 1, c \in DictionarySymbols}
    \cup {ReplaceAt(w, i, c) : i \in DOMAIN w, c \in DictionarySymbols}

\* The words at most max such edits away, max being 1 or 2.
Within(w, max) == OneEdit(w) \cup (IF max = 2 THEN UNION {OneEdit(v) : v \in OneEdit(w)} ELSE {})

\* The words two neighbouring symbols of w swapped.
Swap(w, i) == [w EXCEPT ![i] = w[i + 1], ![i + 1] = w[i]]
SwapsAt(w) == {i \in 1 .. Len(w) - 1 : w[i] # w[i + 1]}

-----------------------------------------------------------------------------
(* CompactFstLexicon::candidates.  A lexicon is a function from its words  *)
(* to their frequencies.                                                   *)

\* The order of the octets of a key: the apostrophe, then the letters.
Code(symbol) ==
  IF symbol = "'" THEN 0 ELSE CHOOSE n \in DOMAIN Alphabet : Alphabet[n] = symbol

\* The order of the keys.
Precedes(v, w) ==
  LET differ == {i \in DOMAIN v \cap DOMAIN w : v[i] # w[i]}
      first == Min(differ)
  IN  IF differ = {} THEN Len(v) < Len(w) ELSE Code(v[first]) < Code(w[first])

\* The members of a set in the order of a strict total order.
InOrder(S, Before(_, _)) ==
  [n \in 1 .. Cardinality(S) |->
     CHOOSE x \in S : Cardinality({y \in S : Before(y, x)}) = n - 1]

FirstOf(seq, n) == SubSeq(seq, 1, Min({n, Len(seq)}))

\* max_edit_distance.
MaxEditDistance(w) == IF Len(w) >= LongTokenLen THEN 2 ELSE 1

\* What the search of the map with the automaton yields.
Matches(lexicon, w) == DOMAIN lexicon \cap Within(w, MaxEditDistance(w))

Raw(lexicon, w, distance) == [word |-> w, distance |-> distance, frequency |-> lexicon[w]]

\* The stream up to the cap: it comes in key order, not best first.
Streamed(lexicon, w) ==
  LET found == FirstOf(InOrder(Matches(lexicon, w), Precedes), RawMatchCap)
  IN  {Raw(lexicon, v, BoundedLevenshtein(w, v, MaxEditDistance(w))) : v \in ToSet(found)}

\* collect_transpositions, as long as there is room under the cap.
WithTranspositions(lexicon, w, raw) ==
  LET seen == {r.word : r \in raw}
      hits == {i \in SwapsAt(w) : Swap(w, i) \in DOMAIN lexicon}
      new == {i \in hits : Swap(w, i) \notin seen}
      room == {i \in new : Cardinality({j \in new : j < i}) + Cardinality(raw) < RawMatchCap}
  IN  {IF \E i \in hits : Swap(w, i) = r.word THEN [r EXCEPT !.distance = Min({@, 1})] ELSE r :
         r \in raw}
      \cup {Raw(lexicon, Swap(w, i), 1) : i \in room}

\* Best first: nearest, then most frequent, then alphabetical.
Better(r, s) ==
  IF r.distance # s.distance THEN r.distance < s.distance
  ELSE IF r.frequency # s.frequency THEN r.frequency > s.frequency
  ELSE Precedes(r.word, s.word)

\* A search that gives every swap away.
CandidatesWithoutSwaps(lexicon, w) ==
  FirstOf(InOrder(Streamed(lexicon, w), Better), MaxLexiconCandidates)

Candidates(lexicon, w) ==
  FirstOf(InOrder(WithTranspositions(lexicon, w, Streamed(lexicon, w)), Better),
          MaxLexiconCandidates)

=============================================================================
