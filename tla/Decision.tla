------------------------------ MODULE Decision ------------------------------
(***************************************************************************)
(* From a word to the decision about it: assembling and ranking the        *)
(* candidates (langcheck-core/src/candidate.rs, rank.rs), the confidence   *)
(* policy (confidence.rs) and the decision that both paths share           *)
(* (langcheck-app/src/engine.rs).                                          *)
(*                                                                         *)
(* Scores are in hundredths; lower is better.                              *)
(***************************************************************************)
EXTENDS Lexicon

CONSTANTS
  Frequencies,     \* the frequencies that occur
  MaxFrequency,    \* u32::MAX
  RuleFrequency,   \* RULE_FREQUENCY
  Reward,          \* per frequency: 1200 ln (f + 1), rounded
  Typos,           \* BUILTIN_TYPOS, a function from misspellings to corrections
  Adjacent         \* keyboard_adjacent, as a set of pairs of letters

\* 1200 ln (f + 1) for the highest frequency, rounded; and 1200 ln 3, with the rounding
\* of the two rewards that are compared.
MaxReward == 26617
TripledReward == 1320

ASSUME DecisionAssumption ==
  /\ MaxFrequency \in Nat
  /\ Frequencies \subseteq 0 .. MaxFrequency /\ MaxFrequency \in Frequencies
  /\ RuleFrequency \in Frequencies
  /\ Reward \in [Frequencies -> 0 .. MaxReward]
  /\ \A f, g \in Frequencies : f <= g => Reward[f] <= Reward[g]
  /\ \A f, g \in Frequencies : Reward[f] - Reward[g] > TripledReward => 3 * g <= f
  /\ \A w \in DOMAIN Typos : /\ Typos[w] \in Seq(DictionarySymbols) \ {<<>>}
                              /\ OsaDistance(w, Typos[w]) = 1

\* RankWeights::default and ConfidencePolicy::default.
EditCost == 100000
RuleBonus == 60000
UserBonusForgotten == 0
UserBonus == 200000
KeyboardBonus == 8000
CasingPenalty == 10000000
MaxAutoScore == 110000
MaxSuggestScore == 210000
MinMargin == 25000
FreqDominanceRatio == 3

Priority == [lexicon |-> 0, rule |-> 1, user |-> 2]

Candidate(word, distance, frequency, source) ==
  [word |-> word, distance |-> distance, frequency |-> frequency, source |-> source]

-----------------------------------------------------------------------------
(* assemble and rank.                                                      *)

Merged(twins) ==
  Candidate((CHOOSE c \in twins : TRUE).word,
            Min({c.distance : c \in twins}),
            Max({c.frequency : c \in twins}),
            (CHOOSE c \in twins : \A d \in twins : Priority[c.source] >= Priority[d.source]).source)

RuleCandidates(w) ==
  IF w \in DOMAIN Typos
  THEN {Candidate(Typos[w], OsaDistance(w, Typos[w]), RuleFrequency, "rule")}
  ELSE {}

\* The bound MAX_CANDIDATES is never reached: MaxLexiconCandidates, a rule and a pair.
Assemble(w, found) ==
  LET all == {c \in RuleCandidates(w) \cup found : c.word # w} IN
  {Merged({d \in all : d.word = c.word}) : c \in all}

SingleSubstitution(v, w) ==
  IF Len(v) # Len(w) THEN {}
  ELSE LET differ == {i \in DOMAIN v : v[i] # w[i]}
       IN  IF Cardinality(differ) = 1 THEN {<<v[i], w[i]>> : i \in differ} ELSE {}

Score(text, c) ==
  EditCost * c.distance
    - Reward[c.frequency]
    - (CASE c.source = "rule" -> RuleBonus [] c.source = "user" -> UserBonus [] OTHER -> 0)
    - (IF SingleSubstitution(Normalize(text), c.word) \cap Adjacent # {}
       THEN KeyboardBonus ELSE 0)
    + (IF RestoreCase(text, c.word) = NoText THEN CasingPenalty ELSE 0)

Ahead(s, t) ==
  IF s.score # t.score THEN s.score < t.score
  ELSE Precedes(s.candidate.word, t.candidate.word)

\* rank: the candidates with their scores, best first.
Ranked(text, candidates) ==
  InOrder({[candidate |-> c, score |-> Score(text, c)] : c \in candidates}, Ahead)

-----------------------------------------------------------------------------
(* The confidence policy.                                                  *)

Ignore(reason) == [kind |-> "Ignore", reason |-> reason, text |-> NoText, source |-> "none"]
Known == [kind |-> "Known", reason |-> "none", text |-> NoText, source |-> "none"]
Suggest(reason, text, source) ==
  [kind |-> "Suggest", reason |-> reason, text |-> text, source |-> source]
AutoCorrect(text, source) ==
  [kind |-> "AutoCorrect", reason |-> "none", text |-> text, source |-> source]

SaturatingMul(f) ==
  IF f > MaxFrequency \div FreqDominanceRatio THEN MaxFrequency ELSE f * FreqDominanceRatio

\* A dominance over the runner-up only.
DominatesTheRunnerUp(ranked) ==
  Len(ranked) > 1 =>
    ranked[1].candidate.frequency >= SaturatingMul(ranked[2].candidate.frequency)

\* The top is much more frequent than every rival that is as close.
Dominates(ranked) ==
  \A i \in DOMAIN ranked \ {1} :
    ranked[i].candidate.distance <= ranked[1].candidate.distance =>
      ranked[1].candidate.frequency >= SaturatingMul(ranked[i].candidate.frequency)

\* decide of confidence.rs.
Decide(text, ranked) ==
  IF ranked = <<>> THEN Ignore("NoCandidates")
  ELSE LET top == ranked[1]
           source == top.candidate.source
           replacement == RestoreCase(text, top.candidate.word)
           margin == Len(ranked) > 1 => \/ ranked[2].score - top.score >= MinMargin
                                        \/ Dominates(ranked)
       IN  CASE replacement = NoText -> Ignore("CasingMismatch")
             [] replacement # NoText /\ top.score > MaxSuggestScore -> Ignore("LowConfidence")
             [] replacement # NoText /\ top.score \in MaxAutoScore + 1 .. MaxSuggestScore ->
                  Suggest("BelowAutoThreshold", replacement, source)
             [] replacement # NoText /\ top.score <= MaxAutoScore /\ ~margin ->
                  Suggest("AmbiguousMargin", replacement, source)
             [] replacement # NoText /\ top.score <= MaxAutoScore /\ margin ->
                  AutoCorrect(replacement, source)

\* An evaluation that corrects words that are known.
EvaluateKnownToo(text, class, known, found) ==
  IF class # "NaturalWord" THEN Ignore("NotEligible")
  ELSE Decide(text, Ranked(text, Assemble(Normalize(text), found)))

\* evaluate, before its deadline; a class that is not a natural word is not eligible.
Evaluate(text, class, known, found) ==
  LET candidates == Assemble(Normalize(text), found)
      overriding == \E c \in candidates : c.source \in {"rule", "user"}
  IN  IF class # "NaturalWord" THEN Ignore("NotEligible")
      ELSE IF known /\ ~overriding THEN Known
      ELSE Decide(text, Ranked(text, candidates))

-----------------------------------------------------------------------------
(* engine.rs.  personal is [words, forced, blocked]; a word has at most    *)
(* one forced pair.                                                        *)

Forced(personal, w) == {p \in personal.forced : p[1] = w}

\* A decision that does not ask for the words of the user.
KnownToTheLexicon(lexicon, personal, w) == Forced(personal, w) = {} /\ w \in DOMAIN lexicon

IsKnown(lexicon, personal, w) ==
  Forced(personal, w) = {} /\ w \in DOMAIN lexicon \cup personal.words

\* decide of engine.rs.  A deadline that has passed when candidates looks has passed
\* when evaluate looks, so that an error of the search and an expired decision are one.
EngineDecide(lexicon, personal, text, class, late) ==
  LET w == Normalize(text)
      found == {Candidate(c.word, c.distance, c.frequency, "lexicon") :
                  c \in ToSet(Candidates(lexicon, w))}
      forced == {Candidate(p[2], 1, MaxFrequency, "user") : p \in Forced(personal, w)}
  IN  IF late THEN Ignore("DeadlineExceeded")
      ELSE Evaluate(text, class, IsKnown(lexicon, personal, w), found \cup forced)

=============================================================================
