-------------------------- MODULE TsfAdapterProofs --------------------------
(***************************************************************************)
(* TsfAdapter, for any documents, texts, edits and failing calls: the      *)
(* sessions that wait cover their words, one sink is on the focus, and the *)
(* module does not go while an object of it is left.                       *)
(***************************************************************************)
EXTENDS TsfAdapter, FiniteSetTheorems, SequenceTheorems, TLAPS

\* A session that is where its word is: in its document, on the word it was requested
\* for unless that was edited, on a whole word unless the document was.
RightSession(t, s) ==
  /\ s.from <= s.to /\ s.to <= Len(t)
  /\ ~s.touched => Covered(t, s.from, s.to) = s.word
  /\ ~s.edited  => WholeWord(t, s.from, s.to)

RightSessions(t, queue) == \A i \in 1 .. Len(queue) : RightSession(t, queue[i])

Selection(t) == {s \in Nat \X Nat : s[1] <= s[2] /\ s[2] <= Len(t)}

DocumentsAreRight ==
  /\ text \in [Docs -> Seq(Chars)]
  /\ sel \in [Docs -> Nat \X Nat]
  /\ sessions \in [Docs -> Seq(Session)]
  /\ \A d \in Docs : sel[d] \in Selection(text[d]) /\ RightSessions(text[d], sessions[d])

\* Cookies are numbers that are handed out one by one, so that there is always another;
\* a service that is not active has none.
SinksAreRight ==
  /\ loaded \in BOOLEAN
  /\ service \in {"none", "idle", "active"} /\ locks \in Nat
  /\ focus \in Docs \cup {NoDoc} /\ told \in Docs \cup {NoDoc}
  /\ spent \in [{"edit", "select", "move", "fault"} -> Nat]
  /\ focusSinks \in [DOMAIN focusSinks -> Advised]
  /\ DOMAIN focusSinks \subseteq Nat \ {NoCookie} /\ IsFiniteSet(DOMAIN focusSinks)
  /\ editSinks \in [Docs -> SUBSET (Nat \X Nat)]
  /\ \A d \in Docs : IsFiniteSet(editSinks[d])
  /\ advise \in Nat /\ (advise # NoCookie => advise \in DOMAIN focusSinks)
  /\ service # "active" => advise = NoCookie

\* What OneSinkOnTheFocus needs: the only focus sink is the one the service knows of, the
\* only edit sink is the one that focus sink knows of, and it is where it was told to be.
SinksKnownOf ==
  spent["fault"] = 0 =>
    IF service = "active"
    THEN /\ advise # NoCookie /\ DOMAIN focusSinks = {advise}
         /\ focusSinks[advise].doc = told
         /\ \A d \in Docs :
              editSinks[d] = IF d = told THEN {focusSinks[advise].cookie} ELSE {}
    ELSE DOMAIN focusSinks = {} /\ \A d \in Docs : editSinks[d] = {}

\* The sessions that an application has yet to grant, as EditSinksOf has the edit sinks.
Waiting == [d \in Docs |-> 1 .. Len(sessions[d])]

\* Every object is counted, and every lock of the server.
ObjectsAreCounted ==
  refs = (IF service = "none" THEN 0 ELSE 1) + Cardinality(DOMAIN focusSinks)
           + Cardinality(EditSinksOf(editSinks)) + Cardinality(EditSinksOf(Waiting)) + locks

\* What NothingOutlivesTheModule says, of the domains of what it speaks of.
NothingIsLeft ==
  ~loaded =>
    /\ service = "none" /\ locks = 0 /\ DOMAIN focusSinks = {}
    /\ \A d \in Docs : editSinks[d] = {} /\ sessions[d] = <<>>

InductiveInvariant ==
  DocumentsAreRight /\ SinksAreRight /\ SinksKnownOf /\ ObjectsAreCounted /\ NothingIsLeft

-----------------------------------------------------------------------------
(* Sets of numbers.                                                        *)

\* A finite set of numbers that is not empty has a largest: one above which there are
\* fewest others.
LEMMA MaxIsLargest ==
  ASSUME NEW S \in SUBSET Int, IsFiniteSet(S), S # {}
  PROVE  Max(S) \in S /\ \A y \in S : Max(S) >= y
<1> DEFINE Above(x) == {y \in S : y > x}
           Greater == {Above(x) : x \in S}
<1>1. Greater \subseteq FiniteSubsetsOf(S)
  BY FS_FiniteSubsetsOfFinite
<1>2. Greater # {}
  OBVIOUS
<1>3. PICK T \in Greater : \A U \in Greater : ~(<<U, T>> \in StrictSubsetOrdering(S))
  BY <1>1, <1>2, FS_StrictSubsetOrderingWellFounded, WFMin
<1>4. PICK x \in S : T = Above(x)
  OBVIOUS
<1>5. \A y \in S : x >= y
  <2> SUFFICES ASSUME NEW y \in S, y > x PROVE FALSE
    OBVIOUS
  <2>1. /\ \A z \in S : z > y => z > x
        /\ y > x /\ ~(y > y)
    OBVIOUS
  <2>2. Above(x) \in SUBSET S /\ Above(y) \in SUBSET S /\ Above(y) \in Greater
    OBVIOUS
  <2>3. Above(y) \subseteq Above(x) /\ Above(y) # Above(x)
    BY <2>1
  <2> HIDE DEF Above, Greater
  <2>4. <<Above(y), Above(x)>> \in StrictSubsetOrdering(S)
    BY <2>2, <2>3 DEF StrictSubsetOrdering
  <2> QED
    BY <1>3, <1>4, <2>2, <2>4
<1> QED
  BY <1>5 DEF Max

LEMMA MaxOfTwo ==
  ASSUME NEW m \in Int, NEW n \in Int
  PROVE  Max({m, n}) = IF m >= n THEN m ELSE n
BY DEF Max

LEMMA MinOfTwo ==
  ASSUME NEW m \in Int, NEW n \in Int
  PROVE  Min({m, n}) = IF m <= n THEN m ELSE n
BY DEF Min

\* A cookie that is handed out is not in use.
LEMMA NewCookieIsFresh ==
  ASSUME NEW used, IsFiniteSet(used)
  PROVE  NewCookie(used) \in Nat \ {0} /\ NewCookie(used) \notin used
<1>1. Cardinality(used) \in Nat
  BY FS_CardinalityType
<1> DEFINE numbers == 1 .. Cardinality(used) + 1
<1>2. Cardinality(numbers) = Cardinality(used) + 1
  BY <1>1, FS_Interval
<1>3. ~(numbers \subseteq used)
  BY <1>1, <1>2, FS_Subset
<1>4. \E n \in numbers : n \notin used
  BY <1>3
<1> QED
  BY <1>1, <1>4 DEF NewCookie

-----------------------------------------------------------------------------
(* Texts.                                                                  *)

\* Letters are characters.
LEMMA WordsAreTexts == \A w \in Seq(Letters) : w \in Seq(Chars)
<1>1. Letters \subseteq Chars
  BY DEF Chars
<1> QED
  BY <1>1, SeqMonotonic

\* The characters that a range covers.
LEMMA CoveredProperties ==
  ASSUME NEW t \in Seq(Chars), NEW from \in Nat, NEW to \in Nat, to <= Len(t)
  PROVE  /\ Covered(t, from, to) \in Seq(Chars)
         /\ Len(Covered(t, from, to)) = IF from <= to THEN to - from ELSE 0
         /\ \A i \in 1 .. to - from : Covered(t, from, to)[i] = t[from + i]
<1>1. \A i \in from + 1 .. to : t[i] \in Chars
  BY ElementOfSeq
<1>2. /\ SubSeq(t, from + 1, to) \in Seq(Chars)
      /\ Len(SubSeq(t, from + 1, to)) = IF from + 1 <= to THEN to - (from + 1) + 1 ELSE 0
      /\ \A i \in 1 .. to - (from + 1) + 1 : SubSeq(t, from + 1, to)[i] = t[from + 1 + i - 1]
  BY <1>1, SubSeqProperties
<1> QED
  BY <1>2 DEF Covered

\* The text after an edit: what was before it, what is new, what was behind it.
IsSplice(u, t, from, to, new) ==
  /\ u \in Seq(Chars)
  /\ Len(u) = Len(t) + Len(new) - (to - from)
  /\ \A i \in 1 .. from : u[i] = t[i]
  /\ \A i \in to + 1 .. Len(t) : u[i + Len(new) - (to - from)] = t[i]

\* It is what Splice makes.
LEMMA SpliceProperties ==
  ASSUME NEW t \in Seq(Chars), NEW new \in Seq(Chars),
         NEW from \in Nat, NEW to \in Nat, from <= to, to <= Len(t)
  PROVE  IsSplice(Splice(t, from, to, new), t, from, to, new)
<1> DEFINE before == SubSeq(t, 1, from)
           behind == SubSeq(t, to + 1, Len(t))
<1>1. Len(t) \in Nat /\ Len(new) \in Nat
  OBVIOUS
<1>2. \A i \in 1 .. Len(t) : t[i] \in Chars
  OBVIOUS
<1>3. /\ before \in Seq(Chars) /\ Len(before) = from
      /\ \A i \in 1 .. from : before[i] = t[i]
  <2>1. /\ before \in Seq(Chars) /\ Len(before) = IF 1 <= from THEN from - 1 + 1 ELSE 0
        /\ \A i \in 1 .. from - 1 + 1 : before[i] = t[1 + i - 1]
    BY <1>2, SubSeqProperties
  <2> QED
    BY <2>1
<1>4. /\ behind \in Seq(Chars) /\ Len(behind) = Len(t) - to
      /\ \A i \in 1 .. Len(t) - to : behind[i] = t[to + i]
  <2>1. /\ behind \in Seq(Chars)
        /\ Len(behind) = IF to + 1 <= Len(t) THEN Len(t) - (to + 1) + 1 ELSE 0
        /\ \A i \in 1 .. Len(t) - (to + 1) + 1 : behind[i] = t[to + 1 + i - 1]
    BY <1>1, <1>2, SubSeqProperties
  <2> QED
    BY <1>1, <2>1
<1> HIDE DEF before, behind
<1>5. /\ before \o new \in Seq(Chars) /\ Len(before \o new) = from + Len(new)
      /\ \A i \in 1 .. from : (before \o new)[i] = t[i]
  <2>1. /\ before \o new \in Seq(Chars) /\ Len(before \o new) = Len(before) + Len(new)
        /\ \A i \in 1 .. Len(before) + Len(new) :
             (before \o new)[i] = IF i <= Len(before) THEN before[i] ELSE new[i - Len(before)]
    BY <1>3, ConcatProperties
  <2> QED
    BY <1>1, <1>3, <2>1
<1>6. /\ (before \o new) \o behind \in Seq(Chars)
      /\ Len((before \o new) \o behind) = from + Len(new) + (Len(t) - to)
      /\ \A i \in 1 .. from + Len(new) + (Len(t) - to) :
           ((before \o new) \o behind)[i] =
             IF i <= from + Len(new) THEN (before \o new)[i] ELSE behind[i - (from + Len(new))]
  <2> DEFINE first == before \o new
  <2>1. first \in Seq(Chars) /\ Len(first) = from + Len(new)
    BY <1>5
  <2> HIDE DEF first
  <2>2. /\ first \o behind \in Seq(Chars) /\ Len(first \o behind) = Len(first) + Len(behind)
        /\ \A i \in 1 .. Len(first) + Len(behind) :
             (first \o behind)[i] = IF i <= Len(first) THEN first[i] ELSE behind[i - Len(first)]
    <3>1. first \in Seq(Chars) /\ behind \in Seq(Chars)
      BY <1>4, <2>1
    <3> QED
      BY <3>1, ConcatProperties
  <2> QED
    BY <1>4, <2>1, <2>2 DEF first
<1>7. Splice(t, from, to, new) = (before \o new) \o behind
  BY DEF Splice, before, behind
<1>8. \A i \in 1 .. from : Splice(t, from, to, new)[i] = t[i]
  BY <1>1, <1>5, <1>6, <1>7
<1>9. \A i \in to + 1 .. Len(t) : Splice(t, from, to, new)[i + Len(new) - (to - from)] = t[i]
  <2> SUFFICES ASSUME NEW i \in to + 1 .. Len(t)
               PROVE  Splice(t, from, to, new)[i + Len(new) - (to - from)] = t[i]
    OBVIOUS
  <2> DEFINE j == i + Len(new) - (to - from)
  <2>1. j \in 1 .. from + Len(new) + (Len(t) - to) /\ ~(j <= from + Len(new))
    BY <1>1
  <2>2. j - (from + Len(new)) = i - to /\ i - to \in 1 .. Len(t) - to
    BY <1>1
  <2>3. ((before \o new) \o behind)[j] = behind[i - to]
    BY <1>6, <2>1, <2>2
  <2>4. behind[i - to] = t[to + (i - to)] /\ to + (i - to) = i
    BY <1>1, <1>4, <2>2
  <2> QED
    BY <1>7, <2>3, <2>4
<1>10. from + Len(new) + (Len(t) - to) = Len(t) + Len(new) - (to - from)
  BY <1>1
<1> QED
  BY <1>6, <1>7, <1>8, <1>9, <1>10 DEF IsSplice

\* Positions keep their order and stay in the text.
LEMMA ShiftKeepsOrder ==
  ASSUME NEW len \in Nat, NEW from \in Nat, NEW to \in Nat, NEW n \in Nat, from <= to, to <= len,
         NEW p \in Nat, NEW q \in Nat, p <= q, q <= len
  PROVE  /\ Shift(p, from, to, n) \in Nat /\ Shift(q, from, to, n) \in Nat
         /\ Shift(p, from, to, n) <= Shift(q, from, to, n)
         /\ Shift(q, from, to, n) <= len + n - (to - from)
BY DEF Shift

\* A range that an edit does not touch moves with its characters.
LEMMA UntouchedRangeMoves ==
  ASSUME NEW t \in Seq(Chars), NEW new \in Seq(Chars),
         NEW from \in Nat, NEW to \in Nat, from <= to, to <= Len(t),
         NEW p \in Nat, NEW q \in Nat, p <= q, q <= Len(t),
         from >= q \/ (to <= p /\ from < p)
  PROVE  Covered(Splice(t, from, to, new), Shift(p, from, to, Len(new)), Shift(q, from, to, Len(new)))
           = Covered(t, p, q)
<1> DEFINE u == Splice(t, from, to, new)
           n == Len(new)
           pp == Shift(p, from, to, n)
           qq == Shift(q, from, to, n)
<1>1. n \in Nat /\ Len(t) \in Nat
  OBVIOUS
<1>2. /\ u \in Seq(Chars) /\ Len(u) = Len(t) + n - (to - from)
      /\ \A i \in 1 .. from : u[i] = t[i]
      /\ \A i \in to + 1 .. Len(t) : u[i + n - (to - from)] = t[i]
  <2>1. IsSplice(u, t, from, to, new)
    BY SpliceProperties
  <2> QED
    BY <2>1 DEF IsSplice
<1> HIDE DEF n, u
<1>3. pp \in Nat /\ qq \in Nat /\ pp <= qq /\ qq <= Len(u)
  <2>1. pp \in Nat /\ qq \in Nat /\ pp <= qq /\ qq <= Len(t) + n - (to - from)
    BY <1>1, ShiftKeepsOrder
  <2> QED
    BY <1>2, <2>1
<1>4. qq - pp = q - p
  BY <1>1 DEF Shift
<1>5. \A i \in 1 .. q - p : u[pp + i] = t[p + i]
  <2>1. CASE from >= q
    <3>1. pp = p /\ qq = q
      BY <2>1 DEF Shift
    <3> QED
      BY <1>1, <1>2, <2>1, <3>1
  <2>2. CASE ~(from >= q) /\ to <= p /\ from < p
    <3>1. pp = p + n - (to - from)
      BY <1>1, <2>2 DEF Shift
    <3> HIDE DEF pp, qq
    <3> SUFFICES ASSUME NEW i \in 1 .. q - p PROVE u[pp + i] = t[p + i]
      OBVIOUS
    <3>2. p + i \in to + 1 .. Len(t) /\ pp + i = (p + i) + n - (to - from)
      BY <1>1, <2>2, <3>1
    <3> QED
      BY <1>2, <3>2
  <2> QED
    BY <2>1, <2>2
<1> HIDE DEF pp, qq
<1>6. /\ Covered(t, p, q) \in Seq(Chars) /\ Len(Covered(t, p, q)) = q - p
      /\ \A i \in 1 .. q - p : Covered(t, p, q)[i] = t[p + i]
  BY CoveredProperties
<1>7. /\ Covered(u, pp, qq) \in Seq(Chars) /\ Len(Covered(u, pp, qq)) = q - p
      /\ \A i \in 1 .. q - p : Covered(u, pp, qq)[i] = u[pp + i]
  <2>1. /\ Covered(u, pp, qq) \in Seq(Chars)
        /\ Len(Covered(u, pp, qq)) = IF pp <= qq THEN qq - pp ELSE 0
        /\ \A i \in 1 .. qq - pp : Covered(u, pp, qq)[i] = u[pp + i]
    BY <1>2, <1>3, CoveredProperties
  <2> QED
    BY <1>3, <1>4, <2>1
<1>8. Covered(u, pp, qq) = Covered(t, p, q)
  BY <1>5, <1>6, <1>7, SeqEqual
<1> QED
  BY <1>8 DEF u, pp, qq, n

\* A session of a document that is edited goes on as it should.
LEMMA ShiftedIsRight ==
  ASSUME NEW t \in Seq(Chars), NEW new \in Seq(Chars),
         NEW from \in Nat, NEW to \in Nat, from <= to, to <= Len(t),
         NEW s \in Session, RightSession(t, s)
  PROVE  /\ Shifted(s, from, to, Len(new)) \in Session
         /\ RightSession(Splice(t, from, to, new), Shifted(s, from, to, Len(new)))
<1> DEFINE n == Len(new)
           r == Shifted(s, from, to, n)
           u == Splice(t, from, to, new)
<1>1. n \in Nat /\ Len(t) \in Nat /\ s.from \in Nat /\ s.to \in Nat
  BY DEF Session
<1>2. Len(u) = Len(t) + n - (to - from)
  <2>1. IsSplice(u, t, from, to, new)
    BY SpliceProperties
  <2> QED
    BY <2>1 DEF IsSplice
<1>3. /\ Shift(s.from, from, to, n) \in Nat /\ Shift(s.to, from, to, n) \in Nat
      /\ Shift(s.from, from, to, n) <= Shift(s.to, from, to, n)
      /\ Shift(s.to, from, to, n) <= Len(u)
  <2>1. /\ Shift(s.from, from, to, n) \in Nat /\ Shift(s.to, from, to, n) \in Nat
        /\ Shift(s.from, from, to, n) <= Shift(s.to, from, to, n)
        /\ Shift(s.to, from, to, n) <= Len(t) + n - (to - from)
    BY <1>1, ShiftKeepsOrder DEF RightSession
  <2> QED
    BY <1>2, <2>1
<1>4. /\ r.from = Shift(s.from, from, to, n) /\ r.to = Shift(s.to, from, to, n)
      /\ r.word = s.word /\ r.edited
      /\ ~r.touched => ~s.touched /\ (from >= s.to \/ (to <= s.from /\ from < s.from))
  BY DEF Shifted, Session
<1>5. r \in Session
  BY <1>3 DEF Shifted, Session
<1> HIDE DEF n, r, u
<1>6. ASSUME ~r.touched PROVE Covered(u, r.from, r.to) = r.word
  <2>1. Covered(u, r.from, r.to) = Covered(t, s.from, s.to)
    BY <1>1, <1>4, <1>6, UntouchedRangeMoves DEF RightSession, u, n
  <2> QED
    BY <1>4, <1>6, <2>1 DEF RightSession
<1>7. RightSession(u, r)
  BY <1>3, <1>4, <1>6 DEF RightSession
<1> QED
  BY <1>5, <1>7 DEF n, r, u

-----------------------------------------------------------------------------
(* The word before the caret.                                              *)

\* A word that is detected ends before the boundary it was completed by and starts where
\* the window does, or after a character that ends a word.
LEMMA DetectedWord ==
  ASSUME NEW seen \in Seq(Chars), DetectToken(seen) # <<>>
  PROVE  /\ Len(seen) > 0 /\ seen[Len(seen)] \in Boundaries
         /\ \E start \in 0 .. Len(seen) - 1 :
              /\ Len(DetectToken(seen)) = Len(seen) - 1 - start
              /\ start = 0 \/ EndsWord(seen[start])
<1> DEFINE last  == Len(seen) - 1
           ends  == {i \in 1 .. last : EndsWord(seen[i])}
           start == Max({0} \cup ends)
<1>1. seen # <<>> /\ seen[Len(seen)] \in Boundaries
  BY DEF DetectToken
<1>2. Len(seen) \in Nat \ {0}
  BY <1>1, EmptySeq
<1>3. start \in {0} \cup ends
  <2>1. IsFiniteSet(0 .. last)
    BY <1>2, FS_Interval
  <2>2. {0} \cup ends \in SUBSET (0 .. last)
    BY <1>2
  <2>3. IsFiniteSet({0} \cup ends)
    BY <2>1, <2>2, FS_Subset
  <2>4. {0} \cup ends \in SUBSET Int /\ {0} \cup ends # {}
    OBVIOUS
  <2> HIDE DEF ends
  <2> QED
    BY <2>3, <2>4, MaxIsLargest
<1>4. start \in 0 .. last /\ (start = 0 \/ EndsWord(seen[start]))
  BY <1>2, <1>3
<1>5. DetectToken(seen) = SubSeq(seen, start + 1, last)
  BY <1>1 DEF DetectToken
<1> HIDE DEF start
<1>6. \A i \in start + 1 .. last : seen[i] \in Chars
  BY <1>2, <1>4
<1>7. Len(SubSeq(seen, start + 1, last)) = IF start + 1 <= last THEN last - (start + 1) + 1 ELSE 0
  BY <1>2, <1>4, <1>6, SubSeqProperties
<1>8. Len(DetectToken(seen)) = Len(seen) - 1 - start
  BY <1>2, <1>4, <1>5, <1>7
<1> QED
  BY <1>1, <1>2, <1>4, <1>8

\* A word that was read before the caret and found again one boundary before it is a whole
\* word: with a window that is wider than the longest word it is not the end of one.
LEMMA VerifiedWordIsWhole ==
  ASSUME NEW t \in Seq(Chars), NEW s \in Selection(t), NEW token \in Seq(Letters),
         token = ReadTrailingToken(t, s), Len(token) \in 1 .. MaxTokenChars,
         NEW r \in VerifiedWordRange(t, s, token)
  PROVE  /\ r[1] \in Nat /\ r[2] \in Nat /\ r[1] <= r[2] /\ r[2] <= Len(t)
         /\ Covered(t, r[1], r[2]) = token
         /\ WholeWord(t, r[1], r[2])
<1> DEFINE n == Len(token)
           low == Max({0, s[1] - LookbackChars})
           high == Min({s[2], low + LookbackChars})
           seen == Covered(t, low, high)
           f == Max({0, s[1] - n - 1})
           g == Max({f, s[2] - 1})
           m == Min({g, f + LookbackChars})
<1>1. /\ s[1] \in Nat /\ s[2] \in Nat /\ s[1] <= s[2] /\ s[2] <= Len(t) /\ Len(t) \in Nat
  BY DEF Selection
<1>2. /\ n \in Nat /\ n >= 1 /\ n < LookbackChars - 1 /\ LookbackChars \in Nat
  BY TsfAdapterAssumption
<1> HIDE DEF n
<1>3. r = <<f, g>> /\ Covered(t, f, m) = token
  BY DEF VerifiedWordRange, n
<1>4. token = DetectToken(seen)
  BY DEF ReadTrailingToken
<1>5. /\ low = IF 0 >= s[1] - LookbackChars THEN 0 ELSE s[1] - LookbackChars
      /\ f = IF 0 >= s[1] - n - 1 THEN 0 ELSE s[1] - n - 1
  BY SMTT(30), <1>1, <1>2, MaxOfTwo
<1> HIDE DEF low, f
<1>6. low \in Nat /\ f \in Nat /\ low <= s[1] /\ f <= s[1]
  BY SMTT(30), <1>1, <1>2, <1>5
<1>7. /\ high = IF s[2] <= low + LookbackChars THEN s[2] ELSE low + LookbackChars
      /\ g = IF f >= s[2] - 1 THEN f ELSE s[2] - 1
  BY <1>1, <1>2, <1>6, MaxOfTwo, MinOfTwo
<1> HIDE DEF high, g
<1>8. high \in Nat /\ high <= Len(t) /\ g \in Nat /\ f <= g /\ g <= Len(t)
  BY <1>1, <1>2, <1>6, <1>7
<1>9. m = IF g <= f + LookbackChars THEN g ELSE f + LookbackChars
  BY <1>2, <1>6, <1>8, MinOfTwo
<1> HIDE DEF m
<1>10. m \in Nat /\ f <= m /\ m <= Len(t)
  BY <1>2, <1>6, <1>8, <1>9
<1>11. n = m - f
  <2>1. Len(Covered(t, f, m)) = IF f <= m THEN m - f ELSE 0
    BY <1>6, <1>10, CoveredProperties
  <2> QED
    BY <1>3, <1>10, <2>1 DEF n
<1>12. m = g /\ g = f + n /\ s[2] = g + 1
  <2>1. m # f + LookbackChars
    BY <1>2, <1>6, <1>10, <1>11
  <2>2. m = g
    BY <1>9, <2>1
  <2>3. g = f + n /\ g > f
    BY <1>2, <1>6, <1>8, <1>11, <2>2
  <2>4. g = s[2] - 1
    BY <1>1, <1>6, <1>7, <2>3
  <2> QED
    BY <1>1, <2>2, <2>3, <2>4
<1>13. high = s[2] /\ low <= f /\ (low = f => f = 0)
  <2>1. CASE 0 >= s[1] - n - 1
    BY <1>1, <1>2, <1>5, <1>6, <1>7, <1>12, <2>1
  <2>2. CASE ~(0 >= s[1] - n - 1)
    <3>1. f = s[1] - n - 1
      BY <1>5, <2>2
    <3>2. s[2] = s[1]
      BY <1>1, <1>2, <1>12, <3>1
    <3>3. CASE 0 >= s[1] - LookbackChars
      <4>1. low = 0 /\ s[2] <= low + LookbackChars
        BY <1>1, <1>2, <1>5, <3>2, <3>3
      <4> QED
        BY <1>6, <1>7, <4>1
    <3>4. CASE ~(0 >= s[1] - LookbackChars)
      <4>1. low = s[1] - LookbackChars
        BY <1>5, <3>4
      <4>2. s[2] <= low + LookbackChars /\ low < f
        BY <1>1, <1>2, <3>1, <3>2, <4>1
      <4> QED
        BY <1>6, <1>7, <4>2
    <3> QED
      BY <3>3, <3>4
  <2> QED
    BY <2>1, <2>2
<1>14. /\ seen \in Seq(Chars) /\ Len(seen) = s[2] - low
       /\ \A i \in 1 .. s[2] - low : seen[i] = t[low + i]
  <2>1. /\ Covered(t, low, high) \in Seq(Chars)
        /\ Len(Covered(t, low, high)) = IF low <= high THEN high - low ELSE 0
        /\ \A i \in 1 .. high - low : Covered(t, low, high)[i] = t[low + i]
    BY ZenonT(30), <1>6, <1>8, CoveredProperties
  <2> QED
    BY <1>1, <1>6, <1>13, <2>1
<1> HIDE DEF seen
<1>15. token # <<>>
  BY <1>2 DEF n
<1>16. PICK start \in 0 .. Len(seen) - 1 :
         /\ n = Len(seen) - 1 - start
         /\ start = 0 \/ EndsWord(seen[start])
  BY <1>4, <1>14, <1>15, DetectedWord DEF n
<1>17. seen[Len(seen)] \in Boundaries
  BY <1>4, <1>14, <1>15, DetectedWord
<1>18. start = f - low /\ Len(seen) = s[2] - low /\ s[2] - low >= 1
  BY <1>1, <1>2, <1>6, <1>12, <1>13, <1>14, <1>16
<1>19. t[g + 1] \in Boundaries
  <2>1. s[2] - low \in 1 .. s[2] - low
    BY <1>1, <1>6, <1>18
  <2>2. seen[s[2] - low] = t[low + (s[2] - low)]
    BY <1>14, <2>1
  <2>3. low + (s[2] - low) = g + 1
    BY <1>1, <1>6, <1>12
  <2> QED
    BY <1>17, <1>18, <2>2, <2>3
<1>20. f = 0 \/ EndsWord(t[f])
  <2>1. CASE start = 0
    BY <1>1, <1>6, <1>13, <1>18, <2>1
  <2>2. CASE start # 0
    <3>1. start \in 1 .. s[2] - low /\ low + start = f
      <4>1. start \in Int /\ start >= 1 /\ start <= s[2] - low - 1
        BY <1>1, <1>6, <1>18, <2>2
      <4> QED
        BY <1>1, <1>6, <1>18, <4>1
    <3>2. seen[start] = t[f]
      BY <1>14, <3>1
    <3> QED
      BY <1>16, <2>2, <3>2
  <2> QED
    BY <2>1, <2>2
<1>21. g < Len(t)
  BY <1>1, <1>8, <1>12
<1>22. r[1] = f /\ r[2] = g /\ Covered(t, f, g) = token
  BY <1>3, <1>12
<1> QED
  BY <1>6, <1>8, <1>19, <1>20, <1>21, <1>22 DEF WholeWord

\* So is what a session that is requested covers.
LEMMA CorrectionIsRight ==
  ASSUME NEW t \in Seq(Chars), NEW s \in Selection(t),
         NEW x \in CorrectionOf(ReadTrailingToken(t, s), t, s)
  PROVE  x \in Session /\ RightSession(t, x)
<1> DEFINE token == ReadTrailingToken(t, s)
<1>1. PICK a \in Answer(token), r \in VerifiedWordRange(t, s, token) :
        x = [from |-> r[1], to |-> r[2], replacement |-> a, word |-> token,
             touched |-> FALSE, edited |-> FALSE]
  BY DEF CorrectionOf
<1>2. Len(token) \in 1 .. MaxTokenChars /\ token \in DOMAIN Corrections /\ a = Corrections[token]
  BY <1>1 DEF Answer
<1> HIDE DEF token
<1>3. token \in Seq(Letters) /\ a \in Seq(Letters)
  BY <1>2, TsfAdapterAssumption
<1>4. /\ r[1] \in Nat /\ r[2] \in Nat /\ r[1] <= r[2] /\ r[2] <= Len(t)
      /\ Covered(t, r[1], r[2]) = token
      /\ WholeWord(t, r[1], r[2])
  BY <1>1, <1>2, <1>3, VerifiedWordIsWhole DEF token
<1> QED
  BY <1>1, <1>3, <1>4 DEF Session, RightSession

-----------------------------------------------------------------------------
(* Edits.                                                                  *)

\* An edit of document d counts the sessions it adds and those that are gone.
SessionsCounted(d) ==
  /\ refs' = refs + Len(sessions'[d]) - Len(sessions[d])
  /\ \A e \in Docs \ {d} : sessions'[e] = sessions[e]

\* The callback adds sessions that are right to a queue of sessions that are right.
LEMMA CallbackIsRight ==
  ASSUME NEW d \in Docs, NEW queue \in Seq(Session), sessions \in [Docs -> Seq(Session)],
         IsFiniteSet(editSinks[d]), refs \in Nat,
         text'[d] \in Seq(Chars), sel'[d] \in Selection(text'[d]), RightSessions(text'[d], queue),
         OnEndEdit(d, queue)
  PROVE  /\ sessions' \in [Docs -> Seq(Session)]
         /\ RightSessions(text'[d], sessions'[d])
         /\ SessionsCounted(d)
<1> DEFINE t == text'[d]
           s == sel'[d]
           asked == CorrectionOf(ReadTrailingToken(t, s), t, s)
           n == Cardinality(editSinks[d])
<1>1. PICK new \in UNION {[1 .. m -> asked] : m \in 0 .. n} :
        /\ sessions' = [sessions EXCEPT ![d] = queue \o new]
        /\ refs' = refs + AddRef.session * Len(new) - Release.session * (Len(sessions[d]) - Len(queue))
  BY DEF OnEndEdit
<1>2. n \in Nat
  BY FS_CardinalityType
<1>3. \A x \in asked : x \in Session /\ RightSession(t, x)
  BY CorrectionIsRight
<1> HIDE DEF n, asked
<1>4. new \in Seq(Session) /\ \A i \in 1 .. Len(new) : new[i] \in asked
  <2>1. PICK m \in 0 .. n : new \in [1 .. m -> asked]
    BY <1>1
  <2>2. m \in Nat /\ new \in [1 .. m -> Session]
    BY <1>2, <1>3, <2>1
  <2>3. new \in Seq(Session) /\ Len(new) = m
    BY <2>2
  <2> QED
    BY <2>1, <2>3
<1>5. /\ queue \o new \in Seq(Session) /\ Len(queue \o new) = Len(queue) + Len(new)
      /\ \A i \in 1 .. Len(queue) + Len(new) :
           (queue \o new)[i] = IF i <= Len(queue) THEN queue[i] ELSE new[i - Len(queue)]
  BY <1>4, ConcatProperties
<1> DEFINE both == queue \o new
<1>6. /\ both \in Seq(Session) /\ Len(both) = Len(queue) + Len(new)
      /\ \A i \in 1 .. Len(queue) + Len(new) :
           both[i] = IF i <= Len(queue) THEN queue[i] ELSE new[i - Len(queue)]
  BY <1>5
<1>7. sessions' = [sessions EXCEPT ![d] = both]
  BY <1>1
<1> HIDE DEF both
<1>8. RightSessions(t, both)
  <2> SUFFICES ASSUME NEW i \in 1 .. Len(both) PROVE RightSession(t, both[i])
    BY DEF RightSessions
  <2>1. Len(queue) \in Nat /\ Len(new) \in Nat
    BY <1>4
  <2>2. CASE i <= Len(queue)
    BY <1>6, <2>1, <2>2 DEF RightSessions
  <2>3. CASE ~(i <= Len(queue))
    <3>1. i - Len(queue) \in 1 .. Len(new)
      BY <1>6, <2>1, <2>3
    <3>2. both[i] = new[i - Len(queue)]
      BY <1>6, <2>1, <2>3
    <3> QED
      BY <1>3, <1>4, <3>1, <3>2
  <2> QED
    BY <2>2, <2>3
<1>9. refs' = refs + Len(both) - Len(sessions[d])
  <2>1. AddRef.session = 1 /\ Release.session = 1
    BY DEF AddRef, Release
  <2>2. Len(queue) \in Nat /\ Len(new) \in Nat /\ Len(sessions[d]) \in Nat
    BY <1>4
  <2> QED
    BY <1>1, <1>6, <2>1, <2>2
<1> QED
  BY <1>6, <1>7, <1>8, <1>9 DEF SessionsCounted

\* What the callback finds no sink for asks for no session.
LEMMA NoSinkNoSession ==
  ASSUME NEW d \in Docs, NEW queue, queue = <<>>, editSinks[d] = {},
         sessions \in [Docs -> Seq(Session)], OnEndEdit(d, queue)
  PROVE  sessions'[d] = <<>>
<1>1. Cardinality(editSinks[d]) = 0
  BY FS_EmptySet
<1>2. PICK new : /\ \E S : \E m \in 0 .. 0 : new \in [1 .. m -> S]
                 /\ sessions' = [sessions EXCEPT ![d] = queue \o new]
  BY <1>1 DEF OnEndEdit
<1>3. new = <<>>
  BY <1>2
<1>4. queue \o new = <<>>
  BY <1>3
<1> QED
  BY <1>2, <1>4

\* An edit of a document keeps its text, its selection and its sessions as they should be.
LEMMA EditIsRight ==
  ASSUME DocumentsAreRight, NEW d \in Docs, IsFiniteSet(editSinks[d]), refs \in Nat,
         NEW from \in Nat, NEW to \in Nat, from <= to, to <= Len(text[d]),
         NEW new \in Seq(Chars), NEW selection \in Nat \X Nat, selection[1] <= selection[2],
         selection[2] <= Len(text[d]) + Len(new) - (to - from),
         NEW queue \in Seq(Session), RightSessions(text[d], queue),
         Edited(d, from, to, new, selection, queue)
  PROVE  DocumentsAreRight' /\ SessionsCounted(d)
<1> DEFINE t == text[d]
           u == Splice(t, from, to, new)
           moved == [i \in 1 .. Len(queue) |-> Shifted(queue[i], from, to, Len(new))]
<1>1. /\ t \in Seq(Chars) /\ text \in [Docs -> Seq(Chars)] /\ sel \in [Docs -> Nat \X Nat]
      /\ sessions \in [Docs -> Seq(Session)]
      /\ \A e \in Docs : sel[e] \in Selection(text[e]) /\ RightSessions(text[e], sessions[e])
  BY DEF DocumentsAreRight
<1>2. /\ text' = [text EXCEPT ![d] = u] /\ sel' = [sel EXCEPT ![d] = selection]
      /\ OnEndEdit(d, moved)
  BY DEF Edited
<1>3. u \in Seq(Chars) /\ Len(u) = Len(t) + Len(new) - (to - from)
  <2>1. t \in Seq(Chars) /\ to <= Len(t)
    BY <1>1
  <2> HIDE DEF t
  <2>2. IsSplice(Splice(t, from, to, new), t, from, to, new)
    BY <2>1, SpliceProperties
  <2> QED
    BY <2>2 DEF IsSplice
<1>4. /\ text'[d] = u /\ text' \in [Docs -> Seq(Chars)]
      /\ sel'[d] = selection /\ sel' \in [Docs -> Nat \X Nat]
      /\ \A e \in Docs \ {d} : text'[e] = text[e] /\ sel'[e] = sel[e]
  BY <1>1, <1>2, <1>3
<1>5. selection \in Selection(u)
  BY <1>3 DEF Selection
<1>6. \A i \in 1 .. Len(queue) :
        /\ Shifted(queue[i], from, to, Len(new)) \in Session
        /\ RightSession(u, Shifted(queue[i], from, to, Len(new)))
  <2> SUFFICES ASSUME NEW i \in 1 .. Len(queue)
               PROVE  /\ Shifted(queue[i], from, to, Len(new)) \in Session
                      /\ RightSession(u, Shifted(queue[i], from, to, Len(new)))
    OBVIOUS
  <2>1. queue[i] \in Session /\ RightSession(t, queue[i])
    BY DEF RightSessions
  <2> QED
    BY <1>1, <2>1, ShiftedIsRight
<1>7. moved \in Seq(Session) /\ RightSessions(u, moved)
  <2>1. Len(queue) \in Nat
    OBVIOUS
  <2>2. moved \in [1 .. Len(queue) -> Session] /\ \A i \in 1 .. Len(queue) : RightSession(u, moved[i])
    BY <1>6
  <2> HIDE DEF moved, u
  <2>3. moved \in Seq(Session) /\ Len(moved) = Len(queue)
    BY <2>1, <2>2
  <2> QED
    BY <2>2, <2>3 DEF RightSessions
<1> HIDE DEF moved, u
<1>8. /\ sessions' \in [Docs -> Seq(Session)] /\ RightSessions(u, sessions'[d])
      /\ SessionsCounted(d)
  BY <1>1, <1>2, <1>3, <1>4, <1>5, <1>7, CallbackIsRight
<1> QED
  BY <1>1, <1>4, <1>5, <1>8 DEF DocumentsAreRight, SessionsCounted

-----------------------------------------------------------------------------
(* The actions.                                                            *)

\* Spending leaves a budget a budget, and fault alone unless a call failed.
LEMMA SpendIsRight ==
  ASSUME spent \in [{"edit", "select", "move", "fault"} -> Nat],
         NEW what \in {"edit", "select", "move", "fault"}, Spend(what)
  PROVE  /\ spent' \in [{"edit", "select", "move", "fault"} -> Nat]
         /\ what # "fault" => spent'["fault"] = spent["fault"]
         /\ what = "fault" => spent'["fault"] # 0
BY DEF Spend

\* The application's edits.
LEMMA TypingIsRight ==
  ASSUME DocumentsAreRight, SinksAreRight, refs \in Nat,
         (\E c \in Chars : Type(c)) \/ Backspace \/ (\E s \in Selections : Select(s[1], s[2]))
  PROVE  DocumentsAreRight' /\ \E d \in Docs : SessionsCounted(d)
<1>1. focus \in Docs /\ IsFiniteSet(editSinks[focus])
  BY DEF SinksAreRight, Type, Backspace, Select
<1> DEFINE s == sel[focus]
<1>2. /\ s[1] \in Nat /\ s[2] \in Nat /\ s \in Nat \X Nat /\ s[1] <= s[2] /\ s[2] <= Len(text[focus])
      /\ Len(text[focus]) \in Nat
      /\ sessions[focus] \in Seq(Session) /\ RightSessions(text[focus], sessions[focus])
  BY <1>1 DEF DocumentsAreRight, Selection
<1>3. ASSUME NEW c \in Chars, Type(c) PROVE DocumentsAreRight' /\ SessionsCounted(focus)
  <2>1. Edited(focus, s[1], s[2], <<c>>, Caret(s[1] + 1), sessions[focus])
    BY <1>3 DEF Type
  <2>2. <<c>> \in Seq(Chars) /\ Len(<<c>>) = 1
    OBVIOUS
  <2>3. /\ Caret(s[1] + 1) \in Nat \X Nat /\ Caret(s[1] + 1)[1] <= Caret(s[1] + 1)[2]
        /\ Caret(s[1] + 1)[2] <= Len(text[focus]) + Len(<<c>>) - (s[2] - s[1])
    BY <1>2, <2>2 DEF Caret
  <2> HIDE DEF s
  <2> QED
    BY <1>1, <1>2, <2>1, <2>2, <2>3, EditIsRight
<1>4. ASSUME Backspace PROVE DocumentsAreRight' /\ SessionsCounted(focus)
  <2> DEFINE from == IF s[1] = s[2] THEN Max({0, s[1] - 1}) ELSE s[1]
  <2>1. Edited(focus, from, s[2], <<>>, Caret(from), sessions[focus])
    BY <1>4 DEF Backspace
  <2>2. from \in Nat /\ from <= s[2]
    <3>1. Max({0, s[1] - 1}) = IF 0 >= s[1] - 1 THEN 0 ELSE s[1] - 1
      BY SMTT(30), <1>2, MaxOfTwo
    <3> QED
      BY <1>2, <3>1
  <2> HIDE DEF from, s
  <2>3. <<>> \in Seq(Chars) /\ Len(<<>>) = 0
    OBVIOUS
  <2>4. /\ Caret(from) \in Nat \X Nat /\ Caret(from)[1] <= Caret(from)[2]
        /\ Caret(from)[2] <= Len(text[focus]) + Len(<<>>) - (s[2] - from)
    BY <1>2, <2>2, <2>3 DEF Caret
  <2> QED
    BY <1>1, <1>2, <2>1, <2>2, <2>3, <2>4, EditIsRight
<1>5. ASSUME NEW r \in Selections, Select(r[1], r[2])
      PROVE  DocumentsAreRight' /\ SessionsCounted(focus)
  <2>1. r[1] \in Nat /\ r[2] \in Nat /\ r[1] <= r[2] /\ r[2] <= Len(text[focus])
    BY <1>5, TsfAdapterAssumption DEF Select
  <2>2. /\ text' = text /\ sel' = [sel EXCEPT ![focus] = <<r[1], r[2]>>]
        /\ OnEndEdit(focus, sessions[focus])
    BY <1>5 DEF Select
  <2>3. /\ text'[focus] \in Seq(Chars) /\ sel' \in [Docs -> Nat \X Nat]
        /\ sel'[focus] \in Selection(text'[focus])
        /\ \A e \in Docs \ {focus} : sel'[e] = sel[e]
    BY <1>1, <2>1, <2>2 DEF DocumentsAreRight, Selection
  <2>4. RightSessions(text'[focus], sessions[focus]) /\ sessions \in [Docs -> Seq(Session)]
    BY <1>2, <2>2 DEF DocumentsAreRight
  <2>5. /\ sessions' \in [Docs -> Seq(Session)] /\ RightSessions(text'[focus], sessions'[focus])
        /\ SessionsCounted(focus)
    BY <1>1, <1>2, <2>2, <2>3, <2>4, CallbackIsRight
  <2> QED
    BY <2>2, <2>3, <2>5 DEF DocumentsAreRight, SessionsCounted
<1> QED
  BY <1>1, <1>3, <1>4, <1>5

\* The adapter's own edit: the first session of the queue, granted.
LEMMA GrantIsRight ==
  ASSUME DocumentsAreRight, SinksAreRight, refs \in Nat, NEW d \in Docs, GrantSession(d)
  PROVE  DocumentsAreRight' /\ SessionsCounted(d)
<1> DEFINE s == Head(sessions[d])
           n == Len(s.replacement)
           selection == <<Shift(sel[d][1], s.from, s.to, n), Shift(sel[d][2], s.from, s.to, n)>>
<1>1. IsFiniteSet(editSinks[d])
  BY DEF SinksAreRight
<1>2. /\ sel[d][1] \in Nat /\ sel[d][2] \in Nat /\ sel[d][1] <= sel[d][2]
      /\ sel[d][2] <= Len(text[d]) /\ Len(text[d]) \in Nat
      /\ sessions[d] \in Seq(Session) /\ RightSessions(text[d], sessions[d])
  BY DEF DocumentsAreRight, Selection
<1>3. sessions[d] # <<>> /\ Len(sessions[d]) \in Nat \ {0}
  BY <1>2, EmptySeq DEF GrantSession
<1>4. s \in Session /\ RightSession(text[d], s)
  BY <1>2, <1>3 DEF RightSessions
<1>5. Tail(sessions[d]) \in Seq(Session) /\ RightSessions(text[d], Tail(sessions[d]))
  <2>1. /\ Tail(sessions[d]) \in Seq(Session) /\ Len(Tail(sessions[d])) = Len(sessions[d]) - 1
        /\ \A i \in 1 .. Len(Tail(sessions[d])) : Tail(sessions[d])[i] = sessions[d][i + 1]
    BY <1>2, <1>3, HeadTailProperties
  <2>2. \A i \in 1 .. Len(Tail(sessions[d])) : i + 1 \in 1 .. Len(sessions[d])
    BY <1>3, <2>1
  <2> QED
    BY <1>2, <2>1, <2>2 DEF RightSessions
<1>6. /\ s.from \in Nat /\ s.to \in Nat /\ s.from <= s.to /\ s.to <= Len(text[d])
      /\ s.replacement \in Seq(Chars) /\ n \in Nat
  BY <1>4, WordsAreTexts DEF Session, RightSession
<1>7. Edited(d, s.from, s.to, s.replacement, selection, Tail(sessions[d]))
  BY DEF GrantSession, DoEditSession
<1> HIDE DEF s, n
<1>8. /\ selection \in Nat \X Nat /\ selection[1] <= selection[2]
      /\ selection[2] <= Len(text[d]) + n - (s.to - s.from)
  <2>1. /\ Shift(sel[d][1], s.from, s.to, n) \in Nat /\ Shift(sel[d][2], s.from, s.to, n) \in Nat
        /\ Shift(sel[d][1], s.from, s.to, n) <= Shift(sel[d][2], s.from, s.to, n)
        /\ Shift(sel[d][2], s.from, s.to, n) <= Len(text[d]) + n - (s.to - s.from)
    BY <1>2, <1>6, ShiftKeepsOrder
  <2> QED
    BY <2>1
<1> HIDE DEF selection
<1>9. selection[2] <= Len(text[d]) + Len(s.replacement) - (s.to - s.from)
  BY <1>8 DEF n
<1> QED
  BY <1>1, <1>5, <1>6, <1>7, <1>8, <1>9, EditIsRight

\* The image of a finite set is finite.
LEMMA ImageIsFinite ==
  ASSUME NEW S, IsFiniteSet(S), NEW f, DOMAIN f = S
  PROVE  IsFiniteSet({f[x] : x \in S})
<1> DEFINE T == {f[x] : x \in S}
           g == [x \in S |-> f[x]]
<1>1. g \in Surjection(S, T)
  BY DEF Surjection
<1> HIDE DEF g, T
<1>2. IsFiniteSet(T)
  BY <1>1, FS_Surjection
<1> QED
  BY <1>2 DEF T

\* What is counted of every document: pairs.
LEMMA ThePairs ==
  ASSUME NEW sinks
  PROVE  \A p : p \in EditSinksOf(sinks) <=> \E d \in Docs : \E k \in sinks[d] : p = <<d, k>>
<1>1. \A p : p \in EditSinksOf(sinks) <=> \E d \in Docs : p \in {d} \X sinks[d]
  BY Zenon DEF EditSinksOf
<1>2. \A d \in Docs : \A p : p \in {d} \X sinks[d] <=> \E k \in sinks[d] : p = <<d, k>>
  OBVIOUS
<1>3. ASSUME NEW p
      PROVE  (\E d \in Docs : p \in {d} \X sinks[d])
               <=> \E d \in Docs : \E k \in sinks[d] : p = <<d, k>>
  BY Zenon, <1>2
<1> QED
  BY Zenon, <1>1, <1>3

LEMMA PairsAreFinite ==
  ASSUME NEW sinks, \A d \in Docs : IsFiniteSet(sinks[d])
  PROVE  IsFiniteSet(EditSinksOf(sinks)) /\ Cardinality(EditSinksOf(sinks)) \in Nat
<1> DEFINE pairs == [d \in Docs |-> {d} \X sinks[d]]
<1>1. \A d \in Docs : IsFiniteSet(pairs[d])
  BY FS_Singleton, FS_Product
<1>2. DOMAIN pairs = Docs
  OBVIOUS
<1>3. EditSinksOf(sinks) = UNION {pairs[d] : d \in Docs}
  BY DEF EditSinksOf
<1> HIDE DEF pairs
<1>4. IsFiniteSet({pairs[d] : d \in Docs})
  BY <1>2, ImageIsFinite, TsfAdapterAssumption
<1>5. IsFiniteSet(EditSinksOf(sinks))
  BY <1>1, <1>3, <1>4, FS_UNION
<1> QED
  BY <1>5, FS_CardinalityType

\* The number changes by what changes at one document.
LEMMA CountAtOneDocument ==
  ASSUME NEW before, NEW after, NEW d \in Docs,
         \A e \in Docs : IsFiniteSet(before[e]) /\ IsFiniteSet(after[e]),
         \A e \in Docs \ {d} : after[e] = before[e]
  PROVE  Cardinality(EditSinksOf(after))
           = Cardinality(EditSinksOf(before)) - Cardinality(before[d]) + Cardinality(after[d])
<1> DEFINE rest == {p \in EditSinksOf(before) : p[1] # d}
<1>1. IsFiniteSet(rest) /\ Cardinality(rest) \in Nat
  <2>1. rest \in SUBSET EditSinksOf(before)
    OBVIOUS
  <2> HIDE DEF rest
  <2>2. IsFiniteSet(rest)
    BY <2>1, PairsAreFinite, FS_Subset
  <2> QED
    BY <2>2, FS_CardinalityType
<1>2. ASSUME NEW sinks, IsFiniteSet(sinks[d]), \A e \in Docs \ {d} : sinks[e] = before[e]
      PROVE  Cardinality(EditSinksOf(sinks)) = Cardinality(rest) + Cardinality(sinks[d])
  <2> DEFINE here == {d} \X sinks[d]
  <2>1. IsFiniteSet(here) /\ Cardinality(here) = Cardinality(sinks[d]) /\ Cardinality(sinks[d]) \in Nat
    <3>1. IsFiniteSet({d}) /\ Cardinality({d}) = 1
      BY FS_Singleton
    <3>2. IsFiniteSet(here) /\ Cardinality(here) = Cardinality({d}) * Cardinality(sinks[d])
      BY <1>2, <3>1, FS_Product
    <3>3. Cardinality(sinks[d]) \in Nat
      BY <1>2, FS_CardinalityType
    <3> HIDE DEF here
    <3> QED
      BY <3>1, <3>2, <3>3
  <2>2. \A p : p \in here <=> \E k \in sinks[d] : p = <<d, k>>
    OBVIOUS
  <2>3. \A p : p \in rest <=> \E e \in Docs : e # d /\ \E k \in before[e] : p = <<e, k>>
    <3>1. \A p : p \in EditSinksOf(before) <=> \E e \in Docs : \E k \in before[e] : p = <<e, k>>
      BY ThePairs
    <3> QED
      BY <3>1
  <2> HIDE DEF here, rest
  <2>4. \A p : p \in EditSinksOf(sinks) <=> p \in rest \/ p \in here
    <3>1. \A p : p \in EditSinksOf(sinks) <=> \E e \in Docs : \E k \in sinks[e] : p = <<e, k>>
      BY ThePairs
    <3>2. ASSUME NEW p, p \in EditSinksOf(sinks) PROVE p \in rest \/ p \in here
      <4>1. PICK e \in Docs : \E k \in sinks[e] : p = <<e, k>>
        BY <3>1, <3>2
      <4>2. CASE e = d
        BY <2>2, <4>1, <4>2
      <4>3. CASE e # d
        <5>1. \E k \in before[e] : p = <<e, k>>
          BY <1>2, <4>1, <4>3
        <5> QED
          BY <2>3, <4>3, <5>1
      <4> QED
        BY <4>2, <4>3
    <3>3. ASSUME NEW p, p \in rest PROVE p \in EditSinksOf(sinks)
      <4>1. PICK e \in Docs : e # d /\ \E k \in before[e] : p = <<e, k>>
        BY <2>3, <3>3
      <4>2. \E k \in sinks[e] : p = <<e, k>>
        BY <1>2, <4>1
      <4> QED
        BY <3>1, <4>2
    <3>4. ASSUME NEW p, p \in here PROVE p \in EditSinksOf(sinks)
      BY <2>2, <3>1, <3>4
    <3> QED
      BY <3>2, <3>3, <3>4
  <2>5. EditSinksOf(sinks) = rest \cup here
    BY <2>4
  <2>6. rest \cap here = {}
    BY <2>2, <2>3
  <2>7. Cardinality(rest \cup here) = Cardinality(rest) + Cardinality(here) - Cardinality(rest \cap here)
    BY <1>1, <2>1, FS_Union
  <2>8. Cardinality(rest \cap here) = 0
    BY <2>6, FS_EmptySet
  <2> QED
    <3>1. Cardinality(EditSinksOf(sinks)) = Cardinality(rest \cup here)
      BY Zenon, <2>5
    <3> QED
      BY <1>1, <2>1, <2>7, <2>8, <3>1
<1> HIDE DEF rest
<1>3. Cardinality(EditSinksOf(before)) = Cardinality(rest) + Cardinality(before[d])
  BY <1>2
<1>4. Cardinality(EditSinksOf(after)) = Cardinality(rest) + Cardinality(after[d])
  BY <1>2
<1>5. Cardinality(before[d]) \in Nat /\ Cardinality(after[d]) \in Nat
  BY FS_CardinalityType
<1> QED
  BY <1>1, <1>3, <1>4, <1>5

\* Sinks are only ever taken away by unadvise_edit.
LEMMA UnadviseTakesAway ==
  ASSUME SinksAreRight, NEW gone, NEW fault
  PROVE  /\ UnadviseEdit(gone, fault) \in [Docs -> SUBSET (Nat \X Nat)]
         /\ \A x \in Docs : /\ UnadviseEdit(gone, fault)[x] \subseteq editSinks[x]
                            /\ IsFiniteSet(UnadviseEdit(gone, fault)[x])
<1> DEFINE left == UnadviseEdit(gone, fault)
<1>1. editSinks \in [Docs -> SUBSET (Nat \X Nat)] /\ \A x \in Docs : IsFiniteSet(editSinks[x])
  BY DEF SinksAreRight
<1>2. left \in [Docs -> SUBSET (Nat \X Nat)] /\ \A x \in Docs : left[x] \subseteq editSinks[x]
  BY <1>1 DEF UnadviseEdit
<1> HIDE DEF left
<1>3. \A x \in Docs : IsFiniteSet(left[x])
  BY <1>1, <1>2, FS_Subset
<1> QED
  BY <1>2, <1>3 DEF left

\* advise_edit: nothing, or a pair for the document with a cookie that is not in use.
LEMMA AdviseIsRight ==
  ASSUME NEW c \in Nat, NEW left \in [Docs -> SUBSET (Nat \X Nat)],
         \A x \in Docs : IsFiniteSet(left[x]),
         NEW d \in Docs \cup {NoDoc}, NEW fault
  PROVE  /\ AdviseEdit(c, left, d, fault) \in Advised
         /\ AdviseEdit(c, left, d, fault).doc \in {d, NoDoc}
         /\ fault = "none" => AdviseEdit(c, left, d, fault).doc = d
<1>1. CASE d = NoDoc \/ fault \in {"top", "advise"}
  BY <1>1 DEF AdviseEdit, NoAdvise, Advised
<1>2. CASE ~(d = NoDoc \/ fault \in {"top", "advise"})
  <2> DEFINE own == {x \in left[d] : x[1] = c}
             second == [k \in own |-> k[2]]
             used == {k[2] : k \in own}
  <2>1. d \in Docs
    BY <1>2
  <2>2. IsFiniteSet(own)
    BY <2>1, FS_Subset
  <2>3. used = {second[k] : k \in own}
    OBVIOUS
  <2>4. IsFiniteSet({second[k] : k \in own})
    BY ZenonT(30), <2>2, ImageIsFinite
  <2>5. NewCookie(used) \in Nat
    BY <2>3, <2>4, NewCookieIsFresh
  <2>6. AdviseEdit(c, left, d, fault) = [doc |-> d, cookie |-> <<c, NewCookie(used)>>]
    BY <1>2 DEF AdviseEdit
  <2> HIDE DEF used
  <2> QED
    BY <2>1, <2>5, <2>6 DEF Advised
<1> QED
  BY <1>1, <1>2

\* Every focus sink leaves the document it was on, unless the call fails, and goes to the
\* one that has the focus now.
LEMMA SetFocusIsRight ==
  ASSUME SinksAreRight, SinksKnownOf, NothingIsLeft, NEW d \in Docs \cup {NoDoc},
         NEW fault \in {"none", "unadviseEdit", "top", "advise"}, SetFocus(d, fault)
  PROVE  SinksAreRight' /\ SinksKnownOf' /\ NothingIsLeft'
<1> DEFINE gone == {focusSinks[c] : c \in DOMAIN focusSinks}
           left == UnadviseEdit(gone, fault)
           new == [c \in DOMAIN focusSinks |-> AdviseEdit(c, left, d, fault)]
<1>1. /\ focusSinks' = new /\ focus' = d
      /\ editSinks' = [x \in Docs |-> left[x] \cup
                         {new[c].cookie : c \in {y \in DOMAIN new : new[y].doc = x}}]
      /\ told' = IF focusSinks = <<>> THEN told ELSE d
      /\ spent' = [spent EXCEPT !["move"] = @ + 1,
                                !["fault"] = IF fault = "none" THEN @ ELSE @ + 1]
      /\ UNCHANGED <<loaded, service, locks, text, sel, sessions, advise>>
  BY DEF SetFocus, docVars
<1>2. left \in [Docs -> SUBSET (Nat \X Nat)]
  BY UnadviseTakesAway
<1>3. \A x \in Docs : left[x] \subseteq editSinks[x] /\ IsFiniteSet(left[x])
  BY UnadviseTakesAway
<1>4. /\ DOMAIN focusSinks \subseteq Nat \ {NoCookie} /\ IsFiniteSet(DOMAIN focusSinks)
      /\ spent \in [{"edit", "select", "move", "fault"} -> Nat]
  BY DEF SinksAreRight
<1>5. \A c \in DOMAIN focusSinks :
        /\ AdviseEdit(c, left, d, fault) \in Advised
        /\ AdviseEdit(c, left, d, fault).doc \in {d, NoDoc}
        /\ fault = "none" => AdviseEdit(c, left, d, fault).doc = d
  <2> HIDE DEF left
  <2> QED
    BY <1>2, <1>3, <1>4, AdviseIsRight
<1>6. /\ DOMAIN new = DOMAIN focusSinks
      /\ \A c \in DOMAIN focusSinks : /\ new[c] \in Advised /\ new[c].doc \in {d, NoDoc}
                                      /\ fault = "none" => new[c].doc = d
  BY <1>5
<1>7. new \in [DOMAIN new -> Advised]
  BY <1>6
<1> DEFINE come(x) == {new[c].cookie : c \in {y \in DOMAIN new : new[y].doc = x}}
<1>8. \A x \in Docs : come(x) \subseteq Nat \X Nat /\ IsFiniteSet(come(x))
  <2> HIDE DEF new
  <2> SUFFICES ASSUME NEW x \in Docs PROVE come(x) \subseteq Nat \X Nat /\ IsFiniteSet(come(x))
    OBVIOUS
  <2> DEFINE there == {y \in DOMAIN new : new[y].doc = x}
             cookie == [c \in there |-> new[c].cookie]
  <2>1. \A c \in there : new[c] \in [doc : Docs, cookie : Nat \X Nat]
    BY <1>6, TsfAdapterAssumption DEF Advised, NoAdvise
  <2>2. come(x) \subseteq Nat \X Nat
    BY <2>1
  <2>3. IsFiniteSet(there)
    BY <1>4, <1>6, FS_Subset
  <2>4. come(x) = {cookie[c] : c \in there}
    OBVIOUS
  <2>5. IsFiniteSet({cookie[c] : c \in there})
    BY <2>3, ImageIsFinite
  <2> QED
    BY <2>2, <2>4, <2>5
<1>9. \A x \in Docs : editSinks'[x] = left[x] \cup come(x)
  BY <1>1
<1> HIDE DEF new, left, come
<1>10. \A x \in Docs : editSinks'[x] \in SUBSET (Nat \X Nat) /\ IsFiniteSet(editSinks'[x])
  <2> SUFFICES ASSUME NEW x \in Docs
               PROVE  editSinks'[x] \in SUBSET (Nat \X Nat) /\ IsFiniteSet(editSinks'[x])
    OBVIOUS
  <2>1. IsFiniteSet(left[x] \cup come(x))
    BY <1>3, <1>8, FS_Union
  <2> QED
    BY <1>2, <1>8, <1>9, <2>1
<1>11. editSinks' \in [Docs -> SUBSET (Nat \X Nat)]
  BY <1>1, <1>10
<1>12. spent' \in [{"edit", "select", "move", "fault"} -> Nat]
  BY <1>1, <1>4
<1>13. SinksAreRight'
  BY <1>1, <1>6, <1>7, <1>10, <1>11, <1>12 DEF SinksAreRight
<1>14. ASSUME spent'["fault"] = 0 PROVE spent["fault"] = 0 /\ fault = "none"
  BY <1>1, <1>4, <1>14
<1>15. ASSUME DOMAIN focusSinks = {}, \A x \in Docs : editSinks[x] = {}
       PROVE  DOMAIN focusSinks' = {} /\ \A x \in Docs : editSinks'[x] = {}
  <2>1. DOMAIN new = {}
    BY <1>6, <1>15
  <2>2. \A x \in Docs : left[x] = {} /\ come(x) = {}
    BY <1>3, <1>15, <2>1 DEF come
  <2> QED
    BY <1>1, <1>9, <2>1, <2>2
<1>16. ASSUME spent["fault"] = 0, fault = "none", service = "active"
       PROVE  /\ DOMAIN focusSinks' = {advise} /\ focusSinks'[advise].doc = told'
              /\ \A x \in Docs :
                   editSinks'[x] = IF x = told' THEN {focusSinks'[advise].cookie} ELSE {}
  <2>1. /\ DOMAIN focusSinks = {advise} /\ focusSinks[advise].doc = told
        /\ \A x \in Docs : editSinks[x] = IF x = told THEN {focusSinks[advise].cookie} ELSE {}
    BY <1>16 DEF SinksKnownOf
  <2>2. told' = d
    <3>1. focusSinks # <<>>
      BY <2>1
    <3> QED
      BY <1>1, <3>1
  <2>3. DOMAIN new = {advise} /\ new[advise].doc = d
    BY <1>6, <1>16, <2>1
  <2>4. \A x \in Docs : left[x] = {}
    <3>1. \A x \in Docs : left[x] = editSinks[x] \ {p.cookie : p \in {q \in gone : q.doc = x}}
      BY <1>16 DEF left, UnadviseEdit
    <3>2. gone = {focusSinks[advise]}
      BY <2>1
    <3> QED
      BY <2>1, <3>1, <3>2
  <2>5. \A x \in Docs : come(x) = IF x = d THEN {new[advise].cookie} ELSE {}
    BY <2>3 DEF come
  <2> QED
    BY <1>1, <1>9, <2>2, <2>3, <2>4, <2>5
<1>17. SinksKnownOf'
  BY <1>1, <1>14, <1>15, <1>16 DEF SinksKnownOf
<1>18. NothingIsLeft'
  BY <1>1, <1>15 DEF NothingIsLeft
<1> QED
  BY <1>13, <1>17, <1>18

\* Activation hands out a cookie that no other sink has; a service that is refused one has
\* none.
LEMMA ActivateIsRight ==
  ASSUME SinksAreRight, SinksKnownOf, NothingIsLeft,
         NEW fault \in {"none", "advise"}, Activate(fault)
  PROVE  SinksAreRight' /\ SinksKnownOf' /\ NothingIsLeft'
<1> DEFINE new == NewCookie(DOMAIN focusSinks)
<1>1. /\ service = "idle" /\ service' = "active" /\ told' = NoDoc
      /\ advise' = IF fault = "advise" THEN NoCookie ELSE new
      /\ focusSinks' = IF fault = "advise" THEN focusSinks
                       ELSE [c \in DOMAIN focusSinks \cup {new} |->
                               IF c = new THEN NoAdvise ELSE focusSinks[c]]
      /\ UNCHANGED <<loaded, locks, focus, text, sel, sessions, editSinks>>
  BY DEF Activate, AdvisedPair, docVars
<1>2. /\ focusSinks \in [DOMAIN focusSinks -> Advised]
      /\ DOMAIN focusSinks \subseteq Nat \ {NoCookie} /\ IsFiniteSet(DOMAIN focusSinks)
      /\ spent \in [{"edit", "select", "move", "fault"} -> Nat]
  BY DEF SinksAreRight
<1>3. /\ spent' \in [{"edit", "select", "move", "fault"} -> Nat]
      /\ spent'["fault"] = 0 => spent["fault"] = 0 /\ fault = "none"
  BY <1>2, SpendIsRight DEF Activate, Failing
<1>4. new \in Nat \ {NoCookie} /\ new \notin DOMAIN focusSinks
  BY <1>2, NewCookieIsFresh DEF NoCookie
<1> HIDE DEF new
<1>5. CASE fault = "advise"
  <2>1. focusSinks' = focusSinks /\ advise' = NoCookie
    BY <1>1, <1>5
  <2>2. SinksAreRight'
    BY <1>1, <1>3, <2>1 DEF SinksAreRight, NoCookie
  <2>3. SinksKnownOf'
    BY <1>3, <1>5 DEF SinksKnownOf
  <2>4. NothingIsLeft'
    BY <1>1 DEF NothingIsLeft
  <2> QED
    BY <2>2, <2>3, <2>4
<1>6. CASE fault = "none"
  <2>1. /\ focusSinks' = [c \in DOMAIN focusSinks \cup {new} |->
                            IF c = new THEN NoAdvise ELSE focusSinks[c]]
        /\ advise' = new
    BY <1>1, <1>6
  <2>2. NoAdvise \in Advised
    BY DEF Advised
  <2>3. /\ DOMAIN focusSinks' = DOMAIN focusSinks \cup {new}
        /\ focusSinks' \in [DOMAIN focusSinks' -> Advised]
        /\ focusSinks'[new] = NoAdvise
    BY <1>2, <2>1, <2>2
  <2>4. IsFiniteSet(DOMAIN focusSinks')
    BY <1>2, <2>3, FS_AddElement
  <2>5. DOMAIN focusSinks' \subseteq Nat \ {NoCookie} /\ advise' \in DOMAIN focusSinks' /\ advise' \in Nat
    BY <1>2, <1>4, <2>1, <2>3
  <2>6. SinksAreRight'
    BY <1>1, <1>3, <2>3, <2>4, <2>5 DEF SinksAreRight
  <2>7. SinksKnownOf'
    <3> SUFFICES ASSUME spent'["fault"] = 0
                 PROVE  /\ advise' # NoCookie /\ DOMAIN focusSinks' = {advise'}
                        /\ focusSinks'[advise'].doc = told'
                        /\ \A d \in Docs : editSinks'[d] = IF d = told'
                                                           THEN {focusSinks'[advise'].cookie} ELSE {}
      BY <1>1 DEF SinksKnownOf
    <3>1. DOMAIN focusSinks = {} /\ \A d \in Docs : editSinks[d] = {}
      BY <1>1, <1>3 DEF SinksKnownOf
    <3>2. focusSinks'[advise'].doc = told'
      BY <1>1, <2>1, <2>3 DEF NoAdvise
    <3>3. \A d \in Docs : d # told'
      BY <1>1, TsfAdapterAssumption
    <3> QED
      BY <1>1, <1>4, <2>1, <2>3, <3>1, <3>2, <3>3
  <2>8. NothingIsLeft'
    BY <1>1 DEF NothingIsLeft
  <2> QED
    BY <2>6, <2>7, <2>8
<1> QED
  BY <1>5, <1>6

\* Deactivation takes back the sink it knows of and the edit sink that one knows of.
LEMMA DeactivateIsRight ==
  ASSUME SinksAreRight, SinksKnownOf, NothingIsLeft,
         NEW fault \in {"none", "unadviseFocus", "unadviseEdit"}, Deactivate(fault)
  PROVE  SinksAreRight' /\ SinksKnownOf' /\ NothingIsLeft'
<1>1. /\ service = "active" /\ service' = "idle" /\ advise' = NoCookie
      /\ UNCHANGED <<loaded, locks, focus, told, text, sel, sessions>>
  BY DEF Deactivate, docVars
<1>2. /\ focusSinks \in [DOMAIN focusSinks -> Advised]
      /\ DOMAIN focusSinks \subseteq Nat \ {NoCookie} /\ IsFiniteSet(DOMAIN focusSinks)
      /\ spent \in [{"edit", "select", "move", "fault"} -> Nat]
      /\ editSinks \in [Docs -> SUBSET (Nat \X Nat)] /\ \A d \in Docs : IsFiniteSet(editSinks[d])
  BY DEF SinksAreRight
<1>3. /\ spent' \in [{"edit", "select", "move", "fault"} -> Nat]
      /\ spent'["fault"] = 0 => spent["fault"] = 0 /\ fault = "none"
  BY <1>2, SpendIsRight DEF Deactivate, Failing
<1>4. NothingIsLeft'
  BY <1>1 DEF NothingIsLeft
<1>5. CASE advise = NoCookie \/ fault = "unadviseFocus"
  <2>1. focusSinks' = focusSinks /\ editSinks' = editSinks
    BY <1>5 DEF Deactivate
  <2>2. SinksAreRight'
    BY <1>1, <1>3, <2>1 DEF SinksAreRight, NoCookie
  <2>3. SinksKnownOf'
    BY <1>1, <1>3, <1>5 DEF SinksKnownOf
  <2> QED
    BY <1>4, <2>2, <2>3
<1>6. CASE ~(advise = NoCookie \/ fault = "unadviseFocus")
  <2> DEFINE left == UnadviseEdit({focusSinks[advise]}, fault)
  <2>1. /\ focusSinks' = [x \in DOMAIN focusSinks \ {advise} |-> focusSinks[x]]
        /\ editSinks' = left
    BY <1>6 DEF Deactivate
  <2>2. left \in [Docs -> SUBSET (Nat \X Nat)] /\ \A d \in Docs : IsFiniteSet(left[d])
    BY UnadviseTakesAway
  <2>3. /\ DOMAIN focusSinks' = DOMAIN focusSinks \ {advise}
        /\ focusSinks' \in [DOMAIN focusSinks' -> Advised]
    BY <1>2, <2>1
  <2>4. IsFiniteSet(DOMAIN focusSinks')
    BY <1>2, <2>3, FS_RemoveElement
  <2>5. DOMAIN focusSinks' \subseteq Nat \ {NoCookie}
    BY <1>2, <2>3
  <2>6. ASSUME spent'["fault"] = 0
        PROVE  DOMAIN focusSinks' = {} /\ \A d \in Docs : editSinks'[d] = {}
    <3>1. /\ fault = "none" /\ DOMAIN focusSinks = {advise} /\ focusSinks[advise].doc = told
          /\ \A d \in Docs : editSinks[d] = IF d = told THEN {focusSinks[advise].cookie} ELSE {}
      BY <1>1, <1>3, <2>6 DEF SinksKnownOf
    <3>2. \A d \in Docs :
            left[d] = editSinks[d] \ {p.cookie : p \in {q \in {focusSinks[advise]} : q.doc = d}}
      BY <3>1 DEF UnadviseEdit
    <3> HIDE DEF left
    <3>3. \A d \in Docs : left[d] = {}
      BY <3>1, <3>2
    <3> QED
      BY <2>1, <2>3, <3>1, <3>3
  <2> HIDE DEF left
  <2>7. SinksAreRight'
    BY <1>1, <1>3, <2>1, <2>2, <2>3, <2>4, <2>5 DEF SinksAreRight, NoCookie
  <2>8. SinksKnownOf'
    BY <1>1, <2>6 DEF SinksKnownOf
  <2> QED
    BY <1>4, <2>7, <2>8
<1> QED
  BY <1>5, <1>6

-----------------------------------------------------------------------------
(* The counter.                                                            *)

\* What is counted are numbers, and so is the counter.
LEMMA CountedAreNumbers ==
  ASSUME DocumentsAreRight, SinksAreRight
  PROVE  /\ IsFiniteSet(DOMAIN focusSinks) /\ Cardinality(DOMAIN focusSinks) \in Nat
         /\ IsFiniteSet(EditSinksOf(editSinks)) /\ Cardinality(EditSinksOf(editSinks)) \in Nat
         /\ \A d \in Docs : IsFiniteSet(Waiting[d]) /\ Cardinality(Waiting[d]) = Len(sessions[d])
         /\ IsFiniteSet(EditSinksOf(Waiting)) /\ Cardinality(EditSinksOf(Waiting)) \in Nat
         /\ locks \in Nat
         /\ ObjectsAreCounted => refs \in Nat
<1>1. \A d \in Docs : IsFiniteSet(Waiting[d]) /\ Cardinality(Waiting[d]) = Len(sessions[d])
  <2> SUFFICES ASSUME NEW d \in Docs
               PROVE  IsFiniteSet(Waiting[d]) /\ Cardinality(Waiting[d]) = Len(sessions[d])
    OBVIOUS
  <2>1. Len(sessions[d]) \in Nat /\ Waiting[d] = 1 .. Len(sessions[d])
    BY DEF DocumentsAreRight, Waiting
  <2> QED
    BY <2>1, FS_Interval
<1>2. IsFiniteSet(EditSinksOf(Waiting)) /\ Cardinality(EditSinksOf(Waiting)) \in Nat
  BY <1>1, PairsAreFinite
<1>3. IsFiniteSet(EditSinksOf(editSinks)) /\ Cardinality(EditSinksOf(editSinks)) \in Nat
  BY PairsAreFinite DEF SinksAreRight
<1>4. /\ IsFiniteSet(DOMAIN focusSinks) /\ Cardinality(DOMAIN focusSinks) \in Nat
      /\ locks \in Nat
  BY FS_CardinalityType DEF SinksAreRight
<1>5. ASSUME ObjectsAreCounted PROVE refs \in Nat
  BY <1>2, <1>3, <1>4, <1>5 DEF ObjectsAreCounted
<1> QED
  BY <1>1, <1>2, <1>3, <1>4, <1>5

\* Sessions that are requested, granted and refused.
LEMMA EditsAreCounted ==
  ASSUME DocumentsAreRight, DocumentsAreRight', SinksAreRight, ObjectsAreCounted,
         NEW d \in Docs, SessionsCounted(d),
         UNCHANGED <<service, locks, focusSinks, editSinks>>
  PROVE  ObjectsAreCounted'
<1> DEFINE W == Waiting
           X == [e \in Docs |-> 1 .. Len(sessions'[e])]
<1>1. \A e \in Docs : IsFiniteSet(W[e]) /\ Cardinality(W[e]) = Len(sessions[e])
  BY CountedAreNumbers
<1>2. \A e \in Docs : IsFiniteSet(X[e]) /\ Cardinality(X[e]) = Len(sessions'[e])
  <2> SUFFICES ASSUME NEW e \in Docs
               PROVE  IsFiniteSet(X[e]) /\ Cardinality(X[e]) = Len(sessions'[e])
    OBVIOUS
  <2>1. Len(sessions'[e]) \in Nat /\ X[e] = 1 .. Len(sessions'[e])
    BY DEF DocumentsAreRight
  <2> HIDE DEF X
  <2> QED
    BY <2>1, FS_Interval
<1>3. \A e \in Docs \ {d} : X[e] = W[e]
  BY DEF SessionsCounted, Waiting
<1>4. Waiting' = X
  BY DEF Waiting
<1> HIDE DEF W, X
<1>5. Cardinality(EditSinksOf(X))
        = Cardinality(EditSinksOf(W)) - Cardinality(W[d]) + Cardinality(X[d])
  BY <1>1, <1>2, <1>3, CountAtOneDocument
<1>6. EditSinksOf(Waiting)' = EditSinksOf(X) /\ EditSinksOf(editSinks)' = EditSinksOf(editSinks)
  BY Zenon, <1>4 DEF EditSinksOf
<1>7. /\ Cardinality(EditSinksOf(Waiting)')
          = Cardinality(EditSinksOf(Waiting)) - Len(sessions[d]) + Len(sessions'[d])
      /\ Cardinality(EditSinksOf(editSinks)') = Cardinality(EditSinksOf(editSinks))
  BY <1>1, <1>2, <1>5, <1>6 DEF W
<1>8. /\ Cardinality(EditSinksOf(Waiting)) \in Nat /\ Cardinality(EditSinksOf(editSinks)) \in Nat
      /\ Cardinality(DOMAIN focusSinks) \in Nat /\ locks \in Nat /\ refs \in Nat
  BY CountedAreNumbers
<1>9. Len(sessions[d]) \in Nat /\ Len(sessions'[d]) \in Nat
  BY DEF DocumentsAreRight
<1>10. /\ service' = service /\ locks' = locks
       /\ Cardinality(DOMAIN focusSinks') = Cardinality(DOMAIN focusSinks)
       /\ refs' = refs + Len(sessions'[d]) - Len(sessions[d])
  BY DEF SessionsCounted
<1>11. refs = (IF service = "none" THEN 0 ELSE 1) + Cardinality(DOMAIN focusSinks)
               + Cardinality(EditSinksOf(editSinks)) + Cardinality(EditSinksOf(Waiting)) + locks
  BY DEF ObjectsAreCounted
<1>12. refs' = (IF service' = "none" THEN 0 ELSE 1) + Cardinality(DOMAIN focusSinks')
                + Cardinality(EditSinksOf(editSinks)') + Cardinality(EditSinksOf(Waiting)') + locks'
  <2> DEFINE f == Cardinality(DOMAIN focusSinks)
             e == Cardinality(EditSinksOf(editSinks))
             w == Cardinality(EditSinksOf(Waiting))
             m == Len(sessions[d])
             n == Len(sessions'[d])
             s == IF service = "none" THEN 0 ELSE 1
  <2>1. s \in Nat /\ f \in Nat /\ e \in Nat /\ w \in Nat /\ m \in Nat /\ n \in Nat /\ locks \in Nat /\ refs \in Nat
    BY <1>8, <1>9
  <2>2. /\ Cardinality(EditSinksOf(Waiting)') = w - m + n
        /\ Cardinality(EditSinksOf(editSinks)') = e /\ Cardinality(DOMAIN focusSinks') = f
        /\ refs' = refs + n - m
        /\ refs = s + f + e + w + locks
        /\ (IF service' = "none" THEN 0 ELSE 1) = s /\ locks' = locks
    BY <1>7, <1>10, <1>11
  <2> HIDE DEF f, e, w, m, n, s
  <2>3. refs' = s + f + e + (w - m + n) + locks
    BY <2>1, <2>2
  <2> QED
    BY Zenon, <2>2, <2>3
<1> QED
  BY Zenon, <1>12 DEF ObjectsAreCounted

\* The edit sinks that unadvise_edit leaves, and those it drops.
LEMMA DroppedAreCounted ==
  ASSUME SinksAreRight, NEW gone, NEW fault
  PROVE  LET left == UnadviseEdit(gone, fault)
         IN  /\ Dropped(editSinks, left) \in Nat
             /\ Cardinality(EditSinksOf(left)) \in Nat
             /\ Cardinality(EditSinksOf(left))
                  = Cardinality(EditSinksOf(editSinks)) - Dropped(editSinks, left)
<1> DEFINE left == UnadviseEdit(gone, fault)
           B == EditSinksOf(editSinks)
           A == EditSinksOf(left)
<1>1. \A x \in Docs : left[x] \subseteq editSinks[x] /\ IsFiniteSet(left[x])
  BY UnadviseTakesAway
<1>2. IsFiniteSet(B) /\ Cardinality(B) \in Nat
  BY PairsAreFinite DEF SinksAreRight
<1> HIDE DEF left
<1>3. IsFiniteSet(A) /\ Cardinality(A) \in Nat
  BY <1>1, PairsAreFinite
<1>4. A \subseteq B
  <2>1. \A p : p \in A <=> \E x \in Docs : \E k \in left[x] : p = <<x, k>>
    BY ThePairs
  <2>2. \A p : p \in B <=> \E x \in Docs : \E k \in editSinks[x] : p = <<x, k>>
    BY ThePairs
  <2> HIDE DEF A, B
  <2> QED
    BY <1>1, <2>1, <2>2
<1>5. Dropped(editSinks, left) = Cardinality(B \ A)
  BY DEF Dropped
<1> HIDE DEF A, B
<1>6. B \cap A = A
  BY <1>4
<1>7. Cardinality(B \ A) = Cardinality(B) - Cardinality(B \cap A) /\ IsFiniteSet(B \ A)
  BY <1>2, FS_Difference
<1>8. Cardinality(B \cap A) = Cardinality(A) /\ Cardinality(B \ A) \in Nat
  BY <1>6, <1>7, FS_CardinalityType
<1>9. Cardinality(A) = Cardinality(B) - Dropped(editSinks, left)
  BY <1>2, <1>3, <1>5, <1>7, <1>8
<1> QED
  BY <1>3, <1>5, <1>8, <1>9 DEF A, B, left

\* A sink for every focus sink whose call does not fail, and none that was there.
LEMMA AdvisedAreCounted ==
  ASSUME NEW D, IsFiniteSet(D), NEW left, NEW d \in Docs, d # NoDoc,
         NEW fault, fault \notin {"top", "advise"},
         \A x \in Docs : IsFiniteSet(left[x])
  PROVE  LET come == {AdviseEdit(c, left, d, fault).cookie : c \in D}
         IN  /\ IsFiniteSet(come) /\ Cardinality(come) = Cardinality(D)
             /\ come \cap left[d] = {}
<1> DEFINE own(c) == {x \in left[d] : x[1] = c}
           used(c) == {k[2] : k \in own(c)}
           cookie == [c \in D |-> AdviseEdit(c, left, d, fault).cookie]
           come == {cookie[c] : c \in D}
<1>1. \A c \in D : cookie[c] = <<c, NewCookie(used(c))>> /\ NewCookie(used(c)) \notin used(c)
  <2> SUFFICES ASSUME NEW c \in D
               PROVE  /\ cookie[c] = <<c, NewCookie(used(c))>>
                      /\ NewCookie(used(c)) \notin used(c)
    OBVIOUS
  <2> DEFINE mine == own(c)
             second == [k \in mine |-> k[2]]
  <2>1. IsFiniteSet(mine)
    BY FS_Subset
  <2> HIDE DEF mine
  <2>2. IsFiniteSet({second[k] : k \in mine})
    BY <2>1, ImageIsFinite
  <2>3. {second[k] : k \in mine} = used(c)
    BY DEF mine
  <2>4. NewCookie(used(c)) \notin used(c)
    <3> DEFINE U == used(c)
    <3>1. IsFiniteSet(U)
      BY Zenon, <2>2, <2>3
    <3> HIDE DEF U
    <3>2. NewCookie(U) \notin U
      BY <3>1, NewCookieIsFresh
    <3> QED
      BY <3>2 DEF U
  <2>5. AdviseEdit(c, left, d, fault) = [doc |-> d, cookie |-> <<c, NewCookie(used(c))>>]
    BY Zenon DEF AdviseEdit
  <2> QED
    BY <2>4, <2>5
<1>2. \A c, e \in D : cookie[c] = cookie[e] => c = e
  <2> HIDE DEF cookie, used
  <2> QED
    BY <1>1
<1>3. cookie \in Bijection(D, come)
  <2>1. cookie \in [D -> come]
    OBVIOUS
  <2> HIDE DEF cookie
  <2>2. cookie \in Injection(D, come)
    BY <1>2, <2>1 DEF Injection, IsInjective
  <2>3. cookie \in Surjection(D, come)
    BY <2>1 DEF Surjection
  <2> QED
    BY <2>2, <2>3 DEF Bijection
<1>4. come \cap left[d] = {}
  <2> SUFFICES ASSUME NEW c \in D, cookie[c] \in left[d] PROVE FALSE
    OBVIOUS
  <2>1. cookie[c] = <<c, NewCookie(used(c))>> /\ NewCookie(used(c)) \notin used(c)
    BY <1>1
  <2> DEFINE n == NewCookie(used(c))
  <2>2. <<c, n>> \in left[d] /\ n \notin used(c)
    BY <2>1
  <2> HIDE DEF n
  <2>3. <<c, n>> \in own(c) /\ <<c, n>>[2] = n
    BY <2>2
  <2> QED
    BY Zenon, <2>2, <2>3
<1>5. come = {AdviseEdit(c, left, d, fault).cookie : c \in D}
  OBVIOUS
<1> HIDE DEF cookie, come
<1>6. IsFiniteSet(come) /\ Cardinality(come) = Cardinality(D)
  BY <1>3, FS_Bijection DEF ExistsBijection
<1> QED
  BY Zenon, <1>4, <1>5, <1>6

\* Nothing but the service and the locks.
LEMMA SameObjects ==
  ASSUME DocumentsAreRight, SinksAreRight, ObjectsAreCounted,
         UNCHANGED <<focusSinks, editSinks, sessions>>, locks' \in Nat,
         refs' = refs - (IF service = "none" THEN 0 ELSE 1) + (IF service' = "none" THEN 0 ELSE 1)
                      - locks + locks'
  PROVE  ObjectsAreCounted'
<1>1. /\ EditSinksOf(editSinks)' = EditSinksOf(editSinks)
      /\ EditSinksOf(Waiting)' = EditSinksOf(Waiting)
      /\ DOMAIN focusSinks' = DOMAIN focusSinks
  BY Zenon DEF EditSinksOf, Waiting
<1>2. /\ Cardinality(EditSinksOf(editSinks)') = Cardinality(EditSinksOf(editSinks))
      /\ Cardinality(EditSinksOf(Waiting)') = Cardinality(EditSinksOf(Waiting))
      /\ Cardinality(DOMAIN focusSinks') = Cardinality(DOMAIN focusSinks)
  BY Zenon, <1>1
<1>3. /\ Cardinality(DOMAIN focusSinks) \in Nat
      /\ Cardinality(EditSinksOf(editSinks)) \in Nat /\ Cardinality(EditSinksOf(Waiting)) \in Nat
      /\ locks \in Nat /\ refs \in Nat
  BY CountedAreNumbers
<1> QED
  BY <1>2, <1>3 DEF ObjectsAreCounted

\* OnSetFocus: each focus sink drops the edit sink it leaves and makes another.
LEMMA SetFocusIsCounted ==
  ASSUME DocumentsAreRight, SinksAreRight, ObjectsAreCounted, NEW d \in Docs \cup {NoDoc},
         NEW fault \in {"none", "unadviseEdit", "top", "advise"}, SetFocus(d, fault)
  PROVE  ObjectsAreCounted'
<1> DEFINE left == UnadviseEdit({focusSinks[c] : c \in DOMAIN focusSinks}, fault)
           new == [c \in DOMAIN focusSinks |-> AdviseEdit(c, left, d, fault)]
           n == Cardinality(DOMAIN focusSinks)
           none == d = NoDoc \/ fault = "top"
           made == IF none THEN 0 ELSE n
           lost == Dropped(editSinks, left) + (IF fault = "advise" THEN made ELSE 0)
           come(x) == {new[c].cookie : c \in {y \in DOMAIN new : new[y].doc = x}}
           after == [x \in Docs |-> left[x] \cup come(x)]
<1>1. /\ focusSinks' = new /\ editSinks' = after
      /\ refs' = refs + AddRef.editSink * made - Release.editSink * lost
      /\ UNCHANGED <<service, locks, sessions>>
  BY DEF SetFocus, docVars
<1>2. AddRef.editSink = 1 /\ Release.editSink = 1 /\ DOMAIN new = DOMAIN focusSinks
  BY DEF AddRef, Release
<1>3. /\ IsFiniteSet(DOMAIN focusSinks) /\ n \in Nat
      /\ Cardinality(EditSinksOf(editSinks)) \in Nat /\ Cardinality(EditSinksOf(Waiting)) \in Nat
      /\ locks \in Nat /\ refs \in Nat
  BY CountedAreNumbers
<1>4. /\ Dropped(editSinks, left) \in Nat
      /\ Cardinality(EditSinksOf(left)) \in Nat
      /\ Cardinality(EditSinksOf(left))
           = Cardinality(EditSinksOf(editSinks)) - Dropped(editSinks, left)
  BY DroppedAreCounted
<1>5. \A x \in Docs : IsFiniteSet(left[x])
  BY UnadviseTakesAway
<1> HIDE DEF left
<1>6. Cardinality(EditSinksOf(after))
        = Cardinality(EditSinksOf(left)) + IF none \/ fault = "advise" THEN 0 ELSE n
  <2>1. CASE none \/ fault = "advise"
    <3>1. \A c \in DOMAIN focusSinks : new[c] = NoAdvise
      BY <2>1 DEF AdviseEdit
    <3>2. \A x \in Docs : come(x) = {}
      <4>1. \A c \in DOMAIN new : new[c].doc \notin Docs
        BY <1>2, <3>1, TsfAdapterAssumption DEF NoAdvise
      <4> HIDE DEF new
      <4> QED
        BY <4>1
    <3> HIDE DEF come
    <3>3. \A x \in Docs : after[x] = left[x]
      BY <3>2
    <3> HIDE DEF after
    <3>4. EditSinksOf(after) = EditSinksOf(left)
      <4>1. \A p : p \in EditSinksOf(after) <=> \E x \in Docs : \E k \in after[x] : p = <<x, k>>
        BY ThePairs
      <4>2. \A p : p \in EditSinksOf(left) <=> \E x \in Docs : \E k \in left[x] : p = <<x, k>>
        BY ThePairs
      <4> QED
        BY <3>3, <4>1, <4>2
    <3> HIDE DEF none
    <3>5. Cardinality(EditSinksOf(after)) = Cardinality(EditSinksOf(left))
      BY Zenon, <3>4
    <3> QED
      BY <1>4, <2>1, <3>5
  <2>2. CASE ~(none \/ fault = "advise")
    <3> DEFINE D == DOMAIN focusSinks
               cookies == {AdviseEdit(c, left, d, fault).cookie : c \in D}
    <3>1. d \in Docs /\ d # NoDoc /\ fault \notin {"top", "advise"}
      BY <2>2
    <3>2. IsFiniteSet(cookies) /\ Cardinality(cookies) = n /\ cookies \cap left[d] = {}
      BY <1>3, <1>5, <3>1, AdvisedAreCounted
    <3>3. \A c \in D : new[c] = AdviseEdit(c, left, d, fault) /\ new[c].doc = d
      BY <3>1 DEF AdviseEdit
    <3> HIDE DEF new
    <3>4. come(d) = cookies /\ \A x \in Docs \ {d} : come(x) = {}
      BY <1>2, <3>3
    <3> HIDE DEF cookies, come
    <3>5. after[d] = left[d] \cup cookies /\ \A x \in Docs \ {d} : after[x] = left[x]
      BY <3>1, <3>4
    <3> HIDE DEF after
    <3>6. IsFiniteSet(left[d] \cup cookies)
      BY <1>5, <3>1, <3>2, FS_Union
    <3>7. \A x \in Docs : IsFiniteSet(after[x])
      BY <1>5, <3>5, <3>6
    <3>8. Cardinality(EditSinksOf(after))
            = Cardinality(EditSinksOf(left)) - Cardinality(left[d]) + Cardinality(after[d])
      BY <1>5, <3>1, <3>5, <3>7, CountAtOneDocument
    <3>9. Cardinality(left[d] \cup cookies)
            = Cardinality(left[d]) + Cardinality(cookies) - Cardinality(left[d] \cap cookies)
      BY <1>5, <3>1, <3>2, FS_Union
    <3>10. Cardinality(left[d] \cap cookies) = 0
      <4>1. left[d] \cap cookies = {}
        BY <3>2
      <4> QED
        BY <4>1, FS_EmptySet
    <3>11. Cardinality(left[d]) \in Nat
      BY <1>5, <3>1, FS_CardinalityType
    <3>12. Cardinality(after[d]) = Cardinality(left[d] \cup cookies)
      BY Zenon, <3>5
    <3> HIDE DEF none
    <3> QED
      BY <1>3, <1>4, <2>2, <3>2, <3>8, <3>9, <3>10, <3>11, <3>12
  <2> QED
    BY <2>1, <2>2
<1> HIDE DEF after, new, come
<1>7. refs' = refs - Dropped(editSinks, left) + IF none \/ fault = "advise" THEN 0 ELSE n
  <2> HIDE DEF none, n
  <2> QED
    BY <1>1, <1>2, <1>3, <1>4
<1>8. /\ EditSinksOf(editSinks)' = EditSinksOf(after) /\ EditSinksOf(Waiting)' = EditSinksOf(Waiting)
      /\ DOMAIN focusSinks' = DOMAIN focusSinks
  BY Zenon, <1>1, <1>2 DEF EditSinksOf, Waiting
<1>9. /\ Cardinality(EditSinksOf(editSinks)') = Cardinality(EditSinksOf(after))
      /\ Cardinality(EditSinksOf(Waiting)') = Cardinality(EditSinksOf(Waiting))
      /\ Cardinality(DOMAIN focusSinks') = n
  BY Zenon, <1>8
<1> HIDE DEF none, n
<1> QED
  BY <1>1, <1>3, <1>4, <1>6, <1>7, <1>9 DEF ObjectsAreCounted, n

\* Activate: a focus sink, unless it is refused.
LEMMA ActivateIsCounted ==
  ASSUME DocumentsAreRight, SinksAreRight, ObjectsAreCounted,
         NEW fault \in {"none", "advise"}, Activate(fault)
  PROVE  ObjectsAreCounted'
<1> DEFINE new == NewCookie(DOMAIN focusSinks)
<1>1. /\ service = "idle" /\ service' = "active"
      /\ focusSinks' = IF fault = "advise" THEN focusSinks
                       ELSE [c \in DOMAIN focusSinks \cup {new} |->
                               IF c = new THEN NoAdvise ELSE focusSinks[c]]
      /\ refs' = refs + AddRef.focusSink - (IF fault = "advise" THEN Release.focusSink ELSE 0)
      /\ UNCHANGED <<locks, sessions, editSinks>>
  BY DEF Activate, docVars
<1>2. AddRef.focusSink = 1 /\ Release.focusSink = 1
  BY DEF AddRef, Release
<1>3. /\ IsFiniteSet(DOMAIN focusSinks) /\ Cardinality(DOMAIN focusSinks) \in Nat
      /\ Cardinality(EditSinksOf(editSinks)) \in Nat /\ Cardinality(EditSinksOf(Waiting)) \in Nat
      /\ locks \in Nat /\ refs \in Nat
  BY CountedAreNumbers
<1>4. new \notin DOMAIN focusSinks
  BY <1>3, NewCookieIsFresh
<1> HIDE DEF new
<1>5. Cardinality(DOMAIN focusSinks')
        = Cardinality(DOMAIN focusSinks) + IF fault = "advise" THEN 0 ELSE 1
  <2>1. CASE fault = "advise"
    BY <1>1, <1>3, <2>1
  <2>2. CASE fault # "advise"
    <3>1. DOMAIN focusSinks' = DOMAIN focusSinks \cup {new}
      BY <1>1, <2>2
    <3>2. Cardinality(DOMAIN focusSinks \cup {new}) = Cardinality(DOMAIN focusSinks) + 1
      BY <1>3, <1>4, FS_AddElement
    <3> QED
      BY <2>2, <3>1, <3>2
  <2> QED
    BY <2>1, <2>2
<1>6. EditSinksOf(editSinks)' = EditSinksOf(editSinks) /\ EditSinksOf(Waiting)' = EditSinksOf(Waiting)
  BY Zenon, <1>1 DEF EditSinksOf, Waiting
<1>7. /\ Cardinality(EditSinksOf(editSinks)') = Cardinality(EditSinksOf(editSinks))
      /\ Cardinality(EditSinksOf(Waiting)') = Cardinality(EditSinksOf(Waiting))
  BY Zenon, <1>6
<1> QED
  BY <1>1, <1>2, <1>3, <1>5, <1>7 DEF ObjectsAreCounted

\* Deactivate: the focus sink it knows of, and the edit sink that one knows of.
LEMMA DeactivateIsCounted ==
  ASSUME DocumentsAreRight, SinksAreRight, ObjectsAreCounted,
         NEW fault \in {"none", "unadviseFocus", "unadviseEdit"}, Deactivate(fault)
  PROVE  ObjectsAreCounted'
<1>1. /\ service = "active" /\ service' = "idle" /\ UNCHANGED <<locks, sessions>>
  BY DEF Deactivate, docVars
<1>2. AddRef.focusSink = 1 /\ Release.focusSink = 1 /\ Release.editSink = 1
  BY DEF AddRef, Release
<1>3. /\ IsFiniteSet(DOMAIN focusSinks) /\ Cardinality(DOMAIN focusSinks) \in Nat
      /\ Cardinality(EditSinksOf(editSinks)) \in Nat /\ Cardinality(EditSinksOf(Waiting)) \in Nat
      /\ locks \in Nat /\ refs \in Nat
  BY CountedAreNumbers
<1>4. EditSinksOf(Waiting)' = EditSinksOf(Waiting)
  BY Zenon, <1>1 DEF EditSinksOf, Waiting
<1>5. Cardinality(EditSinksOf(Waiting)') = Cardinality(EditSinksOf(Waiting))
  BY Zenon, <1>4
<1>6. CASE advise = NoCookie \/ fault = "unadviseFocus"
  <2>1. UNCHANGED <<focusSinks, editSinks, refs>>
    BY <1>6 DEF Deactivate
  <2>2. EditSinksOf(editSinks)' = EditSinksOf(editSinks) /\ DOMAIN focusSinks' = DOMAIN focusSinks
    BY Zenon, <2>1 DEF EditSinksOf
  <2>3. /\ Cardinality(EditSinksOf(editSinks)') = Cardinality(EditSinksOf(editSinks))
        /\ Cardinality(DOMAIN focusSinks') = Cardinality(DOMAIN focusSinks)
    BY Zenon, <2>2
  <2> QED
    BY <1>1, <1>5, <2>1, <2>3 DEF ObjectsAreCounted
<1>7. CASE ~(advise = NoCookie \/ fault = "unadviseFocus")
  <2> DEFINE left == UnadviseEdit({focusSinks[advise]}, fault)
  <2>1. /\ DOMAIN focusSinks' = DOMAIN focusSinks \ {advise}
        /\ editSinks' = left
        /\ refs' = refs - Release.focusSink - Release.editSink * Dropped(editSinks, editSinks')
    BY <1>7 DEF Deactivate
  <2>2. /\ Dropped(editSinks, left) \in Nat
        /\ Cardinality(EditSinksOf(left)) \in Nat
        /\ Cardinality(EditSinksOf(left))
             = Cardinality(EditSinksOf(editSinks)) - Dropped(editSinks, left)
    BY DroppedAreCounted
  <2> HIDE DEF left
  <2>3. EditSinksOf(editSinks)' = EditSinksOf(left) /\ Dropped(editSinks, editSinks') = Dropped(editSinks, left)
    BY Zenon, <2>1 DEF EditSinksOf
  <2>4. Cardinality(DOMAIN focusSinks \ {advise}) = Cardinality(DOMAIN focusSinks) - 1
    BY <1>3, <1>7, FS_RemoveElement DEF SinksAreRight
  <2>5. /\ Cardinality(EditSinksOf(editSinks)') = Cardinality(EditSinksOf(left))
        /\ Cardinality(DOMAIN focusSinks') = Cardinality(DOMAIN focusSinks) - 1
    BY Zenon, <2>1, <2>3, <2>4
  <2>6. refs' = refs - 1 - Dropped(editSinks, left)
    BY <1>2, <1>3, <2>1, <2>2, <2>3
  <2> QED
    BY <1>1, <1>3, <1>5, <2>2, <2>5, <2>6 DEF ObjectsAreCounted
<1> QED
  BY <1>6, <1>7

\* The module goes when nothing of it is left.
LEMMA UnloadIsRight ==
  ASSUME DocumentsAreRight, SinksAreRight, ObjectsAreCounted, Unload
  PROVE  NothingIsLeft'
<1>1. /\ refs = 0
      /\ UNCHANGED <<service, locks, focusSinks, editSinks, sessions>>
  BY DEF Unload, docVars, sinkVars
<1>2. /\ IsFiniteSet(DOMAIN focusSinks) /\ Cardinality(DOMAIN focusSinks) \in Nat
      /\ IsFiniteSet(EditSinksOf(editSinks)) /\ Cardinality(EditSinksOf(editSinks)) \in Nat
      /\ IsFiniteSet(EditSinksOf(Waiting)) /\ Cardinality(EditSinksOf(Waiting)) \in Nat
      /\ locks \in Nat
  BY CountedAreNumbers
<1>3. /\ service = "none" /\ locks = 0 /\ Cardinality(DOMAIN focusSinks) = 0
      /\ Cardinality(EditSinksOf(editSinks)) = 0 /\ Cardinality(EditSinksOf(Waiting)) = 0
  BY <1>1, <1>2 DEF ObjectsAreCounted
<1>4. DOMAIN focusSinks = {} /\ EditSinksOf(editSinks) = {} /\ EditSinksOf(Waiting) = {}
  BY <1>2, <1>3, FS_EmptySet
<1>5. \A d \in Docs : editSinks[d] = {}
  <2>1. \A p : p \in EditSinksOf(editSinks) <=> \E d \in Docs : \E k \in editSinks[d] : p = <<d, k>>
    BY ThePairs
  <2> QED
    BY <1>4, <2>1
<1>6. \A d \in Docs : sessions[d] = <<>>
  <2>1. \A p : p \in EditSinksOf(Waiting) <=> \E d \in Docs : \E k \in Waiting[d] : p = <<d, k>>
    BY ThePairs
  <2> SUFFICES ASSUME NEW d \in Docs, sessions[d] # <<>> PROVE FALSE
    OBVIOUS
  <2>2. sessions[d] \in Seq(Session)
    BY DEF DocumentsAreRight
  <2>3. 1 \in Waiting[d]
    BY <2>2, EmptySeq, LenProperties DEF Waiting
  <2> QED
    BY <1>4, <2>1, <2>3
<1> QED
  BY <1>1, <1>3, <1>4, <1>5, <1>6 DEF NothingIsLeft

-----------------------------------------------------------------------------
(* The invariant, and what follows from it.                                *)

\* While the module is not in the process, an edit finds no sink of it.
LEMMA NobodyIsCalledBack ==
  ASSUME DocumentsAreRight, NothingIsLeft, ~loaded, NEW d \in Docs, NEW queue, queue = <<>>,
         OnEndEdit(d, queue)
  PROVE  \A e \in Docs : sessions'[e] = <<>>
<1>1. editSinks[d] = {} /\ sessions \in [Docs -> Seq(Session)] /\ \A e \in Docs : sessions[e] = <<>>
  BY DEF NothingIsLeft, DocumentsAreRight
<1>2. sessions'[d] = <<>>
  BY <1>1, NoSinkNoSession
<1>3. \A e \in Docs \ {d} : sessions'[e] = sessions[e]
  BY <1>1 DEF OnEndEdit
<1> QED
  BY <1>1, <1>2, <1>3

\* The application's edits and grants leave the sinks alone.
LEMMA EditsKeepSinks ==
  ASSUME DocumentsAreRight, SinksAreRight, SinksKnownOf, NothingIsLeft,
         \/ \E c \in Chars : Type(c)
         \/ Backspace
         \/ \E s \in Selections : Select(s[1], s[2])
         \/ \E d \in Docs : GrantSession(d)
  PROVE  SinksAreRight' /\ SinksKnownOf' /\ NothingIsLeft'
<1>1. UNCHANGED <<loaded, service, locks, focus, told, advise, focusSinks, editSinks>>
  BY DEF Type, Backspace, Select, GrantSession, sinkVars
<1>2. spent \in [{"edit", "select", "move", "fault"} -> Nat]
  BY DEF SinksAreRight
<1>3. /\ spent' \in [{"edit", "select", "move", "fault"} -> Nat]
      /\ spent'["fault"] = spent["fault"]
  BY <1>2, SpendIsRight DEF Type, Backspace, Select, GrantSession
<1>4. SinksAreRight'
  BY <1>1, <1>3 DEF SinksAreRight
<1>5. SinksKnownOf'
  BY <1>1, <1>3 DEF SinksKnownOf
<1>6. ASSUME ~loaded PROVE \A d \in Docs : sessions'[d] = <<>>
  <2>1. \A d \in Docs : sessions[d] = <<>>
    BY <1>6 DEF NothingIsLeft
  <2>2. ASSUME NEW d \in Docs, NEW from, NEW to, NEW new, NEW selection,
               Edited(d, from, to, new, selection, sessions[d])
        PROVE  \A e \in Docs : sessions'[e] = <<>>
    <3> DEFINE moved == [i \in 1 .. Len(sessions[d]) |-> Shifted(sessions[d][i], from, to, Len(new))]
    <3>1. moved = <<>>
      BY <2>1
    <3>2. OnEndEdit(d, moved)
      BY <2>2 DEF Edited
    <3> HIDE DEF moved
    <3> QED
      BY <1>6, <3>1, <3>2, NobodyIsCalledBack
  <2>3. ASSUME NEW c \in Chars, Type(c) PROVE \A e \in Docs : sessions'[e] = <<>>
    <3>1. focus \in Docs
      BY <2>3 DEF Type, SinksAreRight
    <3> QED
      BY <2>2, <2>3, <3>1 DEF Type
  <2>4. ASSUME Backspace PROVE \A e \in Docs : sessions'[e] = <<>>
    <3>1. focus \in Docs
      BY <2>4 DEF Backspace, SinksAreRight
    <3> QED
      BY <2>2, <2>4, <3>1 DEF Backspace
  <2>5. ASSUME NEW s \in Selections, Select(s[1], s[2]) PROVE \A e \in Docs : sessions'[e] = <<>>
    <3>1. focus \in Docs /\ OnEndEdit(focus, sessions[focus])
      BY <2>5 DEF Select, SinksAreRight
    <3> QED
      BY <1>6, <2>1, <3>1, NobodyIsCalledBack
  <2>6. ~(\E d \in Docs : GrantSession(d))
    BY <2>1 DEF GrantSession
  <2> QED
    BY <2>3, <2>4, <2>5, <2>6
<1>7. NothingIsLeft'
  BY <1>1, <1>6 DEF NothingIsLeft
<1> QED
  BY <1>4, <1>5, <1>7

\* When the service is created, the invariant holds.
LEMMA InitIsRight == Init => InductiveInvariant
<1> SUFFICES ASSUME Init PROVE InductiveInvariant
  OBVIOUS
<1>1. DocumentsAreRight
  <2>1. text \in [Docs -> Seq(Chars)] /\ sessions = [d \in Docs |-> <<>>]
    BY TsfAdapterAssumption DEF Init
  <2>2. \A d \in Docs : Len(text[d]) \in Nat
    BY <2>1
  <2>3. sel = [d \in Docs |-> <<Len(text[d]), Len(text[d])>>]
    BY DEF Init
  <2>4. sel \in [Docs -> Nat \X Nat] /\ \A d \in Docs : sel[d] \in Selection(text[d])
    BY <2>2, <2>3 DEF Selection
  <2>5. sessions \in [Docs -> Seq(Session)] /\ \A d \in Docs : RightSessions(text[d], sessions[d])
    BY <2>1 DEF RightSessions
  <2> QED
    BY <2>1, <2>4, <2>5 DEF DocumentsAreRight
<1>2. DOMAIN focusSinks = {} /\ focusSinks \in [{} -> Advised]
  BY DEF Init
<1>3. SinksAreRight
  BY <1>2, FS_EmptySet, TsfAdapterAssumption DEF Init, SinksAreRight, NoCookie
<1>4. SinksKnownOf /\ NothingIsLeft
  BY <1>2 DEF Init, SinksKnownOf, NothingIsLeft
<1>5. ObjectsAreCounted
  <2>1. /\ Cardinality(DOMAIN focusSinks) = 0
        /\ EditSinksOf(editSinks) = {} /\ EditSinksOf(Waiting) = {}
    <3>1. \A p : p \in EditSinksOf(editSinks) <=> \E d \in Docs : \E k \in editSinks[d] : p = <<d, k>>
      BY ThePairs
    <3>2. \A p : p \in EditSinksOf(Waiting) <=> \E d \in Docs : \E k \in Waiting[d] : p = <<d, k>>
      BY ThePairs
    <3>3. \A d \in Docs : editSinks[d] = {} /\ Waiting[d] = {}
      BY DEF Init, Waiting
    <3> QED
      BY <1>2, <3>1, <3>2, <3>3, FS_EmptySet
  <2>2. /\ Cardinality(EditSinksOf(editSinks)) = 0 /\ Cardinality(EditSinksOf(Waiting)) = 0
    BY Zenon, <2>1, FS_EmptySet
  <2> QED
    BY <2>1, <2>2 DEF Init, ObjectsAreCounted
<1> QED
  BY <1>1, <1>3, <1>4, <1>5 DEF InductiveInvariant

\* Every step keeps the invariant.
LEMMA NextIsRight == InductiveInvariant /\ [Next]_vars => InductiveInvariant'
<1> SUFFICES ASSUME InductiveInvariant, [Next]_vars PROVE InductiveInvariant'
  OBVIOUS
<1>1. /\ DocumentsAreRight /\ SinksAreRight /\ SinksKnownOf /\ ObjectsAreCounted
      /\ NothingIsLeft
      /\ refs \in Nat
  BY CountedAreNumbers DEF InductiveInvariant
<1>2. ASSUME UNCHANGED <<text, sel, sessions>> PROVE DocumentsAreRight'
  BY <1>1, <1>2 DEF DocumentsAreRight
<1>3. ASSUME \/ \E c \in Chars : Type(c)
             \/ Backspace
             \/ \E s \in Selections : Select(s[1], s[2])
             \/ \E d \in Docs : GrantSession(d)
      PROVE  InductiveInvariant'
  <2>1. DocumentsAreRight' /\ \E d \in Docs : SessionsCounted(d)
    BY <1>1, <1>3, TypingIsRight, GrantIsRight
  <2>2. UNCHANGED <<service, locks, focusSinks, editSinks>>
    BY <1>3 DEF Type, Backspace, Select, GrantSession, sinkVars
  <2>3. ObjectsAreCounted'
    BY <1>1, <2>1, <2>2, EditsAreCounted
  <2>4. SinksAreRight' /\ SinksKnownOf' /\ NothingIsLeft'
    BY <1>1, <1>3, EditsKeepSinks
  <2> QED
    BY <2>1, <2>3, <2>4 DEF InductiveInvariant
<1>4. ASSUME NEW d \in Docs \cup {NoDoc}, NEW fault \in {"none", "unadviseEdit", "top", "advise"},
             SetFocus(d, fault)
      PROVE  InductiveInvariant'
  BY <1>1, <1>2, <1>4, SetFocusIsRight, SetFocusIsCounted
  DEF InductiveInvariant, SetFocus, docVars
<1>5. ASSUME NEW fault \in {"none", "advise"}, Activate(fault) PROVE InductiveInvariant'
  BY <1>1, <1>2, <1>5, ActivateIsRight, ActivateIsCounted DEF InductiveInvariant, Activate, docVars
<1>6. ASSUME NEW fault \in {"none", "unadviseFocus", "unadviseEdit"}, Deactivate(fault)
      PROVE  InductiveInvariant'
  BY <1>1, <1>2, <1>6, DeactivateIsRight, DeactivateIsCounted
  DEF InductiveInvariant, Deactivate, docVars
<1>7. ASSUME CreateInstance \/ ReleaseService PROVE InductiveInvariant'
  <2>1. /\ service # "active" /\ service' \in {"none", "idle"}
        /\ service' = "none" \/ loaded
        /\ advise' = NoCookie
        /\ UNCHANGED <<loaded, locks, focus, told, text, sel, sessions, focusSinks, editSinks, spent>>
        /\ refs' = refs - (IF service = "none" THEN 0 ELSE 1) + (IF service' = "none" THEN 0 ELSE 1)
    BY <1>1, <1>7
    DEF CreateInstance, ReleaseService, docVars, sinkVars, SinksAreRight, AddRef, Release
  <2>2. SinksAreRight'
    BY <1>1, <2>1 DEF SinksAreRight, NoCookie
  <2>3. SinksKnownOf' /\ NothingIsLeft'
    BY <1>1, <2>1 DEF SinksKnownOf, NothingIsLeft
  <2>4. ObjectsAreCounted'
    <3>1. /\ locks' \in Nat
          /\ refs' = refs - (IF service = "none" THEN 0 ELSE 1)
                         + (IF service' = "none" THEN 0 ELSE 1) - locks + locks'
      BY <1>1, <2>1 DEF SinksAreRight
    <3> QED
      BY <1>1, <2>1, <3>1, SameObjects
  <2> QED
    BY <1>2, <2>1, <2>2, <2>3, <2>4 DEF InductiveInvariant
<1>8. ASSUME NEW lock \in BOOLEAN, LockServer(lock) PROVE InductiveInvariant'
  <2>1. /\ loaded /\ locks' \in Nat
        /\ UNCHANGED <<loaded, service, focus, told, text, sel, sessions, advise, focusSinks,
                       editSinks, spent>>
        /\ refs' = refs - locks + locks'
    BY <1>1, <1>8 DEF LockServer, docVars, sinkVars, SinksAreRight
  <2>2. SinksAreRight' /\ SinksKnownOf' /\ NothingIsLeft'
    BY <1>1, <2>1 DEF SinksAreRight, SinksKnownOf, NothingIsLeft
  <2>3. ObjectsAreCounted'
    <3>1. /\ locks' \in Nat
          /\ refs' = refs - (IF service = "none" THEN 0 ELSE 1)
                         + (IF service' = "none" THEN 0 ELSE 1) - locks + locks'
      BY <1>1, <2>1 DEF SinksAreRight
    <3> QED
      BY <1>1, <2>1, <3>1, SameObjects
  <2> QED
    BY <1>2, <2>1, <2>2, <2>3 DEF InductiveInvariant
<1>9. ASSUME GetClassObject \/ Unload PROVE InductiveInvariant'
  <2>1. /\ loaded' \in BOOLEAN
        /\ UNCHANGED <<service, locks, refs, focus, told, text, sel, sessions, advise, focusSinks,
                       editSinks, spent>>
    BY <1>9 DEF GetClassObject, Unload, docVars, sinkVars
  <2>2. SinksAreRight' /\ SinksKnownOf'
    BY <1>1, <2>1 DEF SinksAreRight, SinksKnownOf
  <2>3. NothingIsLeft'
    BY <1>1, <1>9, UnloadIsRight DEF GetClassObject, NothingIsLeft
  <2>4. ObjectsAreCounted'
    <3>1. /\ locks' \in Nat
          /\ refs' = refs - (IF service = "none" THEN 0 ELSE 1)
                         + (IF service' = "none" THEN 0 ELSE 1) - locks + locks'
      BY <1>1, <2>1 DEF SinksAreRight
    <3> QED
      BY <1>1, <2>1, <3>1, SameObjects
  <2> QED
    BY <1>2, <2>1, <2>2, <2>3, <2>4 DEF InductiveInvariant
<1>10. ASSUME UNCHANGED vars PROVE InductiveInvariant'
  <2>1. UNCHANGED <<loaded, service, locks, refs, focus, told, text, sel, sessions, advise,
                    focusSinks, editSinks, spent>>
    BY <1>10 DEF vars, docVars, sinkVars
  <2>2. ObjectsAreCounted'
    <3>1. /\ locks' \in Nat
          /\ refs' = refs - (IF service = "none" THEN 0 ELSE 1)
                         + (IF service' = "none" THEN 0 ELSE 1) - locks + locks'
      BY <1>1, <2>1 DEF SinksAreRight
    <3> QED
      BY <1>1, <2>1, <3>1, SameObjects
  <2> QED
    BY <1>1, <2>1, <2>2
    DEF InductiveInvariant, DocumentsAreRight, SinksAreRight, SinksKnownOf, NothingIsLeft
<1> QED
  BY <1>3, <1>4, <1>5, <1>6, <1>7, <1>8, <1>9, <1>10 DEF Next, Host, Objects

\* The invariant behind the theorems below (all of langcheck-tsf/src/lib.rs but the
\* registration).
THEOREM AdapterInvariantHolds == Spec => []InductiveInvariant
BY InitIsRight, NextIsRight, PTL DEF Spec

\* Every selection, and every range a session waits to replace, lies in its document; a
\* service advises with a cookie the application gave it (lib.rs 263-287, 405-432).
THEOREM AdapterTypeCorrect == Spec => []TypeOK
<1>1. InductiveInvariant => TypeOK
  <2> SUFFICES ASSUME InductiveInvariant PROVE TypeOK
    OBVIOUS
  <2>1. DocumentsAreRight /\ SinksAreRight /\ refs \in Nat
    BY CountedAreNumbers DEF InductiveInvariant
  <2>2. \A c \in DOMAIN focusSinks : focusSinks[c] \in Advised
    BY <2>1 DEF SinksAreRight
  <2>3. \A d \in Docs : /\ sel[d] \in Nat \X Nat /\ sel[d][1] <= sel[d][2]
                        /\ sel[d][2] <= Len(text[d])
    BY <2>1 DEF DocumentsAreRight, Selection
  <2>4. \A d \in Docs : \A i \in 1 .. Len(sessions[d]) :
          /\ sessions[d][i] \in Session
          /\ sessions[d][i].from <= sessions[d][i].to
          /\ sessions[d][i].to <= Len(text[d])
    BY <2>1 DEF DocumentsAreRight, RightSessions, RightSession
  <2> QED
    BY <2>1, <2>2, <2>3, <2>4 DEF SinksAreRight, DocumentsAreRight, TypeOK
<1> QED
  BY AdapterInvariantHolds, <1>1, PTL

\* read_trailing_token and verified_word_range: whatever is typed, selected and replaced
\* while a session waits, it covers the word the broker was asked about, and when it is
\* requested that is a whole word, since the window is wider than the longest word
\* (lib.rs 139-189, 229-287).
THEOREM AdapterSessionsCorrect == Spec => []SessionsCoverTheirWord
<1>1. InductiveInvariant => SessionsCoverTheirWord
  BY DEF InductiveInvariant, DocumentsAreRight, RightSessions, RightSession, SessionsCoverTheirWord
<1> QED
  BY AdapterInvariantHolds, <1>1, PTL

\* Activate, OnSetFocus and Deactivate, as long as no call fails: one sink, where the focus
\* is (lib.rs 311-370, 405-432).
THEOREM AdapterSinkCorrect == Spec => []OneSinkOnTheFocus
<1>1. InductiveInvariant => OneSinkOnTheFocus
  <2>1. \A x : Cardinality({x}) = 1
    BY FS_Singleton
  <2>2. Cardinality({}) = 0
    BY FS_EmptySet
  <2> SUFFICES ASSUME SinksKnownOf, spent["fault"] = 0, NEW d \in Docs
               PROVE  Cardinality(editSinks[d]) = IF service = "active" /\ d = told THEN 1 ELSE 0
    BY DEF InductiveInvariant, OneSinkOnTheFocus
  <2>3. CASE service = "active" /\ d = told
    <3>1. editSinks[d] = {focusSinks[advise].cookie}
      BY <2>3 DEF SinksKnownOf
    <3> QED
      BY <2>1, <2>3, <3>1
  <2>4. CASE ~(service = "active" /\ d = told)
    <3>1. editSinks[d] = {}
      BY <2>4 DEF SinksKnownOf
    <3> QED
      BY <2>2, <2>4, <3>1
  <2> QED
    BY <2>3, <2>4
<1> QED
  BY AdapterInvariantHolds, <1>1, PTL

\* DllCanUnloadNow: however the calls of the adapter fail, the counter that the constructors
\* and the drops keep is zero when there is no object, and only then
\* (lib.rs 77-86, 199-212, 258-277, 302-345, 390-402, 485-491).
THEOREM AdapterUnloadCorrect == Spec => []NothingOutlivesTheModule
<1>1. InductiveInvariant => NothingOutlivesTheModule
  <2> SUFFICES ASSUME InductiveInvariant PROVE NothingOutlivesTheModule
    OBVIOUS
  <2>1. focusSinks \in [DOMAIN focusSinks -> Advised]
    BY DEF InductiveInvariant, SinksAreRight
  <2>2. DOMAIN focusSinks = {} => focusSinks = <<>>
    BY <2>1
  <2>3. ~loaded => NothingLives
    BY <2>2 DEF InductiveInvariant, NothingIsLeft, NothingLives
  <2>4. ASSUME NothingLives PROVE refs = 0
    <3>1. \A p : p \in EditSinksOf(editSinks) <=> \E d \in Docs : \E k \in editSinks[d] : p = <<d, k>>
      BY ThePairs
    <3>2. \A p : p \in EditSinksOf(Waiting) <=> \E d \in Docs : \E k \in Waiting[d] : p = <<d, k>>
      BY ThePairs
    <3>3. \A d \in Docs : editSinks[d] = {} /\ Waiting[d] = {}
      BY <2>4 DEF NothingLives, Waiting
    <3>4. DOMAIN focusSinks = {} /\ EditSinksOf(editSinks) = {} /\ EditSinksOf(Waiting) = {}
      BY <2>4, <3>1, <3>2, <3>3 DEF NothingLives
    <3>5. refs = (IF service = "none" THEN 0 ELSE 1) + 0 + 0 + 0 + locks
      BY <3>4, FS_EmptySet DEF InductiveInvariant, ObjectsAreCounted
    <3> QED
      BY <2>4, <3>5 DEF NothingLives
  <2> QED
    BY <2>3, <2>4 DEF NothingOutlivesTheModule
<1> QED
  BY AdapterInvariantHolds, <1>1, PTL

=============================================================================
