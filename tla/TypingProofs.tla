---------------------------- MODULE TypingProofs ----------------------------
(***************************************************************************)
(* What the operators of Typing return, for every value of the constants.  *)
(***************************************************************************)
EXTENDS Typing, SequenceTheorems, TLAPS

\* Erasing from the right of a sequence leaves a prefix of it, and nothing when
\* more is erased than there is.
LEMMA EraseLastProperties ==
  ASSUME NEW S, NEW s \in Seq(S), NEW n \in Nat
  PROVE  /\ EraseLast(s, n) \in Seq(S)
         /\ Len(EraseLast(s, n)) = IF n <= Len(s) THEN Len(s) - n ELSE 0
         /\ \A i \in 1 .. Len(s) - n : EraseLast(s, n)[i] = s[i]
<1>1. Len(s) \in Nat
  BY LenProperties
<1>2. \A i \in 1 .. Len(s) - n : s[i] \in S
  BY <1>1, ElementOfSeq
<1> QED
  BY <1>1, <1>2, SubSeqProperties DEF EraseLast

\* TokenState: what push, pop and clear make of a token stays a token, bounded
\* by max_token_chars.
LEMMA TokenAfterType ==
  ASSUME NEW S, NEW token \in Tokens(S), NEW kind, NEW label \in S,
         Len(token.chars) <= MaxTokenChars
  PROVE  /\ TokenAfter(token, kind, label) \in Tokens(S)
         /\ Len(TokenAfter(token, kind, label).chars) <= MaxTokenChars
<1> USE TypingAssumption
<1>1. token.chars \in Seq(S) /\ Len(token.chars) \in Nat
  BY LenProperties DEF Tokens
<1>2. EmptyToken \in Tokens(S) /\ Len(EmptyToken.chars) <= MaxTokenChars
  BY EmptySeq DEF EmptyToken, Tokens
<1>3. Push(token, label) \in Tokens(S) /\ Len(Push(token, label).chars) <= MaxTokenChars
  <2>1. /\ Append(token.chars, label) \in Seq(S)
        /\ Len(Append(token.chars, label)) = Len(token.chars) + 1
    BY <1>1, AppendProperties
  <2>2. CASE Len(token.chars) >= MaxTokenChars
    BY <2>2 DEF Push, Tokens
  <2>3. CASE ~(Len(token.chars) >= MaxTokenChars)
    BY <1>1, <2>1, <2>3 DEF Push, Tokens
  <2> QED
    BY <2>2, <2>3
<1>4. Pop(token) \in Tokens(S) /\ Len(Pop(token).chars) <= MaxTokenChars
  <2> DEFINE s == token.chars
             one == 1
  <2>1. s \in Seq(S) /\ one \in Nat
    BY <1>1
  <2> HIDE DEF s, one
  <2>2. /\ EraseLast(s, one) \in Seq(S)
        /\ Len(EraseLast(s, one)) = IF one <= Len(s) THEN Len(s) - one ELSE 0
    BY <2>1, EraseLastProperties
  <2> QED
    BY <1>1, <2>2 DEF Pop, Tokens, s, one
<1> QED
  BY <1>2, <1>3, <1>4 DEF TokenAfter

\* A batch types the replacement, or the word, and the boundary: labels only of
\* the word and of the boundary's generation.
LEMMA BatchType ==
  ASSUME NEW word \in Seq(Nat), NEW gen \in Nat
  PROVE  /\ BuildKeyActions(word, gen) \in [erase : Nat, insert : Seq(Int)]
         /\ BuildUndoKeyActions(word, gen) \in [erase : Nat, insert : Seq(Int)]
<1> USE TypingAssumption
<1>1. ReplacementText(gen) \in Seq(Int)
  BY IsASeq DEF ReplacementText
<1>2. <<gen>> \in Seq(Int)
  BY IsASeq
<1>3. word \in Seq(Int) /\ Len(word) \in Nat
  BY SeqMonotonic, LenProperties
<1> QED
  BY <1>1, <1>2, <1>3, ConcatProperties DEF BuildKeyActions, BuildUndoKeyActions

\* A prefix of a batch leaves a field a field.
LEMMA InjectedType ==
  ASSUME NEW S, NEW s \in Seq(S), NEW batch \in [erase : Nat, insert : Seq(S)],
         NEW n \in Nat, n <= BatchLen(batch)
  PROVE  Injected(s, batch, n) \in Seq(S)
<1>1. CASE n <= batch.erase
  BY <1>1, EraseLastProperties DEF Injected
<1>2. CASE ~(n <= batch.erase)
  <2>1. /\ batch.insert \in Seq(S) /\ Len(batch.insert) \in Nat
        /\ n - batch.erase \in 1 .. Len(batch.insert)
    BY <1>2, LenProperties DEF BatchLen
  <2>2. \A i \in 1 .. n - batch.erase : batch.insert[i] \in S
    BY <2>1, ElementOfSeq
  <2>3. SubSeq(batch.insert, 1, n - batch.erase) \in Seq(S)
    BY <2>1, <2>2, SubSeqProperties
  <2> QED
    BY <1>2, <2>3, EraseLastProperties, ConcatProperties DEF Injected
<1> QED
  BY <1>1, <1>2

\* A field ends with a word when the word stands, character for character, before
\* the caret.
LEMMA EndsWithPointwise ==
  ASSUME NEW S, NEW s \in Seq(S), NEW tail \in Seq(S)
  PROVE  EndsWith(s, tail) <=>
           /\ Len(tail) <= Len(s)
           /\ \A i \in 1 .. Len(tail) : s[Len(s) - Len(tail) + i] = tail[i]
<1>1. Len(s) \in Nat /\ Len(tail) \in Nat
  BY LenProperties
<1>2. CASE Len(tail) <= Len(s)
  <2> DEFINE last == SubSeq(s, Len(s) - Len(tail) + 1, Len(s))
  <2>1. \A i \in Len(s) - Len(tail) + 1 .. Len(s) : s[i] \in S
    BY <1>1, <1>2, ElementOfSeq
  <2>2. /\ last \in Seq(S)
        /\ Len(last) = IF Len(s) - Len(tail) + 1 <= Len(s)
                       THEN Len(s) - (Len(s) - Len(tail) + 1) + 1 ELSE 0
        /\ \A i \in 1 .. Len(s) - (Len(s) - Len(tail) + 1) + 1 :
             last[i] = s[Len(s) - Len(tail) + 1 + i - 1]
    BY <1>1, <1>2, <2>1, SubSeqProperties
  <2>3. EndsWith(s, tail) <=> last = tail
    BY <1>2 DEF EndsWith
  <2> HIDE DEF last
  <2>4. /\ Len(last) = Len(tail)
        /\ \A i \in 1 .. Len(tail) : last[i] = s[Len(s) - Len(tail) + i]
    BY <1>1, <1>2, <2>2
  <2>5. last = tail <=> \A i \in 1 .. Len(tail) : last[i] = tail[i]
    BY <2>2, <2>4, SeqEqual
  <2> QED
    BY <1>2, <2>3, <2>4, <2>5
<1>3. CASE ~(Len(tail) <= Len(s))
  BY <1>3 DEF EndsWith
<1> QED
  BY <1>2, <1>3

\* The same key typed into the field and pushed on the token keeps them together.
LEMMA EndsWithAppend ==
  ASSUME NEW S, NEW s \in Seq(S), NEW tail \in Seq(S), NEW label \in S,
         EndsWith(s, tail)
  PROVE  EndsWith(Append(s, label), Append(tail, label))
<1>1. /\ Len(s) \in Nat /\ Len(tail) \in Nat /\ Len(tail) <= Len(s)
      /\ \A i \in 1 .. Len(tail) : s[Len(s) - Len(tail) + i] = tail[i]
  BY LenProperties, EndsWithPointwise
<1> DEFINE longer == Append(s, label)
           grown  == Append(tail, label)
<1>2. /\ longer \in Seq(S) /\ Len(longer) = Len(s) + 1
      /\ \A i \in 1 .. Len(s) : longer[i] = s[i]
      /\ longer[Len(s) + 1] = label
  BY AppendProperties
<1>3. /\ grown \in Seq(S) /\ Len(grown) = Len(tail) + 1
      /\ \A i \in 1 .. Len(tail) : grown[i] = tail[i]
      /\ grown[Len(tail) + 1] = label
  BY AppendProperties
<1> HIDE DEF longer, grown
<1>4. EndsWith(longer, grown) <=>
        /\ Len(grown) <= Len(longer)
        /\ \A i \in 1 .. Len(grown) : longer[Len(longer) - Len(grown) + i] = grown[i]
  <2>1. longer \in Seq(S) /\ grown \in Seq(S)
    BY <1>2, <1>3
  <2> QED
    BY <2>1, EndsWithPointwise, Zenon
<1>5. ASSUME NEW i \in 1 .. Len(grown)
      PROVE  longer[Len(longer) - Len(grown) + i] = grown[i]
  <2>1. CASE i = Len(tail) + 1
    BY <1>1, <1>2, <1>3, <2>1
  <2>2. CASE i # Len(tail) + 1
    <3>1. i \in 1 .. Len(tail) /\ Len(s) - Len(tail) + i \in 1 .. Len(s)
      BY <1>1, <1>3, <2>2
    <3>2. Len(longer) - Len(grown) + i = Len(s) - Len(tail) + i
      BY <1>1, <1>2, <1>3
    <3> QED
      BY <1>1, <1>2, <1>3, <3>1, <3>2
  <2> QED
    BY <2>1, <2>2
<1>6. Len(grown) <= Len(longer)
  BY <1>1, <1>2, <1>3
<1>7. EndsWith(longer, grown)
  BY <1>4, <1>5, <1>6
<1> QED
  BY <1>7 DEF longer, grown

\* So does a Backspace that takes a character of the token.
LEMMA EndsWithErase ==
  ASSUME NEW S, NEW s \in Seq(S), NEW tail \in Seq(S), tail # <<>>,
         EndsWith(s, tail)
  PROVE  EndsWith(EraseLast(s, 1), EraseLast(tail, 1))
<1>1. /\ Len(s) \in Nat /\ Len(tail) \in Nat /\ Len(tail) <= Len(s)
      /\ \A i \in 1 .. Len(tail) : s[Len(s) - Len(tail) + i] = tail[i]
      /\ Len(tail) > 0
  BY LenProperties, EmptySeq, EndsWithPointwise
<1> DEFINE shorter == EraseLast(s, 1)
           rest    == EraseLast(tail, 1)
<1>2. /\ shorter \in Seq(S) /\ Len(shorter) = Len(s) - 1
      /\ \A i \in 1 .. Len(s) - 1 : shorter[i] = s[i]
  BY <1>1, EraseLastProperties
<1>3. /\ rest \in Seq(S) /\ Len(rest) = Len(tail) - 1
      /\ \A i \in 1 .. Len(tail) - 1 : rest[i] = tail[i]
  BY <1>1, EraseLastProperties
<1> HIDE DEF shorter, rest
<1>4. EndsWith(shorter, rest) <=>
        /\ Len(rest) <= Len(shorter)
        /\ \A i \in 1 .. Len(rest) : shorter[Len(shorter) - Len(rest) + i] = rest[i]
  <2>1. shorter \in Seq(S) /\ rest \in Seq(S)
    BY <1>2, <1>3
  <2> QED
    BY <2>1, EndsWithPointwise, ZenonT(40)
<1>5. ASSUME NEW i \in 1 .. Len(rest)
      PROVE  shorter[Len(shorter) - Len(rest) + i] = rest[i]
  <2>1. /\ Len(shorter) - Len(rest) + i = Len(s) - Len(tail) + i
        /\ Len(s) - Len(tail) + i \in 1 .. Len(s) - 1
        /\ i \in 1 .. Len(tail) - 1 /\ i \in 1 .. Len(tail)
    BY <1>1, <1>2, <1>3
  <2>2. shorter[Len(s) - Len(tail) + i] = s[Len(s) - Len(tail) + i]
    BY <1>2, <2>1
  <2> QED
    BY <1>1, <1>3, <2>1, <2>2
<1>6. Len(rest) <= Len(shorter)
  BY <1>1, <1>2, <1>3
<1>7. EndsWith(shorter, rest)
  BY <1>4, <1>5, <1>6
<1> QED
  BY <1>7 DEF shorter, rest

\* Erasing what was just typed leaves what was there.
LEMMA EraseTyped ==
  ASSUME NEW S, NEW s \in Seq(S), NEW t \in Seq(S)
  PROVE  EraseLast(s \o t, Len(t)) = s
<1>1. Len(s) \in Nat /\ Len(t) \in Nat
  BY LenProperties
<1>2. /\ s \o t \in Seq(S) /\ Len(s \o t) = Len(s) + Len(t)
      /\ \A i \in 1 .. Len(s) : (s \o t)[i] = s[i]
  BY <1>1, ConcatProperties
<1> DEFINE rest == EraseLast(s \o t, Len(t))
<1>3. /\ rest \in Seq(S)
      /\ Len(rest) = IF Len(t) <= Len(s \o t) THEN Len(s \o t) - Len(t) ELSE 0
      /\ \A i \in 1 .. Len(s \o t) - Len(t) : rest[i] = (s \o t)[i]
  BY <1>1, <1>2, EraseLastProperties
<1> HIDE DEF rest
<1>4. Len(rest) = Len(s) /\ \A i \in 1 .. Len(s) : rest[i] = s[i]
  BY <1>1, <1>2, <1>3
<1>5. rest = s
  BY <1>3, <1>4, SeqEqual
<1> QED
  BY <1>5 DEF rest

\* Typing again the word that a field ended with restores the field.
LEMMA RetypeErased ==
  ASSUME NEW S, NEW s \in Seq(S), NEW tail \in Seq(S), EndsWith(s, tail)
  PROVE  EraseLast(s, Len(tail)) \o tail = s
<1>1. /\ Len(s) \in Nat /\ Len(tail) \in Nat /\ Len(tail) <= Len(s)
      /\ \A i \in 1 .. Len(tail) : s[Len(s) - Len(tail) + i] = tail[i]
  BY LenProperties, EndsWithPointwise
<1> DEFINE front == EraseLast(s, Len(tail))
<1>2. /\ front \in Seq(S) /\ Len(front) = Len(s) - Len(tail)
      /\ \A i \in 1 .. Len(s) - Len(tail) : front[i] = s[i]
  BY <1>1, EraseLastProperties
<1> HIDE DEF front
<1> DEFINE whole == front \o tail
<1>3. /\ whole \in Seq(S) /\ Len(whole) = Len(front) + Len(tail)
      /\ \A i \in 1 .. Len(front) : whole[i] = front[i]
      /\ \A i \in Len(front) + 1 .. Len(front) + Len(tail) : whole[i] = tail[i - Len(front)]
  BY <1>1, <1>2, ConcatProperties
<1> HIDE DEF whole
<1>4. ASSUME NEW i \in 1 .. Len(s)
      PROVE  whole[i] = s[i]
  <2>1. CASE i <= Len(front)
    BY <1>1, <1>2, <1>3, <2>1
  <2>2. CASE ~(i <= Len(front))
    <3> DEFINE k == i - Len(front)
    <3>1. k \in 1 .. Len(tail) /\ Len(s) - Len(tail) + k = i
      BY <1>1, <1>2, <2>2
    <3>2. whole[i] = tail[k]
      BY <1>1, <1>2, <1>3, <2>2
    <3> HIDE DEF k
    <3> QED
      BY <1>1, <3>1, <3>2
  <2> QED
    BY <2>1, <2>2
<1>5. Len(whole) = Len(s)
  BY <1>1, <1>2, <1>3
<1>6. whole = s
  BY <1>3, <1>4, <1>5, SeqEqual
<1> QED
  BY <1>6 DEF whole, front

\* What the application makes of a key: a field over the labels it had and the key's.
LEMMA TypedType ==
  ASSUME NEW S, NEW s \in Seq(S), NEW kind, NEW label \in S
  PROVE  Typed(s, kind, label) \in Seq(S)
<1>1. EraseLast(s, 1) \in Seq(S)
  BY EraseLastProperties
<1>2. Append(s, label) \in Seq(S) /\ <<>> \in Seq(S)
  BY AppendProperties, EmptySeq
<1> QED
  BY <1>1, <1>2 DEF Typed

\* A token that is not empty after a key began with the key or before it, and it grew
\* or shrank by one character unless it overflowed.
LEMMA TokenAfterCases ==
  ASSUME NEW token \in Tokens(Nat), NEW kind \in Translated \ {"ignore"}, NEW label \in Nat,
         TokenAfter(token, kind, label).chars # <<>>
  PROVE  \/ /\ kind = "char"
            /\ TokenAfter(token, kind, label).chars = Append(token.chars, label)
            /\ TokenAfter(token, kind, label).overflowed = token.overflowed
         \/ /\ TokenAfter(token, kind, label).chars = token.chars
            /\ TokenAfter(token, kind, label).overflowed = TRUE
         \/ /\ kind = "backspace" /\ token.chars # <<>>
            /\ TokenAfter(token, kind, label).chars = EraseLast(token.chars, 1)
            /\ TokenAfter(token, kind, label).overflowed = token.overflowed
<1>1. CASE kind = "char"
  <2>1. TokenAfter(token, kind, label) = Push(token, label)
    BY <1>1 DEF TokenAfter
  <2>2. CASE Len(token.chars) >= MaxTokenChars
    BY <2>1, <2>2 DEF Push, Tokens
  <2>3. CASE ~(Len(token.chars) >= MaxTokenChars)
    BY <1>1, <2>1, <2>3 DEF Push, Tokens
  <2> QED
    BY <2>2, <2>3
<1>2. CASE kind = "backspace" /\ token.chars # <<>>
  <2>1. TokenAfter(token, kind, label) = Pop(token)
    BY <1>2 DEF TokenAfter
  <2> QED
    BY <1>2, <2>1 DEF Pop, Tokens
<1>3. CASE kind = "reset" \/ (kind = "boundary" /\ token.chars # <<>>)
  <2>1. TokenAfter(token, kind, label) = EmptyToken
    BY <1>3 DEF TokenAfter
  <2> QED
    BY <2>1 DEF EmptyToken
<1>4. CASE kind \in {"backspace", "boundary"} /\ token.chars = <<>>
  <2>1. TokenAfter(token, kind, label) = token
    BY <1>4 DEF TokenAfter
  <2> QED
    BY <1>4, <2>1
<1> QED
  BY <1>1, <1>2, <1>3, <1>4 DEF Translated

\* So its first character is the one it had, or the key's.
LEMMA TokenAfterFirst ==
  ASSUME NEW token \in Tokens(Nat), NEW kind \in Translated \ {"ignore"}, NEW label \in Nat,
         TokenAfter(token, kind, label).chars # <<>>
  PROVE  LET after == TokenAfter(token, kind, label)
         IN  \/ token.chars = <<>> /\ after.chars[1] = label
             \/ token.chars # <<>> /\ after.chars[1] = token.chars[1]
<1> DEFINE after == TokenAfter(token, kind, label)
<1>1. token.chars \in Seq(Nat) /\ Len(token.chars) \in Nat
  BY LenProperties DEF Tokens
<1>2. CASE after.chars = Append(token.chars, label)
  BY <1>1, <1>2, AppendProperties, EmptySeq
<1>3. CASE after.chars = token.chars
  BY <1>3
<1>4. CASE token.chars # <<>> /\ after.chars = EraseLast(token.chars, 1)
  <2>1. Len(token.chars) >= 1
    BY <1>1, <1>4, EmptySeq
  <2>2. /\ after.chars \in Seq(Nat)
        /\ Len(after.chars) = Len(token.chars) - 1
        /\ \A i \in 1 .. Len(token.chars) - 1 : after.chars[i] = token.chars[i]
    BY <1>1, <1>4, <2>1, EraseLastProperties
  <2>3. Len(after.chars) # 0
    BY <2>2, EmptySeq
  <2> HIDE DEF after
  <2>4. 1 \in 1 .. Len(token.chars) - 1
    <3> DEFINE n == Len(token.chars)
    <3>1. n \in Nat /\ n >= 1 /\ n - 1 # 0
      BY <1>1, <2>1, <2>2, <2>3
    <3> HIDE DEF n
    <3>2. 1 \in 1 .. n - 1
      BY <3>1
    <3> QED
      BY <3>2 DEF n
  <2>5. after.chars[1] = token.chars[1]
    BY <2>2, <2>4
  <2> QED
    BY <1>4, <2>5 DEF after
<1>5. \/ after.chars = Append(token.chars, label)
      \/ after.chars = token.chars
      \/ token.chars # <<>> /\ after.chars = EraseLast(token.chars, 1)
  BY TokenAfterCases, Zenon
<1> QED
  BY <1>2, <1>3, <1>4, <1>5

\* A batch that went out whole.
LEMMA InjectedWhole ==
  ASSUME NEW S, NEW s \in Seq(S), NEW batch \in [erase : Nat, insert : Seq(S)],
         batch.insert # <<>>
  PROVE  Injected(s, batch, BatchLen(batch)) = EraseLast(s, batch.erase) \o batch.insert
<1>1. /\ batch.insert \in Seq(S) /\ Len(batch.insert) \in Nat /\ Len(batch.insert) > 0
      /\ batch.erase \in Nat
  BY LenProperties, EmptySeq
<1> DEFINE whole == SubSeq(batch.insert, 1, Len(batch.insert))
<1>2. \A i \in 1 .. Len(batch.insert) : batch.insert[i] \in S
  BY <1>1, ElementOfSeq
<1>3. /\ whole \in Seq(S)
      /\ Len(whole) = IF 1 <= Len(batch.insert) THEN Len(batch.insert) - 1 + 1 ELSE 0
      /\ \A i \in 1 .. Len(batch.insert) - 1 + 1 : whole[i] = batch.insert[1 + i - 1]
  BY <1>1, <1>2, SubSeqProperties
<1> HIDE DEF whole
<1>4. Len(whole) = Len(batch.insert) /\ \A i \in 1 .. Len(batch.insert) : whole[i] = batch.insert[i]
  BY <1>1, <1>3
<1>5. whole = batch.insert
  BY <1>1, <1>3, <1>4, SeqEqual
<1>6. ~(BatchLen(batch) <= batch.erase) /\ BatchLen(batch) - batch.erase = Len(batch.insert)
  BY <1>1 DEF BatchLen
<1> QED
  BY <1>5, <1>6 DEF Injected, whole

\* Nor does a Backspace after a key leave anything of it.
LEMMA EraseAppended ==
  ASSUME NEW S, NEW s \in Seq(S), NEW label \in S
  PROVE  EraseLast(Append(s, label), 1) = s
<1>1. <<label>> \in Seq(S) /\ Len(<<label>>) = 1
  BY IsASeq
<1>2. Append(s, label) = s \o <<label>>
  BY AppendIsConcat
<1> QED
  BY <1>1, <1>2, EraseTyped

\* Every field ends with nothing.
LEMMA EndsWithNothing ==
  ASSUME NEW S, NEW s \in Seq(S), NEW tail \in Seq(S), tail = <<>>
  PROVE  EndsWith(s, tail)
<1>1. Len(s) \in Nat /\ Len(tail) = 0
  BY LenProperties, EmptySeq
<1>2. Len(tail) <= Len(s) /\ 1 .. Len(tail) = {}
  BY <1>1
<1> QED
  BY <1>2, EndsWithPointwise

=============================================================================
