-------------------------- MODULE KeystrokesProofs --------------------------
(***************************************************************************)
(* Whatever keys a keyboard has and however often they are pressed,        *)
(* missed, repeated and let go: the flags of the translator agree with it, *)
(* the token is the end of the text, and a completed word is a whole word. *)
(***************************************************************************)
EXTENDS Keystrokes, SequenceTheorems, TLAPS

\* What stands before the word in the session is no part of it, if its end is known.
\* After a change of the field nothing is known of the text, until a key is missed.
WordStartsClean ==
  /\ (~moved /\ ~joined /\ ~token.overflowed /\ Len(field) > Len(token.chars)) =>
       field[Len(field) - Len(token.chars)].symbol \notin WordSymbols
  /\ (moved /\ ~joined) => field = <<>>

\* FlagsAgree, and that the lock of the system is on or off.
FlagsInvariant == FlagsAgree /\ locked \in BOOLEAN

\* A modifier key has one flag, which is not that of Caps Lock.
LEMMA FlagOfModifier ==
  ASSUME NEW m \in ModifierKeys
  PROVE  FlagOf(m) \in {"shift", "ctrl", "alt", "win"} /\ m # "capital"
BY KeystrokesAssumption DEF FlagOf

\* The hook lets through what capture and the queue let through: each of the four
\* messages of a key is one for it.
LEMMA CapturedIsSeen ==
  ASSUME NEW keys, NEW down \in BOOLEAN, NEW dropped \in BOOLEAN
  PROVE  Captured(keys, down, dropped) <=> Seen(dropped)
BY DEF Captured, MessageOf, ClassifyMessage

\* What does not touch the modifier keys, nor the flags, keeps their agreement.
LEMMA OthersKeepFlags ==
  ASSUME FlagsInvariant, UNCHANGED <<held, locked, flags, doubt>>
  PROVE  FlagsInvariant'
BY DEF FlagsInvariant, FlagsAgree, IsDown, Sets

\* A modifier key, seen or missed: its own flag is put right or put in doubt, and the
\* others stay as they are.
LEMMA ModifierKeepsFlags ==
  ASSUME FlagsInvariant, NEW m \in ModifierKeys, NEW down \in BOOLEAN, NEW dropped \in BOOLEAN,
         Modifier(m, down, dropped)
  PROVE  FlagsInvariant'
<1> DEFINE flag == FlagOf(m)
<1>1. flag \in {"shift", "ctrl", "alt", "win"} /\ m # "capital"
  BY FlagOfModifier
<1>2. held' = (IF down THEN held \cup {m} ELSE held \ {m}) /\ locked' = locked
  BY DEF Modifier
<1>3. flags' = IF Seen(dropped) THEN SetFlag(flag, down) ELSE flags
  BY CapturedIsSeen DEF Modifier, ProcessModifier, NotProcessed
<1>4. doubt' = DoubtAfter(flag, m, down, Seen(dropped))
  BY DEF Modifier
<1>5. ASSUME NEW f \in Flags \ ({"caps"} \cup doubt'), f # flag
      PROVE  f \in flags' <=> IsDown(f)'
  <2>1. f \notin doubt
    BY <1>4, <1>5 DEF DoubtAfter
  <2>2. IsDown(f)' <=> IsDown(f)
    BY <1>2, <1>5 DEF IsDown, Sets
  <2>3. f \in flags' <=> f \in flags
    BY <1>3, <1>5 DEF SetFlag
  <2> QED
    BY <1>5, <2>1, <2>2, <2>3 DEF FlagsInvariant, FlagsAgree
<1>6. ASSUME flag \notin doubt'
      PROVE  flag \in flags' <=> IsDown(flag)'
  <2>1. Seen(dropped) /\ (down \/ ~\E other \in held \ {m, "capital"} : FlagOf(other) = flag)
    BY <1>4, <1>6 DEF DoubtAfter
  <2>2. flag \in flags' <=> down
    BY <1>3, <2>1 DEF SetFlag
  <2>3. CASE down
    BY <1>1, <1>2, <2>2, <2>3 DEF IsDown, Sets
  <2>4. CASE ~down
    BY <1>2, <2>1, <2>2, <2>4 DEF IsDown, Sets
  <2> QED
    BY <2>3, <2>4
<1>7. ("caps" \in doubt' <=> "caps" \in doubt) /\ ("caps" \in flags' <=> "caps" \in flags)
  BY <1>1, <1>3, <1>4 DEF DoubtAfter, SetFlag
<1>8. "caps" \in doubt' <=> ~("caps" \in flags' <=> locked')
  BY <1>2, <1>7 DEF FlagsInvariant, FlagsAgree
<1>9. \A f \in Flags \ ({"caps"} \cup doubt') : f \in flags' <=> IsDown(f)'
  BY <1>5, <1>6
<1> QED
  BY <1>2, <1>8, <1>9 DEF FlagsInvariant, FlagsAgree

\* Caps Lock: a press that the translator counts and the system does not, or the other
\* way round, turns doubt around.
LEMMA CapsLockKeepsFlags ==
  ASSUME FlagsInvariant, NEW down \in BOOLEAN, NEW dropped \in BOOLEAN, CapsLock(down, dropped)
  PROVE  FlagsInvariant'
<1> DEFINE switches == down /\ "capital" \notin held
           mirrored == (Seen(dropped) /\ down) = switches
<1>1. held' = (IF down THEN held \cup {"capital"} ELSE held \ {"capital"})
  BY DEF CapsLock
<1>2. locked' = (locked # switches)
  BY DEF CapsLock
<1>3. doubt' = IF mirrored THEN doubt
               ELSE IF "caps" \in doubt THEN doubt \ {"caps"} ELSE doubt \cup {"caps"}
  BY DEF CapsLock
<1>4. flags' = IF Seen(dropped) THEN ToggleCaps(down) ELSE flags
  BY CapturedIsSeen DEF CapsLock, ProcessModifier, NotProcessed
<1>5. \A f : IsDown(f)' <=> IsDown(f)
  BY <1>1 DEF IsDown, Sets
<1>6. \A f \in Flags \ {"caps"} : (f \in flags' <=> f \in flags) /\ (f \in doubt' <=> f \in doubt)
  BY <1>3, <1>4 DEF ToggleCaps
<1>7. \A f \in Flags \ ({"caps"} \cup doubt') : f \in flags' <=> IsDown(f)'
  BY <1>5, <1>6 DEF FlagsInvariant, FlagsAgree
<1>8. ("caps" \in flags') <=> ~(("caps" \in flags) <=> (Seen(dropped) /\ down))
  BY <1>4 DEF ToggleCaps
<1>9. ("caps" \in doubt') <=> (mirrored <=> "caps" \in doubt)
  BY <1>3
<1>10. "caps" \in doubt' <=> ~("caps" \in flags' <=> locked')
  <2>1. "caps" \in doubt <=> ~("caps" \in flags <=> locked)
    BY DEF FlagsInvariant, FlagsAgree
  <2>2. locked' <=> ~(locked <=> switches)
    BY <1>2 DEF FlagsInvariant
  <2>3. mirrored <=> ((Seen(dropped) /\ down) <=> switches)
    BY DEF Seen
  <2> HIDE DEF mirrored, switches
  <2> QED
    BY <1>8, <1>9, <2>1, <2>2, <2>3, Zenon
<1>11. locked' \in BOOLEAN
  BY <1>2
<1> QED
  BY <1>7, <1>10, <1>11 DEF FlagsInvariant, FlagsAgree

\* The flags agree when the program starts.
LEMMA InitFlags ==
  ASSUME Init
  PROVE  FlagsInvariant
<1>1. held \subseteq ModifierKeys /\ locked \in BOOLEAN /\ doubt = {FlagOf(m) : m \in held}
      /\ flags = IF locked THEN {"caps"} ELSE {}
  BY DEF Init
<1>2. "caps" \notin doubt /\ "capital" \notin held
  BY <1>1, FlagOfModifier
<1>3. \A f \in Flags \ ({"caps"} \cup doubt) : f \in flags <=> IsDown(f)
  BY <1>1 DEF IsDown, Sets
<1> QED
  BY <1>1, <1>2, <1>3 DEF FlagsInvariant, FlagsAgree

\* Every step keeps the agreement.
LEMMA NextKeepsFlags ==
  ASSUME FlagsInvariant, [Next]_vars
  PROVE  FlagsInvariant'
<1>1. ASSUME NEW key \in TextKeys, NEW dropped \in BOOLEAN, Press(key, dropped) PROVE FlagsInvariant'
  <2>1. UNCHANGED <<held, locked, flags, doubt>>
    BY <1>1 DEF Press, ProcessKey, NotProcessed
  <2> QED
    BY <2>1, OthersKeepFlags
<1>2. ASSUME NEW dropped \in BOOLEAN, Release(dropped) PROVE FlagsInvariant'
  <2>1. UNCHANGED <<held, locked, flags, doubt>>
    BY <1>2 DEF Release, ProcessKey, NotProcessed
  <2> QED
    BY <2>1, OthersKeepFlags
<1>3. ASSUME Click \/ CaptureSwitches \/ (\E safe \in BOOLEAN : FocusChanges(safe)) \/ UNCHANGED vars
      PROVE  FlagsInvariant'
  <2>1. UNCHANGED <<held, locked, flags, doubt>>
    BY <1>3 DEF Click, CaptureSwitches, FocusChanges, vars, state, ghosts
  <2> QED
    BY <2>1, OthersKeepFlags
<1> QED
  BY <1>1, <1>2, <1>3, ModifierKeepsFlags, CapsLockKeepsFlags DEF Next

\* KeyTranslator and the keyboard: with modifiers in doubt only where the property says so,
\* for any keys, any order of them, and any number of lost events (translate.rs 66-103).
THEOREM FlagsCorrect == Spec => []FlagsAgree
<1>1. Init => FlagsInvariant
  BY InitFlags
<1>2. FlagsInvariant /\ [Next]_vars => FlagsInvariant'
  BY NextKeepsFlags
<1>3. FlagsInvariant => FlagsAgree
  BY DEF FlagsInvariant
<1> QED
  BY <1>1, <1>2, <1>3, PTL DEF Spec

-----------------------------------------------------------------------------
(* The word in the session is the text of the field.                       *)

\* The end of text shows chars: symbol by symbol, and in their case if exact.
Shows(text, chars, exact) ==
  /\ Len(chars) <= Len(text)
  /\ \A i \in 1 .. Len(chars) :
       /\ text[Len(text) - Len(chars) + i].symbol = chars[i].symbol
       /\ exact => text[Len(text) - Len(chars) + i] = chars[i]

\* The end of a text, element by element.
LEMMA LastOfText ==
  ASSUME NEW S, NEW text \in Seq(S), NEW n \in Nat, n <= Len(text)
  PROVE  /\ LastOf(text, n) \in Seq(S) /\ Len(LastOf(text, n)) = n
         /\ \A i \in 1 .. n : LastOf(text, n)[i] = text[Len(text) - n + i]
<1> DEFINE m == Len(text) - n + 1
           k == Len(text)
<1>1. k \in Nat /\ m \in Int /\ m >= 1
  BY LenProperties
<1>2. \A i \in m .. k : text[i] \in S
  BY <1>1, ElementOfSeq
<1>3. /\ SubSeq(text, m, k) \in Seq(S)
      /\ Len(SubSeq(text, m, k)) = IF m <= k THEN k - m + 1 ELSE 0
      /\ \A i \in 1 .. k - m + 1 : SubSeq(text, m, k)[i] = text[m + i - 1]
  BY <1>1, <1>2, SubSeqProperties
<1>4. k - m + 1 = n /\ \A i \in 1 .. n : m + i - 1 = Len(text) - n + i
  BY <1>1
<1>5. (IF m <= k THEN k - m + 1 ELSE 0) = n
  BY <1>1
<1>6. \A i \in 1 .. n : SubSeq(text, m, k)[i] = text[Len(text) - n + i]
  BY <1>3, <1>4
<1> QED
  BY <1>3, <1>5, <1>6 DEF LastOf

\* What TokenIsTheText says of the two texts is what Shows says.
LEMMA ShowsIsText ==
  ASSUME NEW text \in Seq(Chars), NEW chars \in Seq(Chars), NEW exact \in BOOLEAN
  PROVE  Shows(text, chars, exact) <=>
           /\ Len(chars) <= Len(text)
           /\ LET shown == LastOf(text, Len(chars))
              IN  IF exact THEN shown = chars ELSE SameSymbols(shown, chars)
<1> DEFINE shown == LastOf(text, Len(chars))
<1>1. CASE ~(Len(chars) <= Len(text))
  BY <1>1 DEF Shows
<1>2. CASE Len(chars) <= Len(text)
  <2>1. Len(chars) \in Nat /\ DOMAIN chars = 1 .. Len(chars)
    BY LenProperties
  <2>2. /\ shown \in Seq(Chars) /\ Len(shown) = Len(chars)
        /\ \A i \in 1 .. Len(chars) : shown[i] = text[Len(text) - Len(chars) + i]
    BY <1>2, <2>1, LastOfText
  <2>3. DOMAIN shown = 1 .. Len(chars)
    BY <2>2, LenProperties
  <2> HIDE DEF shown
  <2>4. SameSymbols(shown, chars) <=> \A i \in 1 .. Len(chars) : shown[i].symbol = chars[i].symbol
    BY <2>1, <2>3 DEF SameSymbols
  <2>5. shown = chars <=> \A i \in 1 .. Len(chars) : shown[i] = chars[i]
    BY <2>2, SeqEqual
  <2>6. Shows(text, chars, exact) <=>
          \A i \in 1 .. Len(chars) : shown[i].symbol = chars[i].symbol /\ (exact => shown[i] = chars[i])
    BY <1>2, <2>2 DEF Shows
  <2>7. Shows(text, chars, exact) <=> IF exact THEN shown = chars ELSE SameSymbols(shown, chars)
    BY <2>4, <2>5, <2>6
  <2> QED
    BY <1>2, <2>7 DEF shown
<1> QED
  BY <1>1, <1>2

\* Every text shows the empty word.
LEMMA ShowsNothing ==
  ASSUME NEW text \in Seq(Chars), NEW exact
  PROVE  Shows(text, <<>>, exact)
BY LenProperties, EmptySeq DEF Shows

\* The field after a character, of which the beginning may be forgotten: it ends as before,
\* with the character after it.
LEMMA RememberedText ==
  ASSUME NEW text \in Seq(Chars), Len(text) <= FieldMemory, NEW g \in Chars
  PROVE  LET new == Remembered(Append(text, g))
         IN  /\ new \in Seq(Chars) /\ Len(new) \in Nat /\ Len(new) <= FieldMemory
             /\ Len(new) = IF Len(text) < FieldMemory THEN Len(text) + 1 ELSE FieldMemory
             /\ new[Len(new)] = g /\ Len(new) >= 1
             /\ \A j \in 0 .. Len(new) - 2 : new[Len(new) - 1 - j] = text[Len(text) - j]
<1> DEFINE more == Append(text, g)
           new == Remembered(more)
<1> USE KeystrokesAssumption
<1>1. Len(text) \in Nat
  BY LenProperties
<1>2. /\ more \in Seq(Chars) /\ more # <<>> /\ Len(more) = Len(text) + 1
      /\ \A i \in 1 .. Len(text) : more[i] = text[i]
      /\ more[Len(text) + 1] = g
  BY AppendProperties
<1> HIDE DEF more
<1>3. CASE Len(more) > FieldMemory
  <2>1. new = Tail(more) /\ Len(text) = FieldMemory
    BY <1>1, <1>2, <1>3 DEF Remembered
  <2>2. /\ new \in Seq(Chars) /\ Len(new) = Len(more) - 1
        /\ \A i \in 1 .. Len(new) : new[i] = more[i + 1]
    BY <1>2, <2>1, HeadTailProperties
  <2> HIDE DEF new
  <2>3. Len(new) = FieldMemory /\ FieldMemory >= 1
    BY <1>1, <1>2, <2>1, <2>2
  <2>4. new[Len(new)] = g
    BY <1>2, <2>1, <2>2, <2>3
  <2>5. ASSUME NEW j \in 0 .. Len(new) - 2
        PROVE  new[Len(new) - 1 - j] = text[Len(text) - j]
    <3>1. Len(new) - 1 - j \in 1 .. Len(new) /\ (Len(new) - 1 - j) + 1 = Len(text) - j
          /\ Len(text) - j \in 1 .. Len(text)
      BY <2>1, <2>3
    <3> QED
      BY <1>2, <2>2, <3>1
  <2>6. Len(new) = IF Len(text) < FieldMemory THEN Len(text) + 1 ELSE FieldMemory
    BY <2>1, <2>3
  <2> QED
    BY <2>2, <2>3, <2>4, <2>5, <2>6 DEF new, more
<1>4. CASE ~(Len(more) > FieldMemory)
  <2>1. new = more /\ Len(text) < FieldMemory
    BY <1>1, <1>2, <1>4 DEF Remembered
  <2> HIDE DEF new
  <2>2. \A j \in 0 .. Len(new) - 2 : new[Len(new) - 1 - j] = text[Len(text) - j]
    BY <1>1, <1>2, <2>1
  <2>3. Len(new) \in Nat /\ Len(new) <= FieldMemory /\ Len(new) >= 1
        /\ Len(new) = IF Len(text) < FieldMemory THEN Len(text) + 1 ELSE FieldMemory
    BY <1>1, <1>2, <2>1
  <2> QED
    BY <1>1, <1>2, <2>1, <2>2, <2>3 DEF new, more
<1> QED
  BY <1>3, <1>4

\* A character that goes to the field and to the session.
LEMMA ShowsAppend ==
  ASSUME NEW text \in Seq(Chars), Len(text) <= FieldMemory, NEW chars \in Seq(Chars),
         NEW exact, NEW g \in Chars, NEW c \in Chars,
         Len(chars) < FieldMemory, Shows(text, chars, exact),
         g.symbol = c.symbol, exact => g = c
  PROVE  Shows(Remembered(Append(text, g)), Append(chars, c), exact)
<1> DEFINE new == Remembered(Append(text, g))
           more == Append(chars, c)
<1> USE KeystrokesAssumption
<1>1. /\ Len(new) \in Nat /\ Len(new) >= 1 /\ new[Len(new)] = g
      /\ Len(new) = IF Len(text) < FieldMemory THEN Len(text) + 1 ELSE FieldMemory
      /\ \A j \in 0 .. Len(new) - 2 : new[Len(new) - 1 - j] = text[Len(text) - j]
  BY RememberedText
<1>2. /\ Len(more) = Len(chars) + 1 /\ more[Len(chars) + 1] = c
      /\ \A i \in 1 .. Len(chars) : more[i] = chars[i]
  BY AppendProperties
<1>3. Len(text) \in Nat /\ Len(chars) \in Nat /\ Len(chars) <= Len(text)
  BY LenProperties DEF Shows
<1> HIDE DEF new, more
<1>4. Len(more) <= Len(new)
  BY <1>1, <1>2, <1>3
<1>5. ASSUME NEW i \in 1 .. Len(more)
      PROVE  /\ new[Len(new) - Len(more) + i].symbol = more[i].symbol
             /\ exact => new[Len(new) - Len(more) + i] = more[i]
  <2>1. CASE i = Len(more)
    <3> DEFINE k == Len(new)
               l == Len(more)
    <3> HIDE DEF k, l
    <3>1. k - l + i = k
      <4>1. k \in Nat /\ l \in Nat /\ i = l
        BY <1>1, <1>2, <1>3, <2>1 DEF k, l
      <4> QED
        BY <4>1
    <3>2. more[i] = c
      BY <1>2, <2>1
    <3>3. new[Len(new) - Len(more) + i] = g
      BY <1>1, <3>1 DEF k, l
    <3> QED
      BY <3>2, <3>3
  <2>2. CASE i # Len(more)
    <3> DEFINE j == Len(chars) - i
    <3>1. i \in 1 .. Len(chars) /\ j \in 0 .. Len(new) - 2
      BY <1>1, <1>2, <1>3, <1>4, <2>2
    <3>2. Len(new) - Len(more) + i = Len(new) - 1 - j /\ Len(text) - j = Len(text) - Len(chars) + i
      BY <1>1, <1>2, <1>3, <3>1
    <3>3. new[Len(new) - Len(more) + i] = text[Len(text) - Len(chars) + i]
      BY <1>1, <3>1, <3>2
    <3> QED
      BY <1>2, <3>1, <3>3 DEF Shows
  <2> QED
    BY <2>1, <2>2
<1>6. Shows(new, more, exact)
  BY <1>4, <1>5 DEF Shows
<1> QED
  BY <1>6 DEF new, more

\* Erasing from the right of a text leaves the beginning of it.
LEMMA ErasedText ==
  ASSUME NEW S, NEW text \in Seq(S), text # <<>>
  PROVE  /\ Tok!EraseLast(text, 1) \in Seq(S)
         /\ Len(Tok!EraseLast(text, 1)) = Len(text) - 1 /\ Len(text) - 1 \in Nat
         /\ \A i \in 1 .. Len(text) - 1 : Tok!EraseLast(text, 1)[i] = text[i]
<1> DEFINE n == Len(text) - 1
<1>1. Len(text) \in Nat \ {0}
  BY EmptySeq, LenProperties
<1>2. \A i \in 1 .. n : text[i] \in S
  BY <1>1, ElementOfSeq
<1>3. n \in Nat
  BY <1>1
<1>4. /\ SubSeq(text, 1, n) \in Seq(S)
      /\ Len(SubSeq(text, 1, n)) = IF 1 <= n THEN n - 1 + 1 ELSE 0
      /\ \A i \in 1 .. n - 1 + 1 : SubSeq(text, 1, n)[i] = text[1 + i - 1]
  BY <1>2, <1>3, SubSeqProperties
<1>5. Tok!EraseLast(text, 1) = SubSeq(text, 1, n)
  BY DEF Tok!EraseLast
<1> HIDE DEF n
<1>6. Len(SubSeq(text, 1, n)) = n /\ \A i \in 1 .. n : SubSeq(text, 1, n)[i] = text[i]
  BY <1>3, <1>4
<1> QED
  BY <1>3, <1>4, <1>5, <1>6 DEF n

\* A Backspace that goes to both.
LEMMA ShowsErased ==
  ASSUME NEW text \in Seq(Chars), NEW chars \in Seq(Chars), NEW exact,
         chars # <<>>, Shows(text, chars, exact)
  PROVE  /\ text # <<>>
         /\ Shows(Tok!EraseLast(text, 1), Tok!EraseLast(chars, 1), exact)
<1> DEFINE less == Tok!EraseLast(text, 1)
           rest == Tok!EraseLast(chars, 1)
<1>1. Len(chars) \in Nat \ {0} /\ Len(text) \in Nat /\ Len(chars) <= Len(text)
  BY EmptySeq, LenProperties DEF Shows
<1>2. text # <<>>
  BY <1>1, EmptySeq
<1>3. Len(less) = Len(text) - 1 /\ \A i \in 1 .. Len(text) - 1 : less[i] = text[i]
  BY <1>2, ErasedText
<1>4. Len(rest) = Len(chars) - 1 /\ \A i \in 1 .. Len(chars) - 1 : rest[i] = chars[i]
  BY ErasedText
<1> HIDE DEF less, rest
<1>5. ASSUME NEW i \in 1 .. Len(rest)
      PROVE  /\ less[Len(less) - Len(rest) + i].symbol = rest[i].symbol
             /\ exact => less[Len(less) - Len(rest) + i] = rest[i]
  <2> DEFINE at == Len(text) - Len(chars) + i
  <2>1. i \in 1 .. Len(chars) /\ i \in 1 .. Len(chars) - 1 /\ at \in 1 .. Len(text) - 1
    BY <1>1, <1>4
  <2>2. Len(less) - Len(rest) + i = at
    BY <1>1, <1>3, <1>4
  <2>3. less[at] = text[at] /\ rest[i] = chars[i]
    BY <1>3, <1>4, <2>1
  <2>4. text[at].symbol = chars[i].symbol /\ (exact => text[at] = chars[i])
    BY <2>1 DEF Shows
  <2> QED
    BY <2>2, <2>3, <2>4
<1>6. Len(rest) <= Len(less)
  BY <1>1, <1>3, <1>4
<1> QED
  BY <1>2, <1>5, <1>6 DEF Shows, less, rest

-----------------------------------------------------------------------------
(* What the translator makes of a key, and what the field makes of it.     *)

\* The key of a letter.
LEMMA LetterKey ==
  ASSUME NEW key \in Letters, NEW shift \in BOOLEAN, NEW caps \in BOOLEAN
  PROVE  /\ TranslateKey(key, shift, caps) = [kind |-> "char", char |-> Char(key, shift # caps)]
         /\ key \notin DOMAIN Shifted \cup NavigationKeys \cup {"back"}
<1>1. key \notin DOMAIN Shifted \cup NavigationKeys \cup {"back"} \cup Glyphs
  BY KeystrokesAssumption
<1>2. key \notin {"1", "2", "space", "period", "comma", "oem_1", "oem_2", "oem_7", "minus", "oem_5",
                "back"}
  BY <1>1 DEF Shifted, Digits
<1> DEFINE up == shift # caps
<1> HIDE DEF up
<1>3. TranslateKey(key, shift, caps) = [kind |-> "char", char |-> Char(key, up)]
  BY <1>2 DEF TranslateKey, Digits, up
<1> QED
  BY <1>1, <1>3 DEF up

\* The key of another symbol: a character, a boundary, or a symbol that ends the word.
LEMMA SymbolKey ==
  ASSUME NEW key \in DOMAIN Shifted, NEW shift \in BOOLEAN, NEW caps \in BOOLEAN
  PROVE  LET glyph == Shifted[key][IF shift THEN 2 ELSE 1]
             action == TranslateKey(key, shift, caps)
         IN  /\ glyph \in Glyphs
             /\ \/ action = [kind |-> "char", char |-> Char(glyph, FALSE)] /\ glyph \in WordSymbols
                \/ action = [kind |-> "boundary", char |-> Char(glyph, FALSE)] /\ glyph \notin WordSymbols
                \/ action = [kind |-> "reset"] /\ glyph \notin WordSymbols
<1> DEFINE glyph == Shifted[key][IF shift THEN 2 ELSE 1]
           action == TranslateKey(key, shift, caps)
<1>1. key \notin Letters /\ glyph \in Glyphs
  BY KeystrokesAssumption DEF Glyphs
<1>2. glyph \notin Letters
  BY <1>1, KeystrokesAssumption
<1>3. key \in {"1", "2", "space", "period", "comma", "oem_1", "oem_2", "oem_7", "minus", "oem_5"}
  BY DEF Shifted, Digits
<1>4. \/ action = [kind |-> "char", char |-> Char(glyph, FALSE)]
         /\ glyph \in {"1", "'", "/", "-", "_"}
      \/ action = [kind |-> "boundary", char |-> Char(glyph, FALSE)]
         /\ glyph \notin {"1", "'", "/", "-", "_"}
      \/ action = [kind |-> "reset"] /\ glyph \notin {"1", "'", "/", "-", "_"}
  <2>1. CASE shift
    <3>1. glyph = Shifted[key][2]
      BY <2>1
    <3> QED
      BY ZenonT(30), <1>1, <1>3, <2>1, <3>1 DEF Shifted, Digits, TranslateKey, BoundaryOrReset
  <2>2. CASE ~shift
    <3>1. glyph = Shifted[key][1]
      BY <2>2
    <3> QED
      BY ZenonT(30), <1>1, <1>3, <2>2, <3>1 DEF Shifted, Digits, TranslateKey, BoundaryOrReset
  <2> QED
    BY <2>1, <2>2
<1> QED
  BY <1>1, <1>2, <1>4 DEF WordSymbols

\* The keys that move the caret, and Backspace.
LEMMA OtherKeys ==
  ASSUME NEW shift, NEW caps
  PROVE  /\ TranslateKey("back", shift, caps) = [kind |-> "backspace"]
         /\ \A key \in NavigationKeys : TranslateKey(key, shift, caps) = [kind |-> "reset"]
         /\ "back" \notin DOMAIN Shifted \cup NavigationKeys
         /\ NavigationKeys \cap DOMAIN Shifted = {}
<1>1. Letters \cap (NavigationKeys \cup {"back"}) = {}
  BY KeystrokesAssumption
<1> QED
  BY <1>1 DEF TranslateKey, NavigationKeys, Digits, Shifted

\* A key, read under whatever flags, is one of the five actions, with a character of the field.
LEMMA TranslateType ==
  ASSUME NEW key \in TextKeys
  PROVE  \/ Translate(key).kind \in {"char", "boundary"} /\ Translate(key).char \in Chars
         \/ Translate(key).kind \in {"backspace", "reset"}
<1> DEFINE shift == "shift" \in flags
           caps == "caps" \in flags
<1>1. CASE flags \cap CommandFlags # {}
  BY <1>1 DEF Translate
<1>2. CASE ~(flags \cap CommandFlags # {})
  <2>1. Translate(key) = TranslateKey(key, shift, caps) /\ shift \in BOOLEAN /\ caps \in BOOLEAN
    BY <1>2 DEF Translate
  <2> HIDE DEF shift, caps
  <2>2. CASE key \in Letters
    <3>1. Translate(key).kind = "char" /\ Translate(key).char = Char(key, shift # caps)
      <4>1. TranslateKey(key, shift, caps) = [kind |-> "char", char |-> Char(key, shift # caps)]
        BY <2>1, <2>2, LetterKey, Zenon
      <4> DEFINE c == Char(key, shift # caps)
      <4> HIDE DEF c
      <4>2. Translate(key) = [kind |-> "char", char |-> c]
        BY <2>1, <4>1, Zenon DEF c
      <4>3. Translate(key).kind = "char" /\ Translate(key).char = c
        BY <4>2
      <4> QED
        BY <4>3 DEF c
    <3>2. \A up \in BOOLEAN : Char(key, up) \in Chars
      BY <2>2 DEF Char, Chars
    <3>3. (shift # caps) \in BOOLEAN
      BY <2>1
    <3> QED
      BY <3>1, <3>2, <3>3, Zenon
  <2>3. CASE key \in DOMAIN Shifted
    <3> DEFINE glyph == Shifted[key][IF shift THEN 2 ELSE 1]
    <3>1. /\ glyph \in Glyphs
          /\ \/ Translate(key) = [kind |-> "char", char |-> Char(glyph, FALSE)]
             \/ Translate(key) = [kind |-> "boundary", char |-> Char(glyph, FALSE)]
             \/ Translate(key) = [kind |-> "reset"]
      BY <2>1, <2>3, SymbolKey
    <3> HIDE DEF glyph
    <3> DEFINE c == Char(glyph, FALSE)
    <3>2. c \in Chars
      BY <3>1 DEF Char, Chars
    <3> HIDE DEF c
    <3>3. \/ Translate(key) = [kind |-> "char", char |-> c]
          \/ Translate(key) = [kind |-> "boundary", char |-> c]
          \/ Translate(key) = [kind |-> "reset"]
      BY <3>1 DEF c
    <3> QED
      BY <3>2, <3>3
  <2>4. CASE key \in NavigationKeys \cup {"back"}
    BY <2>1, <2>4, OtherKeys
  <2> QED
    BY <2>2, <2>3, <2>4, KeystrokesAssumption
<1> QED
  BY <1>1, <1>2

\* A key that is seen, with no flag in doubt but that of Caps Lock, is read as the field
\* takes it: a character and its symbol, a Backspace, or the end of the word, by a
\* symbol that is not part of one or by a jump of the caret.
LEMMA KeyIsRead ==
  ASSUME FlagsInvariant, doubt \subseteq {"caps"}, NEW key \in TextKeys
  PROVE  \/ /\ Translate(key) = [kind |-> "reset"]
            /\ FieldAfter(key) = <<>>
         \/ /\ key = "back" /\ Translate(key) = [kind |-> "backspace"]
            /\ FieldAfter(key) = IF field = <<>> THEN <<>> ELSE Tok!EraseLast(field, 1)
         \/ /\ key # "back"
            /\ \E g \in Chars :
                 /\ FieldAfter(key) = Remembered(Append(field, g))
                 /\ \/ /\ g.symbol \in WordSymbols
                       /\ \E c \in Chars : /\ Translate(key) = [kind |-> "char", char |-> c]
                                           /\ c.symbol = g.symbol /\ (doubt = {} => c = g)
                    \/ /\ g.symbol \notin WordSymbols
                       /\ \/ Translate(key) = [kind |-> "reset"]
                          \/ \E c \in Chars : /\ Translate(key) = [kind |-> "boundary", char |-> c]
                                              /\ c.symbol = g.symbol
<1> DEFINE shift == "shift" \in flags
           caps == "caps" \in flags
<1>1. \A f \in {"shift", "ctrl", "alt", "win"} : f \in flags <=> IsDown(f)
  BY DEF FlagsInvariant, FlagsAgree, Flags, CommandFlags
<1>2. flags \cap CommandFlags # {} <=> \E f \in CommandFlags : IsDown(f)
  BY <1>1 DEF CommandFlags
<1>3. doubt = {} => (caps <=> locked)
  BY DEF FlagsInvariant, FlagsAgree
<1>4. locked \in BOOLEAN
  BY DEF FlagsInvariant
<1>5. CASE flags \cap CommandFlags # {}
  <2>1. Translate(key) = [kind |-> "reset"]
    BY <1>5 DEF Translate
  <2>2. \E f \in CommandFlags : IsDown(f)
    BY <1>2, <1>5
  <2>3. FieldAfter(key) = <<>>
    BY <2>2, Zenon DEF FieldAfter
  <2> QED
    BY <2>1, <2>3
<1>6. CASE ~(flags \cap CommandFlags # {})
  <2>1. Translate(key) = TranslateKey(key, shift, caps) /\ shift \in BOOLEAN /\ caps \in BOOLEAN
    BY <1>6 DEF Translate
  <2>2. FieldAfter(key) = IF key \in NavigationKeys THEN <<>>
                          ELSE IF key = "back"
                               THEN IF field = <<>> THEN <<>> ELSE Tok!EraseLast(field, 1)
                               ELSE Remembered(Append(field, Glyph(key)))
    BY <1>2, <1>6 DEF FieldAfter
  <2>3. IsDown("shift") <=> shift
    BY <1>1
  <2> HIDE DEF shift, caps
  <2>4. CASE key \in NavigationKeys
    BY <2>1, <2>2, <2>4, OtherKeys
  <2>5. CASE key = "back"
    <3>1. key \notin NavigationKeys
      BY <2>5, OtherKeys
    <3> QED
      BY <2>1, <2>2, <2>5, <3>1, OtherKeys
  <2>6. CASE key \in Letters
    <3> DEFINE c == Char(key, shift # caps)
               g == Char(key, IsDown("shift") # locked)
    <3>1. Translate(key) = [kind |-> "char", char |-> c]
          /\ key \notin NavigationKeys /\ key # "back"
      BY <2>1, <2>6, LetterKey
    <3>2. Glyph(key) = g
      BY <2>6 DEF Glyph
    <3>3. c \in Chars /\ g \in Chars /\ c.symbol = g.symbol /\ g.symbol \in WordSymbols
      BY <2>6 DEF Char, Chars, WordSymbols
    <3>4. doubt = {} => c = g
      <4> SUFFICES ASSUME doubt = {} PROVE c = g
        OBVIOUS
      <4>1. IsDown("shift") = shift
        BY <2>1, <2>3 DEF IsDown, Sets
      <4>2. locked = caps
        BY <1>3, <1>4, <2>1 DEF caps
      <4> QED
        BY <4>1, <4>2, Zenon
    <3>5. FieldAfter(key) = Remembered(Append(field, g))
      BY <2>2, <3>1, <3>2
    <3> HIDE DEF c, g
    <3> QED
      BY <3>1, <3>3, <3>4, <3>5
  <2>7. CASE key \in DOMAIN Shifted
    <3> DEFINE glyph == Shifted[key][IF shift THEN 2 ELSE 1]
               g == Char(glyph, FALSE)
    <3>1. key \notin NavigationKeys /\ key # "back" /\ key \notin Letters
      BY <2>7, OtherKeys, LetterKey, KeystrokesAssumption
    <3>2. Glyph(key) = g
      BY <2>3, <3>1 DEF Glyph
    <3>3. /\ glyph \in Glyphs
          /\ \/ Translate(key) = [kind |-> "char", char |-> g] /\ glyph \in WordSymbols
             \/ Translate(key) = [kind |-> "boundary", char |-> g] /\ glyph \notin WordSymbols
             \/ Translate(key) = [kind |-> "reset"] /\ glyph \notin WordSymbols
      BY <2>1, <2>7, SymbolKey
    <3>4. g \in Chars /\ g.symbol = glyph
      BY <3>3 DEF Char, Chars
    <3>5. FieldAfter(key) = Remembered(Append(field, g))
      BY <2>2, <3>1, <3>2
    <3> HIDE DEF glyph, g
    <3> QED
      BY <3>1, <3>3, <3>4, <3>5
  <2> QED
    BY <2>4, <2>5, <2>6, <2>7, KeystrokesAssumption
<1> QED
  BY <1>5, <1>6

-----------------------------------------------------------------------------
(* What the session makes of an action.                                    *)

\* A character is taken, or refused by a buffer that is full.
LEMMA HandleChar ==
  ASSUME NEW t \in Tok!Tokens(Chars), Len(t.chars) <= MaxTokenChars, NEW c \in Chars
  PROVE  LET r == Handle(t, [kind |-> "char", char |-> c])
         IN  /\ r \in Tok!Tokens(Chars) /\ Len(r.chars) <= MaxTokenChars
             /\ \/ r.overflowed /\ r.chars # <<>>
                \/ /\ r.chars = Append(t.chars, c) /\ r.overflowed = t.overflowed
                   /\ Len(t.chars) < MaxTokenChars
<1> DEFINE r == Handle(t, [kind |-> "char", char |-> c])
<1> USE KeystrokesAssumption
<1>1. r = Tok!Push(t, c)
  BY DEF Handle, Tok!TokenAfter
<1>2. t.chars \in Seq(Chars) /\ t.overflowed \in BOOLEAN /\ Len(t.chars) \in Nat
  BY LenProperties DEF Tok!Tokens
<1>3. CASE Len(t.chars) >= MaxTokenChars
  <2>1. r = [t EXCEPT !.overflowed = TRUE]
    BY <1>1, <1>3 DEF Tok!Push
  <2>2. r \in Tok!Tokens(Chars) /\ r.overflowed /\ r.chars = t.chars
    BY <2>1 DEF Tok!Tokens
  <2>3. t.chars # <<>>
    BY <1>2, <1>3, EmptySeq
  <2> QED
    BY <2>2, <2>3
<1>4. CASE ~(Len(t.chars) >= MaxTokenChars)
  <2>1. r = [t EXCEPT !.chars = Append(@, c)]
    BY <1>1, <1>4 DEF Tok!Push
  <2>2. Append(t.chars, c) \in Seq(Chars) /\ Len(Append(t.chars, c)) = Len(t.chars) + 1
    BY <1>2, AppendProperties
  <2>3. r \in Tok!Tokens(Chars) /\ r.chars = Append(t.chars, c) /\ r.overflowed = t.overflowed
    BY <2>1, <2>2 DEF Tok!Tokens
  <2>4. Len(r.chars) <= MaxTokenChars /\ Len(t.chars) < MaxTokenChars
    BY <1>2, <1>4, <2>2, <2>3
  <2> QED
    BY <2>3, <2>4
<1> QED
  BY <1>3, <1>4

\* A Backspace takes the last character, if there is one.
LEMMA HandleBackspace ==
  ASSUME NEW t \in Tok!Tokens(Chars), Len(t.chars) <= MaxTokenChars
  PROVE  LET r == Handle(t, [kind |-> "backspace"])
         IN  /\ r \in Tok!Tokens(Chars) /\ Len(r.chars) <= MaxTokenChars
             /\ r.overflowed = t.overflowed
             /\ r.chars = IF t.chars = <<>> THEN <<>> ELSE Tok!EraseLast(t.chars, 1)
<1> DEFINE r == Handle(t, [kind |-> "backspace"])
<1> USE KeystrokesAssumption
<1>1. t.chars \in Seq(Chars) /\ Len(t.chars) \in Nat
  BY LenProperties DEF Tok!Tokens
<1>2. CASE t.chars = <<>>
  <2>1. r = t
    BY <1>2 DEF Handle, Tok!TokenAfter
  <2> QED
    BY <1>2, <2>1
<1>3. CASE t.chars # <<>>
  <2>1. r = [t EXCEPT !.chars = Tok!EraseLast(@, 1)]
    BY <1>3 DEF Handle, Tok!TokenAfter, Tok!Pop
  <2>2. Tok!EraseLast(t.chars, 1) \in Seq(Chars)
        /\ Len(Tok!EraseLast(t.chars, 1)) = Len(t.chars) - 1
    BY <1>1, <1>3, ErasedText
  <2>3. r \in Tok!Tokens(Chars) /\ r.chars = Tok!EraseLast(t.chars, 1) /\ r.overflowed = t.overflowed
    BY <2>1, <2>2 DEF Tok!Tokens
  <2>4. Len(r.chars) <= MaxTokenChars
    BY <1>1, <2>2, <2>3
  <2> QED
    BY <1>3, <2>3, <2>4
<1> QED
  BY <1>2, <1>3

\* A boundary and a reset leave no word.
LEMMA HandleEnd ==
  ASSUME NEW t \in Tok!Tokens(Chars), NEW action, action.kind \in {"boundary", "reset"}
  PROVE  Handle(t, action) \in Tok!Tokens(Chars) /\ Handle(t, action).chars = <<>>
<1>1. Tok!EmptyToken \in Tok!Tokens(Chars) /\ Tok!EmptyToken.chars = <<>>
  BY EmptySeq DEF Tok!EmptyToken, Tok!Tokens
<1>2. CASE action.kind = "reset"
  BY <1>1, <1>2 DEF Handle, Tok!TokenAfter
<1>3. CASE action.kind = "boundary"
  BY <1>1, <1>3 DEF Handle, Tok!TokenAfter
<1> QED
  BY <1>2, <1>3

\* A release does nothing to it.
LEMMA HandleIgnore ==
  ASSUME NEW t
  PROVE  Handle(t, [kind |-> "ignore"]) = t
BY DEF Handle, Tok!TokenAfter

-----------------------------------------------------------------------------
(* The steps.                                                              *)

\* The last step of a key that is no key of the text: a field that has changed has been
\* noticed, or not; a release is without effect.
Quiet ==
  /\ UNCHANGED <<field, joined, capture>>
  /\ \/ token' = token /\ moved' = moved
     \/ moved /\ ~moved' /\ token' = Tok!EmptyToken
  /\ moved' \in BOOLEAN
  /\ trust' = IF token'.chars = <<>> THEN "all" ELSE trust

\* A modifier key, Caps Lock or the release of a key.
LEMMA OthersAreQuiet ==
  ASSUME TypeOK, NEW down \in BOOLEAN, NEW dropped \in BOOLEAN,
         \/ \E m \in ModifierKeys : Modifier(m, down, dropped)
         \/ CapsLock(down, dropped)
         \/ Release(dropped)
  PROVE  Quiet
<1> USE DEF Quiet, TypeOK
<1>1. ASSUME NEW m \in ModifierKeys, Modifier(m, down, dropped) PROVE Quiet
  BY <1>1 DEF Modifier, ProcessModifier, NotProcessed
<1>2. CASE CapsLock(down, dropped)
  BY <1>2 DEF CapsLock, ProcessModifier, NotProcessed
<1>3. CASE Release(dropped)
  BY <1>3, HandleIgnore DEF Release, ProcessKey, NotProcessed
<1> QED
  BY <1>1, <1>2, <1>3

\* TokenIsTheText, with Shows.
TokenShown ==
  (~moved /\ ~token.overflowed /\ trust # "nothing") => Shows(field, token.chars, trust = "all")

\* It is what it says.
LEMMA TokenShownIsText ==
  ASSUME TypeOK
  PROVE  TokenShown <=> TokenIsTheText
<1>1. token.chars \in Seq(Chars) /\ field \in Seq(Chars)
  BY DEF TypeOK, Tok!Tokens
<1> DEFINE exact == trust = "all"
<1>2. exact \in BOOLEAN
  OBVIOUS
<1> HIDE DEF exact
<1>3. Shows(field, token.chars, exact) <=>
        /\ Len(token.chars) <= Len(field)
        /\ LET shown == LastOf(field, Len(token.chars))
           IN  IF exact THEN shown = token.chars ELSE SameSymbols(shown, token.chars)
  BY <1>1, <1>2, ShowsIsText
<1> QED
  BY <1>3, Zenon DEF TokenShown, TokenIsTheText, exact

\* What the proofs below preserve.
TextInvariant == TokenShown /\ WordStartsClean

\* A quiet step keeps the text.
LEMMA QuietKeepsText ==
  ASSUME TypeOK, TextInvariant, Quiet
  PROVE  TextInvariant'
<1>1. field' \in Seq(Chars) /\ field' = field /\ joined' = joined
  BY DEF TypeOK, Quiet
<1>2. CASE token' = token /\ moved' = moved
  <2>1. WordStartsClean'
    BY <1>1, <1>2 DEF TextInvariant, WordStartsClean
  <2>2. CASE token.chars = <<>>
    <3>1. TokenShown'
      BY <1>1, <1>2, <2>2, ShowsNothing DEF TokenShown
    <3> QED
      BY <2>1, <3>1 DEF TextInvariant
  <2>3. CASE token.chars # <<>>
    <3>1. trust' = trust
      BY <1>2, <2>3 DEF Quiet
    <3>2. TokenShown'
      BY <1>1, <1>2, <3>1 DEF TextInvariant, TokenShown
    <3> QED
      BY <2>1, <3>2 DEF TextInvariant
  <2> QED
    BY <2>2, <2>3
<1>3. CASE moved /\ ~moved' /\ token' = Tok!EmptyToken
  <2>1. token'.chars = <<>> /\ Len(token'.chars) = 0
    BY <1>3, EmptySeq DEF Tok!EmptyToken
  <2>2. TokenShown'
    BY <1>1, <2>1, ShowsNothing DEF TokenShown
  <2>3. ~joined => Len(field) = 0
    BY <1>3, EmptySeq DEF TextInvariant, WordStartsClean
  <2>4. WordStartsClean'
    BY <1>1, <1>3, <2>1, <2>3 DEF WordStartsClean
  <2> QED
    BY <2>2, <2>4 DEF TextInvariant
<1> QED
  BY <1>2, <1>3 DEF Quiet

\* What the field shows of a key is a character of it.
LEMMA GlyphType ==
  ASSUME TypeOK, NEW key \in TextKeys, key \notin NavigationKeys, key # "back"
  PROVE  Glyph(key) \in Chars
<1>1. CASE key \in Letters
  <2> DEFINE up == IsDown("shift") # locked
  <2>1. up \in BOOLEAN
    BY DEF TypeOK
  <2> HIDE DEF up
  <2>2. Glyph(key) = Char(key, up)
    BY <1>1 DEF Glyph, up
  <2> QED
    BY <1>1, <2>1, <2>2 DEF Char, Chars
<1>2. CASE key \notin Letters
  <2>1. key \in DOMAIN Shifted
    BY <1>2, KeystrokesAssumption
  <2> DEFINE glyph == Shifted[key][IF IsDown("shift") THEN 2 ELSE 1]
  <2>2. glyph \in Glyphs
    BY <2>1 DEF Glyphs
  <2> HIDE DEF glyph
  <2>3. Glyph(key) = Char(glyph, FALSE)
    BY <1>2 DEF Glyph, glyph
  <2> QED
    BY <2>2, <2>3 DEF Char, Chars
<1> QED
  BY <1>1, <1>2

\* The text of a field stays one, and is not remembered further back than it should.
LEMMA FieldType ==
  ASSUME TypeOK, NEW key \in TextKeys
  PROVE  FieldAfter(key) \in Seq(Chars) /\ Len(FieldAfter(key)) <= FieldMemory
<1> USE KeystrokesAssumption
<1>1. field \in Seq(Chars) /\ Len(field) <= FieldMemory /\ Len(field) \in Nat
  BY LenProperties DEF TypeOK
<1>2. CASE FieldAfter(key) = <<>>
  BY <1>2, EmptySeq
<1>3. CASE FieldAfter(key) = Tok!EraseLast(field, 1) /\ field # <<>>
  BY <1>1, <1>3, ErasedText
<1>4. CASE FieldAfter(key) = Remembered(Append(field, Glyph(key)))
           /\ key \notin NavigationKeys /\ key # "back"
  BY <1>1, <1>4, GlyphType, RememberedText
<1> QED
  BY <1>2, <1>3, <1>4 DEF FieldAfter

\* The token after an action is one.
LEMMA ProcessKeyType ==
  ASSUME TypeOK, NEW key \in TextKeys, ProcessKey(Translate(key))
  PROVE  token' \in Tok!Tokens(Chars) /\ Len(token'.chars) <= MaxTokenChars /\ moved' = FALSE
<1> USE KeystrokesAssumption
<1> DEFINE now == IF moved THEN Tok!EmptyToken ELSE token
<1>1. now \in Tok!Tokens(Chars) /\ Len(now.chars) <= MaxTokenChars
  BY EmptySeq DEF TypeOK, Tok!EmptyToken, Tok!Tokens
<1>2. token' = Handle(now, Translate(key)) /\ moved' = FALSE
  BY DEF ProcessKey
<1> HIDE DEF now
<1>3. CASE Translate(key).kind = "char" /\ Translate(key).char \in Chars
  <2>1. Handle(now, Translate(key)) = Handle(now, [kind |-> "char", char |-> Translate(key).char])
    BY <1>3 DEF Handle
  <2> QED
    BY <1>1, <1>2, <1>3, <2>1, HandleChar
<1>4. CASE Translate(key).kind = "backspace"
  <2>1. Handle(now, Translate(key)) = Handle(now, [kind |-> "backspace"])
    BY <1>4 DEF Handle
  <2> QED
    BY <1>1, <1>2, <2>1, HandleBackspace
<1>5. CASE Translate(key).kind \in {"boundary", "reset"}
  BY <1>1, <1>2, <1>5, HandleEnd, EmptySeq
<1> QED
  BY <1>2, <1>3, <1>4, <1>5, TranslateType

\* A key of the text keeps the types.
LEMMA PressType ==
  ASSUME TypeOK, NEW key \in TextKeys, NEW dropped \in BOOLEAN, Press(key, dropped)
  PROVE  TypeOK'
<1>1. /\ UNCHANGED <<held, locked, capture, doubt>> /\ flags' = flags
      /\ moved' \in BOOLEAN
      /\ token' \in Tok!Tokens(Chars) /\ Len(token'.chars) <= MaxTokenChars
  <2>1. CASE Captured(held, TRUE, dropped)
    <3>1. ProcessKey(Translate(key))
      BY <2>1 DEF Press
    <3> QED
      BY <3>1, ProcessKeyType DEF Press, ProcessKey
  <2>2. CASE ~Captured(held, TRUE, dropped)
    BY <2>2 DEF Press, NotProcessed, TypeOK
  <2> QED
    BY <2>1, <2>2
<1>2. field' \in Seq(Chars) /\ Len(field') <= FieldMemory
  BY FieldType DEF Press
<1>3. \A s \in BOOLEAN : SeenOf(s) \in {"all", "symbols", "nothing"}
  BY DEF SeenOf, TypeOK
<1>4. \A t, u : Least(t, u) \in {"all", "symbols", "nothing"}
  BY DEF Least
<1>5. Seen(dropped) \in BOOLEAN
  BY DEF Seen, TypeOK
<1>6. trust' \in {"all", "symbols", "nothing"}
  <2>1. trust' = IF token'.chars = <<>> THEN "all"
                 ELSE IF Seen(dropped) /\ moved THEN SeenOf(Seen(dropped))
                 ELSE Least(trust, SeenOf(Seen(dropped)))
    BY DEF Press
  <2> QED
    BY <1>3, <1>4, <1>5, <2>1
<1>7. joined' \in BOOLEAN
  BY DEF Press
<1> QED
  BY <1>1, <1>2, <1>6, <1>7 DEF TypeOK

\* So do the others.
LEMMA QuietType ==
  ASSUME TypeOK, Quiet, held' \subseteq ModifierKeys \cup {"capital"}, locked' \in BOOLEAN,
         flags' \subseteq Flags, doubt' \subseteq Flags
  PROVE  TypeOK'
<1>1. Tok!EmptyToken \in Tok!Tokens(Chars) /\ Len(Tok!EmptyToken.chars) <= MaxTokenChars
  BY EmptySeq, KeystrokesAssumption DEF Tok!EmptyToken, Tok!Tokens
<1> QED
  BY <1>1 DEF TypeOK, Quiet

\* Every step keeps the types.
LEMMA TypeStep ==
  ASSUME TypeOK, [Next]_vars
  PROVE  TypeOK'
<1>0. <<>> \in Seq(Chars) /\ Len(<<>>) <= FieldMemory
  BY EmptySeq, KeystrokesAssumption
<1>1. ASSUME NEW key \in TextKeys, NEW dropped \in BOOLEAN, Press(key, dropped) PROVE TypeOK'
  BY <1>1, PressType
<1>2. ASSUME NEW down \in BOOLEAN, NEW dropped \in BOOLEAN, NEW m \in ModifierKeys, Modifier(m, down, dropped)
      PROVE TypeOK'
  <2>1. Quiet
    BY <1>2, OthersAreQuiet
  <2>2. FlagOf(m) \in Flags
    BY FlagOfModifier DEF Flags, CommandFlags
  <2>3. held' \subseteq ModifierKeys \cup {"capital"} /\ locked' = locked
    BY <1>2 DEF Modifier, TypeOK
  <2>4. flags' \in {flags, flags \cup {FlagOf(m)}, flags \ {FlagOf(m)}}
    BY <1>2 DEF Modifier, ProcessModifier, SetFlag, NotProcessed
  <2>5. doubt' \in {doubt \cup {FlagOf(m)}, doubt \ {FlagOf(m)}}
    BY <1>2 DEF Modifier, DoubtAfter
  <2>6. flags' \subseteq Flags /\ doubt' \subseteq Flags
    BY <2>2, <2>4, <2>5 DEF TypeOK
  <2>7. locked' \in BOOLEAN
    BY <2>3 DEF TypeOK
  <2> QED
    BY <2>1, <2>3, <2>6, <2>7, QuietType
<1>3. ASSUME NEW down \in BOOLEAN, NEW dropped \in BOOLEAN, CapsLock(down, dropped)
      PROVE TypeOK'
  <2>1. Quiet
    BY <1>3, OthersAreQuiet
  <2>2. held' \subseteq ModifierKeys \cup {"capital"} /\ locked' \in BOOLEAN
    BY <1>3 DEF CapsLock, TypeOK
  <2>3. flags' \in {flags, flags \cup {"caps"}, flags \ {"caps"}}
    BY <1>3 DEF CapsLock, ProcessModifier, ToggleCaps, NotProcessed
  <2>4. doubt' \in {doubt, doubt \cup {"caps"}, doubt \ {"caps"}}
    BY <1>3 DEF CapsLock
  <2>5. flags' \subseteq Flags /\ doubt' \subseteq Flags
    BY <2>3, <2>4 DEF TypeOK, Flags
  <2> QED
    BY <2>1, <2>2, <2>5, QuietType
<1>4. ASSUME NEW dropped \in BOOLEAN, Release(dropped) PROVE TypeOK'
  <2>1. Quiet
    BY <1>4, OthersAreQuiet
  <2>2. UNCHANGED <<held, locked, doubt, flags>>
    BY <1>4 DEF Release, ProcessKey, NotProcessed
  <2> QED
    BY <2>1, <2>2, QuietType DEF TypeOK
<1>5. ASSUME NEW safe \in BOOLEAN, FocusChanges(safe) PROVE TypeOK'
  BY <1>0, <1>5 DEF FocusChanges, TypeOK
<1>6. CASE Click
  BY <1>0, <1>6 DEF Click, TypeOK
<1>7. CASE CaptureSwitches
  BY <1>7 DEF CaptureSwitches, TypeOK, ghosts
<1>8. CASE UNCHANGED vars
  BY <1>8 DEF vars, state, ghosts, TypeOK
<1> QED
  BY <1>1, <1>2, <1>3, <1>4, <1>5, <1>6, <1>7, <1>8 DEF Next

-----------------------------------------------------------------------------
(* A key of the text.                                                      *)

\* What is seen of less is seen of more.
LEMMA ShowsLess ==
  ASSUME NEW text, NEW chars, NEW exact, NEW less, Shows(text, chars, exact), less => exact
  PROVE  Shows(text, chars, less)
BY DEF Shows

\* The token a key is applied to, and what was seen of it: after a change of the field it
\* is empty.
Now == IF moved THEN Tok!EmptyToken ELSE token
TrustNow == IF moved THEN "all" ELSE trust

\* What holds of it.
LEMMA NowProperties ==
  ASSUME TypeOK, TextInvariant
  PROVE  /\ Now \in Tok!Tokens(Chars) /\ Len(Now.chars) <= MaxTokenChars
         /\ Now.chars \in Seq(Chars) /\ Len(Now.chars) \in Nat
         /\ field \in Seq(Chars) /\ Len(field) \in Nat /\ Len(field) <= FieldMemory
         /\ (~Now.overflowed /\ TrustNow # "nothing") => Shows(field, Now.chars, TrustNow = "all")
         /\ (~joined /\ ~Now.overflowed /\ Len(field) > Len(Now.chars)) =>
              field[Len(field) - Len(Now.chars)].symbol \notin WordSymbols
<1>1. field \in Seq(Chars) /\ Len(field) \in Nat /\ Len(field) <= FieldMemory
  BY LenProperties DEF TypeOK
<1>2. CASE moved
  <2>1. Now = Tok!EmptyToken /\ TrustNow = "all"
    BY <1>2 DEF Now, TrustNow
  <2>2. Now \in Tok!Tokens(Chars) /\ Now.chars = <<>> /\ Len(Now.chars) = 0
    BY <2>1, EmptySeq DEF Tok!EmptyToken, Tok!Tokens
  <2>3. ~joined => Len(field) = 0
    BY <1>2, EmptySeq DEF TextInvariant, WordStartsClean
  <2>4. Shows(field, Now.chars, TrustNow = "all")
    BY <1>1, <2>2, ShowsNothing
  <2>5. Now.chars \in Seq(Chars) /\ Len(Now.chars) <= MaxTokenChars
    BY <2>2, EmptySeq, KeystrokesAssumption
  <2> QED
    BY <1>1, <2>2, <2>3, <2>4, <2>5
<1>3. CASE ~moved
  <2>1. Now = token /\ TrustNow = trust
    BY <1>3 DEF Now, TrustNow
  <2>2. token.chars \in Seq(Chars) /\ Len(token.chars) \in Nat
    BY LenProperties DEF TypeOK, Tok!Tokens
  <2> QED
    BY <1>1, <1>3, <2>1, <2>2 DEF TypeOK, TextInvariant, TokenShown, WordStartsClean
<1> QED
  BY <1>2, <1>3

\* A key that is not seen, or read under a flag in doubt, leaves nothing to say of the word.
LEMMA UnseenKeepsText ==
  ASSUME TypeOK, TypeOK', NEW key \in TextKeys, NEW dropped \in BOOLEAN, Press(key, dropped),
         SeenOf(Seen(dropped)) = "nothing"
  PROVE  TextInvariant'
<1>1. field' \in Seq(Chars)
  BY DEF TypeOK
<1>2. trust' = "nothing" \/ token'.chars = <<>>
  BY DEF Press, Least
<1>3. TokenShown'
  BY <1>1, <1>2, ShowsNothing DEF TokenShown
<1>4. joined' <=> field' # <<>>
  BY DEF Press
<1>5. Len(<<>>) = 0 /\ token'.chars \in Seq(Chars)
  BY EmptySeq DEF TypeOK, Tok!Tokens
<1>6. ~joined' => ~(Len(field') > Len(token'.chars))
  BY <1>4, <1>5, LenProperties
<1> QED
  BY <1>3, <1>4, <1>6 DEF TextInvariant, WordStartsClean

\* What a key that is seen changes, when no flag but that of Caps Lock is in doubt.
LEMMA SeenPress ==
  ASSUME TypeOK, NEW key \in TextKeys, NEW dropped \in BOOLEAN, Press(key, dropped),
         Seen(dropped), doubt \subseteq {"caps"}
  PROVE  /\ field' = FieldAfter(key) /\ token' = Handle(Now, Translate(key)) /\ moved' = FALSE
         /\ (trust' # "nothing" /\ token'.chars # <<>>) => TrustNow # "nothing"
         /\ (trust' = "all" /\ token'.chars # <<>>) => TrustNow = "all" /\ doubt = {}
         /\ joined' <=> /\ field' # <<>>
                        /\ \/ key = "back" /\ Now.chars = <<>>
                           \/ joined /\ (token'.chars # <<>> \/ key = "back")
<1>1. Captured(held, TRUE, dropped)
  BY CapturedIsSeen
<1>2. field' = FieldAfter(key) /\ token' = Handle(Now, Translate(key)) /\ moved' = FALSE
  BY <1>1 DEF Press, ProcessKey, Now
<1>3. SeenOf(Seen(dropped)) = IF doubt = {} THEN "all" ELSE "symbols"
  <2>1. Seen(dropped) = TRUE
    BY DEF Seen, TypeOK
  <2> QED
    BY <2>1 DEF SeenOf
<1>4. token'.chars # <<>> => trust' = IF moved THEN SeenOf(Seen(dropped))
                                      ELSE Least(trust, SeenOf(Seen(dropped)))
  BY DEF Press
<1>5. \A t, u \in {"all", "symbols", "nothing"} :
        /\ Least(t, u) # "nothing" => t # "nothing"
        /\ Least(t, u) = "all" => t = "all" /\ u = "all"
  BY DEF Least
<1>6. trust \in {"all", "symbols", "nothing"}
  BY DEF TypeOK
<1>7. /\ (trust' # "nothing" /\ token'.chars # <<>>) => TrustNow # "nothing"
      /\ (trust' = "all" /\ token'.chars # <<>>) => TrustNow = "all" /\ doubt = {}
  BY <1>3, <1>4, <1>5, <1>6 DEF TrustNow
<1>8. Now.chars = <<>> <=> (moved \/ token.chars = <<>>)
  BY DEF Now, Tok!EmptyToken
<1>9. joined' <=> /\ field' # <<>>
                  /\ \/ key = "back" /\ Now.chars = <<>>
                     \/ joined /\ (token'.chars # <<>> \/ key = "back")
  BY <1>3, <1>8 DEF Press
<1> QED
  BY <1>2, <1>7, <1>9

\* A character: it stands after the others, in the field and in the word.
LEMMA CharKeepsText ==
  ASSUME TypeOK, TextInvariant, NEW key \in TextKeys, NEW dropped \in BOOLEAN,
         Press(key, dropped), Seen(dropped), doubt \subseteq {"caps"},
         NEW g \in Chars, field' = Remembered(Append(field, g)),
         NEW c \in Chars, Translate(key) = [kind |-> "char", char |-> c],
         c.symbol = g.symbol, doubt = {} => c = g
  PROVE  TextInvariant'
<1> USE KeystrokesAssumption
<1> DEFINE exact == trust' = "all"
<1>1. /\ token' = Handle(Now, [kind |-> "char", char |-> c]) /\ moved' = FALSE
      /\ (trust' # "nothing" /\ token'.chars # <<>>) => TrustNow # "nothing"
      /\ (exact /\ token'.chars # <<>>) => TrustNow = "all" /\ doubt = {}
      /\ (field' # <<>> /\ joined /\ token'.chars # <<>>) => joined'
  BY SeenPress
<1>2. CASE token'.overflowed /\ token'.chars # <<>>
  BY <1>1, <1>2 DEF TextInvariant, TokenShown, WordStartsClean
<1>3. CASE /\ token'.chars = Append(Now.chars, c) /\ token'.overflowed = Now.overflowed
           /\ Len(Now.chars) < MaxTokenChars
  <2>1. token'.chars # <<>> /\ Len(token'.chars) = Len(Now.chars) + 1
    BY <1>3, NowProperties, AppendProperties
  <2>2. TokenShown'
    <3> SUFFICES ASSUME ~Now.overflowed, trust' # "nothing"
                 PROVE  Shows(field', token'.chars, exact)
      BY <1>3 DEF TokenShown
    <3>1. TrustNow # "nothing" /\ (exact => TrustNow = "all" /\ doubt = {})
      BY <1>1, <2>1
    <3>2. Shows(field, Now.chars, TrustNow = "all")
      BY <3>1, NowProperties
    <3>3. Shows(field, Now.chars, exact)
      <4> DEFINE all == TrustNow = "all"
      <4>1. exact => all
        BY <3>1
      <4> HIDE DEF exact, all
      <4>2. Shows(field, Now.chars, all)
        BY <3>2 DEF all
      <4> QED
        BY <4>1, <4>2, ShowsLess
    <3>4. exact => g = c
      BY <3>1
    <3>5. Len(Now.chars) < FieldMemory
      BY <1>3, NowProperties
    <3>6. /\ field \in Seq(Chars) /\ Len(field) <= FieldMemory /\ Now.chars \in Seq(Chars)
      BY NowProperties
    <3> HIDE DEF exact
    <3>7. Shows(Remembered(Append(field, g)), Append(Now.chars, c), exact)
      BY <3>3, <3>4, <3>5, <3>6, ShowsAppend
    <3> QED
      BY <1>3, <3>7
  <2>3. WordStartsClean'
    <3>1. /\ Len(field') \in Nat /\ Len(field') >= 1
          /\ Len(field') = IF Len(field) < FieldMemory THEN Len(field) + 1 ELSE FieldMemory
          /\ \A j \in 0 .. Len(field') - 2 : field'[Len(field') - 1 - j] = field[Len(field) - j]
      <4>1. field \in Seq(Chars) /\ Len(field) <= FieldMemory
        BY NowProperties
      <4> QED
        <5> DEFINE written == Remembered(Append(field, g))
        <5>1. /\ Len(written) \in Nat /\ Len(written) >= 1
              /\ Len(written) = IF Len(field) < FieldMemory THEN Len(field) + 1 ELSE FieldMemory
              /\ \A j \in 0 .. Len(written) - 2 : written[Len(written) - 1 - j] = field[Len(field) - j]
          BY <4>1, RememberedText
        <5> HIDE DEF written
        <5>2. field' = written
          BY DEF written
        <5> QED
          BY <5>1, <5>2
    <3> SUFFICES ASSUME ~joined', ~Now.overflowed, Len(field') > Len(token'.chars)
                 PROVE  field'[Len(field') - Len(token'.chars)].symbol \notin WordSymbols
      BY <1>1, <1>3 DEF WordStartsClean
    <3>2. ~joined
      BY <1>1, <2>1, <3>1, EmptySeq
    <3> DEFINE n == Len(Now.chars)
    <3>3. n \in Nat /\ Len(field) \in Nat /\ Len(field) <= FieldMemory /\ Len(token'.chars) = n + 1
      BY <2>1, NowProperties
    <3>4. Len(field) > n /\ n \in 0 .. Len(field') - 2
      BY <3>1, <3>3
    <3>5. Len(field') - Len(token'.chars) = Len(field') - 1 - n
      BY <3>1, <3>3
    <3>6. field'[Len(field') - Len(token'.chars)] = field[Len(field) - n]
      BY <3>1, <3>4, <3>5
    <3>7. field[Len(field) - n].symbol \notin WordSymbols
      BY <3>2, <3>4, NowProperties
    <3> QED
      BY <3>6, <3>7
  <2> QED
    BY <2>2, <2>3 DEF TextInvariant
<1> QED
  BY <1>1, <1>2, <1>3, NowProperties, HandleChar

\* A Backspace: the last character goes from both, or the caret comes into another word.
LEMMA BackspaceKeepsText ==
  ASSUME TypeOK, TypeOK', TextInvariant, NEW dropped \in BOOLEAN, "back" \in TextKeys,
         Press("back", dropped), Seen(dropped), doubt \subseteq {"caps"},
         field' = IF field = <<>> THEN <<>> ELSE Tok!EraseLast(field, 1),
         Translate("back") = [kind |-> "backspace"]
  PROVE  TextInvariant'
<1> USE KeystrokesAssumption
<1> DEFINE exact == trust' = "all"
<1>1. /\ token' = Handle(Now, [kind |-> "backspace"]) /\ moved' = FALSE
      /\ (trust' # "nothing" /\ token'.chars # <<>>) => TrustNow # "nothing"
      /\ (exact /\ token'.chars # <<>>) => TrustNow = "all"
      /\ joined' <=> field' # <<>> /\ (Now.chars = <<>> \/ joined)
  BY SeenPress
<1>2. /\ token'.overflowed = Now.overflowed
      /\ token'.chars = IF Now.chars = <<>> THEN <<>> ELSE Tok!EraseLast(Now.chars, 1)
  BY <1>1, NowProperties, HandleBackspace
<1>3. field' \in Seq(Chars) /\ token'.chars \in Seq(Chars) /\ Len(<<>>) = 0
      /\ Len(field') \in Nat /\ Len(token'.chars) \in Nat
  BY EmptySeq, LenProperties DEF TypeOK, Tok!Tokens
<1>4. TokenShown'
  <2>1. CASE token'.chars = <<>>
    <3>1. Shows(field', <<>>, exact)
      BY <1>3, ShowsNothing
    <3> QED
      BY <2>1, <3>1 DEF TokenShown
  <2>2. CASE token'.chars # <<>>
    <3> SUFFICES ASSUME ~Now.overflowed, trust' # "nothing"
                 PROVE  Shows(field', token'.chars, exact)
      BY <1>2 DEF TokenShown
    <3>1. Shows(field, Now.chars, TrustNow = "all") /\ (exact => TrustNow = "all")
      BY <1>1, <2>2, NowProperties
    <3>2. Shows(field, Now.chars, exact)
      <4> DEFINE all == TrustNow = "all"
      <4>1. exact => all
        BY <3>1
      <4> HIDE DEF exact, all
      <4>2. Shows(field, Now.chars, all)
        BY <3>1 DEF all
      <4> QED
        BY <4>1, <4>2, ShowsLess
    <3>3. Now.chars # <<>> /\ token'.chars = Tok!EraseLast(Now.chars, 1)
      BY <1>2, <2>2
    <3> HIDE DEF exact
    <3>4. field # <<>> /\ Shows(Tok!EraseLast(field, 1), Tok!EraseLast(Now.chars, 1), exact)
      BY <3>2, <3>3, NowProperties, ShowsErased
    <3> QED
      BY <3>3, <3>4
  <2> QED
    BY <2>1, <2>2
<1>5. WordStartsClean'
  <2> SUFFICES ASSUME ~joined', ~Now.overflowed, Len(field') > Len(token'.chars)
               PROVE  field'[Len(field') - Len(token'.chars)].symbol \notin WordSymbols
    BY <1>1, <1>2 DEF WordStartsClean
  <2>1. field' # <<>> /\ field # <<>>
    BY <1>3
  <2>2. ~joined /\ Now.chars # <<>>
    BY <1>1, <2>1
  <2>3. /\ Len(field') = Len(field) - 1 /\ Len(field) - 1 \in Nat
        /\ \A i \in 1 .. Len(field) - 1 : field'[i] = field[i]
    BY <2>1, NowProperties, ErasedText
  <2>4. Len(token'.chars) = Len(Now.chars) - 1 /\ Len(Now.chars) - 1 \in Nat
    BY <1>2, <2>2, NowProperties, ErasedText
  <2> DEFINE n == Len(Now.chars)
             k == Len(field)
  <2>5. k \in Nat /\ n \in Nat /\ k > n
    BY <2>3, <2>4, NowProperties
  <2>6. Len(field') - Len(token'.chars) = k - n /\ k - n \in 1 .. k - 1
    BY <2>3, <2>4, <2>5
  <2>7. field[k - n].symbol \notin WordSymbols
    BY <2>2, <2>5, NowProperties
  <2> QED
    BY <2>3, <2>6, <2>7
<1> QED
  BY <1>4, <1>5 DEF TextInvariant

\* The end of a word: the next one starts after a symbol that is no part of it.
LEMMA EndKeepsText ==
  ASSUME TypeOK, TypeOK', TextInvariant, NEW key \in TextKeys, NEW dropped \in BOOLEAN,
         Press(key, dropped), Seen(dropped), doubt \subseteq {"caps"},
         Translate(key).kind \in {"boundary", "reset"},
         \/ field' = <<>>
         \/ \E g \in Chars : field' = Remembered(Append(field, g)) /\ g.symbol \notin WordSymbols
  PROVE  TextInvariant'
<1>1. token'.chars = <<>> /\ moved' = FALSE
  <2>1. token' = Handle(Now, Translate(key)) /\ moved' = FALSE
    BY SeenPress
  <2>2. Now \in Tok!Tokens(Chars)
    BY NowProperties
  <2>3. Handle(Now, Translate(key)).chars = <<>>
    BY <2>2, HandleEnd
  <2> QED
    BY <2>1, <2>3
<1>2. field' \in Seq(Chars) /\ Len(token'.chars) = 0 /\ Len(<<>>) = 0
  BY <1>1, EmptySeq DEF TypeOK
<1>3. TokenShown'
  BY <1>1, <1>2, ShowsNothing DEF TokenShown
<1>4. CASE field' = <<>>
  BY <1>1, <1>2, <1>3, <1>4 DEF TextInvariant, WordStartsClean
<1>5. ASSUME NEW g \in Chars, field' = Remembered(Append(field, g)), g.symbol \notin WordSymbols
      PROVE  TextInvariant'
  <2>1. Len(field') \in Nat /\ field'[Len(field')] = g
    BY <1>5, NowProperties, RememberedText
  <2>2. Len(field') - Len(token'.chars) = Len(field')
    BY <1>2, <2>1
  <2> QED
    BY <1>1, <1>3, <1>5, <2>1, <2>2 DEF TextInvariant, WordStartsClean
<1> QED
  BY <1>4, <1>5

\* Every key of the text keeps the text.
LEMMA PressKeepsText ==
  ASSUME TypeOK, TypeOK', FlagsInvariant, TextInvariant, NEW key \in TextKeys,
         NEW dropped \in BOOLEAN, Press(key, dropped)
  PROVE  TextInvariant'
<1>1. CASE ~Seen(dropped) \/ doubt \ {"caps"} # {}
  <2>1. SeenOf(Seen(dropped)) = "nothing"
    BY <1>1 DEF SeenOf
  <2> QED
    BY <2>1, UnseenKeepsText
<1>2. CASE Seen(dropped) /\ doubt \subseteq {"caps"}
  <2>1. field' = FieldAfter(key)
    BY DEF Press
  <2>2. CASE Translate(key) = [kind |-> "reset"] /\ FieldAfter(key) = <<>>
    BY <1>2, <2>1, <2>2, EndKeepsText
  <2>3. CASE /\ key = "back" /\ Translate(key) = [kind |-> "backspace"]
             /\ FieldAfter(key) = IF field = <<>> THEN <<>> ELSE Tok!EraseLast(field, 1)
    BY <1>2, <2>1, <2>3, BackspaceKeepsText
  <2>4. ASSUME NEW g \in Chars, FieldAfter(key) = Remembered(Append(field, g)), NEW c \in Chars,
               Translate(key) = [kind |-> "char", char |-> c],
               c.symbol = g.symbol, doubt = {} => c = g
        PROVE  TextInvariant'
    BY <1>2, <2>1, <2>4, CharKeepsText
  <2>5. ASSUME NEW g \in Chars, FieldAfter(key) = Remembered(Append(field, g)),
               g.symbol \notin WordSymbols, Translate(key).kind \in {"boundary", "reset"}
        PROVE  TextInvariant'
    BY <1>2, <2>1, <2>5, EndKeepsText
  <2>6. \/ Translate(key) = [kind |-> "reset"] /\ FieldAfter(key) = <<>>
        \/ /\ key = "back" /\ Translate(key) = [kind |-> "backspace"]
           /\ FieldAfter(key) = IF field = <<>> THEN <<>> ELSE Tok!EraseLast(field, 1)
        \/ \E g, c \in Chars : /\ FieldAfter(key) = Remembered(Append(field, g))
                               /\ Translate(key) = [kind |-> "char", char |-> c]
                               /\ c.symbol = g.symbol /\ (doubt = {} => c = g)
        \/ \E g \in Chars : /\ FieldAfter(key) = Remembered(Append(field, g))
                            /\ g.symbol \notin WordSymbols
                            /\ Translate(key).kind \in {"boundary", "reset"}
    BY <1>2, KeyIsRead
  <2> QED
    BY <2>2, <2>3, <2>4, <2>5, <2>6
<1> QED
  BY <1>1, <1>2

-----------------------------------------------------------------------------
(* The theorems.                                                           *)

\* What holds of every state: the types, the flags, and the two texts.
KeysInvariant == TypeOK /\ FlagsInvariant /\ TextInvariant

\* It holds when the program starts.
LEMMA KeysInit ==
  ASSUME Init
  PROVE  KeysInvariant
<1>1. FlagsInvariant
  BY InitFlags
<1>2. <<>> \in Seq(Chars) /\ Len(<<>>) = 0 /\ 0 <= FieldMemory /\ 0 <= MaxTokenChars
  BY EmptySeq, KeystrokesAssumption
<1>3. held \subseteq ModifierKeys /\ doubt \subseteq Flags /\ flags \subseteq Flags
  BY FlagOfModifier DEF Init, Flags, CommandFlags
<1>4. token \in Tok!Tokens(Chars) /\ token.chars = <<>>
  BY <1>2 DEF Init, Tok!EmptyToken, Tok!Tokens
<1>5. TypeOK
  BY <1>2, <1>3, <1>4 DEF Init, TypeOK
<1>6. TokenShown
  BY <1>2, <1>4, ShowsNothing DEF Init, TokenShown
<1>7. WordStartsClean
  BY <1>2, <1>4 DEF Init, WordStartsClean
<1> QED
  BY <1>1, <1>5, <1>6, <1>7 DEF KeysInvariant, TextInvariant

\* Every step keeps it.
LEMMA KeysNext ==
  ASSUME KeysInvariant, [Next]_vars
  PROVE  KeysInvariant'
<1> USE DEF KeysInvariant
<1>1. TypeOK' /\ FlagsInvariant'
  BY TypeStep, NextKeepsFlags
<1>2. ASSUME NEW key \in TextKeys, NEW dropped \in BOOLEAN, Press(key, dropped) PROVE TextInvariant'
  BY <1>1, <1>2, PressKeepsText
<1>3. ASSUME NEW down \in BOOLEAN, NEW dropped \in BOOLEAN,
             \/ \E m \in ModifierKeys : Modifier(m, down, dropped)
             \/ CapsLock(down, dropped)
             \/ Release(dropped)
      PROVE  TextInvariant'
  BY <1>3, OthersAreQuiet, QuietKeepsText
<1>4. ASSUME NEW dropped \in BOOLEAN, Release(dropped) PROVE TextInvariant'
  BY <1>3, <1>4
<1>5. field' \in Seq(Chars) /\ token'.chars \in Seq(Chars) /\ Len(token'.chars) \in Nat /\ Len(<<>>) = 0
  BY <1>1, EmptySeq, LenProperties DEF TypeOK, Tok!Tokens
<1>6. ASSUME NEW safe \in BOOLEAN, FocusChanges(safe) PROVE TextInvariant'
  BY <1>6 DEF FocusChanges, TextInvariant, TokenShown, WordStartsClean
<1>7. ASSUME Click PROVE TextInvariant'
  <2>1. field' = <<>> /\ token' = token /\ (token.chars = <<>> \/ trust' = "nothing")
    BY <1>7 DEF Click
  <2>2. TokenShown'
    BY <1>5, <2>1, ShowsNothing DEF TokenShown
  <2>3. WordStartsClean'
    BY <1>5, <2>1 DEF WordStartsClean
  <2> QED
    BY <2>2, <2>3 DEF TextInvariant
<1>8. ASSUME CaptureSwitches \/ UNCHANGED vars PROVE TextInvariant'
  <2>1. UNCHANGED <<moved, token, field, joined, trust>>
    BY <1>8 DEF CaptureSwitches, vars, state, ghosts
  <2> QED
    BY <2>1 DEF TextInvariant, TokenShown, WordStartsClean
<1>9. TextInvariant'
  BY <1>2, <1>3, <1>4, <1>6, <1>7, <1>8 DEF Next
<1> QED
  BY <1>1, <1>9

\* A word that is completed is completed by a boundary key, while the session holds it.
LEMMA WordByBoundary ==
  ASSUME KeysInvariant, [Next]_vars, completed'.class = "NaturalWord",
         completed'.text # completed.text, ~moved
  PROVE  \E key \in TextKeys, dropped \in BOOLEAN :
           /\ Press(key, dropped) /\ Seen(dropped)
           /\ Translate(key).kind = "boundary" /\ token.chars # <<>> /\ ~token.overflowed
           /\ completed' = Snapshot(token, Translate(key))
<1>1. completed' # NothingCompleted /\ completed' # completed
  BY KeystrokesAssumption DEF NothingCompleted
<1>2. PICK key \in TextKeys, dropped \in BOOLEAN : Press(key, dropped)
  <2>1. ASSUME NEW dropped \in BOOLEAN, Release(dropped) PROVE completed' = NothingCompleted
    BY <2>1 DEF Release, ProcessKey, NotProcessed, Tok!Completes
  <2>2. ASSUME NEW down \in BOOLEAN, NEW dropped \in BOOLEAN,
               CapsLock(down, dropped) \/ \E m \in ModifierKeys : Modifier(m, down, dropped)
        PROVE  completed' = NothingCompleted
    BY <2>2 DEF CapsLock, Modifier, ProcessModifier, NotProcessed
  <2>3. Click \/ CaptureSwitches \/ (\E safe \in BOOLEAN : FocusChanges(safe)) => completed' = NothingCompleted
    BY DEF Click, CaptureSwitches, FocusChanges
  <2>4. UNCHANGED vars => completed' = completed
    BY DEF vars, state
  <2> QED
    BY <1>1, <2>1, <2>2, <2>3, <2>4 DEF Next
<1>3. Captured(held, TRUE, dropped) /\ Seen(dropped)
  BY <1>1, <1>2, CapturedIsSeen DEF Press, NotProcessed
<1>4. completed' = IF Tok!Completes(token, Translate(key).kind) THEN Snapshot(token, Translate(key))
                   ELSE NothingCompleted
  BY <1>2, <1>3 DEF Press, ProcessKey
<1>5. Tok!Completes(token, Translate(key).kind) /\ completed' = Snapshot(token, Translate(key))
  BY <1>1, <1>4
<1>6. ~token.overflowed
  BY <1>5 DEF Snapshot
<1> QED
  BY <1>2, <1>3, <1>5, <1>6 DEF Tok!Completes

\* WordIsWhole: the field ends with the word of the session and the boundary, in that order,
\* and what stands before is no part of the word.
LEMMA WordStep ==
  ASSUME KeysInvariant, [Next]_vars
  PROVE  WordIsWhole
<1> SUFFICES ASSUME completed'.class = "NaturalWord", completed'.text # completed.text,
                    ~moved, trust # "nothing", doubt \subseteq {"caps"}
             PROVE  LET n == Len(completed'.text.symbols)
                        shown == LastOf(field', n + 1)
                        before == Len(field') - n - 1
                    IN  /\ n < Len(field')
                        /\ [i \in 1 .. n + 1 |-> shown[i].symbol]
                             = Append(completed'.text.symbols, completed'.boundary.symbol)
                        /\ (before > 0 /\ ~joined) => field'[before].symbol \notin WordSymbols
  BY DEF WordIsWhole
<1> USE KeystrokesAssumption
<1>1. PICK key \in TextKeys, dropped \in BOOLEAN :
        /\ Press(key, dropped) /\ Seen(dropped)
        /\ Translate(key).kind = "boundary" /\ token.chars # <<>> /\ ~token.overflowed
        /\ completed' = Snapshot(token, Translate(key))
  BY WordByBoundary
<1>2. PICK g, c \in Chars :
        /\ FieldAfter(key) = Remembered(Append(field, g)) /\ g.symbol \notin WordSymbols
        /\ Translate(key).char = c /\ c.symbol = g.symbol
  BY <1>1, KeyIsRead DEF KeysInvariant
<1> DEFINE n == Len(token.chars)
           k == Len(field)
           m == Len(field')
           word == [i \in 1 .. n |-> token.chars[i].symbol]
           shown == LastOf(field', n + 1)
           written == Remembered(Append(field, g))
<1>3. /\ token.chars \in Seq(Chars) /\ n \in Nat /\ n <= MaxTokenChars
      /\ field \in Seq(Chars) /\ k \in Nat /\ k <= FieldMemory
      /\ DOMAIN token.chars = 1 .. n
  BY LenProperties DEF KeysInvariant, TypeOK, Tok!Tokens
<1>4. n <= k /\ \A i \in 1 .. n : field[k - n + i].symbol = token.chars[i].symbol
  BY <1>1 DEF KeysInvariant, TextInvariant, TokenShown, Shows
<1>5. field' = written
  BY <1>1, <1>2 DEF Press
<1>6. /\ field' \in Seq(Chars) /\ m \in Nat /\ m = IF k < FieldMemory THEN k + 1 ELSE FieldMemory
      /\ field'[m] = g
      /\ \A j \in 0 .. m - 2 : field'[m - 1 - j] = field[k - j]
  <2>1. /\ written \in Seq(Chars) /\ Len(written) \in Nat
        /\ Len(written) = IF Len(field) < FieldMemory THEN Len(field) + 1 ELSE FieldMemory
        /\ written[Len(written)] = g
        /\ \A j \in 0 .. Len(written) - 2 : written[Len(written) - 1 - j] = field[Len(field) - j]
    BY <1>3, RememberedText
  <2> HIDE DEF written
  <2> QED
    BY <1>5, <2>1
<1>7. completed'.text.symbols = word /\ completed'.boundary.symbol = g.symbol
  BY <1>1, <1>2, <1>3 DEF Snapshot, TextOf, Text
<1>8. word \in Seq(Letters \cup Glyphs) /\ Len(word) = n
  <2>1. \A i \in 1 .. n : token.chars[i].symbol \in Letters \cup Glyphs
    <3>1. \A i \in 1 .. n : token.chars[i] \in Chars
      BY <1>3, ElementOfSeq
    <3> QED
      BY <3>1 DEF Chars
  <2> QED
    BY <1>3, <2>1
<1>9. n + 1 \in Nat /\ n + 1 <= m
  BY <1>3, <1>4, <1>6
<1>10. /\ shown \in Seq(Chars) /\ Len(shown) = n + 1
       /\ \A i \in 1 .. n + 1 : shown[i] = field'[m - (n + 1) + i]
  <2> HIDE DEF n, m
  <2>1. n + 1 \in Nat /\ n + 1 <= Len(field') /\ field' \in Seq(Chars)
    BY <1>6, <1>9 DEF m
  <2> DEFINE l == n + 1
  <2> HIDE DEF l
  <2>2. /\ LastOf(field', l) \in Seq(Chars) /\ Len(LastOf(field', l)) = l
        /\ \A i \in 1 .. l : LastOf(field', l)[i] = field'[Len(field') - l + i]
    BY SMTT(30), <2>1, LastOfText DEF l
  <2> QED
    BY <2>2 DEF l, m
<1>11. g.symbol \in Letters \cup Glyphs
  BY DEF Chars
<1>0. ~joined /\ k > n => field[k - n].symbol \notin WordSymbols
  BY <1>1 DEF KeysInvariant, TextInvariant, WordStartsClean
<1> HIDE DEF shown, n, m, k
<1>12. ASSUME NEW i \in 1 .. n + 1
       PROVE  shown[i].symbol = Append(word, g.symbol)[i]
  <2>1. CASE i = n + 1
    <3>1. m - (n + 1) + i = m
      BY <1>3, <1>6, <2>1
    <3> HIDE DEF word
    <3>2. Append(word, g.symbol)[n + 1] = g.symbol
      BY <1>8, <1>11, AppendProperties
    <3> QED
      BY <1>6, <1>10, <2>1, <3>1, <3>2
  <2>2. CASE i # n + 1
    <3>1. i \in 1 .. n
      BY <1>3, <2>2
    <3> DEFINE j == n - i
    <3>2. j \in 0 .. m - 2 /\ m - (n + 1) + i = m - 1 - j /\ k - j = k - n + i
      BY <1>3, <1>6, <1>9, <3>1
    <3> HIDE DEF j
    <3>3. shown[i] = field[k - n + i]
      <4>1. shown[i] = field'[m - (n + 1) + i]
        BY <1>10
      <4>2. field'[m - 1 - j] = field[k - j]
        BY <1>6, <3>2
      <4> QED
        BY <3>2, <4>1, <4>2
    <3>4. field[k - n + i].symbol = token.chars[i].symbol
      BY <1>4, <3>1
    <3>5. word[i] = token.chars[i].symbol
      BY <3>1
    <3> HIDE DEF word
    <3>6. Append(word, g.symbol)[i] = word[i]
      BY <1>8, <1>11, <3>1, AppendProperties
    <3> QED
      BY <3>3, <3>4, <3>5, <3>6
  <2> QED
    BY <2>1, <2>2
<1>13. [i \in 1 .. n + 1 |-> shown[i].symbol] = Append(word, g.symbol)
  <2> DEFINE more == Append(word, g.symbol)
  <2> HIDE DEF word
  <2>1. more \in Seq(Letters \cup Glyphs) /\ Len(more) = n + 1
    BY <1>8, <1>11, AppendProperties
  <2>2. more = [i \in 1 .. n + 1 |-> more[i]]
    BY <2>1, LenProperties
  <2> HIDE DEF more
  <2>3. \A i \in 1 .. n + 1 : shown[i].symbol = more[i]
    BY <1>12 DEF more
  <2>4. [i \in 1 .. n + 1 |-> shown[i].symbol] = more
    BY <2>2, <2>3
  <2> QED
    BY <2>4 DEF more
<1>14. ASSUME m - n - 1 > 0, ~joined
       PROVE  field'[m - n - 1].symbol \notin WordSymbols
  <2>1. n \in 0 .. m - 2 /\ m - n - 1 = m - 1 - n /\ k > n
    BY <1>3, <1>6, <1>14
  <2>2. field'[m - n - 1] = field[k - n]
    BY <1>6, <2>1
  <2> QED
    BY <1>0, <1>14, <2>1, <2>2
<1>15. n < m
  BY <1>3, <1>6, <1>9
<1>16. Len(completed'.text.symbols) = n
  BY <1>7, <1>8
<1> HIDE DEF word
<1> QED
  BY <1>7, <1>13, <1>14, <1>15, <1>16 DEF shown, m

\* The keyboard path keeps its types, and the token to max_token_chars, for any keys.
THEOREM KeysTypeCorrect == Spec => []TypeOK
<1>1. Init => KeysInvariant
  BY KeysInit
<1>2. KeysInvariant /\ [Next]_vars => KeysInvariant'
  BY KeysNext
<1>3. KeysInvariant => TypeOK
  BY DEF KeysInvariant
<1> QED
  BY <1>1, <1>2, <1>3, PTL DEF Spec

\* TokenState and the field: the word in the session is the text before the caret, for any
\* keys, any bound on the token, and any loss of events that is not in that word.
THEOREM TextCorrect == Spec => []TokenIsTheText
<1>1. Init => KeysInvariant
  BY KeysInit
<1>2. KeysInvariant /\ [Next]_vars => KeysInvariant'
  BY KeysNext
<1>3. KeysInvariant => TokenIsTheText
  BY TokenShownIsText DEF KeysInvariant, TextInvariant
<1> QED
  BY <1>1, <1>2, <1>3, PTL DEF Spec

\* Session::handle: a word that may be corrected is whole, and the boundary follows it.
THEOREM WordsCorrect == Spec => WordsAreWhole
<1>1. Init => KeysInvariant
  BY KeysInit
<1>2. KeysInvariant /\ [Next]_vars => KeysInvariant' /\ [WordIsWhole]_vars
  BY KeysNext, WordStep
<1> QED
  BY <1>1, <1>2, PTL DEF Spec, WordsAreWhole

=============================================================================
