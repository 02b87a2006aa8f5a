----------------------------- MODULE Keystrokes -----------------------------
(***************************************************************************)
(* From the keyboard to the word: the hook (langcheck-windows/src/input/   *)
(* mod.rs), the translator (input/translate.rs) and the session            *)
(* (langcheck-core/src/session.rs), with what the same keys make of the    *)
(* field meanwhile.  The translator knows a modifier only from the events  *)
(* it was given, the application knows the keyboard.                       *)
(*                                                                         *)
(* The queue between hook and coordinator keeps the order and may refuse   *)
(* an event; what else its delay does, and what a completed word leads to, *)
(* is the subject of Autocorrect.  A character is its symbol and whether   *)
(* it is in upper case.                                                    *)
(***************************************************************************)
EXTENDS Words

CONSTANTS
  ModifierKeys,   \* the modifier keys of the keyboard
  TextKeys,       \* the other keys the user presses
  MaxTokenChars,  \* config.performance.max_token_chars
  FieldMemory,    \* how much of the field is remembered
  MaxPresses,     \* bounds: keys pressed, and events that are refused by the full queue,
  MaxTroubles     \*   clicks and changes of the field or of the capture gate

\* The flag of a modifier key: the left and the right one share it.
FlagOf(m) ==
  CASE m \in {"lshift", "rshift"}     -> "shift"
    [] m \in {"lcontrol", "rcontrol"} -> "ctrl"
    [] m \in {"lmenu", "rmenu"}       -> "alt"
    [] m \in {"lwin", "rwin"}         -> "win"

CommandFlags == {"ctrl", "alt", "win"}
Flags == {"shift", "caps"} \cup CommandFlags

Digits == {"1", "2"}
NavigationKeys == {"return", "tab", "delete", "left", "escape"}

\* What the other keys type, without and with Shift, on the US layout.
Shifted ==
  [key \in Digits \cup {"space", "period", "comma", "oem_1", "oem_2", "oem_7", "minus", "oem_5"} |->
     CASE key = "1"      -> <<"1", "!">>  [] key = "2"     -> <<"1", "@">>
       [] key = "space"  -> <<" ", " ">>  [] key = "minus" -> <<"-", "_">>
       [] key = "period" -> <<".", ">">>  [] key = "comma" -> <<",", "<">>
       [] key = "oem_1"  -> <<";", ":">>  [] key = "oem_2" -> <<"/", "?">>
       [] key = "oem_7"  -> <<"'", "\"">> [] key = "oem_5" -> <<"\\", "|">>]

Glyphs == {Shifted[key][i] : key \in DOMAIN Shifted, i \in 1 .. 2}

\* A letter is its own key; no other key has the name of a letter or types one.
ASSUME KeystrokesAssumption ==
  /\ ModifierKeys \subseteq
       {"lshift", "rshift", "lcontrol", "rcontrol", "lmenu", "rmenu", "lwin", "rwin"}
  /\ TextKeys \subseteq Letters \cup DOMAIN Shifted \cup NavigationKeys \cup {"back"}
  /\ Letters \cap (DOMAIN Shifted \cup NavigationKeys \cup {"back"} \cup Glyphs) = {}
  /\ MaxTokenChars \in Nat \ {0} /\ FieldMemory \in Nat /\ FieldMemory > MaxTokenChars + 1
  /\ MaxPresses \in Nat /\ MaxTroubles \in Nat
  /\ NoText # "NaturalWord"

VARIABLES
  held,      \* the modifier keys that are down, "capital" among them
  locked,    \* whether the system has Caps Lock on
  capture,   \* CAPTURE_ALLOWED
  moved,     \* the published focus is not the one of the session
  flags,     \* KeyTranslator: the flags that are set
  token,     \* Session: the word being typed
  completed, \* the word the last key completed, NoText if none
  field,     \* the end of the text before the caret, as far as it is known
  doubt,     \* the flags that may differ from the keyboard: a key was missed, or let go
             \*   while its twin is down; for "caps", the flags that do differ
  trust,     \* what of the token was seen as it was typed: "all", but for the case of
             \*   the letters "symbols", or "nothing"
  joined,    \* the token began where the end of another word may stand
  spent      \* the bounds

state == <<flags, token, completed>>
ghosts == <<field, doubt, trust, joined>>
vars == <<held, locked, capture, moved, state, ghosts, spent>>

Tok == INSTANCE Typing WITH ReplacementLen <- 1

NothingCompleted == [text |-> NoText, boundary |-> NoText, class |-> NoText]

Char(symbol, upper) == [symbol |-> symbol, upper |-> upper]
TextOf(chars) == Text([i \in DOMAIN chars |-> chars[i].symbol], {i \in DOMAIN chars : chars[i].upper})

-----------------------------------------------------------------------------
(* The keyboard and the application.                                       *)

Sets(keys, flag) == \E m \in keys \ {"capital"} : FlagOf(m) = flag
IsDown(flag) == Sets(held, flag)

Glyph(key) ==
  IF key \in Letters THEN Char(key, IsDown("shift") # locked)
  ELSE Char(Shifted[key][IF IsDown("shift") THEN 2 ELSE 1], FALSE)

Remembered(text) == IF Len(text) > FieldMemory THEN Tail(text) ELSE text

\* A shortcut or a jump of the caret leaves a text of which nothing is known.
FieldAfter(key) ==
  IF (\E f \in CommandFlags : IsDown(f)) \/ key \in NavigationKeys THEN <<>>
  ELSE IF key = "back" THEN IF field = <<>> THEN <<>> ELSE Tok!EraseLast(field, 1)
  ELSE Remembered(Append(field, Glyph(key)))

\* With Alt among the keys that are down, and without Ctrl, a key is a system key.
MessageOf(keys, down) ==
  LET sys == Sets(keys, "alt") /\ ~Sets(keys, "ctrl")
  IN  IF down THEN IF sys THEN "WM_SYSKEYDOWN" ELSE "WM_KEYDOWN"
      ELSE IF sys THEN "WM_SYSKEYUP" ELSE "WM_KEYUP"

-----------------------------------------------------------------------------
(* The program.                                                            *)

\* System keys are forgotten.
ClassifyPlainMessage(message) ==
  CASE message = "WM_KEYDOWN" -> "KeyDown" [] message = "WM_KEYUP" -> "KeyUp" [] OTHER -> "None"

ClassifyMessage(message) ==
  CASE message \in {"WM_KEYDOWN", "WM_SYSKEYDOWN"} -> "KeyDown"
    [] message \in {"WM_KEYUP", "WM_SYSKEYUP"}     -> "KeyUp"
    [] OTHER                                       -> "None"

BoundaryOrReset(shift, symbol) ==
  IF shift THEN [kind |-> "reset"] ELSE [kind |-> "boundary", char |-> Char(symbol, FALSE)]

\* translate_key.
TranslateKey(key, shift, caps) ==
  LET AChar(symbol, upper) == [kind |-> "char", char |-> Char(symbol, upper)]
      ABoundary(symbol)    == [kind |-> "boundary", char |-> Char(symbol, FALSE)]
      AReset               == [kind |-> "reset"]
  IN  CASE key \in Letters        -> AChar(key, shift # caps)
        [] key \in Digits /\ ~shift -> AChar("1", FALSE)
        [] key = "1" /\ shift     -> ABoundary("!")
        [] key = "2" /\ shift     -> AReset
        [] key = "space"          -> ABoundary(" ")
        [] key = "back"           -> [kind |-> "backspace"]
        [] key = "period"         -> BoundaryOrReset(shift, ".")
        [] key = "comma"          -> BoundaryOrReset(shift, ",")
        [] key = "oem_1"          -> ABoundary(IF shift THEN ":" ELSE ";")
        [] key = "oem_2"          -> IF shift THEN ABoundary("?") ELSE AChar("/", FALSE)
        [] key = "oem_7"          -> IF shift THEN AReset ELSE AChar("'", FALSE)
        [] key = "minus"          -> AChar(IF shift THEN "_" ELSE "-", FALSE)
        [] OTHER                  -> AReset

\* KeyTranslator::translate, of a key that is no modifier and goes down.
Translate(key) ==
  IF flags \cap CommandFlags # {} THEN [kind |-> "reset"]
  ELSE TranslateKey(key, "shift" \in flags, "caps" \in flags)

\* A release that is not noticed.
SetOnly(flag, down) == IF down THEN flags \cup {flag} ELSE flags

SetFlag(flag, down) == IF down THEN flags \cup {flag} ELSE flags \ {flag}

ToggleCaps(down) ==
  IF ~down THEN flags ELSE IF "caps" \in flags THEN flags \ {"caps"} ELSE flags \cup {"caps"}

\* A full buffer that starts anew.
HandleAnew(t, action) ==
  IF action.kind = "char" /\ Len(t.chars) >= MaxTokenChars
  THEN Tok!Push(Tok!EmptyToken, action.char)
  ELSE Tok!TokenAfter(t, action.kind, IF action.kind = "char" THEN action.char ELSE NoText)

\* A buffer without a bound.
HandleUnbounded(t, action) ==
  IF action.kind = "char" THEN [t EXCEPT !.chars = Append(@, action.char)]
  ELSE Tok!TokenAfter(t, action.kind, NoText)

\* TokenState and Session::handle.
Handle(t, action) ==
  Tok!TokenAfter(t, action.kind, IF action.kind = "char" THEN action.char ELSE NoText)

\* Session::snapshot.
Snapshot(t, action) ==
  [text |-> TextOf(t.chars), boundary |-> action.char,
   class |-> IF t.overflowed THEN "TooLong" ELSE Classify(TextOf(t.chars), MaxTokenChars)]

\* Coordinator::process, for the event of a key the translator takes as a modifier: the
\* focus is reconciled, the flags change, the session does not see it.
ProcessModifier(newFlags) ==
  /\ flags' = newFlags
  /\ token' = IF moved THEN Tok!EmptyToken ELSE token
  /\ moved' = FALSE /\ completed' = NothingCompleted

\* The same for any other key, of which the translator makes an action.
ProcessKey(action) ==
  LET now == IF moved THEN Tok!EmptyToken ELSE token
  IN  /\ token' = Handle(now, action)
      /\ completed' = IF Tok!Completes(now, action.kind) THEN Snapshot(now, action) ELSE NothingCompleted
      /\ moved' = FALSE /\ UNCHANGED flags

\* keyboard_hook_proc: the event reaches the coordinator unless capture is off, the
\* message is not one of a key, or the queue is full.
Seen(dropped) == capture /\ ~dropped
Captured(keys, down, dropped) == Seen(dropped) /\ ClassifyMessage(MessageOf(keys, down)) # "None"

NotProcessed == completed' = NothingCompleted /\ UNCHANGED <<flags, token, moved>>

-----------------------------------------------------------------------------
(* What the user does.                                                     *)

Spend(presses, troubles) ==
  /\ spent' = [presses |-> spent.presses + presses, troubles |-> spent.troubles + troubles]
  /\ spent'.presses <= MaxPresses /\ spent'.troubles <= MaxTroubles

One(happens) == IF happens THEN 1 ELSE 0

\* The flag follows the key, whose twin may still be down when it is let go.
DoubtAfter(flag, m, down, seen) ==
  IF seen /\ (down \/ ~\E other \in held \ {m, "capital"} : FlagOf(other) = flag)
  THEN doubt \ {flag} ELSE doubt \cup {flag}

\* What is seen of a key of the text.
SeenOf(seen) ==
  CASE ~seen \/ doubt \ {"caps"} # {} -> "nothing"
    [] seen /\ doubt = {"caps"}       -> "symbols"
    [] seen /\ doubt = {}             -> "all"

Least(t, u) ==
  CASE "nothing" \in {t, u} -> "nothing" [] {t, u} = {"all"} -> "all" [] OTHER -> "symbols"

\* A modifier key goes down, again if it repeats, or up.
Modifier(m, down, dropped) ==
  LET seen == Seen(dropped) IN
  /\ down \/ m \in held
  /\ held' = IF down THEN held \cup {m} ELSE held \ {m}
  /\ doubt' = DoubtAfter(FlagOf(m), m, down, seen)
  /\ IF Captured(held \cup {m}, down, dropped)
     THEN ProcessModifier(SetFlag(FlagOf(m), down)) ELSE NotProcessed
  /\ trust' = IF token'.chars = <<>> THEN "all" ELSE trust
  /\ UNCHANGED <<locked, capture, field, joined>>
  /\ Spend(One(down), One(dropped))

\* The Caps Lock key: the system switches at a press, not when the key repeats.
CapsLock(down, dropped) ==
  LET seen == Seen(dropped)
      switches == down /\ "capital" \notin held
      mirrored == (seen /\ down) = switches
  IN
  /\ down \/ "capital" \in held
  /\ held' = IF down THEN held \cup {"capital"} ELSE held \ {"capital"}
  /\ locked' = (locked # switches)
  /\ doubt' = IF mirrored THEN doubt
              ELSE IF "caps" \in doubt THEN doubt \ {"caps"} ELSE doubt \cup {"caps"}
  /\ IF Captured(held, down, dropped) THEN ProcessModifier(ToggleCaps(down)) ELSE NotProcessed
  /\ trust' = IF token'.chars = <<>> THEN "all" ELSE trust
  /\ UNCHANGED <<capture, field, joined>>
  /\ Spend(One(down), One(dropped))

\* A key of the text goes down.
Press(key, dropped) ==
  LET seen == Seen(dropped)
      pastToken == key = "back" /\ (moved \/ token.chars = <<>>)
  IN
  /\ field' = FieldAfter(key)
  /\ IF Captured(held, TRUE, dropped) THEN ProcessKey(Translate(key)) ELSE NotProcessed
  /\ trust' = IF token'.chars = <<>> THEN "all"
              ELSE IF seen /\ moved THEN SeenOf(seen) ELSE Least(trust, SeenOf(seen))
  /\ joined' = /\ field' # <<>>
               /\ \/ SeenOf(seen) = "nothing" \/ pastToken
                  \/ joined /\ (token'.chars # <<>> \/ key = "back")
  /\ UNCHANGED <<held, locked, capture, doubt>>
  /\ Spend(1, One(dropped))

\* A key of the text, pressed before, goes up.
Release(dropped) ==
  /\ spent.presses > 0
  /\ IF Captured(held, FALSE, dropped) THEN ProcessKey([kind |-> "ignore"]) ELSE NotProcessed
  /\ trust' = IF token'.chars = <<>> THEN "all" ELSE trust
  /\ UNCHANGED <<held, locked, capture, field, doubt, joined>>
  /\ Spend(0, One(dropped))

\* The user goes to another field, safe or not, and the focus thread has published it.
FocusChanges(safe) ==
  /\ capture' = safe /\ moved' = TRUE
  /\ field' = <<>> /\ joined' = FALSE /\ completed' = NothingCompleted
  /\ UNCHANGED <<held, locked, flags, token, doubt, trust>>
  /\ Spend(0, 1)

\* The user clicks into the text of the field: no event says so.
Click ==
  /\ field' = <<>> /\ joined' = FALSE /\ completed' = NothingCompleted
  /\ trust' = IF token.chars = <<>> THEN "all" ELSE "nothing"
  /\ UNCHANGED <<held, locked, capture, moved, flags, token, doubt>>
  /\ Spend(0, 1)

\* A kill switch, or the safety of the field where the user stays.
CaptureSwitches ==
  /\ capture' = ~capture /\ completed' = NothingCompleted
  /\ UNCHANGED <<held, locked, moved, flags, token, ghosts>>
  /\ Spend(0, 1)

\* KeyTranslator::default: Caps Lock is read, a modifier that is down is not.
Init ==
  /\ held \in SUBSET ModifierKeys /\ locked \in BOOLEAN
  /\ flags = IF locked THEN {"caps"} ELSE {}
  /\ doubt = {FlagOf(m) : m \in held}
  /\ capture = TRUE /\ moved = FALSE
  /\ token = Tok!EmptyToken /\ completed = NothingCompleted
  /\ field = <<>> /\ trust = "all" /\ joined = FALSE
  /\ spent = [presses |-> 0, troubles |-> 0]

Next ==
  \/ \E down, dropped \in BOOLEAN :
       \/ \E m \in ModifierKeys : Modifier(m, down, dropped)
       \/ CapsLock(down, dropped)
  \/ \E key \in TextKeys, dropped \in BOOLEAN : Press(key, dropped)
  \/ \E dropped \in BOOLEAN : Release(dropped)
  \/ \E safe \in BOOLEAN : FocusChanges(safe)
  \/ Click
  \/ CaptureSwitches

Spec == Init /\ [][Next]_vars

-----------------------------------------------------------------------------
Chars == [symbol : Letters \cup Glyphs, upper : BOOLEAN]

\* The symbols a word is made of, those the translator reports as characters.
WordSymbols == Letters \cup {"1", "'", "/", "-", "_"}

\* Types; the token keeps to max_token_chars (token.rs 142-152).
TypeOK ==
  /\ held \subseteq ModifierKeys \cup {"capital"} /\ locked \in BOOLEAN
  /\ capture \in BOOLEAN /\ moved \in BOOLEAN
  /\ flags \subseteq Flags /\ doubt \subseteq Flags
  /\ token \in Tok!Tokens(Chars) /\ Len(token.chars) <= MaxTokenChars
  /\ field \in Seq(Chars) /\ Len(field) <= FieldMemory
  /\ trust \in {"all", "symbols", "nothing"} /\ joined \in BOOLEAN

\* A flag of the translator differs from the keyboard only after an event of its key was
\* missed, or with the twin of a key down; the next event that is seen of it puts it right.
\* Caps Lock is counted: it is wrong exactly after an odd number of presses that were
\* missed or repeated, and then until the next such press (translate.rs 66-103).
FlagsAgree ==
  /\ \A f \in Flags \ ({"caps"} \cup doubt) : f \in flags <=> IsDown(f)
  /\ "caps" \in doubt <=> ~("caps" \in flags <=> locked)

SameSymbols(v, w) == [i \in DOMAIN v |-> v[i].symbol] = [i \in DOMAIN w |-> w[i].symbol]
LastOf(text, n) == SubSeq(text, Len(text) - n + 1, Len(text))

\* The word the session holds is the text before the caret, symbol by symbol and, unless
\* Caps Lock was mistaken, in its case; a shortcut is never taken for text.  Excused are
\* words with a key that was missed or read under a mistaken flag, and overflowed ones
\* (session.rs 208-248, translate.rs 98-180).
TokenIsTheText ==
  (~moved /\ ~token.overflowed /\ trust # "nothing") =>
    /\ Len(token.chars) <= Len(field)
    /\ LET shown == LastOf(field, Len(token.chars))
       IN  IF trust = "all" THEN shown = token.chars ELSE SameSymbols(shown, token.chars)

\* A word that may be corrected is a whole word of the text, with the boundary that is
\* typed again after it: what stands before it is no part of it, unless the user came
\* there by deleting the boundary, or keys were missed (token.rs 138-152, session.rs 208-266).
WordIsWhole ==
  (/\ completed'.class = "NaturalWord" /\ completed'.text # completed.text
   /\ ~moved /\ trust # "nothing" /\ doubt \subseteq {"caps"}) =>
    LET n == Len(completed'.text.symbols)
        shown == LastOf(field', n + 1)
        before == Len(field') - n - 1
    IN  /\ n < Len(field')
        /\ [i \in 1 .. n + 1 |-> shown[i].symbol] = Append(completed'.text.symbols, completed'.boundary.symbol)
        /\ (before > 0 /\ ~joined) => field'[before].symbol \notin WordSymbols

WordsAreWhole == [][WordIsWhole]_vars

=============================================================================
