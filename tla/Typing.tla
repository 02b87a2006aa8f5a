------------------------------- MODULE Typing -------------------------------
(***************************************************************************)
(* The data the correction loop works on, as pure operators: the token of  *)
(* the word being typed (langcheck-core/src/token.rs, session.rs), the     *)
(* keystrokes of a correction and of its undo (langcheck-windows/src/      *)
(* replace/mod.rs), and the text of the field the user types into.         *)
(*                                                                         *)
(* A character is identified by its LABEL, not by its glyph: the physical  *)
(* generation of the key press that typed it, Untracked for a key the      *)
(* observer did not capture, -g for a character of the replacement typed   *)
(* for the boundary of generation g.  Labels tell apart exactly what the   *)
(* properties need: which key press a character of the field comes from.   *)
(***************************************************************************)
EXTENDS Integers, Sequences

CONSTANTS
  MaxTokenChars,   \* config.performance.max_token_chars
  MinWordLen,      \* MIN_NATURAL_WORD_LEN of classify.rs
  ReplacementLen   \* characters of a replacement

ASSUME TypingAssumption ==
  /\ MaxTokenChars \in Nat \ {0}
  /\ MinWordLen \in Nat \ {0}
  /\ ReplacementLen \in Nat \ {0}

-----------------------------------------------------------------------------
(* The field: the labels of the characters known to stand immediately      *)
(* before the caret.  Nothing is known after a caret jump.                 *)

Untracked == 0

\* What KeyTranslator::translate makes of a key.
Translated == {"char", "boundary", "backspace", "reset", "ignore"}

EndsWith(text, tail) ==
  /\ Len(tail) <= Len(text)
  /\ SubSeq(text, Len(text) - Len(tail) + 1, Len(text)) = tail

EraseLast(text, n) == SubSeq(text, 1, Len(text) - n)

\* What the target application does with a key of the user.
Typed(text, kind, label) ==
  CASE kind \in {"char", "boundary"} -> Append(text, label)
    [] kind = "backspace"            -> EraseLast(text, 1)
    [] kind = "reset"                -> <<>>
    [] OTHER                         -> text

-----------------------------------------------------------------------------
(* TokenState: the bounded buffer of the word being typed.                 *)

Tokens(Labels) == [chars : Seq(Labels), overflowed : BOOLEAN]

EmptyToken == [chars |-> <<>>, overflowed |-> FALSE]

\* A bound that is off by one.
PushOneMore(token, label) ==
  IF Len(token.chars) > MaxTokenChars
  THEN [token EXCEPT !.overflowed = TRUE]
  ELSE [token EXCEPT !.chars = Append(@, label)]

Push(token, label) ==
  IF Len(token.chars) >= MaxTokenChars
  THEN [token EXCEPT !.overflowed = TRUE]
  ELSE [token EXCEPT !.chars = Append(@, label)]

\* The flag is sticky: the field still holds the characters that were refused.
Pop(token) == [token EXCEPT !.chars = EraseLast(@, 1)]

\* Session::handle, what it does to the token.
TokenAfter(token, kind, label) ==
  CASE kind = "char"                              -> Push(token, label)
    [] kind = "reset"                             -> EmptyToken
    [] kind = "backspace" /\ token.chars # <<>>   -> Pop(token)
    [] kind = "boundary" /\ token.chars # <<>>    -> EmptyToken
    [] OTHER                                      -> token

\* Session::handle, when it reports a completed word.
Completes(token, kind) == kind = "boundary" /\ token.chars # <<>>

\* The length limits of WordSnapshot::is_autocorrect_eligible.  The lexical
\* limits (digits, case, apostrophes) only refuse more words, which is an
\* outcome of the evaluation that follows.
Eligible(token) == ~token.overflowed /\ Len(token.chars) >= MinWordLen

-----------------------------------------------------------------------------
(* A SendInput batch: backspaces, then typed characters.                   *)

ReplacementText(gen) == [i \in 1 .. ReplacementLen |-> -gen]

BuildKeyActions(word, gen) ==
  [erase |-> Len(word) + 1, insert |-> ReplacementText(gen) \o <<gen>>]

\* An undo that forgets that the user's Backspace removed the boundary.
UndoOfTheBoundaryToo(word, gen) ==
  [erase |-> ReplacementLen + 1, insert |-> word \o <<gen>>]

\* The user's Backspace has already removed the boundary.
BuildUndoKeyActions(word, gen) ==
  [erase |-> ReplacementLen, insert |-> word \o <<gen>>]

BatchLen(batch) == batch.erase + Len(batch.insert)

\* The field after the first n actions of the batch reached it.
Injected(text, batch, n) ==
  IF n <= batch.erase
  THEN EraseLast(text, n)
  ELSE EraseLast(text, batch.erase) \o SubSeq(batch.insert, 1, n - batch.erase)

=============================================================================
