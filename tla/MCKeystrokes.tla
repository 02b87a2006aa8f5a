---------------------------- MODULE MCKeystrokes ----------------------------
(* A keyboard with both Shift keys and one Alt key. *)
EXTENDS Keystrokes

MCAlphabet == <<"a">>
MCModifierKeys == {"lshift", "rshift", "lmenu"}
MCTextKeys == {"a", "1", "space", "back", "left"}
=============================================================================
