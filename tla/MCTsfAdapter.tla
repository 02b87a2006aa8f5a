---------------------------- MODULE MCTsfAdapter ----------------------------
(***************************************************************************)
(* A small instance: a word of two letters is corrected to one of three,   *)
(* and that to one of one, which is right.  Three letters fill the window; *)
(* a word of four has an end that looks like a word of the table.          *)
(***************************************************************************)
EXTENDS TsfAdapter, TLC

CONSTANTS a, b, d1, d2

MCInitialText == (d1 :> <<a, b>>) @@ (d2 :> <<a, b, a, b>>)
MCCorrections == (<<a, b>> :> <<b, a, b>>) @@ (<<b, a, b>> :> <<a>>)
MCSelections == {<<2, 2>>, <<0, 3>>, <<1, 4>>}
MCBudget == [edit |-> 2, select |-> 1, move |-> 2, fault |-> 1]

=============================================================================
