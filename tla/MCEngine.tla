------------------------------ MODULE MCEngine ------------------------------
(***************************************************************************)
(* Words over three letters, a and s being neighbours on the keyboard:     *)
(* dictionaries of words that are near each other, with frequencies on     *)
(* both sides of the thresholds of the confidence policy.                  *)
(***************************************************************************)
EXTENDS Engine, TLC

MCAlphabet == <<"a", "s", "t">>
MCAdjacent == {<<"a", "s">>, <<"s", "a">>}

MCFrequencies == {1, 2, 3, 1000000, 2147483647}
MCReward == 1 :> 832 @@ 2 :> 1318 @@ 3 :> 1664 @@ 1000000 :> 16579 @@ 2147483647 :> 26617

\* "ast" is a word that a dictionary may hold, and a misspelling of "sat".
MCTypos == <<"a", "s", "t">> :> <<"s", "a", "t">>

MCPool == {<<"s", "a", "t">>, <<"t", "a", "s">>, <<"a", "s", "t">>, <<"a", "t", "t">>}
MCLexicons ==
  UNION {[words -> {1, 3}] : words \in SUBSET (MCPool \ {<<"t", "a", "s">>}) \cup {MCPool}} \cup
  [MCPool \ {<<"t", "a", "s">>} -> {3, 1000000}] \cup
  {(<<"s", "t", "a", "t">> :> f) @@ (<<"s", "a", "s">> :> 1) @@ (<<"s", "a", "t">> :> 3)
     @@ [w \in MCPool |-> 1] : f \in {1, 3}}

MCTexts ==
  {Lower(w) : w \in {<<"s", "a", "t">>, <<"a", "s", "t">>, <<"s", "t", "a">>, <<"t", "a", "s">>,
                     <<"s", "s", "t">>, <<"a", "a", "t">>, <<"t", "s", "a">>, <<"s", "a">>,
                     <<"s", "t", "a", "s">>, <<"s", "a", "t", "t">>, <<"s", "a", "t", "s", "a">>}}
  \cup {Text(<<"s", "t", "a">>, {1}), Text(<<"s", "t", "a">>, {1, 2, 3}),
        Lower(<<"s", "1", "a">>), Lower(<<"s", "non-ascii", "a">>)}

MCLines ==
  [words   |-> {<<"s", "s", "t">>, <<"s", "1">>},
   forced  |-> {<<<<"a", "s", "t">>, <<"t", "a", "s">>>>, <<<<"a", "s", "t">>, <<"s">>>>,
                <<<<"t", "s", "a">>, <<"t", "s", "a">>>>},
   blocked |-> {<<<<"s", "t", "a">>, <<"s", "a", "t">>>>}]

=============================================================================
