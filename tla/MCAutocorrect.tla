---------------------------- MODULE MCAutocorrect ----------------------------
(***************************************************************************)
(* Small instances of Autocorrect for TLC.                                 *)
(***************************************************************************)
EXTENDS Autocorrect, TLC

CONSTANTS
  FirstWindow, SecondWindow,
  SecondWindowFields,                 \* the fields of the second window
  MaxActs, MaxToggles, MaxContacts

MCWindowOf == [f \in Fields |-> IF f \in SecondWindowFields THEN SecondWindow ELSE FirstWindow]

MCBudget == "act" :> MaxActs @@ "toggle" :> MaxToggles @@ "contact" :> MaxContacts

=============================================================================
