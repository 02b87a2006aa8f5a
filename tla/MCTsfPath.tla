------------------------------ MODULE MCTsfPath ------------------------------
(***************************************************************************)
(* Small instances of TsfPath for TLC.                                     *)
(***************************************************************************)
EXTENDS TsfPath, TLC

CONSTANTS
  Typo, Slip, Right,
  MaxWords, MaxMoves, MaxToggles

MCCorrections == Typo :> Right

\* The correction is corrected again, as user pairs may have it.
MCCorrectionChain == Typo :> Slip @@ Slip :> Right

MCBudget == "word" :> MaxWords @@ "move" :> MaxMoves @@ "toggle" :> MaxToggles

=============================================================================
