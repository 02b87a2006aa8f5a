---------------------------- MODULE MCLifecycle -----------------------------
(***************************************************************************)
(* Three commands in two processes that may run side by side, with one     *)
(* toggle in the tray, one crash, one failing call and one edit.           *)
(***************************************************************************)
EXTENDS Lifecycle, TLC

MCBudget == [command |-> 3, toggle |-> 1, crash |-> 1, fault |-> 1, edit |-> 1]
Symmetry == Permutations(Procs)

=============================================================================
