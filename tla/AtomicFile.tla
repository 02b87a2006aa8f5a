----------------------------- MODULE AtomicFile -----------------------------
(***************************************************************************)
(* What persistence.rs promises of a file that several processes rewrite:  *)
(* readers find a whole version of it or none, whatever crashes, except    *)
(* while a person saves it from an editor, which writes in place.          *)
(***************************************************************************)
CONSTANTS Procs, Contents, Absent, Torn

VARIABLES
  file,      \* Absent, Torn or a member of Contents
  pending,   \* per process: the version it is about to install, or Absent
  editing    \* an editor is between the two halves of its write

vars == <<file, pending, editing>>

Init ==
  /\ file \in Contents \cup {Absent}
  /\ pending = [p \in Procs |-> Absent]
  /\ editing = FALSE

Prepare(p) ==
  /\ pending[p] = Absent
  /\ \E v \in Contents : pending' = [pending EXCEPT ![p] = v]
  /\ UNCHANGED <<file, editing>>

\* The only way a process changes the file: all of its version at once.
Install(p) ==
  /\ pending[p] # Absent
  /\ file' = pending[p]
  /\ pending' = [pending EXCEPT ![p] = Absent]
  /\ UNCHANGED editing

\* A failure or a crash before that changes nothing.
Abandon(p) ==
  /\ pending[p] # Absent
  /\ pending' = [pending EXCEPT ![p] = Absent]
  /\ UNCHANGED <<file, editing>>

Erase == file' = Absent /\ UNCHANGED <<pending, editing>>

BeginEdit == ~editing /\ editing' = TRUE /\ file' = Torn /\ UNCHANGED pending

EndEdit == editing /\ editing' = FALSE /\ file' \in Contents /\ UNCHANGED pending

Next ==
  \/ \E p \in Procs : Prepare(p) \/ Install(p) \/ Abandon(p)
  \/ Erase \/ BeginEdit \/ EndEdit

Spec == Init /\ [][Next]_vars

=============================================================================
