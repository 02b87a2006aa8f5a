------------------------ MODULE AutocorrectTextProofs ------------------------
(***************************************************************************)
(* Theorems about the text that Autocorrect leaves in the fields, for      *)
(* every number of fields, every queue capacity, every token bound, every  *)
(* length of the replacements and every behaviour of the user.             *)
(***************************************************************************)
EXTENDS AutocorrectProofs

\* try_commit is under way.
Committing == {"defer", "deferTime", "gate", "evaluate", "recheck", "execute"}

\* The newest generation the session has handled.
Handled == IF pc = "process" THEN current.gen - 1 ELSE current.gen

-----------------------------------------------------------------------------
(* Which steps touch what a field's text depends on.                       *)

loopVars == <<field, text, generation, queue, dropped, coordVars, blindspot, textBefore>>

\* Only the user's keys, clicks and moves and the coordinator do.
LEMMA LoopFrame ==
  ASSUME Next
  PROVE  \/ \E kind \in UserKeys : PressKey(kind)
         \/ ClickInField
         \/ \E f \in Fields : FocusField(f)
         \/ Coordinator
         \/ UNCHANGED loopVars
<1> USE DEF loopVars, userVars, hookVars, ghostVars
<1>1. CASE User
  BY <1>1 DEF User, ToggleEnabled, TogglePause, RequestExit
<1>2. CASE FocusThread
  BY <1>2 DEF FocusThread, FocusCheckShutdown, ClassifyFocused, PublishFocus, CheckPolicy,
              FocusReadEnabled, FocusReadPaused, GateCapture
<1>3. CASE Main \/ Broker \/ BrokerContact \/ TsfWindowElapses
  BY <1>3 DEF Main, DisallowCapture, StopObserver, JoinThreads, Broker, BrokerContact,
              NoteTsfFocus, NoteTsfTime, TsfWindowElapses
<1> QED
  BY <1>1, <1>2, <1>3 DEF Next

\* The coordinator reads the fields and the hook's counters; only a SendInput
\* changes a field, and only receiving takes from the queue.
LEMMA CoordinatorFrame ==
  ASSUME Coordinator
  PROVE  /\ UNCHANGED <<field, generation, dropped>>
         /\ Receive \/ UNCHANGED <<queue, current>>
         /\ \/ UndoSent \/ UndoFailed \/ CorrectionSent \/ CorrectionFailed
            \/ UNCHANGED <<text, blindspot, textBefore>>
<1> USE DEF userVars, hookVars, ghostVars
<1>1. CASE \/ CheckShutdown \/ RecvTimeout \/ Receive
           \/ ProcessIgnored \/ ProcessUndo \/ ProcessKey
  BY <1>1 DEF CheckShutdown, RecvTimeout, Receive, ProcessIgnored, ProcessUndo,
              ProcessKey, ProcessUnchanged
<1>2. CASE UndoSent \/ UndoFailed \/ CorrectionSent \/ CorrectionFailed
  BY <1>2 DEF UndoSent, UndoFailed, CorrectionSent, CorrectionFailed
<1>3. CASE DeferReadFocus \/ DeferReadTime \/ GateRead \/ Evaluate \/ Recheck
  BY <1>3 DEF DeferReadFocus, DeferReadTime, GateRead, Evaluate, Recheck, CommitUnchanged
<1> QED
  BY <1>1, <1>2, <1>3 DEF Coordinator

\* A commit goes on with the word it began with, or ends.
LEMMA CommitFrame ==
  ASSUME TypeOK, DeferReadFocus \/ DeferReadTime \/ GateRead \/ Evaluate \/ Recheck
  PROVE  /\ pc \in Committing
         /\ UNCHANGED <<session, undo, current>>
         /\ \/ pc' = "loop" /\ correction' = NoCorrection
            \/ /\ pc' \in Committing
               /\ correction'.gen = correction.gen /\ correction'.word = correction.word
<1> USE DEF CommitUnchanged, Cancel, Committing
<1>1. ASSUME NEW p \in Proposable
      PROVE  /\ [correction EXCEPT !.pair = p].gen = correction.gen
             /\ [correction EXCEPT !.pair = p].word = correction.word
  BY DEF TypeOK, CoordTypeOK, Correction
<1>2. CASE DeferReadFocus \/ DeferReadTime \/ Recheck
  BY <1>2 DEF DeferReadFocus, DeferReadTime, Recheck
<1>3. CASE GateRead
  BY <1>3 DEF GateRead
<1>4. CASE Evaluate
  <2>1. CASE Cancel
    BY <1>4, <2>1 DEF Evaluate
  <2>2. ASSUME NEW p \in Proposable, correction' = [correction EXCEPT !.pair = p],
               pc' = "recheck"
        PROVE  pc' \in Committing /\ correction'.gen = correction.gen
               /\ correction'.word = correction.word
    BY <1>1, <2>2
  <2>3. pc \in Committing /\ UNCHANGED <<session, undo, current>>
    BY <1>4 DEF Evaluate
  <2> QED
    BY <1>4, <2>1, <2>2, <2>3 DEF Evaluate
<1> QED
  BY <1>2, <1>3, <1>4

\* The batch that SendInput is about to get.
PendingBatch ==
  IF pc = "undo" THEN BuildUndoKeyActions(correction.word, correction.gen)
                 ELSE BuildKeyActions(correction.word, correction.gen)

\* What a SendInput step does to the coordinator: back to the loop, with the batch in
\* the field in front whole, in part or not at all.
LEMMA SendFrame ==
  ASSUME TypeOK, UndoSent \/ UndoFailed \/ CorrectionSent \/ CorrectionFailed
  PROVE  /\ pc \in {"undo", "execute"} /\ pc' = "loop" /\ correction' = NoCorrection
         /\ UNCHANGED <<field, generation, queue, current, dropped, session>>
         /\ UNCHANGED <<undo, textBefore>> \/ CorrectionSent
         /\ \/ UNCHANGED <<text, blindspot>>
            \/ \E sent \in Nat : sent <= BatchLen(PendingBatch) /\ SendBatch(PendingBatch, sent)
<1> USE DEF hookVars
<1>1. BatchLen(PendingBatch) \in Nat
  <2>1. PendingBatch \in [erase : Nat, insert : Seq(Int)]
    BY BatchType DEF PendingBatch, TypeOK, CoordTypeOK, Correction
  <2> QED
    BY <2>1, LenProperties DEF BatchLen
<1>2. CASE UndoSent
  <2>1. PendingBatch = BuildUndoKeyActions(correction.word, correction.gen)
    BY <1>2 DEF UndoSent, PendingBatch
  <2> QED
    BY <1>1, <1>2, <2>1 DEF UndoSent
<1>3. CASE CorrectionSent
  <2>1. PendingBatch = BuildKeyActions(correction.word, correction.gen)
    BY <1>3 DEF CorrectionSent, PendingBatch
  <2> QED
    BY <1>1, <1>3, <2>1 DEF CorrectionSent
<1>4. CASE UndoFailed
  <2>1. PendingBatch = BuildUndoKeyActions(correction.word, correction.gen)
    BY <1>4 DEF UndoFailed, PendingBatch
  <2>2. SendNothing \/ \E sent \in 1 .. BatchLen(PendingBatch) - 1 : SendBatch(PendingBatch, sent)
    BY <1>4, <2>1 DEF UndoFailed
  <2>3. UNCHANGED <<text, blindspot>>
        \/ \E sent \in Nat : sent <= BatchLen(PendingBatch) /\ SendBatch(PendingBatch, sent)
    BY <1>1, <2>2 DEF SendNothing
  <2> QED
    BY <1>4, <2>3 DEF UndoFailed
<1>5. CASE CorrectionFailed
  <2>1. PendingBatch = BuildKeyActions(correction.word, correction.gen)
    BY <1>5 DEF CorrectionFailed, PendingBatch
  <2>2. SendNothing \/ \E sent \in 1 .. BatchLen(PendingBatch) - 1 : SendBatch(PendingBatch, sent)
    BY <1>5, <2>1 DEF CorrectionFailed
  <2>3. UNCHANGED <<text, blindspot>>
        \/ \E sent \in Nat : sent <= BatchLen(PendingBatch) /\ SendBatch(PendingBatch, sent)
    BY <1>1, <2>2 DEF SendNothing
  <2> QED
    BY <1>5, <2>3 DEF CorrectionFailed
<1> QED
  BY <1>2, <1>3, <1>4, <1>5

\* Receiving takes the oldest queued event, which is newer than the one in hand.
LEMMA ReceiveFrame ==
  ASSUME TypeOK, QueueInOrder, Receive
  PROVE  /\ pc = "recv" /\ pc' = "process"
         /\ UNCHANGED <<session, undo, correction>>
         /\ queue \in Seq(Event) /\ Len(queue) \in Nat \ {0} /\ queue[1] \in Event
         /\ current' = queue[1] /\ current.gen < current'.gen
         /\ Len(queue') = Len(queue) - 1
         /\ \A i \in 1 .. Len(queue') : queue'[i] = queue[i + 1]
<1>1. /\ pc = "recv" /\ pc' = "process" /\ UNCHANGED <<session, undo, correction>>
      /\ queue # <<>> /\ queue' = Tail(queue) /\ current' = Head(queue)
  BY DEF Receive
<1>2. queue \in Seq(Event) /\ Len(queue) \in Nat
  BY LenProperties DEF TypeOK, HookTypeOK
<1>3. Len(queue) > 0 /\ queue[1] \in Event
  BY <1>1, <1>2, EmptySeq, ElementOfSeq
<1>4. /\ Len(queue') = Len(queue) - 1
      /\ \A i \in 1 .. Len(queue') : queue'[i] = queue[i + 1]
      /\ current' = queue[1]
  BY <1>1, <1>2, HeadTailProperties
<1>5. current.gen < queue[1].gen
  BY <1>2, <1>3 DEF QueueInOrder
<1> QED
  BY <1>1, <1>2, <1>3, <1>4, <1>5

-----------------------------------------------------------------------------
(* A boundary commits once.                                                *)

\* The newest generation that may have been corrected already.
Settled == IF pc \in {"process"} \cup Committing THEN current.gen - 1 ELSE current.gen

\* The labels of the keys of the user, and of the corrections up to generation n.
LabelsUpTo(n) == {l \in Int : -l <= n}

\* No field holds a character of a correction of the boundary in hand.
BoundariesSettled ==
  /\ pc \in {"process"} \cup Committing => current.gen >= 1
  /\ pc \in Committing => correction.gen = current.gen
  /\ text \in [Fields -> Seq(LabelsUpTo(Settled))]

\* A field over some of the labels is one over all of them.
LEMMA LabelsMonotonic ==
  ASSUME NEW m \in Int, NEW n \in Int, m <= n, NEW s \in Seq(LabelsUpTo(m))
  PROVE  s \in Seq(LabelsUpTo(n))
<1>1. LabelsUpTo(m) \subseteq LabelsUpTo(n)
  BY DEF LabelsUpTo
<1> QED
  BY <1>1, SeqMonotonic

\* A correction types labels of its boundary, an undo labels of the user's keys only.
LEMMA BatchLabels ==
  ASSUME NEW word \in Seq(Nat), NEW gen \in Nat, NEW n \in Nat
  PROVE  /\ BuildKeyActions(word, gen) \in [erase : Nat, insert : Seq(LabelsUpTo(gen))]
         /\ BuildUndoKeyActions(word, gen) \in [erase : Nat, insert : Seq(LabelsUpTo(n))]
<1> USE TypingAssumption
<1>1. gen \in LabelsUpTo(gen) /\ -gen \in LabelsUpTo(gen) 
      /\ Nat \subseteq LabelsUpTo(gen) /\ Nat \subseteq LabelsUpTo(n)
  BY DEF LabelsUpTo
<1>2. ReplacementText(gen) \in Seq(LabelsUpTo(gen)) /\ <<gen>> \in Seq(LabelsUpTo(gen))
  BY <1>1, IsASeq DEF ReplacementText
<1>3. /\ word \in Seq(LabelsUpTo(n)) /\ Len(word) \in Nat
      /\ <<gen>> \in Seq(LabelsUpTo(n))
  BY <1>1, SeqMonotonic, LenProperties, IsASeq
<1> HIDE DEF LabelsUpTo
<1> QED
  BY <1>2, <1>3, ConcatProperties DEF BuildKeyActions, BuildUndoKeyActions

LEMMA BoundariesStep ==
  ASSUME InductiveInvariant, BoundariesSettled, Next
  PROVE  BoundariesSettled'
<1>1. /\ TypeOK /\ QueueInOrder /\ current.gen \in Nat /\ generation \in Nat
      /\ field \in Fields /\ text \in [Fields -> Seq(LabelsUpTo(Settled))]
  BY DEF InductiveInvariant, TypeOK, UserTypeOK, HookTypeOK, CoordTypeOK, Event,
         BoundariesSettled
<1>2. Settled \in Nat
  BY <1>1 DEF Settled, BoundariesSettled
<1>3. \A label \in Nat : label \in LabelsUpTo(Settled)
  BY <1>2 DEF LabelsUpTo
<1>4. ASSUME UNCHANGED coordVars, text' \in [Fields -> Seq(LabelsUpTo(Settled))]
      PROVE  BoundariesSettled'
  <2>1. UNCHANGED <<pc, current, correction>>
    BY <1>4 DEF coordVars
  <2>2. Settled' = Settled
    BY <2>1 DEF Settled
  <2> QED
    BY <1>4, <2>1, <2>2 DEF BoundariesSettled
<1>5. ASSUME UNCHANGED text, Settled' \in Int, Settled <= Settled'
      PROVE  text' \in [Fields -> Seq(LabelsUpTo(Settled'))]
  <2>1. \A f \in Fields : text[f] \in Seq(LabelsUpTo(Settled'))
    BY <1>1, <1>2, <1>5, LabelsMonotonic
  <2> QED
    BY <1>1, <1>5, <2>1
<1>6. ASSUME NEW kind \in UserKeys, PressKey(kind)
      PROVE  BoundariesSettled'
  <2>1. PICK label \in Nat : text' = [text EXCEPT ![field] = Typed(@, kind, label)]
    <3>1. Stamp \in Nat /\ Untracked \in Nat
      BY <1>1 DEF Stamp, Untracked
    <3>2. CASE hooked /\ captureAllowed
      BY <1>6, <3>1, <3>2 DEF PressKey
    <3>3. CASE ~(hooked /\ captureAllowed)
      BY <1>6, <3>1, <3>3 DEF PressKey
    <3> QED
      BY <3>2, <3>3
  <2>2. Typed(text[field], kind, label) \in Seq(LabelsUpTo(Settled))
    BY <1>1, <1>3, TypedType
  <2>3. text' \in [Fields -> Seq(LabelsUpTo(Settled))]
    BY <1>1, <2>1, <2>2
  <2> QED
    BY <1>4, <1>6, <2>3 DEF PressKey
<1>7. CASE ClickInField
  <2>1. text' \in [Fields -> Seq(LabelsUpTo(Settled))]
    BY <1>1, <1>7, EmptySeq DEF ClickInField
  <2> QED
    BY <1>4, <1>7, <2>1 DEF ClickInField
<1>8. ASSUME NEW f \in Fields, FocusField(f)
      PROVE  BoundariesSettled'
  BY <1>1, <1>4, <1>8 DEF FocusField
<1>9. CASE UNCHANGED loopVars
  BY <1>1, <1>4, <1>9 DEF loopVars
<1>10. CASE Coordinator
  <2>1. CASE CheckShutdown \/ RecvTimeout
    <3>1. UNCHANGED <<text, current>> /\ pc \notin {"process"} \cup Committing
          /\ pc' \notin {"process"} \cup Committing
      BY <2>1 DEF CheckShutdown, RecvTimeout, userVars, Committing
    <3>2. Settled' = Settled
      BY <3>1 DEF Settled
    <3> QED
      BY <1>1, <3>1, <3>2 DEF BoundariesSettled, Committing
  <2>2. CASE Receive
    <3>1. /\ pc = "recv" /\ pc' = "process" /\ current'.gen \in Nat
          /\ current.gen < current'.gen
      BY <1>1, <2>2, ReceiveFrame DEF Event
    <3>2. Settled' \in Int /\ Settled <= Settled' /\ UNCHANGED text
      BY <1>1, <2>2, <3>1 DEF Settled, Receive, userVars, Committing
    <3> QED
      BY <1>1, <1>5, <3>1, <3>2 DEF BoundariesSettled, Committing
  <2>3. CASE ProcessIgnored \/ ProcessUndo \/ ProcessKey
    <3>1. /\ pc = "process" /\ pc' \in {"loop", "undo", "defer"}
          /\ pc' = "defer" => correction'.gen = current.gen
          /\ UNCHANGED <<text, current>>
      BY <2>3 DEF ProcessIgnored, ProcessUndo, ProcessKey, ProcessUnchanged, userVars
    <3>2. current.gen >= 1 /\ Settled = current.gen - 1
      BY <3>1 DEF BoundariesSettled, Settled
    <3>3. Settled' \in Int /\ Settled <= Settled'
      BY <1>1, <3>1, <3>2 DEF Settled
    <3> QED
      BY <1>5, <3>1, <3>2, <3>3 DEF BoundariesSettled, Committing
  <2>4. CASE DeferReadFocus \/ DeferReadTime \/ GateRead \/ Evaluate \/ Recheck
    <3>1. /\ pc \in Committing /\ UNCHANGED <<text, current>>
          /\ pc' = "loop" \/ (pc' \in Committing /\ correction'.gen = correction.gen)
      BY <1>1, <1>10, <2>4, CommitFrame DEF CommitUnchanged, DeferReadFocus, DeferReadTime,
         GateRead, Evaluate, Recheck, userVars
    <3>2. /\ current.gen >= 1 /\ correction.gen = current.gen
          /\ Settled = current.gen - 1
      BY <3>1 DEF BoundariesSettled, Settled
    <3>3. Settled' \in Int /\ Settled <= Settled'
      BY <1>1, <3>1, <3>2 DEF Settled
    <3> QED
      BY <1>5, <3>1, <3>2, <3>3 DEF BoundariesSettled, Committing
  <2>5. CASE UndoSent \/ UndoFailed \/ CorrectionSent \/ CorrectionFailed
    <3>1. /\ pc' = "loop" /\ UNCHANGED current /\ Settled' = current.gen
      BY <1>1, <2>5, SendFrame DEF Settled, Committing
    <3>2. Settled <= current.gen
      BY <1>1 DEF Settled
    <3>3. CASE UNCHANGED text
      BY <1>1, <1>5, <3>1, <3>2, <3>3 DEF BoundariesSettled, Committing
    <3>4. ASSUME NEW sent \in Nat, sent <= BatchLen(PendingBatch),
                 SendBatch(PendingBatch, sent)
          PROVE  BoundariesSettled'
      <4>1. PendingBatch \in [erase : Nat, insert : Seq(LabelsUpTo(current.gen))]
        <5>1. correction.word \in Seq(Nat) /\ correction.gen \in Nat
          BY <1>1 DEF TypeOK, CoordTypeOK, Correction
        <5>2. pc = "execute" => correction.gen = current.gen
          BY DEF BoundariesSettled, Committing
        <5>3. pc \in {"undo", "execute"}
          BY <1>1, <2>5, SendFrame
        <5> QED
          BY <1>1, <5>1, <5>2, <5>3, BatchLabels DEF PendingBatch
      <4>2. text[field] \in Seq(LabelsUpTo(current.gen))
        BY <1>1, <1>2, <3>2, LabelsMonotonic
      <4>3. Injected(text[field], PendingBatch, sent) \in Seq(LabelsUpTo(current.gen))
        BY <3>4, <4>1, <4>2, InjectedType
      <4>4. \A f \in Fields : text[f] \in Seq(LabelsUpTo(current.gen))
        BY <1>1, <1>2, <3>2, LabelsMonotonic
      <4>5. text' \in [Fields -> Seq(LabelsUpTo(current.gen))]
        BY <1>1, <3>4, <4>3, <4>4 DEF SendBatch
      <4> QED
        BY <3>1, <4>5 DEF BoundariesSettled, Committing
    <3> QED
      BY <1>1, <2>5, <3>3, <3>4, SendFrame
  <2> QED
    BY <1>10, <2>1, <2>2, <2>3, <2>4, <2>5 DEF Coordinator
<1> QED
  BY <1>6, <1>7, <1>8, <1>9, <1>10, LoopFrame

LEMMA InitBoundaries == Init => BoundariesSettled
<1> SUFFICES ASSUME Init PROVE BoundariesSettled
  OBVIOUS
<1>1. pc = "loop" /\ Settled = 0 /\ text = [f \in Fields |-> <<>>]
  BY DEF Init, NoEvent, Settled, Committing
<1>2. <<>> \in Seq(LabelsUpTo(Settled))
  BY EmptySeq
<1> QED
  BY <1>1, <1>2 DEF BoundariesSettled, Committing

LEMMA BoundariesInductive ==
  InductiveInvariant /\ BoundariesSettled /\ [Next]_vars => BoundariesSettled'
<1>1. ASSUME BoundariesSettled, UNCHANGED vars PROVE BoundariesSettled'
  <2>1. UNCHANGED <<pc, current, correction, text>>
    BY <1>1 DEF vars, coordVars, userVars
  <2>2. Settled' = Settled
    BY <2>1 DEF Settled
  <2> QED
    BY <1>1, <2>1, <2>2 DEF BoundariesSettled
<1> QED
  BY <1>1, BoundariesStep

\* Whatever the user types, a physical boundary commits at most one correction, and
\* none that went out in part is sent again: no character of it is in a field yet.
THEOREM CommitsOnce == Spec => BoundaryCommitsOnce
<1> DEFINE Fresh == undo' # undo /\ undo' # NoCorrection =>
              \A f \in Fields : \A i \in 1 .. Len(text[f]) : text[f][i] # -undo'.gen
<1>1. ASSUME InductiveInvariant, BoundariesSettled, Next PROVE Fresh
  <2>1. CASE CorrectionSent
    <3>1. undo' = correction /\ pc = "execute"
      BY <2>1 DEF CorrectionSent
    <3>2. undo'.gen = current.gen /\ Settled = current.gen - 1 /\ current.gen \in Nat
      BY <1>1, <3>1 DEF BoundariesSettled, Settled, Committing, InductiveInvariant, TypeOK,
                        CoordTypeOK, Event
    <3>3. ASSUME NEW f \in Fields, NEW i \in 1 .. Len(text[f])
          PROVE  text[f][i] # -undo'.gen
      <4>1. text[f] \in Seq(LabelsUpTo(Settled))
        BY <1>1 DEF BoundariesSettled
      <4>2. text[f][i] \in LabelsUpTo(Settled)
        BY <4>1, ElementOfSeq
      <4> QED
        BY <3>2, <4>2 DEF LabelsUpTo
    <3> QED
      BY <3>3
  <2>2. CASE Coordinator /\ ~CorrectionSent
    <3>1. undo' = undo \/ undo' = NoCorrection
      BY <2>2 DEF Coordinator, CheckShutdown, RecvTimeout, Receive, ProcessIgnored,
                  ProcessUndo, ProcessKey, PendingUndo, UndoSent, UndoFailed,
                  DeferReadFocus, DeferReadTime, GateRead, Evaluate, Recheck,
                  CorrectionFailed, CommitUnchanged
    <3> QED
      BY <3>1
  <2>3. CASE UNCHANGED <<coordVars, undone, applied>>
    BY <2>3 DEF coordVars
  <2> QED
    BY <1>1, <2>1, <2>2, <2>3, CoordFrame
<1>2. InductiveInvariant /\ BoundariesSettled /\ [Next]_vars => [Fresh]_vars
  BY <1>1
<1>3. Spec => []BoundariesSettled
  BY InitBoundaries, BoundariesInductive, InductiveInvariantHolds, PTL DEF Spec
<1> QED
  BY <1>2, <1>3, InductiveInvariantHolds, PTL DEF Spec, BoundaryCommitsOnce

-----------------------------------------------------------------------------
(* Where a word began.                                                     *)

\* What the session cannot know of lies behind a generation the hook has stamped.
BlindspotCovers ==
  /\ \A g \in dropped : g <= blindspot
  /\ blindspot <= generation

\* A word began with a key that the session has handled.
Begun(word) == word # <<>> /\ word[1] <= Handled

\* So did the token, the word that can still be undone, and the word that is being
\* committed or restored.
WordsBegun ==
  /\ session.token.chars # <<>> => Begun(session.token.chars)
  /\ undo # NoCorrection => Begun(undo.word)
  /\ pc \in Committing \cup {"undo"} => Begun(correction.word)
  /\ pc = "undo" => undo = NoCorrection /\ session.token = EmptyToken

LEMMA BlindspotStep ==
  ASSUME TypeOK, BlindspotCovers, Next
  PROVE  BlindspotCovers'
<1>1. generation \in Nat /\ blindspot \in Nat /\ dropped \subseteq Nat
  BY DEF TypeOK, HookTypeOK, GhostTypeOK
<1>2. ASSUME NEW kind \in UserKeys, PressKey(kind)
      PROVE  BlindspotCovers'
  <2>1. CASE hooked /\ captureAllowed
    <3>1. Capture(kind)
      BY <1>2, <2>1 DEF PressKey
    <3>2. generation' = generation + 1 /\ Stamp = generation + 1
      BY <3>1 DEF Capture, Stamp
    <3>3. CASE UNCHANGED <<dropped, blindspot>>
      BY <1>1, <3>2, <3>3 DEF BlindspotCovers
    <3>4. CASE dropped' = dropped \cup {Stamp} /\ blindspot' = Stamp
      <4>1. \A g \in dropped : g \in Nat /\ g <= generation
        BY <1>1 DEF BlindspotCovers
      <4>2. \A g \in dropped' : g <= blindspot'
        BY <1>1, <3>2, <3>4, <4>1
      <4> QED
        BY <1>1, <3>2, <3>4, <4>2 DEF BlindspotCovers
    <3> QED
      BY <3>1, <3>3, <3>4 DEF Capture
  <2>2. CASE ~(hooked /\ captureAllowed)
    <3>1. UNCHANGED <<dropped, generation>> /\ blindspot' \in {blindspot, generation}
      BY <1>2, <2>2 DEF PressKey
    <3> QED
      BY <1>1, <3>1 DEF BlindspotCovers
  <2> QED
    BY <2>1, <2>2
<1>3. CASE UNCHANGED <<dropped, generation>> /\ blindspot' \in {blindspot, generation}
  BY <1>1, <1>3 DEF BlindspotCovers
<1>4. CASE ClickInField \/ (\E f \in Fields : FocusField(f)) \/ UNCHANGED loopVars
  BY <1>3, <1>4 DEF ClickInField, FocusField, loopVars, hookVars
<1>5. CASE Coordinator
  BY <1>3, <1>5, CoordinatorFrame, SendFrame DEF SendBatch
<1> QED
  BY <1>2, <1>4, <1>5, LoopFrame

LEMMA WordsStep ==
  ASSUME InductiveInvariant, BoundariesSettled, WordsBegun, Next
  PROVE  WordsBegun'
<1>1. /\ TypeOK /\ QueueInOrder /\ UndoOnlyFromIdleSession /\ current.gen \in Nat
      /\ pc = "process" => current.gen >= 1
  BY DEF InductiveInvariant, TypeOK, CoordTypeOK, Event, BoundariesSettled
<1>2. Handled \in Nat /\ Handled <= current.gen
  BY <1>1 DEF Handled
<1>3. EmptyToken.chars = <<>> 
  BY DEF EmptyToken
<1>4. /\ session.token.chars \in Seq(Nat) /\ undo.word \in Seq(Nat)
      /\ correction.word \in Seq(Nat)
  BY <1>1 DEF TypeOK, CoordTypeOK, Correction, Tokens
<1>5. ASSUME NEW word \in Seq(Nat), Begun(word), Handled <= Handled', Handled' \in Nat
      PROVE  Begun(word)'
  <2>1. word[1] \in Nat
    BY <1>5, EmptySeq, LenProperties, ElementOfSeq DEF Begun
  <2> QED
    BY <1>2, <1>5, <2>1 DEF Begun
<1>6. CASE UNCHANGED coordVars
  BY <1>6 DEF coordVars, WordsBegun, Begun, Handled
<1>7. CASE CheckShutdown \/ RecvTimeout
  <2>1. /\ UNCHANGED <<session, undo, correction, current>>
        /\ pc' \in {"stopped", "recv", "loop"} /\ pc \in {"loop", "recv"}
    BY <1>7 DEF CheckShutdown, RecvTimeout
  <2>2. Handled' = Handled
    BY <2>1 DEF Handled
  <2> QED
    BY <2>1, <2>2 DEF WordsBegun, Begun, Committing
<1>8. CASE Receive
  <2>1. /\ pc = "recv" /\ pc' = "process" /\ UNCHANGED <<session, undo, correction>>
        /\ current'.gen \in Nat /\ current.gen < current'.gen
    BY <1>1, <1>8, ReceiveFrame DEF Event
  <2>2. Handled <= Handled' /\ Handled' \in Nat
    BY <1>1, <2>1 DEF Handled
  <2> QED
    BY <1>4, <1>5, <2>1, <2>2 DEF WordsBegun, Committing
<1>9. CASE ProcessIgnored \/ ProcessUndo \/ ProcessKey
  <2>1. /\ pc = "process" /\ UNCHANGED current /\ pc' \in {"loop", "undo", "defer"}
    BY <1>9 DEF ProcessIgnored, ProcessUndo, ProcessKey, ProcessUnchanged
  <2>2. /\ Handled = current.gen - 1 /\ Handled' = current.gen
        /\ Handled <= Handled' /\ Handled' \in Nat
    BY <1>1, <2>1 DEF Handled
  <2>3. /\ Reconciled.token.chars # <<>> => Reconciled.token = session.token
        /\ PendingUndo # NoCorrection => PendingUndo = undo /\ Reconciled = session
    BY <1>3 DEF Reconciled, PendingUndo
  <2>4. CASE ProcessIgnored
    BY <1>4, <1>5, <2>2, <2>3, <2>4 DEF ProcessIgnored, WordsBegun, Committing
  <2>5. CASE ProcessUndo
    <3>1. /\ correction' = undo /\ session' = session /\ undo # NoCorrection
          /\ undo' = NoCorrection /\ pc' = "undo"
      BY <2>3, <2>5 DEF ProcessUndo
    <3>2. session.token = EmptyToken
      BY <1>1, <3>1 DEF UndoOnlyFromIdleSession
    <3> QED
      BY <1>3, <1>4, <1>5, <2>2, <3>1, <3>2 DEF WordsBegun, Committing
  <2>6. CASE ProcessKey
    <3> DEFINE after == TokenAfter(Reconciled.token, current.kind, current.gen)
    <3>1. undo' = NoCorrection /\ session'.token = after
      BY <1>1, <2>6, ReconciledType DEF ProcessKey
    <3>2. ASSUME after.chars # <<>>
          PROVE  after.chars[1] <= current.gen
      <4>1. /\ Reconciled.token \in Tokens(Nat) /\ current.gen \in Nat
            /\ current.kind \in Translated \ {"ignore"}
        BY <1>1, <2>6, ReconciledType DEF ProcessKey, TypeOK, CoordTypeOK, Event
      <4>2. \/ Reconciled.token.chars = <<>> /\ after.chars[1] = current.gen
            \/ Reconciled.token.chars # <<>> /\ after.chars[1] = Reconciled.token.chars[1]
        BY <3>2, <4>1, TokenAfterFirst
      <4>3. CASE Reconciled.token.chars # <<>> /\ after.chars[1] = Reconciled.token.chars[1]
        <5>1. session.token.chars # <<>> /\ after.chars[1] = session.token.chars[1]
          BY <2>3, <4>3
        <5>2. after.chars[1] <= Handled /\ after.chars[1] \in Nat
          BY <1>4, <5>1, EmptySeq, LenProperties, ElementOfSeq DEF WordsBegun, Begun
        <5> HIDE DEF after
        <5> QED
          BY <1>1, <1>2, <5>2
      <4> QED
        BY <1>1, <4>2, <4>3
    <3> HIDE DEF after
    <3>3. session'.token.chars # <<>> => Begun(session.token.chars)'
      BY <2>2, <3>1, <3>2 DEF Begun
    <3>4. CASE pc' = "loop"
      BY <3>1, <3>3, <3>4 DEF WordsBegun, Committing
    <3>5. CASE pc' = "defer"
      <4>1. correction'.word = Reconciled.token.chars /\ Reconciled.token.chars # <<>>
        BY <2>6, <3>5 DEF ProcessKey, Completes
      <4>2. Begun(session.token.chars)
        BY <2>3, <4>1 DEF WordsBegun
      <4>3. Begun(correction.word)'
        BY <1>2, <1>4, <2>2, <2>3, <4>1, <4>2, EmptySeq, LenProperties, ElementOfSeq DEF Begun
      <4> QED
        BY <3>1, <3>3, <3>5, <4>3 DEF WordsBegun, Committing
    <3> QED
      BY <2>6, <3>4, <3>5 DEF ProcessKey
  <2> QED
    BY <1>9, <2>4, <2>5, <2>6
<1>10. CASE DeferReadFocus \/ DeferReadTime \/ GateRead \/ Evaluate \/ Recheck
  <2>1. /\ pc \in Committing /\ UNCHANGED <<session, undo, current>>
        /\ \/ pc' = "loop"
           \/ pc' \in Committing /\ correction'.word = correction.word
    BY <1>1, <1>10, CommitFrame
  <2>2. Handled' = Handled
    BY <2>1 DEF Handled, Committing
  <2> QED
    BY <2>1, <2>2 DEF WordsBegun, Begun, Committing
<1>11. CASE UndoSent \/ UndoFailed \/ CorrectionSent \/ CorrectionFailed
  <2>1. /\ pc \in {"undo", "execute"} /\ pc' = "loop" /\ UNCHANGED <<session, current>>
        /\ undo' = undo \/ undo' = correction
    BY <1>1, <1>11, SendFrame DEF CorrectionSent
  <2>2. Handled' = Handled
    BY <2>1 DEF Handled
  <2> QED
    BY <2>1, <2>2 DEF WordsBegun, Begun, Committing
<1> QED
  BY <1>6, <1>7, <1>8, <1>9, <1>10, <1>11, CoordFrame DEF Coordinator

-----------------------------------------------------------------------------
(* The field as the session replays it.  The hook runs ahead of the session *)
(* by the queued events: past[g] is the field in front as it was when the   *)
(* key of generation g had reached it.                                      *)

\* Nothing the session cannot know of happened since the word began.
Known(word) == blindspot < word[1]

\* Each key takes the field from one generation to the next.
Step(past, event) ==
  blindspot < event.gen =>
    past[event.gen] = Typed(past[event.gen - 1], event.kind, event.gen)

FieldReplayed(past) == past[generation] = text[field]

QueueReplayed(past) == \A i \in 1 .. Len(queue) : Step(past, queue[i])

EventReplayed(past) == pc = "process" => Step(past, current)

\* The token is what stood before the caret when its last key was handled.
TokenReplayed(past) ==
  session.token.chars # <<>> /\ ~session.token.overflowed /\ Known(session.token.chars) =>
    EndsWith(past[Handled], session.token.chars)

CommitReplayed(past) ==
  pc \in Committing /\ Known(correction.word) =>
    EndsWith(past[Handled], Append(correction.word, correction.gen))

UndoReplayed(past) ==
  undo # NoCorrection /\ Known(undo.word) =>
    /\ past[Handled] = Append(Corrected(undo), undo.gen)
    /\ EndsWith(textBefore, Append(undo.word, undo.gen))

RestoreReplayed(past) ==
  pc = "undo" /\ Known(correction.word) =>
    /\ past[Handled] = Corrected(correction)
    /\ EndsWith(textBefore, Append(correction.word, correction.gen))

Replayed(past) ==
  /\ FieldReplayed(past) /\ QueueReplayed(past) /\ EventReplayed(past)
  /\ TokenReplayed(past) /\ CommitReplayed(past)
  /\ UndoReplayed(past) /\ RestoreReplayed(past)

Replays == [Nat -> Seq(Int)]

TextIsReplayed == \E past \in Replays : Replayed(past)

\* What every step preserves, beyond InductiveInvariant.
TextInvariant ==
  /\ BoundariesSettled /\ BlindspotCovers /\ WordsBegun /\ TextIsReplayed

\* The types of what the replay speaks of.
ReplayTypeOK ==
  /\ generation \in Nat /\ blindspot \in Nat /\ current.gen \in Nat
  /\ current.gen <= generation /\ Handled \in Nat /\ Handled <= current.gen
  /\ queue \in Seq(Event) /\ Len(queue) \in Nat
  /\ \A i \in 1 .. Len(queue) :
       /\ queue[i] \in Event /\ queue[i].gen \in Nat
       /\ current.gen < queue[i].gen /\ queue[i].gen <= generation
  /\ session.token \in Tokens(Nat) /\ session.token.chars \in Seq(Nat)
  /\ undo.word \in Seq(Nat) /\ undo.gen \in Nat
  /\ correction.word \in Seq(Nat) /\ correction.gen \in Nat
  /\ textBefore \in Seq(Int) /\ field \in Fields /\ text \in [Fields -> Seq(Int)]

LEMMA ReplayTypes == InductiveInvariant /\ BoundariesSettled => ReplayTypeOK
<1> SUFFICES ASSUME InductiveInvariant, BoundariesSettled PROVE ReplayTypeOK
  OBVIOUS
<1>1. TypeOK /\ QueueInOrder
  BY DEF InductiveInvariant
<1>2. queue \in Seq(Event) /\ Len(queue) \in Nat /\ \A i \in 1 .. Len(queue) : queue[i] \in Event
  BY <1>1, LenProperties, ElementOfSeq DEF TypeOK, HookTypeOK
<1>3. /\ generation \in Nat /\ blindspot \in Nat /\ current.gen \in Nat
      /\ session.token \in Tokens(Nat) /\ session.token.chars \in Seq(Nat)
      /\ undo.word \in Seq(Nat) /\ undo.gen \in Nat
      /\ correction.word \in Seq(Nat) /\ correction.gen \in Nat
      /\ textBefore \in Seq(Int) /\ field \in Fields /\ text \in [Fields -> Seq(Int)]
  BY <1>1 DEF TypeOK, UserTypeOK, HookTypeOK, CoordTypeOK, GhostTypeOK, Event, Correction,
              Tokens
<1>4. Handled \in Nat /\ Handled <= current.gen
  BY <1>3 DEF Handled, BoundariesSettled
<1>5. /\ current.gen <= generation
      /\ \A i \in 1 .. Len(queue) :
           /\ queue[i].gen \in Nat
           /\ current.gen < queue[i].gen /\ queue[i].gen <= generation
  BY <1>1, <1>2 DEF QueueInOrder, Event
<1> QED
  BY <1>2, <1>3, <1>4, <1>5 DEF ReplayTypeOK

\* The first character of a word that began.
LEMMA BegunFirst ==
  ASSUME NEW word \in Seq(Nat), Begun(word)
  PROVE  word[1] \in Nat /\ word[1] <= Handled
BY EmptySeq, LenProperties, ElementOfSeq DEF Begun

\* Right after something the session cannot know of, every word began before it.
LEMMA ReplayStartsOver ==
  ASSUME InductiveInvariant', BoundariesSettled', WordsBegun',
         blindspot' = generation', NEW past, past[generation'] = text'[field']
  PROVE  Replayed(past)'
<1>1. ReplayTypeOK'
  BY ReplayTypes, PTL
<1>2. ASSUME NEW i \in 1 .. Len(queue') PROVE ~(blindspot' < queue'[i].gen)
  <2>1. generation' \in Nat /\ queue'[i].gen \in Nat /\ queue'[i].gen <= generation'
    BY <1>1 DEF ReplayTypeOK
  <2> QED
    BY <2>1
<1>3. ASSUME NEW word \in Seq(Nat), Begun(word)' PROVE ~Known(word)'
  <2>1. word[1] \in Nat
    BY <1>3, EmptySeq, LenProperties, ElementOfSeq DEF Begun
  <2> QED
    BY <1>1, <1>3, <2>1 DEF Begun, Known, ReplayTypeOK
<1>4. FieldReplayed(past)'
  BY DEF FieldReplayed
<1>5. QueueReplayed(past)' /\ EventReplayed(past)'
  BY <1>1, <1>2 DEF QueueReplayed, EventReplayed, Step, ReplayTypeOK
<1>6. /\ session'.token.chars # <<>> => ~Known(session.token.chars)'
      /\ undo' # NoCorrection => ~Known(undo.word)'
      /\ pc' \in Committing \cup {"undo"} => ~Known(correction.word)'
  BY <1>1, <1>3 DEF WordsBegun, ReplayTypeOK
<1>7. TokenReplayed(past)' /\ CommitReplayed(past)' /\ UndoReplayed(past)' /\ RestoreReplayed(past)'
  BY <1>6 DEF TokenReplayed, CommitReplayed, UndoReplayed, RestoreReplayed
<1> QED
  BY <1>4, <1>5, <1>7 DEF Replayed

\* The replay after a step: the field in front, at the generation it has now.
Extends(later, past) == later = [past EXCEPT ![generation'] = text'[field']]

\* A step that touches none of it leaves the replay as it is.
LEMMA ReplayFrame ==
  ASSUME UNCHANGED loopVars, NEW past, Replayed(past)
  PROVE  Replayed(past)'
<1> USE DEF loopVars, coordVars
<1>1. FieldReplayed(past)' /\ QueueReplayed(past)' /\ EventReplayed(past)'
  BY DEF Replayed, FieldReplayed, QueueReplayed, EventReplayed, Step
<1>2. Handled' = Handled
  BY DEF Handled
<1>3. TokenReplayed(past)' /\ CommitReplayed(past)'
  BY <1>2 DEF Replayed, TokenReplayed, CommitReplayed, Known
<1>4. UndoReplayed(past)' /\ RestoreReplayed(past)'
  BY <1>2 DEF Replayed, UndoReplayed, RestoreReplayed, Known, Corrected
<1> QED
  BY <1>1, <1>3, <1>4 DEF Replayed

\* A key that the hook queued extends it by one generation.
LEMMA ReplayOfCapture ==
  ASSUME InductiveInvariant, BoundariesSettled,
         NEW past \in Replays, Replayed(past),
         NEW kind \in UserKeys, PressKey(kind),
         hooked, captureAllowed, Len(queue) < QueueCapacity,
         NEW later, Extends(later, past)
  PROVE  Replayed(later)'
<1> DEFINE event == [gen |-> generation + 1, kind |-> kind]
<1>1. ReplayTypeOK
  BY ReplayTypes
<1>2. /\ generation' = generation + 1 /\ queue' = Append(queue, event)
      /\ UNCHANGED <<field, coordVars, blindspot, textBefore>>
      /\ text' = [text EXCEPT ![field] = Typed(@, kind, generation + 1)]
  BY DEF PressKey, Capture, Stamp
<1>3. /\ event \in Event /\ event.gen = generation + 1 /\ event.kind = kind
      /\ generation + 1 \in Nat
  BY <1>1, AutocorrectAssumption DEF Event, ReplayTypeOK
<1> HIDE DEF event
<1>4. /\ Len(queue') = Len(queue) + 1 /\ queue'[Len(queue) + 1] = event
      /\ \A i \in 1 .. Len(queue) : queue'[i] = queue[i]
  BY <1>1, <1>2, <1>3, AppendProperties DEF ReplayTypeOK
<1>5. /\ later[generation + 1] = text'[field]
      /\ \A g \in Nat : g <= generation => later[g] = past[g]
  BY <1>1, <1>2, <1>3 DEF ReplayTypeOK, Extends, Replays
<1>15. ASSUME NEW g \in Nat \ {0}, g <= generation
       PROVE  later[g] = past[g] /\ later[g - 1] = past[g - 1]
  <2>1. generation \in Nat /\ g - 1 \in Nat /\ g - 1 <= generation
    BY <1>1, <1>15 DEF ReplayTypeOK
  <2> QED
    BY <1>5, <1>15, <2>1
<1>6. text'[field] = Typed(past[generation], kind, generation + 1)
  BY <1>1, <1>2 DEF Replayed, FieldReplayed, ReplayTypeOK
<1>8. FieldReplayed(later)'
  BY <1>2, <1>5 DEF FieldReplayed
<1>9. ASSUME NEW i \in 1 .. Len(queue')
      PROVE  Step(later, queue[i])'
  <2>1. CASE i = Len(queue) + 1
    <3>1. later[event.gen] = Typed(past[event.gen - 1], event.kind, event.gen)
          /\ later[event.gen - 1] = past[event.gen - 1]
      <4>1. generation \in Nat /\ event.gen - 1 = generation
        BY <1>1, <1>3 DEF ReplayTypeOK
      <4>2. later[generation + 1] = text'[field] /\ later[generation] = past[generation]
        BY <1>5, <4>1
      <4> QED
        BY <1>3, <1>6, <4>1, <4>2
    <3> QED
      BY <1>4, <2>1, <3>1 DEF Step
  <2>2. CASE i # Len(queue) + 1
    <3>1. i \in 1 .. Len(queue) /\ queue'[i] = queue[i]
      <4>1. Len(queue) \in Nat
        BY <1>1 DEF ReplayTypeOK
      <4> QED
        BY <1>4, <2>2, <4>1
    <3>2. queue[i].gen \in Nat \ {0} /\ queue[i].gen <= generation
      <4>1. /\ current.gen \in Nat /\ queue[i].gen \in Nat
            /\ current.gen < queue[i].gen /\ queue[i].gen <= generation
        BY <1>1, <3>1 DEF ReplayTypeOK
      <4> QED
        BY <4>1
    <3>3. Step(past, queue[i])
      BY <3>1 DEF Replayed, QueueReplayed
    <3>4. later[queue[i].gen] = past[queue[i].gen] /\ later[queue[i].gen - 1] = past[queue[i].gen - 1]
      BY <1>15, <3>2
    <3> QED
      BY <1>2, <3>1, <3>3, <3>4 DEF Step
  <2> QED
    BY <2>1, <2>2
<1>10. QueueReplayed(later)'
  BY <1>9 DEF QueueReplayed
<1>11. EventReplayed(later)'
  <2>1. UNCHANGED <<pc, current>>
    BY <1>2 DEF coordVars
  <2>2. CASE pc = "process"
    <3>1. Step(past, current) /\ current.gen \in Nat \ {0} /\ current.gen <= generation
      <4>1. current.gen \in Nat /\ current.gen <= generation
        BY <1>1 DEF ReplayTypeOK
      <4>2. current.gen >= 1
        BY <2>2 DEF BoundariesSettled
      <4> QED
        BY <2>2, <4>1, <4>2 DEF Replayed, EventReplayed
    <3>2. later[current.gen] = past[current.gen] /\ later[current.gen - 1] = past[current.gen - 1]
      BY <1>15, <3>1
    <3> QED
      BY <1>2, <2>1, <3>1, <3>2 DEF EventReplayed, Step
  <2> QED
    BY <2>1, <2>2 DEF EventReplayed
<1>12. Handled' = Handled /\ later[Handled] = past[Handled]
  <2>1. Handled' = Handled
    BY <1>2 DEF Handled, coordVars
  <2>2. Handled \in Nat /\ Handled <= generation
    BY <1>1 DEF ReplayTypeOK
  <2> QED
    BY <1>5, <2>1, <2>2
<1>13. TokenReplayed(later)' /\ CommitReplayed(later)'
  BY <1>2, <1>12 DEF Replayed, TokenReplayed, CommitReplayed, Known, coordVars
<1>14. UndoReplayed(later)' /\ RestoreReplayed(later)'
  BY <1>2, <1>12 DEF Replayed, UndoReplayed, RestoreReplayed, Known, Corrected, coordVars
<1> QED
  BY <1>8, <1>10, <1>11, <1>13, <1>14 DEF Replayed

\* The user's keys, clicks and moves.
LEMMA ReplayOfUser ==
  ASSUME InductiveInvariant, BoundariesSettled,
         InductiveInvariant', BoundariesSettled', WordsBegun',
         NEW past \in Replays, Replayed(past),
         \/ \E kind \in UserKeys : PressKey(kind)
         \/ ClickInField
         \/ \E f \in Fields : FocusField(f),
         NEW later, Extends(later, past)
  PROVE  Replayed(later)'
<1>1. generation' \in Nat /\ ReplayTypeOK
  BY ReplayTypes DEF InductiveInvariant, TypeOK, HookTypeOK
<1>2. later[generation'] = text'[field']
  BY <1>1 DEF Extends, Replays
<1>3. CASE blindspot' = generation'
  BY <1>2, <1>3, ReplayStartsOver
<1>4. ASSUME NEW kind \in UserKeys, PressKey(kind)
      PROVE  Replayed(later)'
  <2>1. CASE hooked /\ captureAllowed /\ Len(queue) < QueueCapacity
    BY <1>4, <2>1, ReplayOfCapture
  <2>2. CASE hooked /\ captureAllowed /\ ~(Len(queue) < QueueCapacity)
    <3>1. blindspot' = generation'
      BY <1>4, <2>2 DEF PressKey, Capture, Stamp
    <3> QED
      BY <1>3, <3>1
  <2>3. CASE ~(hooked /\ captureAllowed) /\ kind # "ignore"
    <3>1. blindspot' = generation'
      BY <1>4, <2>3 DEF PressKey
    <3> QED
      BY <1>3, <3>1
  <2>4. CASE ~(hooked /\ captureAllowed) /\ kind = "ignore"
    <3>1. /\ UNCHANGED <<field, generation, queue, dropped, coordVars, blindspot, textBefore>>
          /\ text' = [text EXCEPT ![field] = Typed(@, kind, Untracked)]
      BY <1>4, <2>4 DEF PressKey
    <3>2. text' = text
      BY <1>1, <2>4, <3>1 DEF Typed, ReplayTypeOK
    <3>3. Replayed(past)'
      BY <3>1, <3>2, ReplayFrame DEF loopVars
    <3>4. later = past
      BY <1>1, <3>1, <3>2 DEF Replayed, FieldReplayed, Extends, Replays
    <3> QED
      BY <3>3, <3>4
  <2> QED
    BY <2>1, <2>2, <2>3, <2>4
<1>5. CASE ClickInField
  BY <1>3, <1>5 DEF ClickInField, hookVars
<1>6. ASSUME NEW f \in Fields, FocusField(f)
      PROVE  Replayed(later)'
  BY <1>3, <1>6 DEF FocusField, hookVars
<1> QED
  BY <1>4, <1>5, <1>6

\* Receiving: unless a key was lost, the next event is of the next generation.
LEMMA ReplayOfReceive ==
  ASSUME InductiveInvariant, BoundariesSettled, BlindspotCovers, WordsBegun,
         NEW past \in Replays, Replayed(past), Receive
  PROVE  Replayed(past)'
<1>1. ReplayTypeOK
  BY ReplayTypes
<1>2. /\ pc = "recv" /\ pc' = "process" /\ UNCHANGED <<session, undo, correction>>
      /\ Len(queue) \in Nat \ {0} /\ current' = queue[1]
      /\ Len(queue') = Len(queue) - 1
      /\ \A i \in 1 .. Len(queue') : queue'[i] = queue[i + 1]
  BY ReceiveFrame DEF InductiveInvariant
<1>3. UNCHANGED <<field, text, generation, blindspot, textBefore>>
  BY DEF Receive, userVars, ghostVars
<1>4. Handled = current.gen /\ Handled' = current'.gen - 1
  BY <1>2 DEF Handled
<1>5. ASSUME blindspot <= current.gen
      PROVE  Handled' = Handled
  <2> DEFINE next == current.gen + 1
             first == queue[1].gen
  <2>1. /\ current.gen \in Nat /\ generation \in Nat /\ first \in Nat
        /\ current.gen < first /\ first <= generation /\ blindspot \in Nat
    BY <1>1, <1>2 DEF ReplayTypeOK
  <2> HIDE DEF first
  <2>2. next \in current.gen + 1 .. generation /\ ~(next <= blindspot)
    BY <1>5, <2>1
  <2>3. next \notin dropped
    BY <2>2 DEF BlindspotCovers
  <2>4. PICK i \in 1 .. Len(queue) : queue[i].gen = next
    BY <2>2, <2>3 DEF InductiveInvariant, QueueInOrder
  <2>5. i = 1
    <3>1. SUFFICES ASSUME i # 1 PROVE FALSE
      OBVIOUS
    <3>2. 1 \in 1 .. i - 1
      BY <1>2, <2>4, <3>1
    <3>3. first < next
      BY <2>4, <3>2 DEF InductiveInvariant, QueueInOrder, first
    <3> QED
      BY <2>1, <3>3
  <2>6. first = next
    BY <2>4, <2>5 DEF first
  <2>7. Handled' = first - 1
    BY <1>2, <1>4 DEF first
  <2> QED
    BY <1>4, <2>1, <2>6, <2>7
<1>6. ASSUME NEW word \in Seq(Nat), Begun(word), Known(word)
      PROVE  Handled' = Handled
  <2>1. /\ word[1] \in Nat /\ word[1] <= Handled /\ blindspot < word[1]
        /\ blindspot \in Nat /\ current.gen \in Nat
    BY <1>1, <1>6, BegunFirst DEF Known, ReplayTypeOK
  <2>2. blindspot <= current.gen
    BY <1>4, <2>1
  <2> QED
    BY <1>5, <2>2
<1>7. FieldReplayed(past)'
  BY <1>3 DEF Replayed, FieldReplayed
<1>8. EventReplayed(past)'
  <2>1. Step(past, queue[1])
    BY <1>2 DEF Replayed, QueueReplayed
  <2> QED
    BY <1>2, <1>3, <2>1 DEF EventReplayed, Step
<1>9. QueueReplayed(past)'
  <2>1. ASSUME NEW i \in 1 .. Len(queue')
        PROVE  Step(past, queue[i])'
    <3>1. i + 1 \in 1 .. Len(queue) /\ queue'[i] = queue[i + 1]
      BY <1>2
    <3>2. Step(past, queue[i + 1])
      BY <3>1 DEF Replayed, QueueReplayed
    <3> QED
      BY <1>3, <3>1, <3>2 DEF Step
  <2> QED
    BY <2>1 DEF QueueReplayed
<1>10. TokenReplayed(past)'
  <2>1. CASE session.token.chars # <<>> /\ Known(session.token.chars)
    <3>1. Handled' = Handled
      BY <1>1, <1>6, <2>1 DEF WordsBegun, ReplayTypeOK
    <3> QED
      BY <1>2, <1>3, <3>1 DEF Replayed, TokenReplayed, Known
  <2>2. CASE ~(session.token.chars # <<>> /\ Known(session.token.chars))
    BY <1>2, <1>3, <2>2 DEF TokenReplayed, Known
  <2> QED
    BY <2>1, <2>2
<1>11. UndoReplayed(past)'
  <2>1. CASE undo # NoCorrection /\ Known(undo.word)
    <3>1. Handled' = Handled
      BY <1>1, <1>6, <2>1 DEF WordsBegun, ReplayTypeOK
    <3> QED
      BY <1>2, <1>3, <3>1 DEF Replayed, UndoReplayed, Known, Corrected
  <2>2. CASE ~(undo # NoCorrection /\ Known(undo.word))
    BY <1>2, <1>3, <2>2 DEF UndoReplayed, Known
  <2> QED
    BY <2>1, <2>2
<1>12. CommitReplayed(past)' /\ RestoreReplayed(past)'
  BY <1>2 DEF CommitReplayed, RestoreReplayed, Committing
<1> QED
  BY <1>7, <1>8, <1>9, <1>10, <1>11, <1>12 DEF Replayed

\* The commit itself leaves the field alone until the batch goes out.
LEMMA ReplayOfCommit ==
  ASSUME TypeOK, NEW past, Replayed(past),
         \/ CheckShutdown \/ RecvTimeout
         \/ DeferReadFocus \/ DeferReadTime \/ GateRead \/ Evaluate \/ Recheck
  PROVE  Replayed(past)'
<1>1. /\ UNCHANGED <<field, text, generation, queue, current, blindspot, textBefore>>
      /\ UNCHANGED <<session, undo>>
      /\ pc # "process" /\ pc' \notin {"process", "undo"}
      /\ pc' \in Committing =>
           pc \in Committing /\ correction'.word = correction.word
                             /\ correction'.gen = correction.gen
  <2>1. CASE CheckShutdown \/ RecvTimeout
    BY <2>1 DEF CheckShutdown, RecvTimeout, userVars, hookVars, ghostVars, Committing
  <2>2. CASE DeferReadFocus \/ DeferReadTime \/ GateRead \/ Evaluate \/ Recheck
    <3>1. UNCHANGED <<field, text, generation, queue, current, blindspot, textBefore>>
      BY <2>2 DEF DeferReadFocus, DeferReadTime, GateRead, Evaluate, Recheck,
                  CommitUnchanged, userVars, hookVars, ghostVars
    <3> QED
      BY <2>2, <3>1, CommitFrame DEF Committing
  <2> QED
    BY <2>1, <2>2
<1>2. Handled' = Handled
  BY <1>1 DEF Handled
<1>3. FieldReplayed(past)' /\ QueueReplayed(past)' /\ EventReplayed(past)'
  BY <1>1 DEF Replayed, FieldReplayed, QueueReplayed, EventReplayed, Step
<1>4. TokenReplayed(past)' /\ CommitReplayed(past)'
  BY <1>1, <1>2 DEF Replayed, TokenReplayed, CommitReplayed, Known
<1>5. UndoReplayed(past)' /\ RestoreReplayed(past)'
  BY <1>1, <1>2 DEF Replayed, UndoReplayed, RestoreReplayed, Known, Corrected
<1> QED
  BY <1>3, <1>4, <1>5 DEF Replayed

\* A correction's field is a field.
LEMMA CorrectedType ==
  ASSUME textBefore \in Seq(Int), NEW c, c.word \in Seq(Nat), c.gen \in Nat
  PROVE  /\ ReplacementText(c.gen) \in Seq(Int)
         /\ EraseLast(textBefore, Len(c.word) + 1) \in Seq(Int)
         /\ Corrected(c) \in Seq(Int)
<1>1. Len(c.word) + 1 \in Nat
  BY LenProperties
<1>2. ReplacementText(c.gen) \in Seq(Int)
  BY IsASeq, TypingAssumption DEF ReplacementText
<1>3. EraseLast(textBefore, Len(c.word) + 1) \in Seq(Int)
  BY <1>1, EraseLastProperties
<1> QED
  BY <1>2, <1>3, ConcatProperties DEF Corrected

\* Processing an event: what its key made of the field, the session makes of the token.
LEMMA ReplayOfProcess ==
  ASSUME InductiveInvariant, BoundariesSettled, WordsBegun,
         NEW past \in Replays, Replayed(past),
         ProcessIgnored \/ ProcessUndo \/ ProcessKey
  PROVE  Replayed(past)'
<1> DEFINE before == past[current.gen - 1]
           after  == TokenAfter(Reconciled.token, current.kind, current.gen)
<1>1. ReplayTypeOK
  BY ReplayTypes
<1>2. /\ pc = "process" /\ pc' \in {"loop", "undo", "defer"}
      /\ UNCHANGED <<field, text, generation, queue, current, blindspot, textBefore>>
  BY DEF ProcessIgnored, ProcessUndo, ProcessKey, ProcessUnchanged, userVars, hookVars,
         ghostVars
<1>3. /\ Handled = current.gen - 1 /\ Handled' = current.gen
      /\ current.gen \in Nat \ {0} /\ current.gen - 1 \in Nat
  BY <1>1, <1>2 DEF Handled, BoundariesSettled, ReplayTypeOK
<1>4. before \in Seq(Int)
  BY <1>3 DEF Replays
<1>5. blindspot < current.gen =>
        past[current.gen] = Typed(before, current.kind, current.gen)
  BY <1>2 DEF Replayed, EventReplayed, Step
<1>6. /\ Reconciled.token.chars # <<>> => Reconciled.token = session.token
      /\ PendingUndo # NoCorrection => PendingUndo = undo /\ Reconciled = session
  BY DEF Reconciled, PendingUndo, EmptyToken
<1>7. ASSUME NEW word \in Seq(Nat), Begun(word), Known(word)
      PROVE  blindspot < current.gen
  <2>1. /\ word[1] \in Nat /\ word[1] <= Handled /\ blindspot < word[1]
        /\ blindspot \in Nat
    BY <1>1, <1>7, BegunFirst DEF Known, ReplayTypeOK
  <2> QED
    BY <1>3, <2>1
<1>8. FieldReplayed(past)' /\ QueueReplayed(past)' /\ EventReplayed(past)'
  BY <1>2 DEF Replayed, FieldReplayed, QueueReplayed, EventReplayed, Step
<1>9. ASSUME session.token.chars # <<>>, ~session.token.overflowed,
             Known(session.token.chars)
      PROVE  /\ EndsWith(before, session.token.chars)
             /\ past[current.gen] = Typed(before, current.kind, current.gen)
  <2>1. EndsWith(before, session.token.chars)
    BY <1>3, <1>9 DEF Replayed, TokenReplayed
  <2>2. blindspot < current.gen
    BY <1>1, <1>7, <1>9 DEF WordsBegun, ReplayTypeOK
  <2> QED
    BY <1>5, <2>1, <2>2
<1>10. ASSUME undo # NoCorrection, Known(undo.word)
       PROVE  /\ before = Append(Corrected(undo), undo.gen)
              /\ EndsWith(textBefore, Append(undo.word, undo.gen))
              /\ past[current.gen] = Typed(before, current.kind, current.gen)
  <2>1. /\ before = Append(Corrected(undo), undo.gen)
        /\ EndsWith(textBefore, Append(undo.word, undo.gen))
    BY <1>3, <1>10 DEF Replayed, UndoReplayed
  <2>2. blindspot < current.gen
    BY <1>1, <1>7, <1>10 DEF WordsBegun, ReplayTypeOK
  <2> QED
    BY <1>5, <2>1, <2>2
<1> HIDE DEF before
<1>11. CASE ProcessIgnored
  <2>1. /\ session' = Reconciled /\ undo' = PendingUndo /\ pc' = "loop"
        /\ Typed(before, current.kind, current.gen) = before
    BY <1>11 DEF ProcessIgnored, Typed
  <2>2. TokenReplayed(past)'
    BY <1>2, <1>3, <1>6, <1>9, <2>1 DEF TokenReplayed, Known
  <2>3. UndoReplayed(past)'
    BY <1>2, <1>3, <1>6, <1>10, <2>1 DEF UndoReplayed, Known, Corrected
  <2>4. CommitReplayed(past)' /\ RestoreReplayed(past)'
    BY <2>1 DEF CommitReplayed, RestoreReplayed, Committing
  <2> QED
    BY <1>8, <2>2, <2>3, <2>4 DEF Replayed
<1>12. CASE ProcessUndo
  <2>1. /\ session' = session /\ undo' = NoCorrection /\ correction' = undo
        /\ undo # NoCorrection /\ pc' = "undo" /\ current.kind = "backspace"
    BY <1>6, <1>12 DEF ProcessUndo
  <2>2. session'.token.chars = <<>>
    BY <2>1 DEF InductiveInvariant, UndoOnlyFromIdleSession, EmptyToken
  <2>3. TokenReplayed(past)' /\ CommitReplayed(past)' /\ UndoReplayed(past)'
    BY <2>1, <2>2 DEF TokenReplayed, CommitReplayed, UndoReplayed, Committing
  <2>4. ASSUME Known(undo.word)
        PROVE  /\ past[current.gen] = Corrected(undo)
               /\ EndsWith(textBefore, Append(undo.word, undo.gen))
    <3>1. /\ before = Append(Corrected(undo), undo.gen)
          /\ EndsWith(textBefore, Append(undo.word, undo.gen))
          /\ past[current.gen] = EraseLast(before, 1)
      BY <1>10, <2>1, <2>4 DEF Typed
    <3>2. Corrected(undo) \in Seq(Int) /\ undo.gen \in Int
      BY <1>1, CorrectedType DEF ReplayTypeOK
    <3>3. EraseLast(Append(Corrected(undo), undo.gen), 1) = Corrected(undo)
      BY <3>2, EraseAppended
    <3> QED
      BY <3>1, <3>3
  <2>5. RestoreReplayed(past)'
    BY <1>2, <1>3, <2>1, <2>4 DEF RestoreReplayed, Known, Corrected
  <2> QED
    BY <1>8, <2>3, <2>5 DEF Replayed
<1>13. CASE ProcessKey
  <2>1. /\ Reconciled.token \in Tokens(Nat) /\ current.gen \in Nat
        /\ current.kind \in Translated \ {"ignore"}
    BY <1>1, <1>13, ReconciledType DEF ProcessKey, InductiveInvariant, TypeOK, CoordTypeOK,
                                       Event, ReplayTypeOK
  <2>2. undo' = NoCorrection /\ session'.token = after /\ pc' \in {"loop", "defer"}
    BY <1>13, ReconciledType DEF ProcessKey, InductiveInvariant
  <2>3. Reconciled.token.chars \in Seq(Nat) /\ Reconciled.token.chars \in Seq(Int)
        /\ Reconciled.token.overflowed \in BOOLEAN
    BY <2>1, SeqMonotonic DEF Tokens
  <2>4. ASSUME after.chars # <<>>, ~after.overflowed, blindspot < after.chars[1]
        PROVE  EndsWith(past[current.gen], after.chars)
    <3>1. \/ /\ current.kind = "char" /\ ~Reconciled.token.overflowed
             /\ after.chars = Append(Reconciled.token.chars, current.gen)
          \/ /\ current.kind = "backspace" /\ ~Reconciled.token.overflowed
             /\ Reconciled.token.chars # <<>>
             /\ after.chars = EraseLast(Reconciled.token.chars, 1)
      BY ZenonT(30), <2>1, <2>4, TokenAfterCases
    <3>2. \/ Reconciled.token.chars = <<>> /\ after.chars[1] = current.gen
          \/ Reconciled.token.chars # <<>> /\ after.chars[1] = Reconciled.token.chars[1]
      BY <2>1, <2>4, TokenAfterFirst
    <3> HIDE DEF after
    <3>3. CASE Reconciled.token.chars # <<>>
      <4>1. /\ session.token = Reconciled.token /\ Known(session.token.chars)
            /\ ~session.token.overflowed
        BY <1>6, <2>4, <3>1, <3>2, <3>3 DEF Known
      <4>2. /\ EndsWith(before, Reconciled.token.chars)
            /\ past[current.gen] = Typed(before, current.kind, current.gen)
        BY <1>9, <3>3, <4>1
      <4>3. CASE current.kind = "char" /\ after.chars = Append(Reconciled.token.chars, current.gen)
        <5>1. EndsWith(Append(before, current.gen), Append(Reconciled.token.chars, current.gen))
          BY <1>4, <2>1, <2>3, <4>2, EndsWithAppend
        <5>2. past[current.gen] = Append(before, current.gen)
          BY <4>2, <4>3 DEF Typed
        <5> QED
          BY <4>3, <5>1, <5>2
      <4>4. CASE current.kind = "backspace" /\ after.chars = EraseLast(Reconciled.token.chars, 1)
        <5>1. EndsWith(EraseLast(before, 1), EraseLast(Reconciled.token.chars, 1))
          BY <1>4, <2>3, <3>3, <4>2, EndsWithErase
        <5>2. past[current.gen] = EraseLast(before, 1)
          BY <4>2, <4>4 DEF Typed
        <5> QED
          BY <4>4, <5>1, <5>2
      <4> QED
        BY <3>1, <4>3, <4>4
    <3>4. CASE Reconciled.token.chars = <<>>
      <4>1. /\ after.chars = Append(Reconciled.token.chars, current.gen)
            /\ current.kind = "char" /\ blindspot < current.gen
        BY <2>4, <3>1, <3>2, <3>4
      <4>2. past[current.gen] = Append(before, current.gen)
        BY <1>5, <4>1 DEF Typed
      <4>3. EndsWith(before, Reconciled.token.chars)
        BY <1>4, <2>3, <3>4, EndsWithNothing
      <4>4. EndsWith(Append(before, current.gen), Append(Reconciled.token.chars, current.gen))
        BY <1>4, <2>1, <2>3, <4>3, EndsWithAppend
      <4> QED
        BY <4>1, <4>2, <4>4
    <3> QED
      BY <3>3, <3>4
  <2>5. TokenReplayed(past)'
    BY <1>2, <1>3, <2>2, <2>4 DEF TokenReplayed, Known
  <2>6. UndoReplayed(past)' /\ RestoreReplayed(past)'
    BY <2>2 DEF UndoReplayed, RestoreReplayed
  <2>7. CommitReplayed(past)'
    <3>1. CASE pc' = "loop"
      BY <3>1 DEF CommitReplayed, Committing
    <3>2. CASE pc' = "defer" /\ ~Known(correction.word)'
      BY <3>2 DEF CommitReplayed
    <3>3. CASE pc' = "defer" /\ Known(correction.word)'
      <4>1. /\ correction'.word = Reconciled.token.chars /\ correction'.gen = current.gen
            /\ current.kind = "boundary" /\ Reconciled.token.chars # <<>>
            /\ ~Reconciled.token.overflowed
        BY <1>13, <3>3 DEF ProcessKey, Completes, Eligible
      <4>2. session.token = Reconciled.token /\ Known(session.token.chars)
        BY <1>2, <1>6, <3>3, <4>1 DEF Known
      <4>3. /\ EndsWith(before, Reconciled.token.chars)
            /\ past[current.gen] = Append(before, current.gen)
        BY <1>9, <4>1, <4>2 DEF Typed
      <4>4. EndsWith(Append(before, current.gen), Append(Reconciled.token.chars, current.gen))
        BY <1>4, <2>1, <2>3, <4>3, EndsWithAppend
      <4> QED
        BY <1>3, <4>1, <4>3, <4>4 DEF CommitReplayed
    <3> QED
      BY <2>2, <3>1, <3>2, <3>3
  <2> QED
    BY <1>8, <2>5, <2>6, <2>7 DEF Replayed
<1> QED
  BY <1>11, <1>12, <1>13

\* A correction whose word stands before the caret replaces it and its boundary.
LEMMA CorrectionReplaces ==
  ASSUME NEW s \in Seq(Int), NEW word \in Seq(Nat), NEW gen \in Nat
  PROVE  LET batch == BuildKeyActions(word, gen)
         IN  Injected(s, batch, BatchLen(batch))
               = Append(EraseLast(s, Len(word) + 1) \o ReplacementText(gen), gen)
<1> DEFINE batch == BuildKeyActions(word, gen)
           front == EraseLast(s, Len(word) + 1)
           new   == ReplacementText(gen)
<1>1. batch \in [erase : Nat, insert : Seq(Int)] /\ Len(word) + 1 \in Nat
  <2>1. batch \in [erase : Nat, insert : Seq(Int)]
    BY BatchType
  <2>2. Len(word) + 1 \in Nat
    BY LenProperties
  <2> QED
    BY <2>1, <2>2
<1>2. new \in Seq(Int) /\ <<gen>> \in Seq(Int) /\ Len(<<gen>>) = 1 /\ gen \in Int
  BY IsASeq, TypingAssumption DEF ReplacementText
<1>3. front \in Seq(Int)
  BY <1>1, EraseLastProperties
<1>4. batch.erase = Len(word) + 1 /\ batch.insert = new \o <<gen>>
  BY DEF BuildKeyActions
<1> HIDE DEF batch, front, new
<1>5. batch.insert # <<>>
  BY <1>2, <1>4, ConcatProperties, LenProperties, EmptySeq
<1>6. Injected(s, batch, BatchLen(batch)) = EraseLast(s, batch.erase) \o batch.insert
  BY <1>1, <1>5, InjectedWhole
<1>7. EraseLast(s, batch.erase) = front
  BY <1>4 DEF front
<1>8. front \o (new \o <<gen>>) = (front \o new) \o <<gen>>
  BY <1>2, <1>3, ConcatAssociative
<1>9. front \o new \in Seq(Int)
  BY <1>2, <1>3, ConcatProperties
<1>10. (front \o new) \o <<gen>> = Append(front \o new, gen)
  BY <1>2, <1>9, AppendIsConcat
<1>11. Injected(s, batch, BatchLen(batch)) = Append(front \o new, gen)
  BY <1>4, <1>6, <1>7, <1>8, <1>10
<1> QED
  BY <1>11 DEF batch, front, new

\* The undo of a correction gives the word and its boundary back.
LEMMA UndoRestores ==
  ASSUME textBefore \in Seq(Int), NEW c, c.word \in Seq(Nat), c.gen \in Nat,
         EndsWith(textBefore, Append(c.word, c.gen))
  PROVE  LET batch == BuildUndoKeyActions(c.word, c.gen)
         IN  Injected(Corrected(c), batch, BatchLen(batch)) = textBefore
<1> DEFINE batch == BuildUndoKeyActions(c.word, c.gen)
           front == EraseLast(textBefore, Len(c.word) + 1)
           new   == ReplacementText(c.gen)
           word  == Append(c.word, c.gen)
<1>1. batch \in [erase : Nat, insert : Seq(Int)]
  BY BatchType
<1>2. new \in Seq(Int) /\ front \in Seq(Int) /\ Corrected(c) \in Seq(Int)
  BY CorrectedType
<1>3. Len(new) = ReplacementLen
  BY TypingAssumption DEF ReplacementText
<1>4. c.word \in Seq(Int) /\ c.gen \in Int
  BY SeqMonotonic
<1>5. /\ word \in Seq(Int) /\ word # <<>> /\ Len(word) = Len(c.word) + 1
      /\ word = c.word \o <<c.gen>>
  <2>1. word \in Seq(Int) /\ word # <<>> /\ Len(word) = Len(c.word) + 1
    BY <1>4, AppendProperties
  <2>2. word = c.word \o <<c.gen>>
    BY <1>4, AppendIsConcat
  <2> QED
    BY <2>1, <2>2
<1>6. batch.erase = Len(new) /\ batch.insert = word /\ Corrected(c) = front \o new
  BY <1>3, <1>5 DEF BuildUndoKeyActions, Corrected
<1>7. EndsWith(textBefore, word) /\ front = EraseLast(textBefore, Len(word))
  BY <1>5
<1> HIDE DEF batch, front, new, word
<1>8. Injected(Corrected(c), batch, BatchLen(batch))
        = EraseLast(Corrected(c), batch.erase) \o batch.insert
  BY <1>1, <1>2, <1>5, <1>6, InjectedWhole
<1>9. EraseLast(front \o new, Len(new)) = front
  BY <1>2, EraseTyped
<1>10. EraseLast(textBefore, Len(word)) \o word = textBefore
  BY <1>5, <1>7, RetypeErased
<1>11. Injected(Corrected(c), batch, BatchLen(batch)) = textBefore
  BY <1>6, <1>7, <1>8, <1>9, <1>10
<1> QED
  BY <1>11 DEF batch

\* A batch goes out: into the field the session knows, or past keys it has not seen.
LEMMA ReplayOfSend ==
  ASSUME InductiveInvariant, BoundariesSettled, WordsBegun,
         InductiveInvariant', BoundariesSettled', WordsBegun',
         NEW past \in Replays, Replayed(past),
         UndoSent \/ UndoFailed \/ CorrectionSent \/ CorrectionFailed,
         NEW later, Extends(later, past)
  PROVE  Replayed(later)'
<1>1. ReplayTypeOK
  BY ReplayTypes
<1>2. /\ pc \in {"undo", "execute"} /\ pc' = "loop" /\ correction' = NoCorrection
      /\ UNCHANGED <<field, generation, queue, current, session>>
      /\ UNCHANGED undo \/ CorrectionSent
      /\ UNCHANGED <<text, blindspot>> \/ \E sent \in Nat : SendBatch(PendingBatch, sent)
  BY SendFrame DEF InductiveInvariant
<1>3. generation \in Nat /\ later[generation] = text'[field]
  BY <1>1, <1>2 DEF Extends, Replays, ReplayTypeOK
<1>4. \/ UNCHANGED <<text, blindspot>>
      \/ generation = current.gen /\ blindspot' = blindspot
      \/ generation # current.gen /\ blindspot' = generation
  BY <1>2 DEF SendBatch
<1>5. CASE blindspot' = generation'
  <2>1. later[generation'] = text'[field']
    BY <1>2, <1>3
  <2> QED
    BY <1>5, <2>1, ReplayStartsOver
<1>6. CASE blindspot' # generation'
  <2>7. blindspot' = blindspot /\ (generation = current.gen \/ UNCHANGED text)
    BY <1>2, <1>4, <1>6
  <2>1. FieldReplayed(later)'
    BY <1>2, <1>3 DEF FieldReplayed
  <2>2. EventReplayed(later)' /\ CommitReplayed(later)' /\ RestoreReplayed(later)'
    BY <1>2 DEF EventReplayed, CommitReplayed, RestoreReplayed, Committing
  <2>3. session.token.chars = <<>> /\ undo = NoCorrection
    BY <1>2 DEF InductiveInvariant, UndoOnlyFromIdleSession, WordsBegun, EmptyToken
  <2>4. TokenReplayed(later)'
    BY <1>2, <2>3 DEF TokenReplayed
  <2>5. QueueReplayed(later)'
    <3>1. CASE UNCHANGED text
      <4>1. later = past
        BY <1>2, <1>3, <3>1 DEF Extends, Replays, Replayed, FieldReplayed
      <4> QED
        BY <1>2, <2>7, <4>1 DEF Replayed, QueueReplayed, Step
    <3>2. CASE generation = current.gen
      <4>1. ASSUME NEW i \in 1 .. Len(queue) PROVE FALSE
        <5>1. /\ queue[i].gen \in Nat /\ current.gen < queue[i].gen
              /\ queue[i].gen <= generation
          BY <1>1 DEF ReplayTypeOK
        <5> QED
          BY <1>3, <3>2, <5>1
      <4> QED
        BY <1>2, <4>1 DEF QueueReplayed
    <3> QED
      BY <2>7, <3>1, <3>2
  <2>6. UndoReplayed(later)'
    <3>1. CASE ~CorrectionSent
      BY <1>2, <2>3, <3>1 DEF UndoReplayed
    <3>2. CASE CorrectionSent
      <4>1. /\ undo' = correction /\ textBefore' = text[field] /\ pc = "execute"
            /\ LET batch == BuildKeyActions(correction.word, correction.gen)
               IN  SendBatch(batch, BatchLen(batch))
        BY <3>2 DEF CorrectionSent
      <4>2. generation = current.gen
        BY <1>2, <1>6, <4>1 DEF SendBatch
      <4>3. ASSUME Known(correction.word)
            PROVE  EndsWith(text[field], Append(correction.word, correction.gen))
        <5>1. Handled = current.gen
          BY <4>1 DEF Handled
        <5> QED
          BY <4>1, <4>2, <4>3, <5>1 DEF Replayed, CommitReplayed, FieldReplayed, Committing
      <4>4. text[field] \in Seq(Int)
        BY <1>1 DEF ReplayTypeOK
      <4>5. text'[field] = Append(EraseLast(text[field], Len(correction.word) + 1)
                                    \o ReplacementText(correction.gen), correction.gen)
        <5>1. LET batch == BuildKeyActions(correction.word, correction.gen)
              IN  text'[field] = Injected(text[field], batch, BatchLen(batch))
          BY <1>1, <4>1 DEF SendBatch, ReplayTypeOK
        <5> QED
          BY ZenonT(30), <1>1, <4>4, <5>1, CorrectionReplaces DEF ReplayTypeOK
      <4>6. Corrected(undo)' = EraseLast(text[field], Len(correction.word) + 1)
                                 \o ReplacementText(correction.gen)
        BY <4>1 DEF Corrected
      <4>7. Handled' = generation
        BY <1>2, <4>2 DEF Handled
      <4>8. later[Handled'] = Append(Corrected(undo)', undo'.gen)
        BY <1>3, <4>1, <4>5, <4>6, <4>7
      <4>9. Known(undo.word)' => Known(correction.word)
        BY <2>7, <4>1 DEF Known
      <4> QED
        BY <4>1, <4>3, <4>8, <4>9 DEF UndoReplayed
    <3> QED
      BY <3>1, <3>2
  <2> QED
    BY <2>1, <2>2, <2>4, <2>5, <2>6 DEF Replayed
<1> QED
  BY <1>5, <1>6

-----------------------------------------------------------------------------
(* The theorems.                                                           *)

LEMMA InitText == Init => TextInvariant
<1> SUFFICES ASSUME Init PROVE TextInvariant
  OBVIOUS
<1>1. BoundariesSettled
  BY InitBoundaries
<1>2. /\ dropped = {} /\ blindspot = 0 /\ generation = 0 /\ queue = <<>> /\ pc = "loop"
      /\ undo = NoCorrection /\ session.token = EmptyToken /\ EmptyToken.chars = <<>>
      /\ field \in Fields /\ text = [f \in Fields |-> <<>>]
  BY DEF Init, EmptyToken
<1>3. BlindspotCovers /\ WordsBegun
  BY <1>2 DEF BlindspotCovers, WordsBegun, Committing
<1> DEFINE past == [g \in Nat |-> <<>>]
<1>4. past \in Replays
  BY EmptySeq DEF Replays
<1>5. past[generation] = text[field] /\ Len(queue) = 0
  BY <1>2, EmptySeq
<1> HIDE DEF past
<1>6. FieldReplayed(past) /\ QueueReplayed(past) /\ EventReplayed(past)
  BY <1>2, <1>5 DEF FieldReplayed, QueueReplayed, EventReplayed
<1>7. TokenReplayed(past) /\ CommitReplayed(past) /\ UndoReplayed(past) /\ RestoreReplayed(past)
  BY <1>2 DEF TokenReplayed, CommitReplayed, UndoReplayed, RestoreReplayed, Committing
<1>8. Replayed(past)
  BY <1>6, <1>7 DEF Replayed
<1> QED
  BY <1>1, <1>3, <1>4, <1>8 DEF TextInvariant, TextIsReplayed

LEMMA TextStep ==
  InductiveInvariant /\ InductiveInvariant' /\ TextInvariant /\ [Next]_vars => TextInvariant'
<1> SUFFICES ASSUME InductiveInvariant, InductiveInvariant', TextInvariant, [Next]_vars
             PROVE  TextInvariant'
  OBVIOUS
<1>1. TypeOK /\ BoundariesSettled /\ BlindspotCovers /\ WordsBegun
  BY DEF InductiveInvariant, TextInvariant
<1>2. PICK past \in Replays : Replayed(past)
  BY DEF TextInvariant, TextIsReplayed
<1>3. ASSUME UNCHANGED loopVars
      PROVE  TextInvariant'
  <2>1. Replayed(past)'
    BY <1>2, <1>3, ReplayFrame
  <2>2. BoundariesSettled'
    BY <1>1, <1>3 DEF loopVars, coordVars, BoundariesSettled, Settled
  <2>3. BlindspotCovers' /\ WordsBegun'
    BY <1>1, <1>3 DEF loopVars, coordVars, BlindspotCovers, WordsBegun, Begun, Handled
  <2> QED
    BY <2>1, <2>2, <2>3 DEF TextInvariant, TextIsReplayed
<1>4. CASE UNCHANGED vars
  BY <1>3, <1>4 DEF vars, loopVars, userVars, hookVars, ghostVars
<1>5. CASE Next
  <2>1. BoundariesSettled' /\ BlindspotCovers' /\ WordsBegun'
    BY <1>1, <1>5, BoundariesStep, BlindspotStep, WordsStep
  <2>2. ASSUME NEW later \in Replays, Replayed(later)'
        PROVE  TextInvariant'
    BY <2>1, <2>2 DEF TextInvariant, TextIsReplayed
  <2> DEFINE extended == [past EXCEPT ![generation'] = text'[field']]
  <2>3. extended \in Replays
    <3>1. text'[field'] \in Seq(Int)
      BY DEF InductiveInvariant, TypeOK, UserTypeOK
    <3> QED
      BY <3>1 DEF Replays
  <2>4. PICK later \in Replays : Extends(later, past)
    BY <2>3 DEF Extends
  <2>5. CASE \/ \E kind \in UserKeys : PressKey(kind)
             \/ ClickInField
             \/ \E f \in Fields : FocusField(f)
    BY <1>1, <1>2, <2>1, <2>2, <2>4, <2>5, ReplayOfUser
  <2>6. CASE Coordinator
    <3>1. CASE Receive
      BY <1>1, <1>2, <2>2, <3>1, ReplayOfReceive
    <3>2. CASE \/ CheckShutdown \/ RecvTimeout
               \/ DeferReadFocus \/ DeferReadTime \/ GateRead \/ Evaluate \/ Recheck
      BY <1>1, <1>2, <2>2, <3>2, ReplayOfCommit
    <3>3. CASE ProcessIgnored \/ ProcessUndo \/ ProcessKey
      BY <1>1, <1>2, <2>2, <3>3, ReplayOfProcess
    <3>4. CASE UndoSent \/ UndoFailed \/ CorrectionSent \/ CorrectionFailed
      BY <1>1, <1>2, <2>1, <2>2, <2>4, <3>4, ReplayOfSend
    <3> QED
      BY <2>6, <3>1, <3>2, <3>3, <3>4 DEF Coordinator
  <2> QED
    BY <1>3, <1>5, <2>5, <2>6, LoopFrame
<1> QED
  BY <1>4, <1>5

THEOREM TextInvariantHolds == Spec => [](InductiveInvariant /\ TextInvariant)
BY InitInductive, StepInductive, InitText, TextStep, PTL DEF Spec

\* The main promise of the loop, for every interleaving of the user, the hook, the
\* focus thread and the coordinator, for every length of the queue and of the token:
\* a commit that passes its last check erases the word and the boundary that it means.
THEOREM LastCheckCorrect == Spec => LastCheckFindsTheWord
<1> DEFINE Found == pc = "recheck" /\ pc' = "execute" /\ blindspot < correction.word[1] =>
                      EndsWith(text[field], Append(correction.word, correction.gen))
<1>1. ASSUME InductiveInvariant, TextInvariant, Next,
             pc = "recheck", pc' = "execute", blindspot < correction.word[1]
      PROVE  EndsWith(text[field], Append(correction.word, correction.gen))
  <2>1. PICK past \in Replays : Replayed(past)
    BY <1>1 DEF TextInvariant, TextIsReplayed
  <2>2. EndsWith(past[Handled], Append(correction.word, correction.gen))
    BY <1>1, <2>1 DEF Replayed, CommitReplayed, Committing, Known
  <2>3. pc # pc'
    BY <1>1
  <2>4. Coordinator
    BY <1>1, <2>3, CoordFrame DEF coordVars
  <2>5. Recheck
    BY <1>1, <2>4 DEF Coordinator, CheckShutdown, RecvTimeout, Receive, ProcessIgnored,
                      ProcessUndo, ProcessKey, UndoSent, UndoFailed, DeferReadFocus,
                      DeferReadTime, GateRead, Evaluate, CorrectionSent, CorrectionFailed
  <2>6. generation = current.gen /\ Handled = current.gen
    BY <1>1, <2>5 DEF Recheck, Cancel, Handled
  <2> QED
    BY <2>1, <2>2, <2>6 DEF Replayed, FieldReplayed
<1>2. InductiveInvariant /\ TextInvariant /\ [Next]_vars => [Found]_vars
  BY <1>1
<1> QED
  BY <1>2, TextInvariantHolds, PTL DEF Spec, LastCheckFindsTheWord

\* A correction and its undo cancel out, whatever the lengths of the word and of the
\* replacement, and whatever happened to other fields in between.
THEOREM RestoreCorrect == Spec => UndoRestoresTheText
<1> DEFINE Restored ==
      undone' # undone /\ generation = current.gen /\ blindspot < correction.word[1] =>
        text'[field] = textBefore
<1>1. ASSUME InductiveInvariant, TextInvariant, Next,
             undone' # undone, generation = current.gen, blindspot < correction.word[1]
      PROVE  text'[field] = textBefore
  <2>1. PICK past \in Replays : Replayed(past)
    BY <1>1 DEF TextInvariant, TextIsReplayed
  <2>2. ReplayTypeOK
    BY <1>1, ReplayTypes DEF TextInvariant
  <2>3. UndoSent
    <3>1. Coordinator
      BY <1>1, CoordFrame
    <3> QED
      BY <1>1, <3>1 DEF Coordinator, CheckShutdown, RecvTimeout, Receive, ProcessIgnored,
                        ProcessUndo, ProcessKey, ProcessUnchanged, UndoFailed,
                        DeferReadFocus, DeferReadTime, GateRead, Evaluate, Recheck,
                        CorrectionSent, CorrectionFailed, CommitUnchanged, ghostVars
  <2>4. /\ pc = "undo" /\ Handled = current.gen
        /\ LET batch == BuildUndoKeyActions(correction.word, correction.gen)
           IN  SendBatch(batch, BatchLen(batch))
    BY <2>3 DEF UndoSent, Handled
  <2>5. /\ text[field] = Corrected(correction)
        /\ EndsWith(textBefore, Append(correction.word, correction.gen))
    BY <1>1, <2>1, <2>4 DEF Replayed, RestoreReplayed, FieldReplayed, Known
  <2>6. LET batch == BuildUndoKeyActions(correction.word, correction.gen)
        IN  text'[field] = Injected(Corrected(correction), batch, BatchLen(batch))
    BY <2>2, <2>4, <2>5 DEF SendBatch, ReplayTypeOK
  <2>7. LET batch == BuildUndoKeyActions(correction.word, correction.gen)
        IN  Injected(Corrected(correction), batch, BatchLen(batch)) = textBefore
    BY <2>2, <2>5, UndoRestores DEF ReplayTypeOK
  <2> QED
    BY <2>6, <2>7
<1>2. InductiveInvariant /\ TextInvariant /\ [Next]_vars => [Restored]_vars
  BY <1>1
<1> QED
  BY <1>2, TextInvariantHolds, PTL DEF Spec, UndoRestoresTheText

\* What can be undone is in the field as the correction left it, however many
\* corrections and undos failed, went out in part, expired or were undone before, and
\* whatever the lengths of the word, the replacement and the queue.
THEOREM UndoTextCorrect == Spec => []UndoMatchesTheText
<1>1. InductiveInvariant /\ TextInvariant => UndoMatchesTheText
  <2> SUFFICES ASSUME InductiveInvariant, TextInvariant, generation = current.gen
               PROVE  /\ undo # NoCorrection /\ pc # "process" /\ blindspot < undo.word[1] =>
                           /\ EndsWith(textBefore, Append(undo.word, undo.gen))
                           /\ text[field] = Append(Corrected(undo), undo.gen)
                      /\ pc = "undo" /\ blindspot < correction.word[1] =>
                           /\ EndsWith(textBefore, Append(correction.word, correction.gen))
                           /\ text[field] = Corrected(correction)
    BY DEF UndoMatchesTheText
  <2>1. PICK past \in Replays : Replayed(past)
    BY DEF TextInvariant, TextIsReplayed
  <2>2. past[generation] = text[field]
    BY <2>1 DEF Replayed, FieldReplayed
  <2>3. pc # "process" => past[Handled] = text[field]
    BY <2>2 DEF Handled
  <2>4. ASSUME undo # NoCorrection, pc # "process", blindspot < undo.word[1]
        PROVE  /\ EndsWith(textBefore, Append(undo.word, undo.gen))
               /\ text[field] = Append(Corrected(undo), undo.gen)
    BY <2>1, <2>3, <2>4 DEF Replayed, UndoReplayed, Known
  <2>5. ASSUME pc = "undo", blindspot < correction.word[1]
        PROVE  /\ EndsWith(textBefore, Append(correction.word, correction.gen))
               /\ text[field] = Corrected(correction)
    BY <2>1, <2>3, <2>5 DEF Replayed, RestoreReplayed, Known
  <2> QED
    BY <2>4, <2>5
<1> QED
  BY <1>1, TextInvariantHolds, PTL

=============================================================================
