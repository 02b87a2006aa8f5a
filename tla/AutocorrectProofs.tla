-------------------------- MODULE AutocorrectProofs --------------------------
(***************************************************************************)
(* Theorems about Autocorrect, for every number of windows, every queue    *)
(* capacity, every token bound and every behaviour of the user.            *)
(***************************************************************************)
EXTENDS Autocorrect, TypingProofs

-----------------------------------------------------------------------------
(* Types.                                                                  *)

LEMMA InitTypeOK == Init => TypeOK
<1> USE AutocorrectAssumption, TypingAssumption
<1> SUFFICES ASSUME Init PROVE TypeOK
  OBVIOUS
<1>1. /\ <<>> \in Seq(Int) /\ <<>> \in Seq(Nat) /\ <<>> \in Seq(Event)
      /\ Len(<<>>) = 0
  BY EmptySeq
<1>2. NoCorrection \in Correction
  BY <1>1 DEF NoCorrection, Correction, Focus
<1>3. NoEvent \in Event
  BY DEF NoEvent, Event, Translated
<1>4. /\ session \in [focus : Focus, token : Tokens(Nat)]
      /\ Len(session.token.chars) <= MaxTokenChars
  BY <1>1 DEF Init, EmptyToken, Tokens, Focus
<1>5. UserTypeOK
  BY <1>1 DEF Init, UserTypeOK
<1>6. HookTypeOK
  BY <1>1 DEF Init, HookTypeOK
<1>7. SharedTypeOK
  BY DEF Init, SharedTypeOK, Focus
<1>8. CoordTypeOK
  BY <1>2, <1>3, <1>4 DEF Init, CoordTypeOK
<1>9. FocusTypeOK
  BY DEF Init, FocusTypeOK, Focus
<1>10. GhostTypeOK
  BY <1>1 DEF Init, GhostTypeOK
<1> QED
  BY <1>5, <1>6, <1>7, <1>8, <1>9, <1>10 DEF TypeOK

\* A SendInput, whole or in part, leaves every field a field.
LEMMA SendBatchType ==
  ASSUME TypeOK, NEW batch \in [erase : Nat, insert : Seq(Int)],
         NEW sent \in Nat, sent <= BatchLen(batch), SendBatch(batch, sent)
  PROVE  text' \in [Fields -> Seq(Int)] /\ blindspot' \in Nat
<1>1. /\ text \in [Fields -> Seq(Int)] /\ field \in Fields
      /\ generation \in Nat /\ blindspot \in Nat
  BY DEF TypeOK, UserTypeOK, HookTypeOK, GhostTypeOK
<1>2. Injected(text[field], batch, sent) \in Seq(Int)
  BY <1>1, InjectedType
<1> QED
  BY <1>1, <1>2 DEF SendBatch

\* Reconciling the focus yields a session, and an undo.
LEMMA ReconciledType ==
  ASSUME TypeOK
  PROVE  /\ Reconciled \in [focus : Focus, token : Tokens(Nat)]
         /\ Len(Reconciled.token.chars) <= MaxTokenChars
         /\ PendingUndo \in Correction
<1> USE AutocorrectAssumption, TypingAssumption
<1>1. <<>> \in Seq(Nat) /\ Len(<<>>) = 0
  BY EmptySeq
<1>2. NoCorrection \in Correction
  BY <1>1 DEF NoCorrection, Correction, Focus
<1>3. EmptyToken \in Tokens(Nat) /\ Len(EmptyToken.chars) <= MaxTokenChars
  BY <1>1 DEF EmptyToken, Tokens
<1> QED
  BY <1>2, <1>3 DEF TypeOK, CoordTypeOK, FocusTypeOK, Reconciled, PendingUndo

\* What a step leaves alone keeps its type.
LEMMA UnchangedTypes ==
  ASSUME TypeOK
  PROVE  /\ UNCHANGED userVars => UserTypeOK'
         /\ UNCHANGED hookVars => HookTypeOK'
         /\ UNCHANGED <<switchVars, tsfVars, mainPc>> => SharedTypeOK'
         /\ UNCHANGED coordVars => CoordTypeOK'
         /\ UNCHANGED focusVars => FocusTypeOK'
         /\ UNCHANGED ghostVars => GhostTypeOK'
<1>1. UNCHANGED userVars => UserTypeOK'
  BY DEF TypeOK, userVars, UserTypeOK
<1>2. UNCHANGED hookVars => HookTypeOK'
  BY DEF TypeOK, hookVars, HookTypeOK
<1>3. UNCHANGED <<switchVars, tsfVars, mainPc>> => SharedTypeOK'
  BY DEF TypeOK, switchVars, tsfVars, SharedTypeOK
<1>4. UNCHANGED coordVars => CoordTypeOK'
  BY DEF TypeOK, coordVars, CoordTypeOK
<1>5. UNCHANGED focusVars => FocusTypeOK'
  BY DEF TypeOK, focusVars, FocusTypeOK
<1>6. UNCHANGED ghostVars => GhostTypeOK'
  BY DEF TypeOK, ghostVars, GhostTypeOK
<1> QED
  BY <1>1, <1>2, <1>3, <1>4, <1>5, <1>6

\* The budget of a bounded instance.
LEMMA SpendType ==
  ASSUME TypeOK, NEW what \in {"act", "toggle", "contact"}, Spend(what)
  PROVE  spent' \in [DOMAIN Budget -> Nat]
<1>1. DOMAIN Budget = {"act", "toggle", "contact"}
  BY AutocorrectAssumption
<1> QED
  BY <1>1 DEF Spend, TypeOK, UserTypeOK

\* The user's moves keep the types.
LEMMA UserTypeStep ==
  ASSUME TypeOK, User
  PROVE  TypeOK'
<1>1. ASSUME NEW kind \in UserKeys, PressKey(kind)
      PROVE  TypeOK'
  <2>1. kind \in Translated /\ Stamp \in Nat
    BY AutocorrectAssumption DEF TypeOK, HookTypeOK, Stamp
  <2>2. spent' \in [DOMAIN Budget -> Nat]
    BY <1>1, SpendType DEF PressKey
  <2>3. ASSUME NEW label \in Nat
        PROVE  Typed(text[field], kind, label) \in Seq(Int)
    <3>1. text[field] \in Seq(Int) /\ label \in Int
      BY DEF TypeOK, UserTypeOK
    <3>2. EraseLast(text[field], 1) \in Seq(Int)
      BY <3>1, EraseLastProperties
    <3>3. Append(text[field], label) \in Seq(Int) /\ <<>> \in Seq(Int)
      BY <3>1, AppendProperties, EmptySeq
    <3> QED
      BY <3>1, <3>2, <3>3 DEF Typed
  <2>4. UserTypeOK'
    BY <1>1, <2>1, <2>2, <2>3 DEF PressKey, TypeOK, UserTypeOK, Untracked
  <2>5. HookTypeOK' /\ blindspot' \in Nat
    <3>1. [gen |-> Stamp, kind |-> kind] \in Event
      BY <2>1 DEF Event
    <3>2. Append(queue, [gen |-> Stamp, kind |-> kind]) \in Seq(Event)
      BY <3>1, AppendProperties DEF TypeOK, HookTypeOK
    <3>3. CASE hooked /\ captureAllowed
      <4>1. Capture(kind) /\ UNCHANGED <<captureAllowed, hooked>>
        BY <1>1, <3>3 DEF PressKey
      <4>2. generation' \in Nat /\ queue' \in Seq(Event) /\ blindspot' \in Nat
        <5>1. generation' \in Nat
          BY <4>1 DEF Capture, TypeOK, HookTypeOK
        <5>2. queue' \in Seq(Event)
          BY <3>2, <4>1 DEF Capture, TypeOK, HookTypeOK
        <5>3. blindspot' \in Nat
          BY <2>1, <4>1 DEF Capture, TypeOK, GhostTypeOK
        <5> QED
          BY <5>1, <5>2, <5>3
      <4>3. dropped' \in SUBSET Nat
        BY <2>1, <4>1 DEF Capture, TypeOK, HookTypeOK
      <4> QED
        BY <4>1, <4>2, <4>3 DEF TypeOK, HookTypeOK
    <3>4. CASE ~(hooked /\ captureAllowed)
      BY <1>1, <3>4 DEF PressKey, TypeOK, HookTypeOK, GhostTypeOK
    <3> QED
      BY <3>3, <3>4
  <2>6. GhostTypeOK'
    BY <1>1, <2>5 DEF PressKey, TypeOK, GhostTypeOK
  <2> QED
    BY <1>1, <2>4, <2>5, <2>6, UnchangedTypes DEF PressKey, TypeOK
<1>2. CASE ClickInField
  <2>1. UserTypeOK'
    BY <1>2, SpendType, EmptySeq DEF ClickInField, TypeOK, UserTypeOK
  <2>2. GhostTypeOK'
    BY <1>2 DEF ClickInField, TypeOK, HookTypeOK, GhostTypeOK
  <2> QED
    BY <1>2, <2>1, <2>2, UnchangedTypes DEF ClickInField, TypeOK
<1>3. ASSUME NEW f \in Fields, FocusField(f)
      PROVE  TypeOK'
  <2>1. UserTypeOK'
    BY <1>3, SpendType DEF FocusField, TypeOK, UserTypeOK
  <2>2. GhostTypeOK'
    BY <1>3 DEF FocusField, TypeOK, HookTypeOK, GhostTypeOK
  <2> QED
    BY <1>3, <2>1, <2>2, UnchangedTypes DEF FocusField, TypeOK
<1>4. CASE ToggleEnabled
  <2>1. UserTypeOK'
    BY <1>4, SpendType DEF ToggleEnabled, TypeOK, UserTypeOK
  <2>2. SharedTypeOK' /\ GhostTypeOK'
    BY <1>4 DEF ToggleEnabled, TypeOK, SharedTypeOK, GhostTypeOK, tsfVars
  <2> QED
    BY <1>4, <2>1, <2>2, UnchangedTypes DEF ToggleEnabled, TypeOK
<1>5. CASE TogglePause
  <2>1. UserTypeOK'
    BY <1>5, SpendType DEF TogglePause, TypeOK, UserTypeOK
  <2>2. SharedTypeOK' /\ GhostTypeOK'
    BY <1>5 DEF TogglePause, TypeOK, SharedTypeOK, GhostTypeOK, tsfVars
  <2> QED
    BY <1>5, <2>1, <2>2, UnchangedTypes DEF TogglePause, TypeOK
<1>6. CASE RequestExit
  <2>1. SharedTypeOK'
    BY <1>6 DEF RequestExit, TypeOK, SharedTypeOK, tsfVars
  <2> QED
    BY <1>6, <2>1, UnchangedTypes DEF RequestExit, TypeOK
<1> QED
  BY <1>1, <1>2, <1>3, <1>4, <1>5, <1>6 DEF User

\* So do the focus thread, the main thread and the TSF broker thread.
LEMMA ThreadsTypeStep ==
  ASSUME TypeOK, FocusThread \/ Main \/ Broker \/ BrokerContact \/ TsfWindowElapses
  PROVE  TypeOK'
<1>1. CASE FocusThread
  <2>1. CASE FocusCheckShutdown
    <3>1. FocusTypeOK'
      BY <2>1 DEF FocusCheckShutdown, TypeOK, FocusTypeOK, focusVars
    <3> QED
      BY <2>1, <3>1, UnchangedTypes DEF FocusCheckShutdown, TypeOK
  <2>2. CASE ClassifyFocused
    <3>1. fieldSafe' \in BOOLEAN /\ focusPc' = "publish" /\ focusId' = focusId
      <4>1. fieldSafe' = (field \in ProseFields) \/ fieldSafe' = FALSE
        BY <2>2 DEF ClassifyFocused
      <4>2. (field \in ProseFields) \in BOOLEAN
        OBVIOUS
      <4>3. focusPc' = "publish" /\ focusId' = focusId
        BY <2>2 DEF ClassifyFocused
      <4> QED
        BY <4>1, <4>2, <4>3
    <3>2. FocusTypeOK'
      BY <3>1 DEF TypeOK, FocusTypeOK
    <3> QED
      BY <2>2, <3>2, UnchangedTypes DEF ClassifyFocused, TypeOK
  <2>3. CASE PublishFocus
    <3>1. FocusTypeOK'
      BY <2>3, AutocorrectAssumption DEF PublishFocus, TypeOK, FocusTypeOK, focusVars, UserTypeOK, Focus
    <3> QED
      BY <2>3, <3>1, UnchangedTypes DEF PublishFocus, TypeOK
  <2>4. CASE CheckPolicy
    <3>1. fieldSafe' \in BOOLEAN /\ focusPc' = "enabled" /\ focusId' = focusId
      <4>1. fieldSafe' = (fieldSafe /\ WindowOf[field] \notin ExcludedWindows)
            \/ fieldSafe' = FALSE
        BY <2>4 DEF CheckPolicy
      <4>2. (fieldSafe /\ WindowOf[field] \notin ExcludedWindows) \in BOOLEAN
        OBVIOUS
      <4>3. focusPc' = "enabled" /\ focusId' = focusId
        BY <2>4 DEF CheckPolicy
      <4> QED
        BY <4>1, <4>2, <4>3
    <3>2. FocusTypeOK'
      BY <3>1 DEF TypeOK, FocusTypeOK
    <3> QED
      BY <2>4, <3>2, UnchangedTypes DEF CheckPolicy, TypeOK
  <2>5. CASE FocusReadEnabled
    <3>1. FocusTypeOK'
      BY <2>5 DEF FocusReadEnabled, TypeOK, FocusTypeOK, focusVars
    <3> QED
      BY <2>5, <3>1, UnchangedTypes DEF FocusReadEnabled, TypeOK
  <2>6. CASE FocusReadPaused
    <3>1. FocusTypeOK'
      BY <2>6 DEF FocusReadPaused, TypeOK, FocusTypeOK, focusVars
    <3> QED
      BY <2>6, <3>1, UnchangedTypes DEF FocusReadPaused, TypeOK
  <2>7. CASE GateCapture
    <3>1. FocusTypeOK'
      BY <2>7 DEF GateCapture, TypeOK, FocusTypeOK, focusVars, FocusTypeOK
    <3>2. HookTypeOK'
      BY <2>7 DEF GateCapture, TypeOK, HookTypeOK, hookVars, FocusTypeOK
    <3> QED
      BY <2>7, <3>1, <3>2, UnchangedTypes DEF GateCapture, TypeOK
  <2> QED
    BY <1>1, <2>1, <2>2, <2>3, <2>4, <2>5, <2>6, <2>7 DEF FocusThread
<1>2. CASE Main
  <2>1. CASE DisallowCapture
    <3>1. SharedTypeOK'
      BY <2>1 DEF DisallowCapture, TypeOK, SharedTypeOK, switchVars, tsfVars
    <3>2. HookTypeOK'
      BY <2>1 DEF DisallowCapture, TypeOK, HookTypeOK, hookVars
    <3> QED
      BY <2>1, <3>1, <3>2, UnchangedTypes DEF DisallowCapture, TypeOK
  <2>2. CASE StopObserver
    <3>1. SharedTypeOK'
      BY <2>2 DEF StopObserver, TypeOK, SharedTypeOK, switchVars, tsfVars
    <3>2. HookTypeOK'
      BY <2>2 DEF StopObserver, TypeOK, HookTypeOK, hookVars
    <3> QED
      BY <2>2, <3>1, <3>2, UnchangedTypes DEF StopObserver, TypeOK
  <2>3. CASE JoinThreads
    <3>1. SharedTypeOK'
      BY <2>3 DEF JoinThreads, TypeOK, SharedTypeOK, switchVars, tsfVars
    <3> QED
      BY <2>3, <3>1, UnchangedTypes DEF JoinThreads, TypeOK
  <2> QED
    BY <1>2, <2>1, <2>2, <2>3 DEF Main
<1>3. CASE Broker
  <2>1. CASE NoteTsfFocus
    <3>1. SharedTypeOK'
      BY <2>1 DEF NoteTsfFocus, TypeOK, SharedTypeOK, switchVars, tsfVars
    <3> QED
      BY <2>1, <3>1, UnchangedTypes DEF NoteTsfFocus, TypeOK
  <2>2. CASE NoteTsfTime
    <3>1. SharedTypeOK'
      BY <2>2 DEF NoteTsfTime, TypeOK, SharedTypeOK, switchVars, tsfVars
    <3> QED
      BY <2>2, <3>1, UnchangedTypes DEF NoteTsfTime, TypeOK
  <2> QED
    BY <1>3, <2>1, <2>2 DEF Broker
<1>4. CASE BrokerContact
  <2>1. spent' \in [DOMAIN Budget -> Nat]
    BY <1>4, SpendType DEF BrokerContact
  <2>2. UserTypeOK'
    BY <1>4, <2>1 DEF BrokerContact, TypeOK, UserTypeOK
  <2>3. SharedTypeOK'
    BY <1>4 DEF BrokerContact, TypeOK, SharedTypeOK, FocusTypeOK, switchVars, tsfVars
  <2> QED
    BY <1>4, <2>2, <2>3, UnchangedTypes DEF BrokerContact, TypeOK
<1>5. CASE TsfWindowElapses
  <2>1. SharedTypeOK'
    BY <1>5 DEF TsfWindowElapses, TypeOK, SharedTypeOK, switchVars, tsfVars
  <2> QED
    BY <1>5, <2>1, UnchangedTypes DEF TsfWindowElapses, TypeOK
<1> QED
  BY <1>1, <1>2, <1>3, <1>4, <1>5

\* The coordinator: receiving and processing an event.
LEMMA ProcessTypeStep ==
  ASSUME TypeOK,
         CheckShutdown \/ RecvTimeout \/ Receive \/ ProcessIgnored \/ ProcessUndo \/ ProcessKey
  PROVE  TypeOK'
<1> USE AutocorrectAssumption, TypingAssumption
<1> USE DEF TypeOK, UserTypeOK, HookTypeOK, SharedTypeOK, CoordTypeOK, FocusTypeOK,
            GhostTypeOK, userVars, hookVars, switchVars, tsfVars, coordVars, focusVars,
            ghostVars, ProcessUnchanged
<1>1. CASE CheckShutdown
  BY <1>1 DEF CheckShutdown
<1>2. CASE RecvTimeout
  BY <1>2 DEF RecvTimeout
<1>3. CASE Receive
  <2>1. Head(queue) \in Event /\ Tail(queue) \in Seq(Event)
    BY <1>3, HeadTailProperties DEF Receive
  <2> QED
    BY <1>3, <2>1 DEF Receive
<1>4. CASE ProcessIgnored
  <2>1. CoordTypeOK'
    BY <1>4, ReconciledType DEF ProcessIgnored
  <2> QED
    BY <1>4, <2>1, UnchangedTypes DEF ProcessIgnored
<1>5. CASE ProcessUndo
  <2>1. NoCorrection \in Correction
    BY EmptySeq DEF NoCorrection, Correction, Focus
  <2> QED
    BY <1>5, <2>1, ReconciledType DEF ProcessUndo
<1>6. CASE ProcessKey
  <2>1. NoCorrection \in Correction
    BY EmptySeq DEF NoCorrection, Correction, Focus
  <2>2. current.gen \in Nat
    BY DEF Event
  <2>3. session' \in [focus : Focus, token : Tokens(Nat)]
        /\ Len(session'.token.chars) <= MaxTokenChars
    <3> DEFINE after == TokenAfter(Reconciled.token, current.kind, current.gen)
    <3>1. after \in Tokens(Nat) /\ Len(after.chars) <= MaxTokenChars
      BY <2>2, ReconciledType, TokenAfterType
    <3>2. session' = [Reconciled EXCEPT !.token = after]
      BY <1>6 DEF ProcessKey
    <3> HIDE DEF after
    <3> QED
      BY <3>1, <3>2, ReconciledType
  <2>4. [focus |-> Reconciled.focus, gen |-> current.gen,
         word |-> Reconciled.token.chars, pair |-> NoPair] \in Correction
    BY <2>2, ReconciledType DEF Correction, Tokens
  <2>5. CoordTypeOK'
    BY <1>6, <2>1, <2>3, <2>4 DEF ProcessKey
  <2> QED
    BY <1>6, <2>5, UnchangedTypes DEF ProcessKey
<1> QED
  BY <1>1, <1>2, <1>3, <1>4, <1>5, <1>6

\* The coordinator: undo and commit.
LEMMA CommitTypeStep ==
  ASSUME TypeOK, PairKnown,
         \/ UndoSent \/ UndoFailed
         \/ DeferReadFocus \/ DeferReadTime \/ GateRead \/ Evaluate \/ Recheck
         \/ CorrectionSent \/ CorrectionFailed
  PROVE  TypeOK'
<1> USE AutocorrectAssumption
<1>1. /\ correction.gen \in Nat /\ correction.word \in Seq(Nat)
      /\ BuildKeyActions(correction.word, correction.gen) \in [erase : Nat, insert : Seq(Int)]
      /\ BuildUndoKeyActions(correction.word, correction.gen) \in [erase : Nat, insert : Seq(Int)]
  BY BatchType DEF TypeOK, CoordTypeOK, Correction
<1>2. NoCorrection \in Correction
  BY EmptySeq DEF NoCorrection, Correction, Focus
<1>3. ASSUME NEW batch \in [erase : Nat, insert : Seq(Int)]
      PROVE  BatchLen(batch) \in Nat
  BY LenProperties DEF BatchLen
<1>4. ASSUME NEW batch \in [erase : Nat, insert : Seq(Int)],
             \/ SendNothing
             \/ \E sent \in 1 .. BatchLen(batch) - 1 : SendBatch(batch, sent)
      PROVE  text' \in [Fields -> Seq(Int)] /\ blindspot' \in Nat
  <2>1. CASE SendNothing
    BY <2>1 DEF SendNothing, TypeOK, UserTypeOK, GhostTypeOK
  <2>2. ASSUME NEW sent \in 1 .. BatchLen(batch) - 1, SendBatch(batch, sent)
        PROVE  text' \in [Fields -> Seq(Int)] /\ blindspot' \in Nat
    BY <1>3, <2>2, SendBatchType
  <2> QED
    BY <1>4, <2>1, <2>2
<1>5. CASE UndoSent
  <2>1. text' \in [Fields -> Seq(Int)] /\ blindspot' \in Nat
    BY <1>1, <1>3, <1>5, SendBatchType DEF UndoSent
  <2>2. UserTypeOK'
    BY <1>5, <2>1 DEF UndoSent, TypeOK, UserTypeOK
  <2>3. correction.pair \in Pairs
    BY <1>5 DEF UndoSent, PairKnown
  <2>4. CoordTypeOK'
    BY <1>2, <1>5, <2>3 DEF UndoSent, Escalated, TypeOK, CoordTypeOK
  <2>5. undone' \in [Pairs -> Nat]
    BY <1>5, <2>3 DEF UndoSent, TypeOK, GhostTypeOK
  <2>6. GhostTypeOK'
    BY <1>5, <2>1, <2>5 DEF UndoSent, TypeOK, GhostTypeOK
  <2> QED
    BY <1>5, <2>2, <2>4, <2>6, UnchangedTypes DEF UndoSent, TypeOK
<1>6. CASE UndoFailed
  <2>1. text' \in [Fields -> Seq(Int)] /\ blindspot' \in Nat
    BY <1>1, <1>4, <1>6 DEF UndoFailed
  <2>2. UserTypeOK' /\ GhostTypeOK'
    BY <1>6, <2>1 DEF UndoFailed, TypeOK, UserTypeOK, GhostTypeOK
  <2>3. CoordTypeOK'
    BY <1>2, <1>6 DEF UndoFailed, TypeOK, CoordTypeOK
  <2> QED
    BY <1>6, <2>2, <2>3, UnchangedTypes DEF UndoFailed, TypeOK
<1>7. ASSUME UNCHANGED CommitUnchanged, CoordTypeOK'
      PROVE  TypeOK'
  BY <1>7, UnchangedTypes DEF CommitUnchanged, TypeOK
<1>8. CASE DeferReadFocus
  <2>1. CoordTypeOK'
    BY <1>8 DEF DeferReadFocus, CommitUnchanged, TypeOK, CoordTypeOK
  <2> QED
    BY <1>7, <1>8, <2>1 DEF DeferReadFocus
<1>9. CASE DeferReadTime
  <2>1. CoordTypeOK'
    BY <1>2, <1>9 DEF DeferReadTime, Cancel, CommitUnchanged, TypeOK, CoordTypeOK
  <2> QED
    BY <1>7, <1>9, <2>1 DEF DeferReadTime
<1>10. CASE GateRead
  <2>1. Len(GateInputs) = 5
    BY DEF GateInputs
  <2>2. CoordTypeOK'
    BY <1>2, <1>10, <2>1 DEF GateRead, Cancel, CommitUnchanged, TypeOK, CoordTypeOK
  <2> QED
    BY <1>7, <1>10, <2>2 DEF GateRead
<1>11. CASE Evaluate
  <2>1. ASSUME NEW p \in Proposable
        PROVE  [correction EXCEPT !.pair = p] \in Correction
    BY <2>1 DEF Proposable, TypeOK, CoordTypeOK, Correction
  <2>2. CoordTypeOK'
    BY <1>2, <1>11, <2>1 DEF Evaluate, Cancel, CommitUnchanged, TypeOK, CoordTypeOK
  <2> QED
    BY <1>7, <1>11, <2>2 DEF Evaluate
<1>12. CASE Recheck
  <2>1. CoordTypeOK'
    BY <1>2, <1>12 DEF Recheck, Cancel, CommitUnchanged, TypeOK, CoordTypeOK
  <2> QED
    BY <1>7, <1>12, <2>1 DEF Recheck
<1>13. CASE CorrectionSent
  <2>1. text' \in [Fields -> Seq(Int)] /\ blindspot' \in Nat
    BY <1>1, <1>3, <1>13, SendBatchType DEF CorrectionSent
  <2>2. UserTypeOK'
    BY <1>13, <2>1 DEF CorrectionSent, TypeOK, UserTypeOK
  <2>3. CoordTypeOK'
    BY <1>2, <1>13 DEF CorrectionSent, TypeOK, CoordTypeOK
  <2>4. applied' \in [Pairs -> Nat] /\ lateCommits' \in Nat /\ textBefore' \in Seq(Int)
    <3>1. correction.pair \in Pairs
      BY <1>13 DEF CorrectionSent, PairKnown
    <3>2. applied' \in [Pairs -> Nat]
      BY <1>13, <3>1 DEF CorrectionSent, TypeOK, GhostTypeOK
    <3>3. lateCommits' \in Nat
      BY <1>13 DEF CorrectionSent, TypeOK, GhostTypeOK
    <3>4. textBefore' \in Seq(Int)
      BY <1>13 DEF CorrectionSent, TypeOK, UserTypeOK
    <3> QED
      BY <3>2, <3>3, <3>4
  <2>5. GhostTypeOK'
    BY <1>13, <2>1, <2>4 DEF CorrectionSent, TypeOK, GhostTypeOK
  <2> QED
    BY <1>13, <2>2, <2>3, <2>5, UnchangedTypes DEF CorrectionSent, TypeOK
<1>14. CASE CorrectionFailed
  <2>1. text' \in [Fields -> Seq(Int)] /\ blindspot' \in Nat
    BY <1>1, <1>4, <1>14 DEF CorrectionFailed
  <2>2. UserTypeOK' /\ GhostTypeOK'
    BY <1>14, <2>1 DEF CorrectionFailed, TypeOK, UserTypeOK, GhostTypeOK
  <2>3. CoordTypeOK'
    BY <1>2, <1>14 DEF CorrectionFailed, TypeOK, CoordTypeOK
  <2> QED
    BY <1>14, <2>2, <2>3, UnchangedTypes DEF CorrectionFailed, TypeOK
<1> QED
  BY <1>5, <1>6, <1>8, <1>9, <1>10, <1>11, <1>12, <1>13, <1>14

-----------------------------------------------------------------------------
(* The queue.                                                              *)

\* Only the hook and the receiver touch the queue and its accounting.
LEMMA QueueFrame ==
  ASSUME Next
  PROVE  \/ \E kind \in UserKeys : PressKey(kind)
         \/ Receive
         \/ UNCHANGED <<generation, queue, dropped, current>>
<1> USE DEF hookVars, coordVars
<1>1. CASE User
  BY <1>1 DEF User, ClickInField, FocusField, ToggleEnabled, TogglePause, RequestExit
<1>2. CASE FocusThread
  BY <1>2 DEF FocusThread, FocusCheckShutdown, ClassifyFocused, PublishFocus, CheckPolicy,
              FocusReadEnabled, FocusReadPaused, GateCapture
<1>3. CASE Main \/ Broker \/ BrokerContact \/ TsfWindowElapses
  BY <1>3 DEF Main, DisallowCapture, StopObserver, JoinThreads, Broker, BrokerContact,
              NoteTsfFocus, NoteTsfTime, TsfWindowElapses
<1>4. CASE Coordinator
  <2>1. CASE \/ CheckShutdown \/ RecvTimeout \/ ProcessIgnored \/ ProcessUndo \/ ProcessKey
    BY <2>1 DEF CheckShutdown, RecvTimeout, ProcessIgnored, ProcessUndo, ProcessKey,
                ProcessUnchanged
  <2>2. CASE UndoSent \/ UndoFailed \/ CorrectionSent \/ CorrectionFailed
    BY <2>2 DEF UndoSent, UndoFailed, CorrectionSent, CorrectionFailed
  <2>3. CASE DeferReadFocus \/ DeferReadTime \/ GateRead \/ Evaluate \/ Recheck
    BY <2>3 DEF DeferReadFocus, DeferReadTime, GateRead, Evaluate, Recheck, CommitUnchanged
  <2> QED
    BY <1>4, <2>1, <2>2, <2>3 DEF Coordinator
<1> QED
  BY <1>1, <1>2, <1>3, <1>4 DEF Next

LEMMA QueueStep ==
  ASSUME TypeOK, QueueInOrder, Next
  PROVE  QueueInOrder'
<1> USE AutocorrectAssumption
<1>1. /\ generation \in Nat /\ queue \in Seq(Event) /\ Len(queue) \in Nat
      /\ current.gen \in Nat /\ QueueCapacity \in Nat
      /\ \A i \in 1 .. Len(queue) : queue[i].gen \in Nat
  <2>1. generation \in Nat /\ queue \in Seq(Event) /\ current \in Event
    BY DEF TypeOK, HookTypeOK, CoordTypeOK
  <2>2. \A i \in 1 .. Len(queue) : queue[i] \in Event
    BY <2>1, ElementOfSeq
  <2>3. Len(queue) \in Nat
    BY <2>1, LenProperties
  <2> QED
    BY <2>1, <2>2, <2>3 DEF Event
<1>2. ASSUME NEW kind \in UserKeys, PressKey(kind)
      PROVE  QueueInOrder'
  <2>1. current' = current
    BY <1>2 DEF PressKey, coordVars
  <2>2. CASE UNCHANGED <<generation, queue, dropped>>
    BY <2>1, <2>2 DEF QueueInOrder
  <2>3. CASE Capture(kind) /\ Len(queue) < QueueCapacity
    <3> DEFINE e == [gen |-> Stamp, kind |-> kind]
    <3>1. /\ generation' = generation + 1 /\ dropped' = dropped
          /\ queue' = Append(queue, e) /\ e.gen = generation + 1
      BY <2>3 DEF Capture, Stamp
    <3>2. e \in Event
      BY <1>1 DEF Event, Stamp
    <3> HIDE DEF e
    <3>3. /\ Len(queue') = Len(queue) + 1 /\ queue'[Len(queue) + 1] = e
          /\ \A i \in 1 .. Len(queue) : queue'[i] = queue[i]
      BY <1>1, <3>1, <3>2, AppendProperties
    <3>4. \A i \in 1 .. Len(queue') :
            /\ current'.gen < queue'[i].gen /\ queue'[i].gen <= generation'
            /\ \A j \in 1 .. i - 1 : queue'[j].gen < queue'[i].gen
      BY SMTT(30), <1>1, <2>1, <3>1, <3>3 DEF QueueInOrder
    <3>5. \A g \in current'.gen + 1 .. generation' :
            g \in dropped' \/ \E i \in 1 .. Len(queue') : queue'[i].gen = g
      BY <1>1, <2>1, <3>1, <3>3 DEF QueueInOrder
    <3> QED
      BY <1>1, <2>1, <2>3, <3>1, <3>3, <3>4, <3>5 DEF QueueInOrder
  <2>4. CASE Capture(kind) /\ ~(Len(queue) < QueueCapacity)
    <3>1. /\ generation' = generation + 1 /\ queue' = queue
          /\ dropped' = dropped \cup {generation + 1}
      BY <2>4 DEF Capture, Stamp
    <3>2. Len(queue') <= QueueCapacity /\ current'.gen <= generation'
      BY <1>1, <2>1, <3>1 DEF QueueInOrder
    <3>3. \A i \in 1 .. Len(queue') :
            /\ current'.gen < queue'[i].gen /\ queue'[i].gen <= generation'
            /\ \A j \in 1 .. i - 1 : queue'[j].gen < queue'[i].gen
      BY <1>1, <2>1, <3>1 DEF QueueInOrder
    <3>4. ASSUME NEW g \in current'.gen + 1 .. generation'
          PROVE  g \in dropped' \/ \E i \in 1 .. Len(queue') : queue'[i].gen = g
      <4>1. CASE g = generation + 1
        BY <3>1, <4>1
      <4>2. CASE g # generation + 1
        <5>1. g \in current.gen + 1 .. generation
          BY <1>1, <2>1, <3>1, <4>2
        <5> QED
          BY <3>1, <5>1 DEF QueueInOrder
      <4> QED
        BY <4>1, <4>2
    <3> QED
      BY <3>2, <3>3, <3>4 DEF QueueInOrder
  <2> QED
    BY <1>2, <2>2, <2>3, <2>4 DEF PressKey
<1>3. CASE Receive
  <2>1. /\ queue # <<>> /\ queue' = Tail(queue) /\ current' = Head(queue)
        /\ UNCHANGED <<generation, dropped>>
    BY <1>3 DEF Receive
  <2>2. /\ Len(queue') = Len(queue) - 1
        /\ \A i \in 1 .. Len(queue') : queue'[i] = queue[i + 1]
        /\ current' = queue[1] /\ Len(queue) > 0
    BY <1>1, <2>1, HeadTailProperties, EmptySeq
  <2>3. \A i \in 1 .. Len(queue') :
          /\ current'.gen < queue'[i].gen /\ queue'[i].gen <= generation'
          /\ \A j \in 1 .. i - 1 : queue'[j].gen < queue'[i].gen
    BY <1>1, <2>1, <2>2 DEF QueueInOrder
  <2>4. ASSUME NEW g \in current'.gen + 1 .. generation'
        PROVE  g \in dropped' \/ \E i \in 1 .. Len(queue') : queue'[i].gen = g
    <3>1. current.gen < current'.gen /\ current'.gen \in Nat
      BY <1>1, <2>2 DEF QueueInOrder
    <3>2. g \in dropped \/ \E i \in 1 .. Len(queue) : queue[i].gen = g
      <4>1. g \in current.gen + 1 .. generation
        BY <1>1, <2>1, <3>1
      <4> QED
        BY <4>1 DEF QueueInOrder
    <3>3. ASSUME NEW i \in 1 .. Len(queue), queue[i].gen = g
          PROVE  \E k \in 1 .. Len(queue') : queue'[k].gen = g
      <4>1. i # 1
        BY <2>2, <3>1, <3>3
      <4>2. i - 1 \in 1 .. Len(queue') /\ queue'[i - 1] = queue[i]
        BY <1>1, <2>2, <4>1
      <4> QED
        BY <3>3, <4>2
    <3> QED
      BY <2>1, <3>2, <3>3
  <2>5. current'.gen <= generation' /\ Len(queue') <= QueueCapacity
    BY <1>1, <2>1, <2>2 DEF QueueInOrder
  <2> QED
    BY <2>3, <2>4, <2>5 DEF QueueInOrder
<1>4. CASE UNCHANGED <<generation, queue, dropped, current>>
  BY <1>4 DEF QueueInOrder
<1> QED
  BY <1>2, <1>3, <1>4, QueueFrame

-----------------------------------------------------------------------------
(* The session, the undo and the correction in progress.                   *)

\* Nobody but the coordinator touches its state and the counts of what it did.
LEMMA CoordFrame ==
  ASSUME Next
  PROVE  Coordinator \/ UNCHANGED <<coordVars, undone, applied>>
<1> USE DEF ghostVars
<1>1. CASE User
  BY <1>1 DEF User, PressKey, ClickInField, FocusField, ToggleEnabled, TogglePause,
              RequestExit
<1>2. CASE FocusThread
  BY <1>2 DEF FocusThread, FocusCheckShutdown, ClassifyFocused, PublishFocus, CheckPolicy,
              FocusReadEnabled, FocusReadPaused, GateCapture
<1>3. CASE Main \/ Broker \/ BrokerContact \/ TsfWindowElapses
  BY <1>3 DEF Main, DisallowCapture, StopObserver, JoinThreads, Broker, BrokerContact,
              NoteTsfFocus, NoteTsfTime, TsfWindowElapses
<1> QED
  BY <1>1, <1>2, <1>3 DEF Next

\* A boundary leaves an empty token.
LEMMA BoundaryEmpties ==
  ASSUME NEW token, NEW kind, NEW label, Completes(token, kind)
  PROVE  TokenAfter(token, kind, label) = EmptyToken
BY DEF Completes, TokenAfter

LEMMA SessionStep ==
  ASSUME TypeOK, UndoOnlyFromIdleSession, PairKnown, GateStartsOver, Coordinator
  PROVE  UndoOnlyFromIdleSession' /\ PairKnown' /\ GateStartsOver'
<1> USE AutocorrectAssumption
<1> USE DEF UndoOnlyFromIdleSession, PairKnown, GateStartsOver
<1>1. ASSUME NEW p \in Proposable
      PROVE  /\ [correction EXCEPT !.pair = p].focus = correction.focus
             /\ [correction EXCEPT !.pair = p].pair \in Pairs \ sessionBlocklist
  BY DEF TypeOK, CoordTypeOK, Correction, Proposable
<1>2. CASE CheckShutdown
  BY <1>2 DEF CheckShutdown
<1>3. CASE RecvTimeout
  BY <1>3 DEF RecvTimeout
<1>4. CASE Receive
  BY <1>4 DEF Receive
<1>5. CASE ProcessIgnored
  BY <1>5 DEF ProcessIgnored, ProcessUnchanged, Reconciled, PendingUndo
<1>6. CASE ProcessUndo
  BY <1>6 DEF ProcessUndo, ProcessUnchanged, Reconciled, PendingUndo
<1>7. CASE ProcessKey
  <2>1. undo' = NoCorrection /\ gateReads' = gateReads
    BY <1>7 DEF ProcessKey, ProcessUnchanged
  <2>2. CASE Completes(Reconciled.token, current.kind) /\ Eligible(Reconciled.token)
    <3>1. /\ pc' = "defer" /\ correction'.focus = Reconciled.focus
          /\ session' = [Reconciled EXCEPT !.token = TokenAfter(@, current.kind, current.gen)]
      BY <1>7, <2>2 DEF ProcessKey
    <3>2. session'.focus = Reconciled.focus /\ session'.token = EmptyToken
      BY <2>2, <3>1, ReconciledType, BoundaryEmpties
    <3> QED
      BY <1>7, <2>1, <3>1, <3>2 DEF ProcessKey
  <2>3. CASE ~(Completes(Reconciled.token, current.kind) /\ Eligible(Reconciled.token))
    BY <1>7, <2>1, <2>3 DEF ProcessKey
  <2> QED
    BY <2>2, <2>3
<1>8. CASE UndoSent
  BY <1>8 DEF UndoSent
<1>9. CASE UndoFailed
  BY <1>9 DEF UndoFailed
<1>10. CASE DeferReadFocus
  BY <1>10 DEF DeferReadFocus, CommitUnchanged
<1>11. CASE DeferReadTime
  BY <1>11 DEF DeferReadTime, Cancel, CommitUnchanged
<1>12. CASE GateRead
  BY <1>12 DEF GateRead, Cancel, CommitUnchanged
<1>13. CASE Evaluate
  <2>1. CASE Cancel
    BY <1>13, <2>1 DEF Evaluate, Cancel, CommitUnchanged
  <2>2. ASSUME NEW p \in Proposable, correction' = [correction EXCEPT !.pair = p],
               pc' = "recheck", UNCHANGED gateReads
        PROVE  UndoOnlyFromIdleSession' /\ PairKnown' /\ GateStartsOver'
    BY <1>1, <1>13, <2>2 DEF Evaluate, CommitUnchanged
  <2> QED
    BY <1>13, <2>1, <2>2 DEF Evaluate
<1>14. CASE Recheck
  BY <1>14 DEF Recheck, Cancel, CommitUnchanged
<1>15. CASE CorrectionSent
  BY <1>15 DEF CorrectionSent
<1>16. CASE CorrectionFailed
  BY <1>16 DEF CorrectionFailed
<1> QED
  BY <1>2, <1>3, <1>4, <1>5, <1>6, <1>7, <1>8, <1>9, <1>10, <1>11, <1>12, <1>13, <1>14, <1>15, <1>16 DEF Coordinator

-----------------------------------------------------------------------------
(* Rejections.                                                             *)

LEMMA RejectionStep ==
  ASSUME TypeOK, UndoOnlyFromIdleSession, PairKnown, RejectionsRecorded,
         RejectionsAccounted, Coordinator
  PROVE  RejectionsRecorded' /\ RejectionsAccounted'
<1> USE AutocorrectAssumption
<1>1. /\ undone \in [Pairs -> Nat] /\ applied \in [Pairs -> Nat]
      /\ undoHistory \subseteq Pairs /\ sessionBlocklist \subseteq Pairs
  BY DEF TypeOK, CoordTypeOK, GhostTypeOK
<1>2. NoCorrection.pair \notin Pairs
  BY DEF NoCorrection
<1>3. ASSUME UNCHANGED <<undone, applied, undoHistory, sessionBlocklist>>,
             \A p \in Pairs : Undoable(p)' <= Undoable(p)
      PROVE  RejectionsRecorded' /\ RejectionsAccounted'
  <2>1. RejectionsRecorded'
    BY <1>3 DEF RejectionsRecorded
  <2>2. ASSUME NEW p \in Pairs
        PROVE  undone'[p] + Undoable(p)' <= applied'[p]
    <3>1. undone[p] + Undoable(p) <= applied[p]
      BY DEF RejectionsAccounted
    <3>2. Undoable(p) \in Nat /\ Undoable(p)' \in Nat
      BY DEF Undoable
    <3> QED
      BY <1>1, <1>3, <3>1, <3>2
  <2> QED
    BY <2>1, <2>2 DEF RejectionsAccounted
<1>4. CASE \/ CheckShutdown \/ RecvTimeout \/ Receive \/ UndoFailed \/ CorrectionFailed
           \/ DeferReadFocus \/ DeferReadTime \/ GateRead \/ Evaluate \/ Recheck
  <2>1. UNCHANGED <<undone, applied, undoHistory, sessionBlocklist, undo>> /\ pc' # "undo"
    BY <1>4 DEF CheckShutdown, RecvTimeout, Receive, UndoFailed, CorrectionFailed,
                DeferReadFocus, DeferReadTime, GateRead, Evaluate, Recheck, Cancel,
                CommitUnchanged, ghostVars
  <2>2. \A p \in Pairs : Undoable(p)' <= Undoable(p)
    BY <2>1 DEF Undoable
  <2> QED
    BY <1>3, <2>1, <2>2
<1>5. CASE ProcessIgnored \/ ProcessKey
  <2>1. /\ UNCHANGED <<undone, applied, undoHistory, sessionBlocklist>>
        /\ pc' # "undo" /\ undo' \in {undo, NoCorrection}
    BY <1>5 DEF ProcessIgnored, ProcessKey, ProcessUnchanged, PendingUndo, ghostVars
  <2>2. \A p \in Pairs : Undoable(p)' <= Undoable(p)
    BY <1>2, <2>1 DEF Undoable
  <2> QED
    BY <1>3, <2>1, <2>2
<1>6. CASE ProcessUndo
  <2>1. /\ UNCHANGED <<undone, applied, undoHistory, sessionBlocklist>>
        /\ pc # "undo" /\ undo' = NoCorrection /\ correction' = undo
    BY <1>6 DEF ProcessUndo, ProcessUnchanged, PendingUndo, ghostVars
  <2>2. \A p \in Pairs : Undoable(p)' <= Undoable(p)
    BY <1>2, <2>1 DEF Undoable
  <2> QED
    BY <1>3, <2>1, <2>2
<1>7. CASE UndoSent
  <2> DEFINE pair == correction.pair
  <2>1. pair \in Pairs /\ pc = "undo" /\ pc' = "loop"
    BY <1>7 DEF UndoSent, PairKnown
  <2>2. /\ undoHistory' = undoHistory \cup {pair}
        /\ sessionBlocklist' = Escalated(pair)
        /\ undone' = [undone EXCEPT ![pair] = @ + 1]
        /\ UNCHANGED <<undo, applied>>
    BY <1>7 DEF UndoSent
  <2>3. /\ undone'[pair] = undone[pair] + 1
        /\ \A p \in Pairs : p # pair => undone'[p] = undone[p]
    BY <1>1, <2>1, <2>2
  <2>4. undoHistory' = {p \in Pairs : undone'[p] >= 1}
    BY <1>1, <2>1, <2>2, <2>3 DEF RejectionsRecorded
  <2>5. sessionBlocklist' = {p \in Pairs : undone'[p] >= 2}
    <3>1. pair \in undoHistory <=> undone[pair] >= 1
      BY <2>1 DEF RejectionsRecorded
    <3>2. CASE pair \in undoHistory
      BY <1>1, <2>1, <2>2, <2>3, <3>1, <3>2 DEF Escalated, RejectionsRecorded
    <3>3. CASE pair \notin undoHistory
      BY <1>1, <2>1, <2>2, <2>3, <3>1, <3>3 DEF Escalated, RejectionsRecorded
    <3> QED
      BY <3>2, <3>3
  <2>6. ASSUME NEW p \in Pairs
        PROVE  undone'[p] + Undoable(p)' <= applied'[p]
    <3>1. undone[p] + Undoable(p) <= applied[p]
      BY DEF RejectionsAccounted
    <3>2. CASE p = pair
      BY <1>1, <2>1, <2>2, <2>3, <3>1, <3>2 DEF Undoable
    <3>3. CASE p # pair
      BY <1>1, <2>1, <2>2, <2>3, <3>1, <3>3 DEF Undoable
    <3> QED
      BY <3>2, <3>3
  <2>7. \A p \in Pairs : undone'[p] \in Nat /\ undone'[p] <= applied'[p]
    <3>1. \A p \in Pairs : Undoable(p)' \in Nat
      BY DEF Undoable
    <3>2. \A p \in Pairs : undone'[p] \in Nat /\ applied'[p] \in Nat
      BY <1>1, <2>2, <2>3
    <3> QED
      BY <2>6, <3>1, <3>2
  <2> QED
    BY <2>4, <2>5, <2>6, <2>7 DEF RejectionsRecorded, RejectionsAccounted
<1>8. CASE CorrectionSent
  <2> DEFINE pair == correction.pair
  <2>1. /\ pair \in Pairs /\ pc = "execute" /\ pc' = "loop"
        /\ undo = NoCorrection /\ undo' = correction
    BY <1>8 DEF CorrectionSent, PairKnown, UndoOnlyFromIdleSession
  <2>2. /\ applied' = [applied EXCEPT ![pair] = @ + 1]
        /\ UNCHANGED <<undone, undoHistory, sessionBlocklist>>
    BY <1>8 DEF CorrectionSent
  <2>3. /\ applied'[pair] = applied[pair] + 1
        /\ \A p \in Pairs : p # pair => applied'[p] = applied[p]
    BY <1>1, <2>1, <2>2
  <2>4. ASSUME NEW p \in Pairs
        PROVE  undone'[p] + Undoable(p)' <= applied'[p]
    <3>1. undone[p] + Undoable(p) <= applied[p]
      BY DEF RejectionsAccounted
    <3>2. CASE p = pair
      BY <1>1, <1>2, <2>1, <2>2, <2>3, <3>1, <3>2 DEF Undoable
    <3>3. CASE p # pair
      BY <1>1, <1>2, <2>1, <2>2, <2>3, <3>1, <3>3 DEF Undoable
    <3> QED
      BY <3>2, <3>3
  <2>5. \A p \in Pairs : undone'[p] <= applied'[p]
    BY <1>1, <2>1, <2>2, <2>3 DEF RejectionsRecorded
  <2> QED
    BY <2>2, <2>4, <2>5 DEF RejectionsRecorded, RejectionsAccounted
<1> QED
  BY <1>4, <1>5, <1>6, <1>7, <1>8 DEF Coordinator

-----------------------------------------------------------------------------
(* The kill switch.                                                        *)

\* Switches and the count of late commits change by a toggle or by a commit.
LEMMA SwitchFrame ==
  ASSUME Next
  PROVE  \/ lateCommits' = 0
         \/ UNCHANGED <<enabled, paused, lateCommits, pc, gateReads>>
         \/ Coordinator /\ UNCHANGED <<enabled, paused>>
<1> USE DEF switchVars, coordVars, ghostVars
<1>1. CASE User
  BY <1>1 DEF User, PressKey, ClickInField, FocusField, ToggleEnabled, TogglePause,
              RequestExit
<1>2. CASE FocusThread
  BY <1>2 DEF FocusThread, FocusCheckShutdown, ClassifyFocused, PublishFocus, CheckPolicy,
              FocusReadEnabled, FocusReadPaused, GateCapture
<1>3. CASE Main \/ Broker \/ BrokerContact \/ TsfWindowElapses
  BY <1>3 DEF Main, DisallowCapture, StopObserver, JoinThreads, Broker, BrokerContact,
              NoteTsfFocus, NoteTsfTime, TsfWindowElapses
<1>4. CASE Coordinator
  <2>1. CASE \/ CheckShutdown \/ RecvTimeout \/ Receive
             \/ ProcessIgnored \/ ProcessUndo \/ ProcessKey
    BY <1>4, <2>1 DEF CheckShutdown, RecvTimeout, Receive, ProcessIgnored, ProcessUndo,
                      ProcessKey, ProcessUnchanged
  <2>2. CASE UndoSent \/ UndoFailed \/ CorrectionSent \/ CorrectionFailed
    BY <1>4, <2>2 DEF UndoSent, UndoFailed, CorrectionSent, CorrectionFailed
  <2>3. CASE DeferReadFocus \/ DeferReadTime \/ GateRead \/ Evaluate \/ Recheck
    BY <1>4, <2>3 DEF DeferReadFocus, DeferReadTime, GateRead, Evaluate, Recheck,
                      CommitUnchanged
  <2> QED
    BY <1>4, <2>1, <2>2, <2>3 DEF Coordinator
<1> QED
  BY <1>1, <1>2, <1>3, <1>4 DEF Next

LEMMA LateCommitStep ==
  ASSUME TypeOK, GateStartsOver, AtMostOneLateCommit, LateCommitIsLast, Next
  PROVE  AtMostOneLateCommit' /\ LateCommitIsLast'
<1>1. lateCommits \in Nat
  BY DEF TypeOK, GhostTypeOK
<1>2. CASE lateCommits' = 0
  BY <1>2 DEF AtMostOneLateCommit, LateCommitIsLast
<1>3. CASE UNCHANGED <<enabled, paused, lateCommits, pc, gateReads>>
  BY <1>3 DEF AtMostOneLateCommit, LateCommitIsLast, Active
<1>4. CASE Coordinator /\ UNCHANGED <<enabled, paused>>
  <2>1. CASE CorrectionSent
    <3>1. lateCommits = 0
      BY <1>1, <2>1 DEF CorrectionSent, LateCommitIsLast
    <3>2. pc' = "loop" /\ lateCommits' = IF Active THEN 0 ELSE 1
      BY <2>1, <3>1 DEF CorrectionSent
    <3> QED
      BY <1>4, <3>2 DEF AtMostOneLateCommit, LateCommitIsLast, Active
  <2>2. CASE GateRead
    <3>1. lateCommits' = lateCommits
      BY <2>2 DEF GateRead, CommitUnchanged, ghostVars
    <3>2. ASSUME lateCommits > 0, ~(pc' = "loop")
          PROVE  pc' = "gate" /\ gateReads' = 1 /\ enabled
      <4>1. ~Active /\ (gateReads = 0 \/ (gateReads = 1 /\ enabled))
        BY <2>2, <3>2 DEF GateRead, LateCommitIsLast
      <4>2. GateInputs[1] = enabled /\ GateInputs[2] = ~paused /\ Len(GateInputs) = 5
        BY DEF GateInputs
      <4>3. GateInputs[gateReads + 1]
        BY <2>2, <3>2 DEF GateRead, Cancel
      <4>4. gateReads = 0 /\ enabled
        <5>1. CASE gateReads = 0
          BY <4>2, <4>3, <5>1
        <5>2. CASE gateReads = 1 /\ enabled
          <6>1. gateReads + 1 = 2
            BY <5>2
          <6>2. GateInputs[2]
            BY <4>3, <6>1
          <6> QED
            BY <4>1, <4>2, <5>2, <6>2, Zenon DEF Active
        <5> QED
          BY <4>1, <5>1, <5>2
      <4> QED
        BY <2>2, <4>2, <4>3, <4>4 DEF GateRead
    <3> QED
      BY <1>1, <1>4, <3>1, <3>2 DEF AtMostOneLateCommit, LateCommitIsLast, Active
  <2>3. CASE \/ CheckShutdown \/ RecvTimeout \/ Receive \/ ProcessIgnored \/ ProcessUndo
             \/ ProcessKey \/ UndoSent \/ UndoFailed \/ CorrectionFailed
    <3>1. lateCommits' = lateCommits /\ pc' \notin {"gate", "evaluate", "recheck", "execute"}
      BY <2>3 DEF CheckShutdown, RecvTimeout, Receive, ProcessIgnored, ProcessUndo,
                  ProcessKey, UndoSent, UndoFailed, CorrectionFailed, ProcessUnchanged,
                  ghostVars
    <3> QED
      BY <1>4, <3>1 DEF AtMostOneLateCommit, LateCommitIsLast, Active
  <2>4. CASE DeferReadFocus \/ DeferReadTime
    <3>1. /\ lateCommits' = lateCommits /\ pc' \notin {"evaluate", "recheck", "execute"}
          /\ pc' = "gate" => gateReads' = 0
      BY <2>4 DEF DeferReadFocus, DeferReadTime, Cancel, CommitUnchanged, ghostVars,
                  GateStartsOver
    <3> QED
      BY <1>4, <3>1 DEF AtMostOneLateCommit, LateCommitIsLast, Active
  <2>5. CASE Evaluate \/ Recheck
    <3>1. lateCommits' = lateCommits /\ ~(lateCommits > 0)
      BY <2>5 DEF Evaluate, Recheck, CommitUnchanged, ghostVars, LateCommitIsLast
    <3> QED
      BY <3>1 DEF AtMostOneLateCommit, LateCommitIsLast
  <2> QED
    BY <1>4, <2>1, <2>2, <2>3, <2>4, <2>5 DEF Coordinator
<1> QED
  BY <1>2, <1>3, <1>4, SwitchFrame

-----------------------------------------------------------------------------
(* The theorems.                                                           *)

LEMMA InitInductive == Init => InductiveInvariant
<1> SUFFICES ASSUME Init PROVE InductiveInvariant
  OBVIOUS
<1>1. TypeOK
  BY InitTypeOK
<1>2. /\ queue = <<>> /\ generation = 0 /\ current.gen = 0 /\ Len(<<>>) = 0
      /\ QueueCapacity \in Nat
  BY AutocorrectAssumption DEF Init, NoEvent
<1>3. QueueInOrder
  BY <1>2 DEF QueueInOrder
<1>4. UndoOnlyFromIdleSession /\ PairKnown /\ GateStartsOver
  BY DEF Init, UndoOnlyFromIdleSession, PairKnown, GateStartsOver
<1>5. RejectionsRecorded
  BY DEF Init, RejectionsRecorded
<1>6. RejectionsAccounted
  BY AutocorrectAssumption DEF Init, RejectionsAccounted, Undoable, NoCorrection
<1>7. AtMostOneLateCommit /\ LateCommitIsLast
  BY DEF Init, AtMostOneLateCommit, LateCommitIsLast
<1> QED
  BY <1>1, <1>3, <1>4, <1>5, <1>6, <1>7 DEF InductiveInvariant

LEMMA StepInductive == InductiveInvariant /\ [Next]_vars => InductiveInvariant'
<1> SUFFICES ASSUME InductiveInvariant, [Next]_vars PROVE InductiveInvariant'
  OBVIOUS
<1> USE DEF InductiveInvariant
<1>1. CASE Next
  <2>1. TypeOK'
    BY <1>1, UserTypeStep, ThreadsTypeStep, ProcessTypeStep, CommitTypeStep
    DEF Next, Coordinator
  <2>2. QueueInOrder'
    BY <1>1, QueueStep
  <2>3. CASE Coordinator
    BY <1>1, <2>1, <2>2, <2>3, SessionStep, RejectionStep, LateCommitStep
  <2>4. CASE UNCHANGED <<coordVars, undone, applied>>
    <3>1. UndoOnlyFromIdleSession' /\ PairKnown' /\ GateStartsOver'
      BY <2>4 DEF coordVars, UndoOnlyFromIdleSession, PairKnown, GateStartsOver
    <3>2. RejectionsRecorded' /\ RejectionsAccounted'
      BY <2>4 DEF coordVars, RejectionsRecorded, RejectionsAccounted, Undoable
    <3> QED
      BY <1>1, <2>1, <2>2, <3>1, <3>2, LateCommitStep
  <2> QED
    BY <1>1, <2>3, <2>4, CoordFrame
<1>2. CASE UNCHANGED vars
  <2>1. TypeOK'
    BY <1>2, UnchangedTypes DEF vars, TypeOK
  <2>2. QueueInOrder'
    BY <1>2 DEF vars, hookVars, coordVars, QueueInOrder
  <2>3. UndoOnlyFromIdleSession' /\ PairKnown' /\ GateStartsOver'
    BY <1>2 DEF vars, coordVars, UndoOnlyFromIdleSession, PairKnown, GateStartsOver
  <2>4. RejectionsRecorded' /\ RejectionsAccounted'
    BY <1>2 DEF vars, coordVars, ghostVars, RejectionsRecorded,
                RejectionsAccounted, Undoable
  <2>5. AtMostOneLateCommit' /\ LateCommitIsLast'
    BY <1>2 DEF vars, coordVars, switchVars, ghostVars, AtMostOneLateCommit,
                LateCommitIsLast, Active
  <2> QED
    BY <2>1, <2>2, <2>3, <2>4, <2>5
<1> QED
  BY <1>1, <1>2

THEOREM InductiveInvariantHolds == Spec => []InductiveInvariant
BY InitInductive, StepInductive, PTL DEF Spec

\* Every reachable state has its type, and the token never outgrows
\* max_token_chars, whatever the user types and however long she types it.
THEOREM TypeCorrect == Spec => []TypeOK
<1>1. InductiveInvariant => TypeOK
  BY DEF InductiveInvariant
<1> QED
  BY <1>1, InductiveInvariantHolds, PTL

\* For every capacity, the queue loses nothing silently and never reorders: a stamp
\* newer than the event in hand is queued or counted as dropped.
THEOREM QueueCorrect == Spec => []QueueInOrder
<1>1. InductiveInvariant => QueueInOrder
  BY DEF InductiveInvariant
<1> QED
  BY <1>1, InductiveInvariantHolds, PTL

\* A correction is sent and undone only from an idle session in its own window.
THEOREM UndoCorrect == Spec => []UndoOnlyFromIdleSession
<1>1. InductiveInvariant => UndoOnlyFromIdleSession
  BY DEF InductiveInvariant
<1> QED
  BY <1>1, InductiveInvariantHolds, PTL

\* While the switches stay as they are, switching off lets at most one more commit
\* through, however the two switches are toggled before.
THEOREM KillSwitchCorrect == Spec => []AtMostOneLateCommit
<1>1. InductiveInvariant => AtMostOneLateCommit
  BY DEF InductiveInvariant
<1> QED
  BY <1>1, InductiveInvariantHolds, PTL

\* A pair the user undid twice is never applied again.
THEOREM RejectionCorrect == Spec => RejectedTwiceNeverReapplied
<1> DEFINE Kept == \A p \in Pairs : undone[p] >= 2 => applied'[p] = applied[p]
<1>1. ASSUME InductiveInvariant, Next PROVE Kept
  <2>1. CASE CorrectionSent
    <3>1. correction.pair \in Pairs \ sessionBlocklist
      BY <1>1, <2>1 DEF CorrectionSent, InductiveInvariant, PairKnown
    <3>2. \A p \in Pairs : undone[p] >= 2 => p # correction.pair
      BY <1>1, <3>1 DEF InductiveInvariant, RejectionsRecorded
    <3>3. applied \in [Pairs -> Nat]
      BY <1>1 DEF InductiveInvariant, TypeOK, GhostTypeOK
    <3> QED
      BY <2>1, <3>2, <3>3 DEF CorrectionSent
  <2>2. CASE Coordinator /\ ~CorrectionSent
    <3>1. applied' = applied
      BY <2>2 DEF Coordinator, CheckShutdown, RecvTimeout, Receive, ProcessIgnored,
                  ProcessUndo, ProcessKey, ProcessUnchanged, UndoSent, UndoFailed,
                  DeferReadFocus, DeferReadTime, GateRead, Evaluate, Recheck,
                  CorrectionFailed, CommitUnchanged, ghostVars
    <3> QED
      BY <3>1
  <2> QED
    BY <1>1, <2>1, <2>2, CoordFrame
<1>2. InductiveInvariant /\ [Next]_vars => [Kept]_vars
  BY <1>1
<1> QED
  BY <1>2, InductiveInvariantHolds, PTL DEF Spec, RejectedTwiceNeverReapplied

=============================================================================
