---------------------------- MODULE TsfPathProofs ----------------------------
(***************************************************************************)
(* Theorems about TsfPath, for every set of windows and of words, every    *)
(* table of corrections and every behaviour of the user.                   *)
(***************************************************************************)
EXTENDS TsfPath, SequenceTheorems, TLAPS

-----------------------------------------------------------------------------
(* Types.                                                                  *)

LEMMA NoWordType == NoWord \in Word /\ NoWord.word = 0
<1>1. NoSpelling \in Spellings
  BY TsfPathAssumption DEF NoSpelling
<1> QED
  BY <1>1 DEF NoWord, Word

LEMMA InitTypeOK == Init => TypeOK
<1> USE TsfPathAssumption
<1> SUFFICES ASSUME Init PROVE TypeOK
  OBVIOUS
<1>1. <<>> \in Seq(Windows) /\ <<>> \in Seq(Word) /\ <<>> \in Seq(Inputs)
  BY EmptySeq
<1>2. Input("focus", NoWord) \in Inputs
  BY NoWordType DEF Input, Inputs
<1>3. <<Input("focus", NoWord)>> \in Seq(Inputs)
  BY <1>2
<1>4. UserTypeOK
  BY <1>1 DEF Init, UserTypeOK
<1>5. HostTypeOK
  BY <1>1, <1>3, NoWordType DEF Init, HostTypeOK, Input
<1>6. SharedTypeOK
  BY DEF Init, SharedTypeOK, Focus
<1>7. BrokerTypeOK
  <2>1. switchReads = 0 /\ active = FALSE /\ client = NoWindow /\ brokerFocus = NoWindow
    BY DEF Init
  <2>2. brokerPc \in {"switches", "absent"}
    BY DEF Init
  <2>3. switchReads \in 0 .. 2 /\ client \in Focus /\ brokerFocus \in Focus
    BY <2>1 DEF Focus
  <2>4. active \in BOOLEAN
    BY <2>1, Zenon
  <2>5. /\ brokerPc \in {"absent", "switches", "accept", "noteFocus", "noteTime", "answer"}
        /\ brokerPc \notin {"noteFocus", "noteTime", "answer"}
    BY <2>2
  <2> QED
    BY <2>3, <2>4, <2>5, Zenon DEF BrokerTypeOK
<1>8. CoordTypeOK
  BY <1>1, NoWordType DEF Init, CoordTypeOK, NoCommit, Focus
<1>9. GhostTypeOK
  BY DEF Init, GhostTypeOK
<1> QED
  BY <1>4, <1>5, <1>6, <1>7, <1>8, <1>9 DEF TypeOK

\* What a step leaves alone keeps its type.
LEMMA UnchangedTypes ==
  ASSUME TypeOK
  PROVE  /\ UNCHANGED userVars => UserTypeOK'
         /\ UNCHANGED hostVars => HostTypeOK'
         /\ UNCHANGED <<focusId, switchVars, noteVars>> => SharedTypeOK'
         /\ UNCHANGED brokerVars => BrokerTypeOK'
         /\ UNCHANGED coordVars => CoordTypeOK'
         /\ UNCHANGED ghostVars => GhostTypeOK'
<1>1. UNCHANGED userVars => UserTypeOK'
  BY DEF TypeOK, userVars, UserTypeOK
<1>2. UNCHANGED hostVars => HostTypeOK'
  BY DEF TypeOK, hostVars, HostTypeOK
<1>3. UNCHANGED <<focusId, switchVars, noteVars>> => SharedTypeOK'
  BY DEF TypeOK, switchVars, noteVars, SharedTypeOK
<1>4. UNCHANGED brokerVars => BrokerTypeOK'
  BY DEF TypeOK, brokerVars, BrokerTypeOK
<1>5. UNCHANGED coordVars => CoordTypeOK'
  BY DEF TypeOK, coordVars, CoordTypeOK
<1>6. UNCHANGED ghostVars => GhostTypeOK'
  BY DEF TypeOK, ghostVars, GhostTypeOK
<1> QED
  BY <1>1, <1>2, <1>3, <1>4, <1>5, <1>6

\* The words the coordinator has not decided on are numbers.
LEMMA UndecidedType ==
  ASSUME TypeOK
  PROVE  Undecided \subseteq Nat
<1>1. \A i \in 1 .. Len(events) : events[i] \in Word
  BY ElementOfSeq DEF TypeOK, CoordTypeOK
<1> QED
  BY <1>1 DEF TypeOK, CoordTypeOK, Undecided, Word

\* Words do lapse only when they are undecided.
LEMMA LapseType ==
  ASSUME TypeOK, NEW published, NEW noted, NEW recently,
         Lapse(published, noted, recently)
  PROVE  lapsed' \subseteq Nat
BY UndecidedType DEF Lapse, TypeOK, GhostTypeOK

\* The user's moves keep the types.
LEMMA UserTypeStep ==
  ASSUME TypeOK, User
  PROVE  TypeOK'
<1>1. ASSUME NEW what \in DOMAIN Budget, Spend(what)
      PROVE  spent' \in [DOMAIN Budget -> Nat]
  BY <1>1 DEF Spend, TypeOK, UserTypeOK
<1>2. DOMAIN Budget = {"word", "move", "toggle"}
  BY TsfPathAssumption
<1>3. ASSUME NEW s \in Spellings, TypeWord(s)
      PROVE  TypeOK'
  <2> DEFINE word == [word |-> Len(typedIn) + 1, spelling |-> s]
  <2>1. word \in Word /\ Input("word", word) \in Inputs /\ word.word \in Nat
    BY LenProperties DEF TypeOK, UserTypeOK, Word, Input, Inputs
  <2>2. UserTypeOK'
    BY <1>1, <1>2, <1>3, AppendProperties DEF TypeWord, TypeOK, UserTypeOK
  <2>3. HostTypeOK'
    <3>1. inbox' = [inbox EXCEPT ![foreground] = Append(@, Input("word", word))]
      BY <1>3 DEF TypeWord
    <3>2. Append(inbox[foreground], Input("word", word)) \in Seq(Inputs)
      BY <2>1, AppendProperties DEF TypeOK, UserTypeOK, HostTypeOK
    <3> HIDE DEF word
    <3>3. inbox' \in [Windows -> Seq(Inputs)]
      BY <3>1, <3>2 DEF TypeOK, HostTypeOK
    <3> QED
      BY <1>3, <3>3 DEF TypeWord, TypeOK, HostTypeOK
  <2>4. CoordTypeOK'
    <3>1. events' = Append(events, word)
      BY <1>3 DEF TypeWord
    <3>2. events' \in Seq(Word)
      BY <2>1, <3>1, AppendProperties DEF TypeOK, CoordTypeOK
    <3> QED
      BY <1>3, <3>2 DEF TypeWord, TypeOK, CoordTypeOK
  <2>5. GhostTypeOK'
    <3>1. lapsed' = lapsed \/ lapsed' = lapsed \cup {word.word}
      BY <1>3 DEF TypeWord
    <3> QED
      BY <1>3, <2>1, <3>1 DEF TypeWord, TypeOK, GhostTypeOK
  <2> QED
    BY <1>3, <2>2, <2>3, <2>4, <2>5, UnchangedTypes DEF TypeWord, TypeOK
<1>4. ASSUME NEW w \in Windows, MoveTo(w)
      PROVE  TypeOK'
  <2>1. UserTypeOK'
    BY <1>1, <1>2, <1>4 DEF MoveTo, TypeOK, UserTypeOK
  <2>2. Append(inbox[w], Input("focus", NoWord)) \in Seq(Inputs)
    BY NoWordType, AppendProperties DEF TypeOK, HostTypeOK, Input, Inputs
  <2>3. HostTypeOK'
    BY <1>4, <2>2 DEF MoveTo, TypeOK, HostTypeOK
  <2> QED
    BY <1>4, <2>1, <2>3, UnchangedTypes DEF MoveTo, TypeOK
<1>5. CASE Toggle
  <2>1. UserTypeOK'
    BY <1>1, <1>2, <1>5 DEF Toggle, TypeOK, UserTypeOK
  <2>2. SharedTypeOK'
    BY <1>5 DEF Toggle, TypeOK, SharedTypeOK, noteVars
  <2>3. GhostTypeOK'
    BY <1>5 DEF Toggle, TypeOK, GhostTypeOK
  <2> QED
    BY <1>5, <2>1, <2>2, <2>3, UnchangedTypes DEF Toggle, TypeOK
<1> QED
  BY <1>3, <1>4, <1>5 DEF User

\* A call to the broker.
LEMMA CallType ==
  ASSUME TypeOK, NEW w \in Windows, NEW kind \in {"active", "evaluate"},
         NEW word \in Word, Call(w, kind, word)
  PROVE  /\ hostPc' \in [Windows -> {"loop", "calling"}]
         /\ request' \in [Windows -> [kind : {"active", "evaluate"}, word : Word]]
<1>1. /\ hostPc \in [Windows -> {"loop", "calling"}]
      /\ request \in [Windows -> [kind : {"active", "evaluate"}, word : Word]]
  BY DEF TypeOK, HostTypeOK
<1>2. Input(kind, word) \in [kind : {"active", "evaluate"}, word : Word]
  BY DEF Input
<1> QED
  BY <1>1, <1>2 DEF Call

\* The applications keep the types.
LEMMA HostTypeStep ==
  ASSUME TypeOK, NEW w \in Windows, Host(w)
  PROVE  TypeOK'
<1> DEFINE CallTypeOK ==
      /\ hostPc \in [Windows -> {"loop", "calling"}]
      /\ request \in [Windows -> [kind : {"active", "evaluate"}, word : Word]]
<1>1. CASE HandleInput(w)
  <2>1. Head(inbox[w]) \in Inputs /\ Tail(inbox[w]) \in Seq(Inputs)
    BY <1>1, HeadTailProperties DEF HandleInput, TypeOK, HostTypeOK
  <2>2. inbox' \in [Windows -> Seq(Inputs)] /\ sessions' = sessions
    BY <1>1, <2>1 DEF HandleInput, TypeOK, HostTypeOK
  <2>3. Head(inbox[w]).word \in Word
    BY <2>1 DEF Inputs
  <2>4. doc' \in [Windows -> Word] /\ CallTypeOK' /\ byKeys' \subseteq Nat
    <3>1. CASE HandleFocus(w)
      BY <3>1, CallType, NoWordType DEF HandleFocus, TypeOK, HostTypeOK, GhostTypeOK
    <3>2. CASE HandleWord(w)
      BY <2>3, <3>2, CallType DEF HandleWord, TypeOK, HostTypeOK, GhostTypeOK
    <3>3. CASE HandleBatch(w)
      <4>1. Head(inbox[w]).word.word \in Nat
        BY <2>3 DEF Word
      <4>2. CASE doc[w].word = Head(inbox[w]).word.word
        BY <2>3, <3>3, <4>1, <4>2, CallType
        DEF HandleBatch, TypeOK, HostTypeOK, GhostTypeOK
      <4>3. CASE doc[w].word # Head(inbox[w]).word.word
        BY <3>3, <4>3 DEF HandleBatch, TypeOK, HostTypeOK, GhostTypeOK
      <4> QED
        BY <4>2, <4>3
    <3> QED
      BY <1>1, <3>1, <3>2, <3>3 DEF HandleInput
  <2>5. HostTypeOK'
    BY <2>2, <2>4 DEF TypeOK, HostTypeOK
  <2>6. GhostTypeOK'
    BY <1>1, <2>4 DEF HandleInput, TypeOK, GhostTypeOK
  <2> QED
    BY <1>1, <2>5, <2>6, UnchangedTypes DEF HandleInput, TypeOK
<1>2. CASE RunSession(w)
  <2> DEFINE word == Head(sessions[w])
  <2>1. word \in Word /\ Tail(sessions[w]) \in Seq(Word)
    BY <1>2, HeadTailProperties DEF RunSession, TypeOK, HostTypeOK
  <2>2. word.word \in Nat
    BY <2>1 DEF Word
  <2>3. doc' = IF doc[w].word = word.word THEN [doc EXCEPT ![w] = word] ELSE doc
    BY <1>2 DEF RunSession
  <2>4. byTsf' = byTsf \cup {word.word}
    BY <1>2 DEF RunSession
  <2> HIDE DEF word
  <2>5. doc' \in [Windows -> Word]
    BY <2>1, <2>3 DEF TypeOK, HostTypeOK
  <2>6. CallTypeOK'
    BY <1>2, <2>5, CallType DEF RunSession
  <2>7. sessions' \in [Windows -> Seq(Word)]
    BY <1>2, <2>1 DEF RunSession, TypeOK, HostTypeOK
  <2>8. HostTypeOK'
    BY <1>2, <2>5, <2>6, <2>7 DEF RunSession, TypeOK, HostTypeOK
  <2>9. GhostTypeOK'
    BY <1>2, <2>2, <2>4 DEF RunSession, TypeOK, GhostTypeOK
  <2> QED
    BY <1>2, <2>8, <2>9, UnchangedTypes DEF RunSession, TypeOK
<1>3. CASE CallFails(w)
  <2>1. HostTypeOK'
    BY <1>3 DEF CallFails, TypeOK, HostTypeOK
  <2> QED
    BY <1>3, <2>1, UnchangedTypes DEF CallFails, TypeOK
<1> QED
  BY <1>1, <1>2, <1>3 DEF Host

\* So do the broker, the focus thread and the clock.
LEMMA BrokerTypeStep ==
  ASSUME TypeOK, PublishFocus \/ TsfWindowElapses \/ Broker
  PROVE  TypeOK'
<1> USE TsfPathAssumption
<1>1. CASE PublishFocus
  <2>1. SharedTypeOK'
    BY <1>1 DEF PublishFocus, TypeOK, UserTypeOK, SharedTypeOK, switchVars, noteVars, Focus
  <2>2. GhostTypeOK'
    BY <1>1, LapseType DEF PublishFocus, TypeOK, GhostTypeOK
  <2> QED
    BY <1>1, <2>1, <2>2, UnchangedTypes DEF PublishFocus, TypeOK
<1>2. CASE TsfWindowElapses
  <2>1. SharedTypeOK'
    BY <1>2 DEF TsfWindowElapses, TypeOK, SharedTypeOK, switchVars
  <2>2. GhostTypeOK'
    BY <1>2, LapseType DEF TsfWindowElapses, TypeOK, GhostTypeOK
  <2> QED
    BY <1>2, <2>1, <2>2, UnchangedTypes DEF TsfWindowElapses, TypeOK
<1>3. CASE ReadSwitch
  <2>1. /\ brokerPc = "switches" /\ client' = client /\ brokerFocus' = brokerFocus
        /\ brokerPc' \in {"switches", "accept"} /\ switchReads \in 0 .. 2
        /\ switchReads' = 0 \/ (switchReads' = switchReads + 1 /\ switchReads + 1 < 3)
        /\ active' = TRUE \/ active' = FALSE \/ active' = active
    <3>1. /\ brokerPc = "switches" /\ client' = client /\ brokerFocus' = brokerFocus
          /\ switchReads \in 0 .. 2
      BY <1>3 DEF ReadSwitch, TypeOK, BrokerTypeOK
    <3>2. Len(SwitchesRead) = 3
      BY DEF SwitchesRead
    <3>3. CASE ~SwitchesRead[switchReads + 1]
      <4>1. active' = FALSE /\ switchReads' = 0 /\ brokerPc' = "accept"
        BY <1>3, <3>3, Zenon DEF ReadSwitch
      <4> QED
        BY <3>1, <4>1, Zenon
    <3>4. CASE SwitchesRead[switchReads + 1] /\ switchReads + 1 < 3
      <4>1. switchReads' = switchReads + 1 /\ active' = active /\ brokerPc' = brokerPc
        BY <1>3, <3>2, <3>4, Zenon DEF ReadSwitch
      <4> QED
        BY <3>1, <3>4, <4>1
    <3>5. CASE SwitchesRead[switchReads + 1] /\ ~(switchReads + 1 < 3)
      <4>1. active' = TRUE /\ switchReads' = 0 /\ brokerPc' = "accept"
        BY <1>3, <3>2, <3>5, Zenon DEF ReadSwitch
      <4> QED
        BY <3>1, <4>1, Zenon
    <3> QED
      BY <3>3, <3>4, <3>5
  <2>2. BrokerTypeOK'
    <3>1. switchReads' \in 0 .. 2
      BY <2>1
    <3>2. active' \in BOOLEAN
      BY <2>1, Zenon DEF TypeOK, BrokerTypeOK
    <3> QED
      BY <2>1, <3>1, <3>2 DEF TypeOK, BrokerTypeOK
  <2> QED
    BY <1>3, <2>2, UnchangedTypes DEF ReadSwitch, TypeOK
<1>4. ASSUME NEW w \in AdapterWindows, Accept(w)
      PROVE  TypeOK'
  <2>1. BrokerTypeOK'
    BY <1>4 DEF Accept, TypeOK, BrokerTypeOK, SharedTypeOK, Focus
  <2> QED
    BY <1>4, <2>1, UnchangedTypes DEF Accept, TypeOK
<1>5. CASE NoteTsfFocus
  <2>1. SharedTypeOK'
    BY <1>5 DEF NoteTsfFocus, TypeOK, SharedTypeOK, BrokerTypeOK, switchVars
  <2>2. BrokerTypeOK'
    BY <1>5 DEF NoteTsfFocus, TypeOK, BrokerTypeOK
  <2>3. GhostTypeOK'
    BY <1>5, LapseType DEF NoteTsfFocus, TypeOK, GhostTypeOK
  <2> QED
    BY <1>5, <2>1, <2>2, <2>3, UnchangedTypes DEF NoteTsfFocus, TypeOK
<1>6. CASE NoteTsfTime
  <2>1. SharedTypeOK'
    BY <1>6 DEF NoteTsfTime, TypeOK, SharedTypeOK, switchVars
  <2>2. BrokerTypeOK'
    BY <1>6 DEF NoteTsfTime, TypeOK, BrokerTypeOK
  <2> QED
    BY <1>6, <2>1, <2>2, UnchangedTypes DEF NoteTsfTime, TypeOK
<1>7. CASE Answer
  <2>1. client \in Windows /\ brokerPc' = "switches" /\ client' = NoWindow
    BY <1>7 DEF Answer, TypeOK, BrokerTypeOK
  <2> DEFINE r == request[client]
             corrected == [r.word EXCEPT !.spelling = Corrections[@]]
  <2>2. r \in [kind : {"active", "evaluate"}, word : Word]
    BY <2>1 DEF TypeOK, HostTypeOK
  <2>3. sessions' \in [Windows -> Seq(Word)] /\ staleAnswers' \in Nat
    <3>1. CASE Replaces(r, active)
      <4>1. corrected \in Word
        BY <2>2, <3>1 DEF Replaces, Word
      <4>2. /\ sessions' = [sessions EXCEPT ![client] = Append(@, corrected)]
            /\ staleAnswers' = IF Active THEN staleAnswers ELSE staleAnswers + 1
        BY <1>7, <3>1 DEF Answer
      <4> HIDE DEF corrected
      <4>3. Append(sessions[client], corrected) \in Seq(Word)
        BY <2>1, <4>1, AppendProperties DEF TypeOK, HostTypeOK
      <4>4. staleAnswers \in Nat /\ sessions \in [Windows -> Seq(Word)]
        BY DEF TypeOK, HostTypeOK, GhostTypeOK
      <4>5. staleAnswers' \in Nat
        BY <4>2, <4>4
      <4>6. sessions' \in [Windows -> Seq(Word)]
        BY <4>2, <4>3, <4>4
      <4> QED
        BY <4>5, <4>6
    <3>2. CASE ~Replaces(r, active)
      BY <1>7, <3>2 DEF Answer, TypeOK, HostTypeOK, GhostTypeOK
    <3> QED
      BY <3>1, <3>2
  <2>4. HostTypeOK'
    BY <1>7, <2>1, <2>3 DEF Answer, TypeOK, HostTypeOK
  <2>5. BrokerTypeOK'
    BY <1>7 DEF Answer, TypeOK, BrokerTypeOK, Focus
  <2>6. GhostTypeOK'
    BY <1>7, <2>3 DEF Answer, TypeOK, GhostTypeOK
  <2> QED
    BY <1>7, <2>4, <2>5, <2>6, UnchangedTypes DEF Answer, TypeOK
<1> QED
  BY <1>1, <1>2, <1>3, <1>4, <1>5, <1>6, <1>7 DEF Broker

\* So does the coordinator.
LEMMA CoordinatorTypeStep ==
  ASSUME TypeOK, Coordinator
  PROVE  TypeOK'
<1>1. NoCommit \in [focus : Focus, word : Word]
  BY NoWordType DEF NoCommit, Focus
<1>2. ASSUME UNCHANGED CommitUnchanged, HostTypeOK', CoordTypeOK'
      PROVE  TypeOK'
  BY <1>2, UnchangedTypes DEF CommitUnchanged, TypeOK
<1>3. CASE TakeWord
  <2>1. Head(events) \in Word /\ Tail(events) \in Seq(Word)
    BY <1>3, HeadTailProperties DEF TakeWord, TypeOK, CoordTypeOK
  <2>2. CoordTypeOK'
    BY <1>3, <2>1 DEF TakeWord, TypeOK, CoordTypeOK, SharedTypeOK
  <2> QED
    BY <1>2, <1>3, <2>2, UnchangedTypes DEF TakeWord
<1>4. CASE DeferReadFocus
  <2>1. CoordTypeOK'
    BY <1>4 DEF DeferReadFocus, TypeOK, CoordTypeOK
  <2> QED
    BY <1>2, <1>4, <2>1, UnchangedTypes DEF DeferReadFocus
<1>5. CASE DeferReadTime
  <2>1. CoordTypeOK'
    BY <1>1, <1>5 DEF DeferReadTime, Cancel, TypeOK, CoordTypeOK
  <2> QED
    BY <1>2, <1>5, <2>1, UnchangedTypes DEF DeferReadTime
<1>6. CASE Commit
  <2>1. CoordTypeOK'
    BY <1>1, <1>6 DEF Commit, Cancel, TypeOK, CoordTypeOK
  <2>2. HostTypeOK'
    <3>1. CASE UNCHANGED hostVars
      BY <3>1, UnchangedTypes
    <3>2. CASE ~UNCHANGED hostVars
      <4> DEFINE corrected == [commit.word EXCEPT !.spelling = Corrections[@]]
      <4>1. /\ commit.word.spelling \in DOMAIN Corrections
            /\ inbox' = [inbox EXCEPT ![foreground] = Append(@, Input("batch", corrected))]
            /\ UNCHANGED <<doc, hostPc, request, sessions>>
        BY <1>6, <3>2 DEF Commit
      <4>2. corrected \in Word
        BY <4>1, TsfPathAssumption DEF TypeOK, CoordTypeOK, Word
      <4> HIDE DEF corrected
      <4>3. Append(inbox[foreground], Input("batch", corrected)) \in Seq(Inputs)
        BY <4>2, AppendProperties DEF TypeOK, UserTypeOK, HostTypeOK, Input, Inputs
      <4> QED
        BY <4>1, <4>3 DEF TypeOK, HostTypeOK
    <3> QED
      BY <3>1, <3>2
  <2> QED
    BY <1>2, <1>6, <2>1, <2>2 DEF Commit
<1> QED
  BY <1>3, <1>4, <1>5, <1>6 DEF Coordinator

LEMMA TypeStep ==
  ASSUME TypeOK, [Next]_vars
  PROVE  TypeOK'
<1>1. CASE UNCHANGED vars
  BY <1>1, UnchangedTypes DEF vars, TypeOK
<1> QED
  BY <1>1, UserTypeStep, HostTypeStep, BrokerTypeStep, CoordinatorTypeStep DEF Next

\* Every variable keeps its type: the pipe and the note hold windows, the broker has
\* a client whenever it serves one, what is in flight are words.
THEOREM TsfTypeCorrect == Spec => []TypeOK
<1> QED
  BY InitTypeOK, TypeStep, PTL DEF Spec

-----------------------------------------------------------------------------
(* The two paths: a guarded word is left to the adapter.                   *)

LEMMA InitGuard == Init => GuardInvariant
<1> SUFFICES ASSUME Init PROVE GuardInvariant
  OBVIOUS
<1>1. Undecided = {}
  BY DEF Init, Undecided
<1>2. ASSUME NEW w \in Windows, NEW i \in 1 .. Len(inbox[w])
      PROVE  inbox[w][i].kind # "batch"
  BY <1>2 DEF Init, Input
<1> QED
  BY <1>1, <1>2, InitTypeOK
  DEF Init, GuardInvariant, WordsKnown, GuardStands, DeferredOtherwise, BatchesLapsed,
      GuardedWordsAreLeftToTsf

\* Nothing typed, nothing decided: the guard of each word stands or lapses.
LEMMA GuardKept ==
  ASSUME GuardInvariant, TypeOK', UNCHANGED <<typedIn, coordVars>>,
         lapsed \subseteq lapsed', byKeys' \subseteq lapsed', BatchesLapsed',
         \A n \in Undecided : n \in lapsed'
           \/ Guards(focusId, tsfActiveFocus, tsfActiveRecently, typedIn[n])'
  PROVE  GuardInvariant'
<1>1. UNCHANGED <<events, pc, commit>> /\ Undecided' = Undecided
  BY DEF coordVars, Undecided
<1>2. WordsKnown' /\ DeferredOtherwise'
  BY <1>1 DEF GuardInvariant, WordsKnown, DeferredOtherwise
<1>3. GuardStands'
  BY <1>1 DEF GuardInvariant, GuardStands, Guards
<1> QED
  BY <1>2, <1>3 DEF GuardInvariant, GuardedWordsAreLeftToTsf

\* The batches on their way stay where they are.
LEMMA BatchesKept ==
  ASSUME BatchesLapsed, lapsed \subseteq lapsed', inbox' = inbox
  PROVE  BatchesLapsed'
BY DEF BatchesLapsed

\* Another input joins an inbox, of a lapsed word when it is a batch.
LEMMA InputJoins ==
  ASSUME TypeOK, BatchesLapsed, lapsed \subseteq lapsed',
         NEW w \in Windows, NEW input \in Inputs,
         inbox' = [inbox EXCEPT ![w] = Append(@, input)],
         input.kind = "batch" => input.word.word \in lapsed'
  PROVE  BatchesLapsed'
<1>1. inbox \in [Windows -> Seq(Inputs)]
  BY DEF TypeOK, HostTypeOK
<1> SUFFICES ASSUME NEW v \in Windows, NEW i \in 1 .. Len(inbox'[v]),
                    inbox'[v][i].kind = "batch"
             PROVE  inbox'[v][i].word.word \in lapsed'
  BY DEF BatchesLapsed
<1>2. CASE v = w /\ i = Len(inbox[w]) + 1
  BY <1>1, <1>2, AppendProperties
<1>3. CASE ~(v = w /\ i = Len(inbox[w]) + 1)
  <2>1. i \in 1 .. Len(inbox[v]) /\ inbox'[v][i] = inbox[v][i]
    BY <1>1, <1>3, AppendProperties, LenProperties
  <2> QED
    BY <2>1 DEF BatchesLapsed
<1> QED
  BY <1>2, <1>3

\* The user: a new word is guarded from its boundary on, or has lapsed.
LEMMA UserGuardStep ==
  ASSUME GuardInvariant, TypeOK', User
  PROVE  GuardInvariant'
<1> TypeOK /\ BatchesLapsed
  BY DEF GuardInvariant
<1>1. ASSUME NEW s \in Spellings, TypeWord(s)
      PROVE  GuardInvariant'
  <2> DEFINE word == [word |-> Len(typedIn) + 1, spelling |-> s]
  <2>1. typedIn \in Seq(Windows) /\ events \in Seq(Word) /\ foreground \in Windows
        /\ Len(typedIn) \in Nat /\ Len(events) \in Nat
    BY LenProperties DEF TypeOK, UserTypeOK, CoordTypeOK
  <2>2. word \in Word /\ word.word = Len(typedIn) + 1
    BY <2>1 DEF Word
  <2>3. /\ typedIn' = Append(typedIn, foreground)
        /\ inbox' = [inbox EXCEPT ![foreground] = Append(@, Input("word", word))]
        /\ events' = Append(events, word)
        /\ lapsed' = IF Guards(focusId, tsfActiveFocus, tsfActiveRecently, foreground)
                     THEN lapsed ELSE lapsed \cup {word.word}
        /\ UNCHANGED <<focusId, noteVars, pc, commit, byKeys>>
    BY <1>1 DEF TypeWord
  <2> HIDE DEF word
  <2>4. /\ Len(typedIn') = Len(typedIn) + 1
        /\ typedIn'[Len(typedIn) + 1] = foreground
        /\ \A n \in 1 .. Len(typedIn) : typedIn'[n] = typedIn[n]
    BY <2>1, <2>3, AppendProperties
  <2>5. Undecided' \subseteq Undecided \cup {word.word}
    <3>1. /\ Len(events') = Len(events) + 1
          /\ events'[Len(events) + 1] = word
          /\ \A i \in 1 .. Len(events) : events'[i] = events[i]
      BY <2>1, <2>2, <2>3, AppendProperties
    <3>2. \A i \in 1 .. Len(events') : i \in 1 .. Len(events) \/ i = Len(events) + 1
      BY <2>1, <3>1
    <3> QED
      BY <2>3, <3>1, <3>2 DEF Undecided
  <2>6. lapsed \subseteq lapsed'
    BY <2>3
  <2>7. WordsKnown'
    <3>1. 1 .. Len(typedIn) \subseteq 1 .. Len(typedIn') /\ word.word \in 1 .. Len(typedIn')
      BY <2>1, <2>2, <2>4
    <3>2. Undecided' \subseteq 1 .. Len(typedIn')
      BY <2>5, <3>1 DEF GuardInvariant, WordsKnown
    <3>3. pc' = "gate" => commit'.word.word \in 1 .. Len(typedIn')
      BY <2>3, <3>1 DEF GuardInvariant, WordsKnown
    <3> QED
      BY <3>2, <3>3 DEF WordsKnown
  <2>8. GuardStands'
    <3>1. \A n \in Undecided' : n \in lapsed'
            \/ Guards(focusId, tsfActiveFocus, tsfActiveRecently, typedIn[n])'
      <4>1. ASSUME NEW n \in Undecided
            PROVE  n \in lapsed'
                   \/ Guards(focusId, tsfActiveFocus, tsfActiveRecently, typedIn[n])'
        BY <2>3, <2>4, <2>6
        DEF GuardInvariant, WordsKnown, GuardStands, Guards, noteVars
      <4>2. word.word \in lapsed'
            \/ Guards(focusId', tsfActiveFocus', tsfActiveRecently', typedIn'[word.word])
        BY <2>2, <2>3, <2>4 DEF Guards, noteVars
      <4> QED
        BY <2>5, <4>1, <4>2 DEF Guards
    <3>2. pc' \in {"defer", "deferTime"} =>
            commit'.word.word \in lapsed' \/ commit'.focus = typedIn'[commit'.word.word]
      <4>1. pc \in {"defer", "deferTime"} => commit.word.word \in Undecided
        BY DEF Undecided
      <4> QED
        BY <2>3, <2>4, <2>6, <4>1 DEF GuardInvariant, WordsKnown, GuardStands
    <3> QED
      BY <3>1, <3>2 DEF GuardStands
  <2>9. DeferredOtherwise' /\ GuardedWordsAreLeftToTsf'
    BY <2>3, <2>6 DEF GuardInvariant, DeferredOtherwise, GuardedWordsAreLeftToTsf
  <2>10. BatchesLapsed'
    <3>1. Input("word", word) \in Inputs /\ Input("word", word).kind # "batch"
      BY <2>2 DEF Input, Inputs
    <3> QED
      BY <2>1, <2>3, <2>6, <3>1, InputJoins
  <2> QED
    BY <2>7, <2>8, <2>9, <2>10 DEF GuardInvariant
<1>2. ASSUME NEW w \in Windows, MoveTo(w)
      PROVE  GuardInvariant'
  <2>1. Input("focus", NoWord) \in Inputs /\ Input("focus", NoWord).kind # "batch"
    BY NoWordType DEF Input, Inputs
  <2>2. BatchesLapsed'
    BY <1>2, <2>1, InputJoins DEF MoveTo, ghostVars
  <2> QED
    BY <1>2, <2>2, GuardKept
    DEF MoveTo, GuardInvariant, GuardStands, GuardedWordsAreLeftToTsf, Guards,
        noteVars, ghostVars
<1>3. CASE Toggle
  <2>1. BatchesLapsed'
    BY <1>3, BatchesKept DEF Toggle, hostVars
  <2> QED
    BY <1>3, <2>1, GuardKept
    DEF Toggle, GuardInvariant, GuardStands, GuardedWordsAreLeftToTsf, Guards, noteVars
<1> QED
  BY <1>1, <1>2, <1>3 DEF User

\* The applications: what the keystroke path corrects has lapsed.
LEMMA HostGuardStep ==
  ASSUME GuardInvariant, TypeOK', NEW w \in Windows, Host(w)
  PROVE  GuardInvariant'
<1> TypeOK /\ BatchesLapsed
  BY DEF GuardInvariant
<1>1. CASE HandleInput(w)
  <2>1. inbox[w] \in Seq(Inputs) /\ inbox[w] # <<>> /\ inbox \in [Windows -> Seq(Inputs)]
        /\ inbox' = [inbox EXCEPT ![w] = Tail(@)] /\ lapsed' = lapsed
    BY <1>1 DEF HandleInput, TypeOK, HostTypeOK
  <2>2. /\ Len(inbox[w]) \in Nat \ {0} /\ Head(inbox[w]) = inbox[w][1]
        /\ Len(Tail(inbox[w])) = Len(inbox[w]) - 1
        /\ \A i \in 1 .. Len(Tail(inbox[w])) : Tail(inbox[w])[i] = inbox[w][i + 1]
    BY <2>1, HeadTailProperties, EmptySeq, LenProperties
  <2>3. BatchesLapsed'
    <3> SUFFICES ASSUME NEW v \in Windows, NEW i \in 1 .. Len(inbox'[v]),
                        inbox'[v][i].kind = "batch"
                 PROVE  inbox'[v][i].word.word \in lapsed'
      BY DEF BatchesLapsed
    <3>1. CASE v = w
      <4>1. i + 1 \in 1 .. Len(inbox[w]) /\ inbox'[v][i] = inbox[w][i + 1]
        BY <2>1, <2>2, <3>1
      <4> QED
        BY <2>1, <4>1 DEF BatchesLapsed
    <3>2. CASE v # w
      BY <2>1, <3>2 DEF BatchesLapsed
    <3> QED
      BY <3>1, <3>2
  <2>4. byKeys' \subseteq lapsed'
    <3>1. CASE HandleBatch(w)
      <4>1. Head(inbox[w]).word.word \in lapsed
        BY <2>1, <2>2, <3>1 DEF HandleBatch, BatchesLapsed
      <4>2. byKeys' \subseteq byKeys \cup {Head(inbox[w]).word.word}
        BY <3>1 DEF HandleBatch
      <4> QED
        BY <2>1, <4>1, <4>2 DEF GuardInvariant, GuardedWordsAreLeftToTsf
    <3>2. CASE ~HandleBatch(w)
      BY <1>1, <2>1, <3>2
      DEF HandleInput, HandleFocus, HandleWord, GuardInvariant, GuardedWordsAreLeftToTsf
    <3> QED
      BY <3>1, <3>2
  <2> QED
    BY <1>1, <2>3, <2>4, GuardKept
    DEF HandleInput, GuardInvariant, GuardStands, Guards, userVars, noteVars
<1>2. CASE RunSession(w)
  <2>1. BatchesLapsed'
    BY <1>2, BatchesKept DEF RunSession
  <2> QED
    BY <1>2, <2>1, GuardKept
    DEF RunSession, GuardInvariant, GuardStands, GuardedWordsAreLeftToTsf, Guards,
        userVars, noteVars
<1>3. CASE CallFails(w)
  <2>1. BatchesLapsed'
    BY <1>3, BatchesKept DEF CallFails, ghostVars
  <2> QED
    BY <1>3, <2>1, GuardKept
    DEF CallFails, GuardInvariant, GuardStands, GuardedWordsAreLeftToTsf, Guards,
        userVars, noteVars, ghostVars
<1> QED
  BY <1>1, <1>2, <1>3 DEF Host

\* The focus thread, the clock and the broker: a guard that does not stand after
\* the step has lapsed with it.
LEMMA BrokerGuardStep ==
  ASSUME GuardInvariant, TypeOK', PublishFocus \/ TsfWindowElapses \/ Broker
  PROVE  GuardInvariant'
<1> TypeOK /\ BatchesLapsed
  BY DEF GuardInvariant
<1>1. ASSUME UNCHANGED <<typedIn, inbox, coordVars, byKeys>>,
             Lapse(focusId', tsfActiveFocus', tsfActiveRecently')
      PROVE  GuardInvariant'
  <2>1. lapsed \subseteq lapsed'
    BY <1>1 DEF Lapse
  <2>2. BatchesLapsed'
    BY <1>1, <2>1, BatchesKept
  <2>3. byKeys' \subseteq lapsed'
    BY <1>1, <2>1 DEF GuardInvariant, GuardedWordsAreLeftToTsf
  <2>4. \A n \in Undecided : n \in lapsed'
          \/ Guards(focusId, tsfActiveFocus, tsfActiveRecently, typedIn[n])'
    BY <1>1 DEF Lapse, Guards
  <2> QED
    BY <1>1, <2>1, <2>2, <2>3, <2>4, GuardKept
<1>2. ASSUME UNCHANGED <<typedIn, inbox, focusId, tsfActiveFocus, coordVars, byKeys, lapsed>>,
             tsfActiveRecently' \/ UNCHANGED tsfActiveRecently
      PROVE  GuardInvariant'
  <2>1. BatchesLapsed'
    BY <1>2, BatchesKept
  <2> QED
    BY <1>2, <2>1, GuardKept
    DEF GuardInvariant, GuardStands, GuardedWordsAreLeftToTsf, Guards
<1>3. CASE PublishFocus
  BY <1>1, <1>3 DEF PublishFocus, userVars, hostVars, noteVars
<1>4. CASE TsfWindowElapses
  BY <1>1, <1>4 DEF TsfWindowElapses, userVars, hostVars
<1>5. CASE NoteTsfFocus
  BY <1>1, <1>5 DEF NoteTsfFocus, userVars, hostVars
<1>6. CASE NoteTsfTime
  BY <1>2, <1>6 DEF NoteTsfTime, userVars, hostVars, ghostVars
<1>7. CASE ReadSwitch
  BY <1>2, <1>7 DEF ReadSwitch, userVars, hostVars, noteVars, ghostVars
<1>8. ASSUME NEW w \in AdapterWindows, Accept(w)
      PROVE  GuardInvariant'
  BY <1>2, <1>8 DEF Accept, userVars, hostVars, noteVars, ghostVars
<1>9. CASE Answer
  BY <1>2, <1>9 DEF Answer, userVars, noteVars
<1> QED
  BY <1>3, <1>4, <1>5, <1>6, <1>7, <1>8, <1>9 DEF Broker

\* The coordinator: what it does not defer has lapsed.
LEMMA CoordinatorGuardStep ==
  ASSUME GuardInvariant, TypeOK', Coordinator
  PROVE  GuardInvariant'
<1> TypeOK /\ BatchesLapsed
  BY DEF GuardInvariant
<1>1. /\ UNCHANGED <<typedIn, focusId, tsfActiveFocus, tsfActiveRecently, byKeys, lapsed>>
  BY DEF Coordinator, TakeWord, DeferReadFocus, DeferReadTime, Commit,
         CommitUnchanged, userVars, noteVars, ghostVars
<1>2. ASSUME Undecided' \subseteq Undecided, DeferredOtherwise', BatchesLapsed',
             pc' = "gate" => commit'.word.word \in 1 .. Len(typedIn),
             pc' \in {"defer", "deferTime"} => commit'.word.word \in lapsed
               \/ commit'.focus = typedIn[commit'.word.word]
      PROVE  GuardInvariant'
  <2>1. WordsKnown'
    BY <1>1, <1>2 DEF GuardInvariant, WordsKnown
  <2>2. GuardStands'
    BY <1>1, <1>2 DEF GuardInvariant, GuardStands, Guards
  <2> QED
    BY <1>1, <1>2, <2>1, <2>2 DEF GuardInvariant, GuardedWordsAreLeftToTsf
<1>3. ASSUME NEW n \in Undecided
      PROVE  /\ n \in 1 .. Len(typedIn) /\ typedIn[n] \in Windows
             /\ n \in lapsed \/ Guards(focusId, tsfActiveFocus, tsfActiveRecently, typedIn[n])
  <2>1. n \in 1 .. Len(typedIn)
    BY <1>3 DEF GuardInvariant, WordsKnown
  <2>2. typedIn[n] \in Windows
    BY <2>1, ElementOfSeq DEF TypeOK, UserTypeOK
  <2> QED
    BY <1>3, <2>1, <2>2 DEF GuardInvariant, GuardStands
<1>4. pc \in {"defer", "deferTime"} =>
        /\ commit.word.word \in Undecided
        /\ commit.word.word \in lapsed \/ commit.focus = typedIn[commit.word.word]
  BY DEF Undecided, GuardInvariant, GuardStands
<1>5. CASE TakeWord
  <2>1. /\ events \in Seq(Word) /\ events # <<>> /\ pc = "recv"
        /\ pc' = "defer" /\ events' = Tail(events) /\ inbox' = inbox
        /\ commit' = [focus |-> focusId, word |-> Head(events)]
    BY <1>5 DEF TakeWord, TypeOK, CoordTypeOK, hostVars
  <2>2. /\ Len(events) \in Nat \ {0} /\ Head(events) = events[1]
        /\ Len(Tail(events)) = Len(events) - 1
        /\ \A i \in 1 .. Len(Tail(events)) : Tail(events)[i] = events[i + 1]
    BY <2>1, HeadTailProperties, EmptySeq, LenProperties
  <2>3. commit'.word.word \in Undecided
    BY <2>1, <2>2 DEF Undecided
  <2>4. Undecided' \subseteq Undecided
    <3>1. \A i \in 1 .. Len(events') : events'[i].word \in Undecided
      BY <2>1, <2>2 DEF Undecided
    <3> QED
      BY <2>1, <2>3, <3>1 DEF Undecided
  <2>5. commit'.word.word \in lapsed \/ commit'.focus = typedIn[commit'.word.word]
    BY <1>3, <2>1, <2>3 DEF Guards
  <2>6. DeferredOtherwise' /\ BatchesLapsed'
    BY <1>1, <2>1 DEF DeferredOtherwise, BatchesLapsed
  <2> QED
    BY <1>2, <2>1, <2>4, <2>5, <2>6
<1>6. ASSUME pc \in {"defer", "deferTime"}, events' = events,
             \/ pc' = "recv"
             \/ pc' = "deferTime" /\ commit' = commit
             \/ pc' = "gate" /\ commit' = commit /\ commit.word.word \in lapsed,
             inbox' = inbox
      PROVE  GuardInvariant'
  <2>1. Undecided' \subseteq Undecided
    BY <1>6 DEF Undecided
  <2>2. DeferredOtherwise' /\ BatchesLapsed'
    BY <1>1, <1>6 DEF DeferredOtherwise, BatchesLapsed
  <2> QED
    BY <1>2, <1>3, <1>4, <1>6, <2>1, <2>2
<1>7. CASE DeferReadFocus
  <2>1. ~Noted(commit.focus) => commit.word.word \in lapsed
    BY <1>3, <1>4, <1>7, TsfPathAssumption DEF DeferReadFocus, Noted, Guards
  <2> QED
    BY <1>6, <1>7, <2>1 DEF DeferReadFocus, hostVars
<1>8. CASE DeferReadTime
  <2>1. ~tsfActiveRecently => commit.word.word \in lapsed
    BY <1>3, <1>4, <1>8 DEF DeferReadTime, Guards
  <2> QED
    BY <1>6, <1>8, <2>1 DEF DeferReadTime, Cancel, hostVars
<1>9. CASE Commit
  <2>1. Undecided' \subseteq Undecided
    BY <1>9 DEF Commit, Cancel, Undecided
  <2>2. DeferredOtherwise' /\ pc' = "recv"
    BY <1>9 DEF Commit, Cancel, DeferredOtherwise
  <2>3. BatchesLapsed'
    <3>1. CASE UNCHANGED hostVars
      BY <1>1, <3>1, BatchesKept DEF hostVars
    <3>2. CASE ~UNCHANGED hostVars
      <4> DEFINE corrected == [commit.word EXCEPT !.spelling = Corrections[@]]
      <4>1. /\ commit.word.spelling \in DOMAIN Corrections
            /\ inbox' = [inbox EXCEPT ![foreground] = Append(@, Input("batch", corrected))]
            /\ commit.word.word \in lapsed
        BY <1>9, <3>2 DEF Commit, GuardInvariant, DeferredOtherwise
      <4>2. corrected \in Word /\ corrected.word = commit.word.word
        BY <4>1, TsfPathAssumption DEF TypeOK, CoordTypeOK, Word
      <4> HIDE DEF corrected
      <4>3. Input("batch", corrected) \in Inputs
            /\ Input("batch", corrected).word.word \in lapsed'
        BY <1>1, <4>1, <4>2 DEF Input, Inputs
      <4>4. foreground \in Windows
        BY DEF TypeOK, UserTypeOK
      <4> QED
        BY <1>1, <4>1, <4>3, <4>4, InputJoins
    <3> QED
      BY <3>1, <3>2
  <2> QED
    BY <1>2, <2>1, <2>2, <2>3
<1> QED
  BY <1>5, <1>7, <1>8, <1>9 DEF Coordinator

LEMMA GuardStep ==
  ASSUME GuardInvariant, [Next]_vars
  PROVE  GuardInvariant'
<1>1. TypeOK'
  BY TypeStep DEF GuardInvariant
<1>2. CASE UNCHANGED vars
  <2>1. BatchesLapsed'
    BY <1>2, BatchesKept DEF GuardInvariant, vars, hostVars, ghostVars
  <2> QED
    BY <1>1, <1>2, <2>1, GuardKept
    DEF GuardInvariant, GuardStands, GuardedWordsAreLeftToTsf, Guards,
        vars, userVars, noteVars, ghostVars
<1> QED
  BY <1>1, <1>2, UserGuardStep, HostGuardStep, BrokerGuardStep, CoordinatorGuardStep
  DEF Next

\* coordinator.rs, the coordination of the paths: the keystroke path never corrects a
\* word whose window was the published and the noted one from the boundary to the
\* decision, in whatever order the halves of the note and of the test come.
THEOREM GuardedCorrect == Spec => []GuardedWordsAreLeftToTsf
<1>1. GuardInvariant => GuardedWordsAreLeftToTsf
  BY DEF GuardInvariant
<1> QED
  BY <1>1, InitGuard, GuardStep, PTL DEF Spec

-----------------------------------------------------------------------------
(* The switches: at most one stale answer.                                 *)

LEMMA InitStale == Init => StaleInvariant
BY InitTypeOK DEF Init, StaleInvariant, StaleAnswerIsLast, AtMostOneStaleAnswer

\* Neither the switches nor the broker move.
LEMMA StaleKept ==
  ASSUME StaleInvariant, TypeOK', UNCHANGED <<switchVars, staleAnswers, switchReads, active>>,
         brokerPc' = brokerPc \/ {brokerPc, brokerPc'} \cap {"switches"} = {}
  PROVE  StaleInvariant'
BY DEF StaleInvariant, StaleAnswerIsLast, AtMostOneStaleAnswer, Active, switchVars

LEMMA StaleStep ==
  ASSUME StaleInvariant, [Next]_vars
  PROVE  StaleInvariant'
<1> TypeOK /\ StaleAnswerIsLast /\ AtMostOneStaleAnswer /\ TypeOK'
  BY TypeStep DEF StaleInvariant
<1>1. CASE UNCHANGED vars
  BY <1>1, StaleKept DEF vars, brokerVars, ghostVars
<1>2. CASE User
  <2>1. CASE Toggle
    BY <2>1 DEF Toggle, StaleInvariant, StaleAnswerIsLast, AtMostOneStaleAnswer, brokerVars
  <2>2. CASE ~Toggle
    BY <1>2, <2>2, StaleKept DEF User, TypeWord, MoveTo, brokerVars, ghostVars
  <2> QED
    BY <2>1, <2>2
<1>3. CASE PublishFocus \/ TsfWindowElapses
  BY <1>3, StaleKept DEF PublishFocus, TsfWindowElapses, brokerVars
<1>4. ASSUME NEW w \in Windows, Host(w)
      PROVE  StaleInvariant'
  BY <1>4, StaleKept DEF Host, HandleInput, RunSession, CallFails, brokerVars, ghostVars
<1>5. CASE Coordinator
  BY <1>5, StaleKept
  DEF Coordinator, TakeWord, DeferReadFocus, DeferReadTime, Commit, CommitUnchanged,
      brokerVars, ghostVars
<1>6. CASE ReadSwitch
  <2>1. /\ brokerPc = "switches" /\ switchReads \in 0 .. 2
        /\ UNCHANGED <<switchVars, staleAnswers>>
    BY <1>6 DEF ReadSwitch, TypeOK, BrokerTypeOK, ghostVars
  <2>2. /\ Len(SwitchesRead) = 3 /\ SwitchesRead[1] = enabled
        /\ SwitchesRead[2] = ~paused /\ SwitchesRead[3] = tsfEnabled
    BY DEF SwitchesRead
  <2>3. CASE ~SwitchesRead[switchReads + 1]
    <3>1. active' = FALSE /\ switchReads' = 0
      BY <1>6, <2>3, Zenon DEF ReadSwitch
    <3> QED
      BY <2>1, <3>1
      DEF StaleInvariant, StaleAnswerIsLast, AtMostOneStaleAnswer, Active, switchVars
  <2>4. CASE SwitchesRead[switchReads + 1] /\ switchReads + 1 < 3
    <3>1. switchReads' = switchReads + 1 /\ brokerPc' = brokerPc
      BY <1>6, <2>2, <2>4, Zenon DEF ReadSwitch
    <3>2. CASE switchReads = 0
      <4>1. enabled
        BY <2>2, <2>4, <3>2
      <4> QED
        BY <2>1, <3>1, <3>2, <4>1
        DEF StaleInvariant, StaleAnswerIsLast, AtMostOneStaleAnswer, Active, switchVars
    <3>3. CASE switchReads = 1
      <4>1. ~paused
        <5>1. switchReads + 1 = 2
          BY <3>3
        <5> QED
          BY <2>2, <2>4, <5>1, Zenon
      <4> QED
        BY <2>1, <3>1, <3>3, <4>1
        DEF StaleInvariant, StaleAnswerIsLast, AtMostOneStaleAnswer, Active, switchVars
    <3> QED
      BY <2>1, <2>4, <3>2, <3>3
  <2>5. CASE SwitchesRead[switchReads + 1] /\ ~(switchReads + 1 < 3)
    <3>1. switchReads' = 0
      BY <1>6, <2>2, <2>5, Zenon DEF ReadSwitch
    <3>2. switchReads = 2 /\ tsfEnabled
      BY <2>1, <2>2, <2>5
    <3>3. ~(staleAnswers > 0)
      BY <3>2 DEF StaleAnswerIsLast, Active
    <3> QED
      BY <2>1, <3>1, <3>3 DEF StaleInvariant, StaleAnswerIsLast, AtMostOneStaleAnswer
  <2> QED
    BY <2>3, <2>4, <2>5
<1>7. ASSUME NEW w \in AdapterWindows, Accept(w)
      PROVE  StaleInvariant'
  BY <1>7, StaleKept DEF Accept, ghostVars
<1>8. CASE NoteTsfFocus \/ NoteTsfTime
  BY <1>8, StaleKept DEF NoteTsfFocus, NoteTsfTime, ghostVars
<1>9. CASE Answer
  <2>1. /\ brokerPc = "answer" /\ switchReads = 0 /\ switchReads' = 0
        /\ brokerPc' = "switches" /\ UNCHANGED switchVars /\ staleAnswers \in Nat
    BY <1>9 DEF Answer, StaleAnswerIsLast, TypeOK, GhostTypeOK
  <2>2. CASE staleAnswers' = staleAnswers
    BY <2>1, <2>2
    DEF StaleInvariant, StaleAnswerIsLast, AtMostOneStaleAnswer, Active, switchVars
  <2>3. CASE staleAnswers' # staleAnswers
    <3>1. active /\ ~Active /\ staleAnswers' = staleAnswers + 1
      BY <1>9, <2>3 DEF Answer, Replaces
    <3>2. staleAnswers = 0
      BY <2>1, <3>1 DEF StaleAnswerIsLast
    <3> QED
      BY <2>1, <3>1, <3>2
      DEF StaleInvariant, StaleAnswerIsLast, AtMostOneStaleAnswer, Active, switchVars
  <2> QED
    BY <2>2, <2>3
<1> QED
  BY <1>1, <1>2, <1>3, <1>4, <1>5, <1>6, <1>7, <1>8, <1>9 DEF Next, Broker

\* tsf_broker.rs: the switches are read per connection; once they are off, at most
\* one client gets a correction before they change again.
THEOREM StaleAnswerCorrect == Spec => []AtMostOneStaleAnswer
<1>1. StaleInvariant => AtMostOneStaleAnswer
  BY DEF StaleInvariant
<1> QED
  BY <1>1, InitStale, StaleStep, PTL DEF Spec

=============================================================================
