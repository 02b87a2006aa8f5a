------------------------------- MODULE TsfPath -------------------------------
(***************************************************************************)
(* The second path to a correction and how it shares the words with the    *)
(* first: the TSF adapter inside the applications, the pipe, the broker    *)
(* thread that serves it, and the coordinator's deferral.                  *)
(*                                                                         *)
(* The user types whole words.  What the coordinator does with a word is   *)
(* reduced to the steps that matter to the other path: the deferral, read  *)
(* by read, and a commit; Autocorrect has the rest of it in detail.        *)
(***************************************************************************)
EXTENDS Integers, Sequences

CONSTANTS
  Windows,
  NoWindow,         \* focus id 0: nothing published yet
  AdapterWindows,   \* windows of applications in which the adapter is active
  Spellings,        \* words, typed or proposed
  Corrections,      \* what engine::decide makes of the words it corrects
  SuggestOnly,      \* config.mode: detect, never replace
  Budget            \* how many words, moves between windows, toggles

ASSUME TsfPathAssumption ==
  /\ NoWindow \notin Windows
  /\ AdapterWindows \subseteq Windows
  /\ DOMAIN Corrections \subseteq Spellings
  /\ Corrections \in [DOMAIN Corrections -> Spellings]
  /\ Spellings # {}
  /\ SuggestOnly \in BOOLEAN
  /\ Budget \in [{"word", "move", "toggle"} -> Nat]

VARIABLES
  \* the user
  foreground,      \* the window that receives input
  typedIn,         \* the window of each word typed so far
  spent,           \* how much of Budget is used
  \* the applications: the UI thread of each window
  inbox,           \* input not yet handled: focus changes, words, batches
  doc,             \* the last word of the document
  hostPc,          \* in its message loop, or blocked in a call to the broker
  request,         \* the request of that call
  sessions,        \* edit sessions requested and not yet run
  \* SharedState
  focusId, enabled, paused, tsfEnabled, tsfActiveFocus, tsfActiveRecently,
  \* the broker thread and its pipe
  brokerPc, switchReads, active, client, brokerFocus,
  \* the coordinator thread
  events, pc, commit,
  \* history variables, read by properties only
  byKeys, byTsf,   \* the words corrected on either path
  lapsed,          \* words for which the note lapsed before they were decided on
  staleAnswers     \* corrections answered while switched off, since the last toggle

userVars   == <<foreground, typedIn, spent>>
hostVars   == <<inbox, doc, hostPc, request, sessions>>
switchVars == <<enabled, paused, tsfEnabled>>
noteVars   == <<tsfActiveFocus, tsfActiveRecently>>
brokerVars == <<brokerPc, switchReads, active, client, brokerFocus>>
coordVars  == <<events, pc, commit>>
ghostVars  == <<byKeys, byTsf, lapsed, staleAnswers>>
vars == <<userVars, hostVars, focusId, switchVars, noteVars, brokerVars, coordVars,
          ghostVars>>

Active == enabled /\ ~paused /\ tsfEnabled

Focus == Windows \cup {NoWindow}

\* A word and how it is spelled now; word 0 is no word.
Word == [word : Nat, spelling : Spellings]
NoSpelling == CHOOSE s \in Spellings : TRUE
NoWord == [word |-> 0, spelling |-> NoSpelling]

Input(kind, word) == [kind |-> kind, word |-> word]
NoCommit == [focus |-> NoWindow, word |-> NoWord]

\* The loop has published the window in front, as it does before capture opens;
\* the application in front is about to handle its focus.
Init ==
  /\ foreground \in Windows
  /\ typedIn = <<>>
  /\ spent = [b \in DOMAIN Budget |-> 0]
  /\ inbox = [w \in Windows |-> IF w = foreground THEN <<Input("focus", NoWord)>> ELSE <<>>]
  /\ doc = [w \in Windows |-> NoWord]
  /\ hostPc = [w \in Windows |-> "loop"]
  /\ request = [w \in Windows |-> Input("active", NoWord)]
  /\ sessions = [w \in Windows |-> <<>>]
  /\ focusId = foreground
  /\ enabled \in BOOLEAN /\ paused = FALSE /\ tsfEnabled \in BOOLEAN
  /\ tsfActiveFocus = NoWindow /\ tsfActiveRecently = FALSE
  /\ brokerPc \in {"switches", "absent"}   \* absent: PipeServer::bind failed
  /\ switchReads = 0 /\ active = FALSE
  /\ client = NoWindow /\ brokerFocus = NoWindow
  /\ events = <<>> /\ pc = "recv" /\ commit = NoCommit
  /\ byKeys = {} /\ byTsf = {}
  /\ lapsed = {}
  /\ staleAnswers = 0

Spend(what) ==
  /\ spent[what] < Budget[what]
  /\ spent' = [spent EXCEPT ![what] = @ + 1]

\* The words the coordinator has not decided on.
Undecided ==
  {events[i].word : i \in 1 .. Len(events)}
    \cup (IF pc \in {"defer", "deferTime"} THEN {commit.word.word} ELSE {})

\* The adapter's activity is noted for a window: it is published as the focus, and
\* the note is of it and recent.
Guards(published, noted, recently, w) == published = w /\ noted = w /\ recently

\* lapsed, when the focus or the note changes.
Lapse(published, noted, recently) ==
  lapsed' = lapsed \cup
    {n \in Undecided : ~Guards(published, noted, recently, typedIn[n])}

-----------------------------------------------------------------------------
(* The user: words, moves to another window, the switches of the tray.     *)

\* The hook queues the keys of the word, the application gets them.  (A word the
\* hook does not capture is one the coordinator may cancel.)
TypeWord(s) ==
  /\ Spend("word")
  /\ typedIn' = Append(typedIn, foreground)
  /\ LET word == [word |-> Len(typedIn) + 1, spelling |-> s]
     IN  /\ inbox' = [inbox EXCEPT ![foreground] = Append(@, Input("word", word))]
         /\ events' = Append(events, word)
         /\ lapsed' = IF Guards(focusId, tsfActiveFocus, tsfActiveRecently, foreground)
                      THEN lapsed ELSE lapsed \cup {word.word}
  /\ UNCHANGED <<foreground, doc, hostPc, request, sessions, focusId, switchVars,
                 noteVars, brokerVars, pc, commit, byKeys, byTsf, staleAnswers>>

MoveTo(w) ==
  /\ w # foreground
  /\ Spend("move")
  /\ foreground' = w
  /\ inbox' = [inbox EXCEPT ![w] = Append(@, Input("focus", NoWord))]
  /\ UNCHANGED <<typedIn, doc, hostPc, request, sessions, focusId, switchVars,
                 noteVars, brokerVars, coordVars, ghostVars>>

\* toggle_enabled, toggle_pause, toggle_tsf.
Toggle ==
  /\ Spend("toggle")
  /\ \/ enabled' = ~enabled /\ UNCHANGED <<paused, tsfEnabled>>
     \/ paused' = ~paused /\ UNCHANGED <<enabled, tsfEnabled>>
     \/ tsfEnabled' = ~tsfEnabled /\ UNCHANGED <<enabled, paused>>
  /\ staleAnswers' = 0
  /\ UNCHANGED <<foreground, typedIn, hostVars, focusId, noteVars, brokerVars,
                 coordVars, byKeys, byTsf, lapsed>>

-----------------------------------------------------------------------------
(* The focus thread, as far as this path sees it, and the clock.           *)

PublishFocus ==
  /\ focusId # foreground
  /\ focusId' = foreground
  /\ Lapse(foreground, tsfActiveFocus, tsfActiveRecently)
  /\ UNCHANGED <<userVars, hostVars, switchVars, noteVars, brokerVars, coordVars,
                 byKeys, byTsf, staleAnswers>>

\* TSF_DEFER_WINDOW_MS after the noted time.
TsfWindowElapses ==
  /\ tsfActiveRecently
  /\ tsfActiveRecently' = FALSE
  /\ Lapse(focusId, tsfActiveFocus, FALSE)
  /\ UNCHANGED <<userVars, hostVars, focusId, switchVars, tsfActiveFocus, brokerVars,
                 coordVars, byKeys, byTsf, staleAnswers>>

-----------------------------------------------------------------------------
(* The applications, with the adapter in some of them.                     *)

\* A call to the broker, on the UI thread of the window.
Call(w, kind, word) ==
  IF w \in AdapterWindows
  THEN /\ hostPc' = [hostPc EXCEPT ![w] = "calling"]
       /\ request' = [request EXCEPT ![w] = Input(kind, word)]
  ELSE UNCHANGED <<hostPc, request>>

\* OnSetFocus: advise the edit sink, send the beacon.
HandleFocus(w) ==
  /\ Head(inbox[w]).kind = "focus"
  /\ Call(w, "active", NoWord)
  /\ UNCHANGED <<doc, byKeys>>

\* The last key of a word: OnEndEdit finds it in front of the caret.
HandleWord(w) ==
  /\ Head(inbox[w]).kind = "word"
  /\ doc' = [doc EXCEPT ![w] = Head(inbox[w]).word]
  /\ Call(w, "evaluate", Head(inbox[w]).word)
  /\ UNCHANGED byKeys

\* A SendInput batch of the keystroke path: the word it was computed for is
\* erased and typed anew.  (Into any other text it is Autocorrect's concern.)
HandleBatch(w) ==
  /\ Head(inbox[w]).kind = "batch"
  /\ LET word == Head(inbox[w]).word
     IN  IF doc[w].word = word.word
         THEN /\ doc' = [doc EXCEPT ![w] = word]
              /\ byKeys' = byKeys \cup {word.word}
              /\ Call(w, "evaluate", word)
         ELSE UNCHANGED <<doc, byKeys, hostPc, request>>

HandleInput(w) ==
  /\ hostPc[w] = "loop" /\ inbox[w] # <<>>
  /\ HandleFocus(w) \/ HandleWord(w) \/ HandleBatch(w)
  /\ inbox' = [inbox EXCEPT ![w] = Tail(@)]
  /\ UNCHANGED <<userVars, sessions, focusId, switchVars, noteVars, brokerVars,
                 coordVars, byTsf, lapsed, staleAnswers>>

\* DoEditSession, once the lock is free: SetText on the range of the word, and
\* OnEndEdit for the text that is then in front of the caret.
RunSession(w) ==
  /\ hostPc[w] = "loop" /\ sessions[w] # <<>>
  /\ LET word == Head(sessions[w])
     IN  /\ doc' = IF doc[w].word = word.word THEN [doc EXCEPT ![w] = word] ELSE doc
         /\ byTsf' = byTsf \cup {word.word}
  /\ sessions' = [sessions EXCEPT ![w] = Tail(@)]
  /\ Call(w, "evaluate", doc'[w])
  /\ UNCHANGED <<userVars, inbox, focusId, switchVars, noteVars, brokerVars, coordVars,
                 byKeys, lapsed, staleAnswers>>

\* Fail open: there is no pipe, or TIMEOUT_MS passes while the broker does not wait
\* for a client.  A call that was accepted is answered, however long it takes.
CallFails(w) ==
  /\ hostPc[w] = "calling"
  /\ brokerPc # "accept" /\ client # w
  /\ hostPc' = [hostPc EXCEPT ![w] = "loop"]
  /\ UNCHANGED <<userVars, inbox, doc, request, sessions, focusId, switchVars, noteVars,
                 brokerVars, coordVars, ghostVars>>

-----------------------------------------------------------------------------
(* The broker thread: tsf_broker::serve.                                   *)

SwitchesRead == <<enabled, ~paused, tsfEnabled>>

\* A read of the switches that does not start over.
ReadSwitchOnAndOn ==
  /\ brokerPc = "switches"
  /\ active' = SwitchesRead[switchReads + 1]
  /\ switchReads' = switchReads + 1
  /\ brokerPc' = IF active' /\ switchReads' < Len(SwitchesRead) THEN "switches" ELSE "accept"
  /\ UNCHANGED <<userVars, hostVars, focusId, switchVars, noteVars, client,
                 brokerFocus, coordVars, ghostVars>>

\* The switches one by one, as far as they are on, before the next client.
ReadSwitch ==
  /\ brokerPc = "switches"
  /\ IF ~SwitchesRead[switchReads + 1]
     THEN active' = FALSE /\ switchReads' = 0 /\ brokerPc' = "accept"
     ELSE IF switchReads + 1 < Len(SwitchesRead)
          THEN switchReads' = switchReads + 1 /\ UNCHANGED <<active, brokerPc>>
          ELSE active' = TRUE /\ switchReads' = 0 /\ brokerPc' = "accept"
  /\ UNCHANGED <<userVars, hostVars, focusId, switchVars, noteVars, client,
                 brokerFocus, coordVars, ghostVars>>

\* A broker that serves nobody while switched off.
AcceptWhenActive(w) ==
  /\ brokerPc = "accept" /\ hostPc[w] = "calling" /\ active
  /\ client' = w
  /\ brokerFocus' = focusId
  /\ brokerPc' = "noteFocus"
  /\ UNCHANGED <<userVars, hostVars, focusId, switchVars, noteVars, switchReads, active,
                 coordVars, ghostVars>>

\* ConnectNamedPipe returns with a client; its handler reads the published focus.
Accept(w) ==
  /\ brokerPc = "accept" /\ hostPc[w] = "calling"
  /\ client' = w
  /\ brokerFocus' = focusId
  /\ brokerPc' = IF active THEN "noteFocus" ELSE "answer"
  /\ UNCHANGED <<userVars, hostVars, focusId, switchVars, noteVars, switchReads, active,
                 coordVars, ghostVars>>

NoteTsfFocus ==
  /\ brokerPc = "noteFocus"
  /\ tsfActiveFocus' = brokerFocus
  /\ brokerPc' = "noteTime"
  /\ Lapse(focusId, brokerFocus, tsfActiveRecently)
  /\ UNCHANGED <<userVars, hostVars, focusId, switchVars, tsfActiveRecently, switchReads,
                 active, client, brokerFocus, coordVars, byKeys, byTsf, staleAnswers>>

NoteTsfTime ==
  /\ brokerPc = "noteTime"
  /\ tsfActiveRecently' = TRUE
  /\ brokerPc' = "answer"
  /\ UNCHANGED <<userVars, hostVars, focusId, switchVars, tsfActiveFocus, switchReads,
                 active, client, brokerFocus, coordVars, ghostVars>>

\* An answer that forgets the switches.
ReplacesAnyway(r, on) ==
  r.kind = "evaluate" /\ ~SuggestOnly /\ r.word.spelling \in DOMAIN Corrections

\* The answer is Replace, for a request and switches as they were read.
Replaces(r, on) ==
  /\ r.kind = "evaluate"
  /\ on /\ ~SuggestOnly
  /\ r.word.spelling \in DOMAIN Corrections

\* The answer, and what the adapter makes of it in the same callback: the range is
\* verified under the lock of OnEndEdit, so it still holds the word; an edit
\* session is requested for it.
Answer ==
  /\ brokerPc = "answer"
  /\ LET r == request[client]
     IN  IF Replaces(r, active)
         THEN /\ sessions' = [sessions EXCEPT ![client] =
                   Append(@, [r.word EXCEPT !.spelling = Corrections[@]])]
              /\ staleAnswers' = IF Active THEN staleAnswers ELSE staleAnswers + 1
         ELSE UNCHANGED <<sessions, staleAnswers>>
  /\ hostPc' = [hostPc EXCEPT ![client] = "loop"]
  /\ client' = NoWindow
  /\ brokerPc' = "switches"
  /\ UNCHANGED <<userVars, inbox, doc, request, focusId, switchVars, noteVars,
                 switchReads, active, brokerFocus, coordVars, byKeys, byTsf, lapsed>>

Broker ==
  \/ ReadSwitch \/ (\E w \in AdapterWindows : Accept(w))
  \/ NoteTsfFocus \/ NoteTsfTime \/ Answer

-----------------------------------------------------------------------------
(* The coordinator: the deferral and the commit.                           *)

CommitUnchanged == <<userVars, focusId, switchVars, noteVars, brokerVars, ghostVars>>

\* process: the word belongs to the focus published by now.
TakeWord ==
  /\ pc = "recv" /\ events # <<>>
  /\ commit' = [focus |-> focusId, word |-> Head(events)]
  /\ events' = Tail(events)
  /\ pc' = "defer"
  /\ UNCHANGED <<CommitUnchanged, hostVars>>

Cancel == pc' = "recv" /\ commit' = NoCommit

\* A test that defers to the adapter of any other window.
NotedElsewhere(focus) == focus # NoWindow /\ tsfActiveFocus # focus

Noted(focus) == focus # NoWindow /\ tsfActiveFocus = focus

DeferReadFocus ==
  /\ pc = "defer"
  /\ pc' = IF Noted(commit.focus) THEN "deferTime" ELSE "gate"
  /\ UNCHANGED <<CommitUnchanged, hostVars, events, commit>>

DeferReadTime ==
  /\ pc = "deferTime"
  /\ IF tsfActiveRecently THEN Cancel ELSE pc' = "gate" /\ UNCHANGED commit
  /\ UNCHANGED <<CommitUnchanged, hostVars, events>>

\* The gate, the evaluation, the last check and the send; at any of them the
\* commit may be cancelled.
Commit ==
  /\ pc = "gate"
  /\ Cancel
  /\ \/ UNCHANGED hostVars
     \/ /\ enabled /\ ~paused /\ ~SuggestOnly
        /\ focusId = commit.focus
        /\ commit.word.word = Len(typedIn)
        /\ commit.word.spelling \in DOMAIN Corrections
        /\ inbox' = [inbox EXCEPT ![foreground] = Append(@,
             Input("batch", [commit.word EXCEPT !.spelling = Corrections[@]]))]
        /\ UNCHANGED <<doc, hostPc, request, sessions>>
  /\ UNCHANGED <<CommitUnchanged, events>>

Coordinator == TakeWord \/ DeferReadFocus \/ DeferReadTime \/ Commit

-----------------------------------------------------------------------------
User ==
  \/ \E s \in Spellings : TypeWord(s)
  \/ \E w \in Windows : MoveTo(w)
  \/ Toggle

Host(w) == HandleInput(w) \/ RunSession(w) \/ CallFails(w)

Next ==
  \/ User \/ PublishFocus \/ TsfWindowElapses \/ Broker \/ Coordinator
  \/ \E w \in Windows : Host(w)

Spec == Init /\ [][Next]_vars

\* Threads keep running: the broker, and the UI thread of each application, whose
\* calls end at the latest after TIMEOUT_MS.
FairSpec == Spec /\ WF_vars(Broker) /\ \A w \in Windows : WF_vars(Host(w))

-----------------------------------------------------------------------------
(* Properties.                                                             *)

Inputs == [kind : {"focus", "word", "batch"}, word : Word]

UserTypeOK ==
  /\ foreground \in Windows /\ typedIn \in Seq(Windows)
  /\ spent \in [DOMAIN Budget -> Nat]

HostTypeOK ==
  /\ inbox \in [Windows -> Seq(Inputs)] /\ sessions \in [Windows -> Seq(Word)]
  /\ doc \in [Windows -> Word]
  /\ hostPc \in [Windows -> {"loop", "calling"}]
  /\ request \in [Windows -> [kind : {"active", "evaluate"}, word : Word]]

SharedTypeOK ==
  /\ focusId \in Focus
  /\ enabled \in BOOLEAN /\ paused \in BOOLEAN /\ tsfEnabled \in BOOLEAN
  /\ tsfActiveFocus \in Focus /\ tsfActiveRecently \in BOOLEAN

BrokerTypeOK ==
  /\ brokerPc \in {"absent", "switches", "accept", "noteFocus", "noteTime", "answer"}
  /\ switchReads \in 0 .. 2 /\ active \in BOOLEAN
  /\ client \in Focus /\ brokerFocus \in Focus
  /\ brokerPc \in {"noteFocus", "noteTime", "answer"} => client \in Windows

CoordTypeOK ==
  /\ events \in Seq(Word)
  /\ pc \in {"recv", "defer", "deferTime", "gate"}
  /\ commit \in [focus : Focus, word : Word]

GhostTypeOK ==
  /\ byKeys \subseteq Nat /\ byTsf \subseteq Nat /\ lapsed \subseteq Nat
  /\ staleAnswers \in Nat

TypeOK ==
  /\ UserTypeOK /\ HostTypeOK /\ SharedTypeOK
  /\ BrokerTypeOK /\ CoordTypeOK /\ GhostTypeOK

\* Coordination of the paths, coordinator.rs: in the window the adapter handles the
\* keystroke path stands down.  It never corrects a word for which the adapter's
\* activity was noted, and the focus published, from its boundary until the
\* coordinator decided, however the two-part note and the two-part test interleave.
GuardedWordsAreLeftToTsf == byKeys \subseteq lapsed

\* tsf_broker.rs, "Re-read the kill switches per connection": while they stay as they
\* are, switching off lets at most one request be answered with a correction, the
\* one of the client that was waited for when they were read.
AtMostOneStaleAnswer == staleAnswers <= 1

\* Fail open: no application is blocked in a call forever, and the adapter comes to
\* rest, although its own edits are edits it is called back for.
HostsSettle ==
  <>[](\A w \in Windows : hostPc[w] = "loop" /\ inbox[w] = <<>> /\ sessions[w] = <<>>)

-----------------------------------------------------------------------------
(* The strengthening that makes the invariants inductive.                  *)

WordsKnown ==
  /\ Undecided \subseteq 1 .. Len(typedIn)
  /\ pc = "gate" => commit.word.word \in 1 .. Len(typedIn)

\* As long as a word may still be deferred, it has lapsed or its guard stands, and
\* the coordinator looks for the note of the window the word was typed in.
GuardStands ==
  /\ \A n \in Undecided :
       n \in lapsed \/ Guards(focusId, tsfActiveFocus, tsfActiveRecently, typedIn[n])
  /\ pc \in {"defer", "deferTime"} =>
       commit.word.word \in lapsed \/ commit.focus = typedIn[commit.word.word]

\* What is past the deferral has lapsed.
DeferredOtherwise == pc = "gate" => commit.word.word \in lapsed

BatchesLapsed ==
  \A w \in Windows : \A i \in 1 .. Len(inbox[w]) :
    inbox[w][i].kind = "batch" => inbox[w][i].word.word \in lapsed

GuardInvariant ==
  /\ TypeOK /\ WordsKnown /\ GuardStands /\ DeferredOtherwise /\ BatchesLapsed
  /\ GuardedWordsAreLeftToTsf

\* After a stale answer the switches are still off, and the broker has not read them
\* as on.
StaleAnswerIsLast ==
  /\ brokerPc # "switches" => switchReads = 0
  /\ staleAnswers > 0 =>
       /\ ~Active
       /\ brokerPc # "switches" => ~active
       /\ switchReads >= 1 => enabled
       /\ switchReads >= 2 => ~paused

StaleInvariant == TypeOK /\ StaleAnswerIsLast /\ AtMostOneStaleAnswer

-----------------------------------------------------------------------------
(* What the repository's documents state and the code does not do.         *)

\* codebase-guide.md: "Together this stops both paths from correcting the same word
\* (the beacon closes the first-word race the per-word deferral alone could not)."
NeverBothPaths == byKeys \cap byTsf = {}

=============================================================================
