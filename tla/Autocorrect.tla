----------------------------- MODULE Autocorrect -----------------------------
(***************************************************************************)
(* The correction loop of the resident broker (langcheck --background):    *)
(* the keyboard hook, the coordinator thread, the focus thread, the tray   *)
(* and the TSF broker's activity notes, around the shared atomics and the  *)
(* bounded event queue, with the user and the field she types into.        *)
(*                                                                         *)
(* Every load or store of a shared atomic is a step of its own; work on    *)
(* thread-private data is part of the step it follows.  The hook runs      *)
(* before its key reaches the field, and keys are serialised, so a key     *)
(* press is one step: the hook's part, then the application's.             *)
(***************************************************************************)
EXTENDS Typing

CONSTANTS
  Fields,           \* text fields the user works in
  Windows,          \* their top-level windows
  NoWindow,         \* focus id 0: nothing published yet
  WindowOf,         \* the window of a field, all that LangCheck identifies
  ProseFields,      \* classified as safe prose
  ExcludedWindows,  \* their process is on the default exclusion list
  QueueCapacity,    \* sync_channel(256)
  Pairs,            \* normalised (original, replacement) pairs the engine proposes
  NoPair,
  BlockedPairs,     \* blocked_pairs.tsv
  UserKeys,         \* the kinds of keys the user presses in this instance
  UserTasks,        \* what else happens in it, of Tasks
  Budget            \* how many keys and moves, toggles, contacts

\* What may happen in an instance besides keys: clicks, moves to another field,
\* the tray's commands, a field or process that cannot be read, a SendInput that
\* fails or inserts only a part, an undo window that expires, and a user who
\* presses a key while the loop still handles an earlier one.
Tasks == {"click", "switch", "enabled", "paused", "exit", "unreadable", "fail",
          "partial", "expire", "hurry"}

ASSUME AutocorrectAssumption ==
  /\ NoWindow \notin Windows
  /\ WindowOf \in [Fields -> Windows]
  /\ ProseFields \subseteq Fields
  /\ ExcludedWindows \subseteq Windows
  /\ QueueCapacity \in Nat \ {0}
  /\ NoPair \notin Pairs
  /\ BlockedPairs \subseteq Pairs
  /\ UserKeys \subseteq Translated
  /\ UserTasks \subseteq Tasks
  /\ Budget \in [{"act", "toggle", "contact"} -> Nat]

VARIABLES
  \* the user and the fields
  field,        \* the field that receives keys
  text,         \* per field, the characters known to precede the caret
  spent,        \* how much of Budget is used
  \* statics of the input observer
  captureAllowed, generation, queue, dropped, hooked,
  \* SharedState
  focusId, enabled, paused, shutdown, tsfActiveFocus, tsfActiveRecently,
  \* the coordinator thread
  pc, gateReads, session, undo, undoHistory, sessionBlocklist,
  current,      \* the event being processed
  correction,   \* the correction or undo in progress
  \* the focus thread, the main thread, the TSF broker thread
  focusPc, fieldSafe, mainPc, brokerPc, brokerFocus,
  \* history variables, read by properties only
  blindspot,    \* generation at the last thing the session could not know of
  undone,       \* per pair, how often a correction was undone
  applied,      \* per pair, how often a correction was applied
  lateCommits,  \* corrections applied while switched off, since the last toggle
  textBefore    \* the field in front as the last correction found it

userVars   == <<field, text, spent>>
hookVars   == <<captureAllowed, generation, queue, dropped, hooked>>
switchVars == <<enabled, paused, shutdown>>
tsfVars    == <<tsfActiveFocus, tsfActiveRecently, brokerPc, brokerFocus>>
coordVars  == <<pc, gateReads, session, undo, undoHistory, sessionBlocklist,
                current, correction>>
focusVars  == <<focusId, focusPc, fieldSafe>>
ghostVars  == <<blindspot, undone, applied, lateCommits, textBefore>>
vars == <<userVars, hookVars, switchVars, tsfVars, coordVars, focusVars,
          mainPc, ghostVars>>

Active == enabled /\ ~paused

NoEvent == [gen |-> 0, kind |-> "ignore"]

NoCorrection == [focus |-> NoWindow, gen |-> 0, word |-> <<>>, pair |-> NoPair]

Init ==
  /\ field \in Fields
  /\ text = [f \in Fields |-> <<>>]
  /\ spent = [b \in DOMAIN Budget |-> 0]
  /\ captureAllowed = FALSE
  /\ generation = 0
  /\ queue = <<>>
  /\ dropped = {}
  /\ hooked = TRUE
  /\ focusId = NoWindow
  /\ enabled \in BOOLEAN
  /\ paused = FALSE
  /\ shutdown = FALSE
  /\ tsfActiveFocus = NoWindow
  /\ tsfActiveRecently = FALSE
  /\ pc = "loop"
  /\ gateReads = 0
  /\ session = [focus |-> NoWindow, token |-> EmptyToken]
  /\ undo = NoCorrection
  /\ undoHistory = {}
  /\ sessionBlocklist = {}
  /\ current = NoEvent
  /\ correction = NoCorrection
  /\ focusPc = "loop"
  /\ fieldSafe = FALSE
  /\ mainPc = "tray"
  /\ brokerPc = "serve"
  /\ brokerFocus = NoWindow
  /\ blindspot = 0
  /\ undone = [p \in Pairs |-> 0]
  /\ applied = [p \in Pairs |-> 0]
  /\ lateCommits = 0
  /\ textBefore = <<>>

Spend(what) ==
  /\ spent[what] < Budget[what]
  /\ spent' = [spent EXCEPT ![what] = @ + 1]

-----------------------------------------------------------------------------
(* The user and the hook.                                                  *)

\* fetch_add returns the value before the addition: a stamp that forgets it.
PreviousStamp == generation

Stamp == generation + 1

\* The hook saw the key: stamp it, queue it, or drop it when the queue is full.
Capture(kind) ==
  /\ generation' = generation + 1
  /\ IF Len(queue) < QueueCapacity
     THEN /\ queue' = Append(queue, [gen |-> Stamp, kind |-> kind])
          /\ UNCHANGED <<dropped, blindspot>>
     ELSE /\ dropped' = dropped \cup {Stamp}
          /\ blindspot' = Stamp
          /\ UNCHANGED queue

\* keyboard_hook_proc, then the key reaches the foreground window.
PressKey(kind) ==
  /\ Spend("act")
  /\ "hurry" \in UserTasks \/ (queue = <<>> /\ pc \in {"loop", "recv"})
  /\ LET seen == hooked /\ captureAllowed
     IN  /\ IF seen
            THEN Capture(kind)
            ELSE /\ blindspot' = IF kind = "ignore" THEN blindspot ELSE generation
                 /\ UNCHANGED <<generation, queue, dropped>>
         /\ text' = [text EXCEPT ![field] =
                       Typed(@, kind, IF seen THEN Stamp ELSE Untracked)]
  /\ UNCHANGED <<field, captureAllowed, hooked, switchVars, tsfVars, coordVars,
                 focusVars, mainPc, undone, applied, lateCommits, textBefore>>

\* A click inside the field: the caret jumps, and no hook sees it.
ClickInField ==
  /\ "click" \in UserTasks
  /\ Spend("act")
  /\ text' = [text EXCEPT ![field] = <<>>]
  /\ blindspot' = generation
  /\ UNCHANGED <<field, hookVars, switchVars, tsfVars, coordVars, focusVars,
                 mainPc, undone, applied, lateCommits, textBefore>>

\* Another field, of the same window or of another.
FocusField(f) ==
  /\ "switch" \in UserTasks /\ f # field
  /\ Spend("act")
  /\ field' = f
  /\ blindspot' = generation
  /\ UNCHANGED <<text, hookVars, switchVars, tsfVars, coordVars, focusVars, mainPc,
                 undone, applied, lateCommits, textBefore>>

-----------------------------------------------------------------------------
(* The tray: BrokerTrayHandler.                                            *)

ToggleEnabled ==
  /\ mainPc = "tray" /\ "enabled" \in UserTasks
  /\ Spend("toggle")
  /\ enabled' = ~enabled
  /\ lateCommits' = 0
  /\ UNCHANGED <<field, text, hookVars, paused, shutdown, tsfVars, coordVars,
                 focusVars, mainPc, blindspot, undone, applied, textBefore>>

TogglePause ==
  /\ mainPc = "tray" /\ "paused" \in UserTasks
  /\ Spend("toggle")
  /\ paused' = ~paused
  /\ lateCommits' = 0
  /\ UNCHANGED <<field, text, hookVars, enabled, shutdown, tsfVars, coordVars,
                 focusVars, mainPc, blindspot, undone, applied, textBefore>>

\* request_exit, then the tail of run_background, one shared access at a time.
RequestExit ==
  /\ mainPc = "tray" /\ "exit" \in UserTasks
  /\ shutdown' = TRUE
  /\ mainPc' = "disallow"
  /\ UNCHANGED <<userVars, hookVars, enabled, paused, tsfVars, coordVars, focusVars,
                 ghostVars>>

DisallowCapture ==
  /\ mainPc = "disallow"
  /\ captureAllowed' = FALSE
  /\ mainPc' = "unhook"
  /\ UNCHANGED <<userVars, generation, queue, dropped, hooked, switchVars, tsfVars,
                 coordVars, focusVars, ghostVars>>

\* observer.stop() joins the hook thread: no callback runs after it.
StopObserver ==
  /\ mainPc = "unhook"
  /\ hooked' = FALSE
  /\ mainPc' = "join"
  /\ UNCHANGED <<userVars, captureAllowed, generation, queue, dropped, switchVars,
                 tsfVars, coordVars, focusVars, ghostVars>>

JoinThreads ==
  /\ mainPc = "join"
  /\ pc = "stopped" /\ focusPc = "stopped"
  /\ mainPc' = "exited"
  /\ UNCHANGED <<userVars, hookVars, switchVars, tsfVars, coordVars, focusVars,
                 ghostVars>>

-----------------------------------------------------------------------------
(* The TSF broker thread, as far as the loop sees it: a contact of the     *)
(* adapter makes it note the published focus, then the time.               *)

BrokerContact ==
  /\ brokerPc = "serve"
  /\ Spend("contact")
  /\ brokerFocus' = focusId
  /\ brokerPc' = "noteFocus"
  /\ UNCHANGED <<field, text, hookVars, switchVars, tsfActiveFocus,
                 tsfActiveRecently, coordVars, focusVars, mainPc, ghostVars>>

NoteTsfFocus ==
  /\ brokerPc = "noteFocus"
  /\ tsfActiveFocus' = brokerFocus
  /\ brokerPc' = "noteTime"
  /\ UNCHANGED <<userVars, hookVars, switchVars, tsfActiveRecently, brokerFocus,
                 coordVars, focusVars, mainPc, ghostVars>>

NoteTsfTime ==
  /\ brokerPc = "noteTime"
  /\ tsfActiveRecently' = TRUE
  /\ brokerPc' = "serve"
  /\ UNCHANGED <<userVars, hookVars, switchVars, tsfActiveFocus, brokerFocus,
                 coordVars, focusVars, mainPc, ghostVars>>

\* TSF_DEFER_WINDOW_MS after the noted time.
TsfWindowElapses ==
  /\ tsfActiveRecently
  /\ tsfActiveRecently' = FALSE
  /\ UNCHANGED <<userVars, hookVars, switchVars, tsfActiveFocus, brokerPc,
                 brokerFocus, coordVars, focusVars, mainPc, ghostVars>>

-----------------------------------------------------------------------------
(* The focus thread: classify, publish the window, ask the policy, read    *)
(* the kill switch, gate capture.  The focused field may change in between. *)

FocusCheckShutdown ==
  /\ focusPc = "loop"
  /\ focusPc' = IF shutdown THEN "stopped" ELSE "classify"
  /\ UNCHANGED <<userVars, hookVars, switchVars, tsfVars, coordVars, focusId,
                 fieldSafe, mainPc, ghostVars>>

\* A focus thread that wakes up only when the window changed.
ClassifyOnChange ==
  /\ focusPc = "classify"
  /\ WindowOf[field] # focusId
  /\ fieldSafe' = (field \in ProseFields)
  /\ focusPc' = "publish"
  /\ UNCHANGED <<userVars, hookVars, switchVars, tsfVars, coordVars, focusId,
                 mainPc, ghostVars>>

\* A field that cannot be read is not safe.
ClassifyFocused ==
  /\ focusPc = "classify"
  /\ \/ fieldSafe' = (field \in ProseFields)
     \/ "unreadable" \in UserTasks /\ fieldSafe' = FALSE
  /\ focusPc' = "publish"
  /\ UNCHANGED <<userVars, hookVars, switchVars, tsfVars, coordVars, focusId,
                 mainPc, ghostVars>>

PublishFocus ==
  /\ focusPc = "publish"
  /\ focusId' = WindowOf[field]
  /\ focusPc' = "policy"
  /\ UNCHANGED <<userVars, hookVars, switchVars, tsfVars, coordVars, fieldSafe,
                 mainPc, ghostVars>>

\* An unknown process counts as excluded.
CheckPolicy ==
  /\ focusPc = "policy"
  /\ \/ fieldSafe' = (fieldSafe /\ WindowOf[field] \notin ExcludedWindows)
     \/ "unreadable" \in UserTasks /\ fieldSafe' = FALSE
  /\ focusPc' = "enabled"
  /\ UNCHANGED <<userVars, hookVars, switchVars, tsfVars, coordVars, focusId,
                 mainPc, ghostVars>>

FocusReadEnabled ==
  /\ focusPc = "enabled"
  /\ fieldSafe' = (fieldSafe /\ enabled)
  /\ focusPc' = "paused"
  /\ UNCHANGED <<userVars, hookVars, switchVars, tsfVars, coordVars, focusId,
                 mainPc, ghostVars>>

FocusReadPaused ==
  /\ focusPc = "paused"
  /\ fieldSafe' = (fieldSafe /\ ~paused)
  /\ focusPc' = "gate"
  /\ UNCHANGED <<userVars, hookVars, switchVars, tsfVars, coordVars, focusId,
                 mainPc, ghostVars>>

\* A gate that can only close.
CloseCapture ==
  /\ focusPc = "gate"
  /\ captureAllowed' = (captureAllowed /\ fieldSafe)
  /\ focusPc' = "loop"
  /\ UNCHANGED <<userVars, generation, queue, dropped, hooked, switchVars, tsfVars,
                 coordVars, focusId, fieldSafe, mainPc, ghostVars>>

GateCapture ==
  /\ focusPc = "gate"
  /\ captureAllowed' = fieldSafe
  /\ focusPc' = "loop"
  /\ UNCHANGED <<userVars, generation, queue, dropped, hooked, switchVars, tsfVars,
                 coordVars, focusId, fieldSafe, mainPc, ghostVars>>

FocusThread ==
  \/ FocusCheckShutdown \/ ClassifyFocused \/ PublishFocus \/ CheckPolicy
  \/ FocusReadEnabled \/ FocusReadPaused \/ GateCapture

-----------------------------------------------------------------------------
(* The coordinator thread: Coordinator::run, process, perform_undo and     *)
(* try_commit.                                                             *)

\* A loop that takes the kill switch for the end.
CheckShutdownOrDisabled ==
  /\ pc = "loop"
  /\ pc' = IF shutdown \/ ~enabled THEN "stopped" ELSE "recv"
  /\ UNCHANGED <<userVars, hookVars, switchVars, tsfVars, gateReads, session, undo,
                 undoHistory, sessionBlocklist, current, correction, focusVars,
                 mainPc, ghostVars>>

CheckShutdown ==
  /\ pc = "loop"
  /\ pc' = IF shutdown THEN "stopped" ELSE "recv"
  /\ UNCHANGED <<userVars, hookVars, switchVars, tsfVars, gateReads, session, undo,
                 undoHistory, sessionBlocklist, current, correction, focusVars,
                 mainPc, ghostVars>>

\* A receive without a timeout.
RecvForever ==
  /\ pc = "recv" /\ queue # <<>>
  /\ UNCHANGED vars

RecvTimeout ==
  /\ pc = "recv" /\ queue = <<>>
  /\ pc' = "loop"
  /\ UNCHANGED <<userVars, hookVars, switchVars, tsfVars, gateReads, session, undo,
                 undoHistory, sessionBlocklist, current, correction, focusVars,
                 mainPc, ghostVars>>

\* A changed window restarts the session and forgets the undo.
Reconciled ==
  IF focusId # session.focus
  THEN [focus |-> focusId, token |-> EmptyToken]
  ELSE session

\* A reconciliation that keeps the undo of the previous window.
KeptUndo == undo

PendingUndo == IF focusId # session.focus THEN NoCorrection ELSE undo

Receive ==
  /\ pc = "recv" /\ queue # <<>>
  /\ queue' = Tail(queue)
  /\ current' = Head(queue)
  /\ pc' = "process"
  /\ UNCHANGED <<userVars, captureAllowed, generation, dropped, hooked, switchVars,
                 tsfVars, gateReads, session, undo, undoHistory, sessionBlocklist,
                 correction, focusVars, mainPc, ghostVars>>

\* What process leaves alone, whatever the event.
ProcessUnchanged == <<userVars, hookVars, switchVars, tsfVars, gateReads, undoHistory,
                      sessionBlocklist, current, focusVars, mainPc, ghostVars>>

ProcessIgnored ==
  /\ pc = "process" /\ current.kind = "ignore"
  /\ session' = Reconciled
  /\ undo' = PendingUndo
  /\ pc' = "loop"
  /\ UNCHANGED <<ProcessUnchanged, correction>>

\* A Backspace within the undo window takes the pending correction: the
\* session never sees the key.
ProcessUndo ==
  /\ pc = "process" /\ current.kind = "backspace"
  /\ PendingUndo # NoCorrection
  /\ PendingUndo.focus = focusId
  /\ session' = Reconciled
  /\ undo' = NoCorrection
  /\ correction' = PendingUndo
  /\ pc' = "undo"
  /\ UNCHANGED ProcessUnchanged

\* Any other key, or an expired undo window, ends the chance to undo; the
\* session handles the key, and a completed word goes to try_commit.
ProcessKey ==
  /\ pc = "process" /\ current.kind # "ignore"
  /\ \/ current.kind # "backspace"
     \/ PendingUndo = NoCorrection
     \/ PendingUndo.focus # focusId
     \/ "expire" \in UserTasks
  /\ session' = [Reconciled EXCEPT !.token = TokenAfter(@, current.kind, current.gen)]
  /\ undo' = NoCorrection
  /\ IF Completes(Reconciled.token, current.kind) /\ Eligible(Reconciled.token)
     THEN /\ pc' = "defer"
          /\ correction' = [focus |-> Reconciled.focus, gen |-> current.gen,
                            word |-> Reconciled.token.chars, pair |-> NoPair]
     ELSE /\ pc' = "loop"
          /\ UNCHANGED correction
  /\ UNCHANGED ProcessUnchanged

\* SendInput into whatever window is in front: all of the batch, a prefix of
\* it, or nothing (no target, a target of higher integrity, a refused batch).
\* Keys already typed past the batch's place make later text unknowable.
SendBatch(batch, sent) ==
  /\ sent = BatchLen(batch) \/ "partial" \in UserTasks
  /\ text' = [text EXCEPT ![field] = Injected(@, batch, sent)]
  /\ blindspot' = IF generation = current.gen THEN blindspot ELSE generation

SendNothing == "fail" \in UserTasks /\ UNCHANGED <<text, blindspot>>

\* The first rejection of a pair only restores the word; a repeated one
\* suppresses the pair.
Escalated(pair) ==
  IF pair \in undoHistory THEN sessionBlocklist \cup {pair} ELSE sessionBlocklist

\* perform_undo when the batch went out.
UndoSent ==
  /\ pc = "undo"
  /\ LET batch == BuildUndoKeyActions(correction.word, correction.gen)
         pair  == correction.pair
     IN  /\ SendBatch(batch, BatchLen(batch))
         /\ undoHistory' = undoHistory \cup {pair}
         /\ sessionBlocklist' = Escalated(pair)
         /\ undone' = [undone EXCEPT ![pair] = @ + 1]
  /\ pc' = "loop"
  /\ correction' = NoCorrection
  /\ UNCHANGED <<field, spent, hookVars, switchVars, tsfVars, gateReads, session,
                 undo, current, focusVars, mainPc, applied, lateCommits, textBefore>>

UndoFailed ==
  /\ pc = "undo"
  /\ LET batch == BuildUndoKeyActions(correction.word, correction.gen)
     IN  \/ SendNothing
         \/ \E sent \in 1 .. BatchLen(batch) - 1 : SendBatch(batch, sent)
  /\ pc' = "loop"
  /\ correction' = NoCorrection
  /\ UNCHANGED <<field, spent, hookVars, switchVars, tsfVars, gateReads, session,
                 undo, undoHistory, sessionBlocklist, current, focusVars, mainPc,
                 undone, applied, lateCommits, textBefore>>

\* Leave the commit at some point with nothing changed but a metric.
Cancel == pc' = "loop" /\ correction' = NoCorrection /\ gateReads' = 0

CommitUnchanged == <<userVars, hookVars, switchVars, tsfVars, session, undo, undoHistory,
                     sessionBlocklist, current, focusVars, mainPc, ghostVars>>

\* SharedState::tsf_handling: the noted window, then the noted time.
DeferReadFocus ==
  /\ pc = "defer"
  /\ pc' = IF correction.focus # NoWindow /\ tsfActiveFocus = correction.focus
           THEN "deferTime" ELSE "gate"
  /\ UNCHANGED <<CommitUnchanged, gateReads, correction>>

DeferReadTime ==
  /\ pc = "deferTime"
  /\ IF tsfActiveRecently
     THEN Cancel
     ELSE pc' = "gate" /\ UNCHANGED <<gateReads, correction>>
  /\ UNCHANGED CommitUnchanged

\* CommitContext, in the order its fields are read; commit_gate cancels when
\* any of them is false.  Before it, a gate that skips the pause switch.
GateInputsWithoutPause ==
  <<enabled, TRUE, captureAllowed, focusId = correction.focus,
    generation = current.gen>>

GateInputs ==
  <<enabled, ~paused, captureAllowed, focusId = correction.focus,
    generation = current.gen>>

GateRead ==
  /\ pc = "gate"
  /\ IF ~GateInputs[gateReads + 1]
     THEN Cancel
     ELSE IF gateReads + 1 < Len(GateInputs)
          THEN gateReads' = gateReads + 1 /\ UNCHANGED <<pc, correction>>
          ELSE gateReads' = 0 /\ pc' = "evaluate" /\ UNCHANGED correction
  /\ UNCHANGED CommitUnchanged

\* What is_blocked and the session blocklist let through.  Before it, a check of
\* the blocked pairs alone.
ProposableIgnoringRejections == Pairs \ BlockedPairs

Proposable == Pairs \ (BlockedPairs \cup sessionBlocklist)

\* engine::decide, then the blocked pairs.  Most words are left alone: known,
\* ignored, merely suggested, blocked, or the mode is suggest-only.
Evaluate ==
  /\ pc = "evaluate"
  /\ \/ Cancel
     \/ \E p \in Proposable :
          /\ correction' = [correction EXCEPT !.pair = p]
          /\ pc' = "recheck"
          /\ UNCHANGED gateReads
  /\ UNCHANGED CommitUnchanged

\* A commit that trusts the evaluation to be instantaneous.
RecheckNothing ==
  /\ pc = "recheck"
  /\ pc' = "execute"
  /\ UNCHANGED <<CommitUnchanged, gateReads, correction>>

\* After the evaluation, the generation alone is read again.
Recheck ==
  /\ pc = "recheck"
  /\ IF generation # current.gen
     THEN Cancel
     ELSE pc' = "execute" /\ UNCHANGED <<gateReads, correction>>
  /\ UNCHANGED CommitUnchanged

CorrectionSent ==
  /\ pc = "execute"
  /\ LET batch == BuildKeyActions(correction.word, correction.gen)
     IN  SendBatch(batch, BatchLen(batch))
  /\ undo' = correction
  /\ applied' = [applied EXCEPT ![correction.pair] = @ + 1]
  /\ lateCommits' = IF Active THEN lateCommits ELSE lateCommits + 1
  /\ textBefore' = text[field]
  /\ pc' = "loop"
  /\ correction' = NoCorrection
  /\ UNCHANGED <<field, spent, hookVars, switchVars, tsfVars, gateReads, session,
                 undoHistory, sessionBlocklist, current, focusVars, mainPc, undone>>

\* A failure that is retried.
CorrectionRetried ==
  /\ pc = "execute"
  /\ LET batch == BuildKeyActions(correction.word, correction.gen)
     IN  \/ SendNothing
         \/ \E sent \in 1 .. BatchLen(batch) - 1 : SendBatch(batch, sent)
  /\ UNCHANGED <<field, spent, hookVars, switchVars, tsfVars, coordVars, focusVars,
                 mainPc, undone, applied, lateCommits, textBefore>>

\* A failure that can be undone: the undo is recorded before the batch goes out.
CorrectionFailedRecorded ==
  /\ pc = "execute"
  /\ LET batch == BuildKeyActions(correction.word, correction.gen)
     IN  \/ SendNothing
         \/ \E sent \in 1 .. BatchLen(batch) - 1 : SendBatch(batch, sent)
  /\ undo' = correction
  /\ textBefore' = text[field]
  /\ pc' = "loop"
  /\ correction' = NoCorrection
  /\ UNCHANGED <<field, spent, hookVars, switchVars, tsfVars, gateReads, session,
                 undoHistory, sessionBlocklist, current, focusVars, mainPc, undone,
                 applied, lateCommits>>

\* Nothing or a part went out: counted, never retried.
CorrectionFailed ==
  /\ pc = "execute"
  /\ LET batch == BuildKeyActions(correction.word, correction.gen)
     IN  \/ SendNothing
         \/ \E sent \in 1 .. BatchLen(batch) - 1 : SendBatch(batch, sent)
  /\ pc' = "loop"
  /\ correction' = NoCorrection
  /\ UNCHANGED <<field, spent, hookVars, switchVars, tsfVars, gateReads, session,
                 undo, undoHistory, sessionBlocklist, current, focusVars, mainPc,
                 undone, applied, lateCommits, textBefore>>

Coordinator ==
  \/ CheckShutdown \/ RecvTimeout
  \/ Receive \/ ProcessIgnored \/ ProcessUndo \/ ProcessKey
  \/ UndoSent \/ UndoFailed
  \/ DeferReadFocus \/ DeferReadTime \/ GateRead \/ Evaluate \/ Recheck
  \/ CorrectionSent \/ CorrectionFailed

-----------------------------------------------------------------------------
Broker == NoteTsfFocus \/ NoteTsfTime

Main == DisallowCapture \/ StopObserver \/ JoinThreads

User ==
  \/ \E kind \in UserKeys : PressKey(kind)
  \/ ClickInField
  \/ \E f \in Fields : FocusField(f)
  \/ ToggleEnabled \/ TogglePause \/ RequestExit

Next ==
  \/ User \/ Coordinator \/ FocusThread \/ Main
  \/ BrokerContact \/ Broker \/ TsfWindowElapses

Spec == Init /\ [][Next]_vars

\* The threads keep running; the user, the adapter and the clock owe nothing.
Fairness ==
  /\ WF_vars(Coordinator)
  /\ WF_vars(FocusThread)
  /\ WF_vars(Main)

FairSpec == Spec /\ Fairness

-----------------------------------------------------------------------------
(* Properties.                                                             *)

Focus == Windows \cup {NoWindow}
Correction == [focus : Focus, gen : Nat, word : Seq(Nat), pair : Pairs \cup {NoPair}]
Event == [gen : Nat, kind : Translated]

UserTypeOK ==
  /\ field \in Fields
  /\ text \in [Fields -> Seq(Int)]
  /\ spent \in [DOMAIN Budget -> Nat]

HookTypeOK ==
  /\ captureAllowed \in BOOLEAN /\ hooked \in BOOLEAN
  /\ generation \in Nat
  /\ queue \in Seq(Event)
  /\ dropped \in SUBSET Nat

SharedTypeOK ==
  /\ enabled \in BOOLEAN /\ paused \in BOOLEAN /\ shutdown \in BOOLEAN
  /\ tsfActiveFocus \in Focus /\ tsfActiveRecently \in BOOLEAN
  /\ brokerPc \in {"serve", "noteFocus", "noteTime"} /\ brokerFocus \in Focus
  /\ mainPc \in {"tray", "disallow", "unhook", "join", "exited"}

CoordTypeOK ==
  /\ pc \in {"loop", "recv", "process", "undo", "defer", "deferTime", "gate",
             "evaluate", "recheck", "execute", "stopped"}
  /\ gateReads \in 0 .. 4
  /\ session \in [focus : Focus, token : Tokens(Nat)]
  /\ Len(session.token.chars) <= MaxTokenChars
  /\ undo \in Correction /\ correction \in Correction
  /\ undoHistory \subseteq Pairs /\ sessionBlocklist \subseteq Pairs
  /\ current \in Event

FocusTypeOK ==
  /\ focusId \in Focus
  /\ focusPc \in {"loop", "classify", "publish", "policy", "enabled", "paused",
                  "gate", "stopped"}
  /\ fieldSafe \in BOOLEAN

GhostTypeOK ==
  /\ blindspot \in Nat
  /\ undone \in [Pairs -> Nat] /\ applied \in [Pairs -> Nat]
  /\ lateCommits \in Nat
  /\ textBefore \in Seq(Int)

\* The types of all the state, and the bound of the token: max_token_chars is never
\* exceeded, whatever is typed.
TypeOK ==
  /\ UserTypeOK /\ HookTypeOK /\ SharedTypeOK
  /\ CoordTypeOK /\ FocusTypeOK /\ GhostTypeOK

\* The queue holds events in the order the hook stamped them, and every stamp
\* newer than the event being processed is either queued or counted as dropped:
\* the freshness test (GENERATION against the event) is decided by keys that the
\* coordinator will receive, or has irrecoverably lost.
QueueInOrder ==
  /\ Len(queue) <= QueueCapacity
  /\ current.gen <= generation
  /\ \A i \in 1 .. Len(queue) :
       /\ current.gen < queue[i].gen /\ queue[i].gen <= generation
       /\ \A j \in 1 .. i - 1 : queue[j].gen < queue[i].gen
  /\ \A g \in current.gen + 1 .. generation :
       g \in dropped \/ \E i \in 1 .. Len(queue) : queue[i].gen = g

\* While a correction can be undone, or is being sent, the session is idle in
\* the window of that correction: a failed or partial SendInput leaves no token
\* and no undo behind (replace/mod.rs, "the coordinator clears session/undo
\* state"), and a Backspace never undoes a correction of another window.
UndoOnlyFromIdleSession ==
  /\ undo # NoCorrection =>
       /\ session.token = EmptyToken
       /\ undo.focus = session.focus
  /\ pc \in {"defer", "deferTime", "gate", "evaluate", "recheck", "execute"} =>
       /\ session.token = EmptyToken
       /\ correction.focus = session.focus
       /\ undo = NoCorrection

\* The main promise of the loop: when the last check of a commit passes, the
\* field in front ends with exactly the word and the boundary that the batch
\* will erase, whatever the user, the focus thread and the hook did meanwhile,
\* unless something the session cannot know of happened since the word began
\* (a dropped or uncaptured key, a click, a window switch, a late batch).
LastCheckFindsTheWord ==
  [][ pc = "recheck" /\ pc' = "execute" /\ blindspot < correction.word[1] =>
        EndsWith(text[field], Append(correction.word, correction.gen)) ]_vars

\* A correction and its undo cancel out: the undo leaves the field exactly as the
\* correction found it, the boundary included, unless a newer key was captured
\* before the undo went out or something unknown happened since the word began.
UndoRestoresTheText ==
  [][ undone' # undone /\ generation = current.gen /\ blindspot < correction.word[1] =>
        text'[field] = textBefore ]_vars

\* The field a correction leaves, without its boundary.
Corrected(c) == EraseLast(textBefore, Len(c.word) + 1) \o ReplacementText(c.gen)

\* The undo is offered for a correction that went out whole and still stands: until a
\* newer key is captured, or something unknown happens, the field holds what the
\* correction found with the word, and nothing else, replaced; and when a Backspace takes
\* the undo, the same without the boundary that the key removed.  Whatever was sent in
\* part, failed, expired or was undone before (coordinator.rs 271-292, 455-480,
\* replace/mod.rs 279-299).
UndoMatchesTheText ==
  generation = current.gen =>
    /\ undo # NoCorrection /\ pc # "process" /\ blindspot < undo.word[1] =>
         /\ EndsWith(textBefore, Append(undo.word, undo.gen))
         /\ text[field] = Append(Corrected(undo), undo.gen)
    /\ pc = "undo" /\ blindspot < correction.word[1] =>
         /\ EndsWith(textBefore, Append(correction.word, correction.gen))
         /\ text[field] = Corrected(correction)

\* A pair that was undone twice is never applied again in the session
\* (coordinator.rs 330-351).
RejectedTwiceNeverReapplied ==
  [][ \A p \in Pairs : undone[p] >= 2 => applied'[p] = applied[p] ]_vars

\* A physical boundary commits at most one correction, and one that went out in
\* part is not sent again: no character of it is in any field yet.
BoundaryCommitsOnce ==
  [][ undo' # undo /\ undo' # NoCorrection =>
        \A f \in Fields : \A i \in 1 .. Len(text[f]) : text[f][i] # -undo'.gen ]_vars

\* Switching off lets at most the one commit through that had already passed the
\* gate's reads of the switches: while they stay as they are, no second one.
AtMostOneLateCommit == lateCommits <= 1

-----------------------------------------------------------------------------
(* The strengthening that makes the invariants above inductive.            *)

\* A correction that can be undone, or is about to be sent, is of a known pair, and
\* one about to be sent is of a pair that is not suppressed.
PairKnown ==
  /\ undo # NoCorrection => undo.pair \in Pairs
  /\ pc = "undo" => correction.pair \in Pairs
  /\ pc \in {"recheck", "execute"} => correction.pair \in Pairs \ sessionBlocklist

\* The history of undos is that of the pairs undone, and the pairs that are suppressed
\* are those that were undone again.
RejectionsRecorded ==
  /\ undoHistory = {p \in Pairs : undone[p] >= 1}
  /\ sessionBlocklist = {p \in Pairs : undone[p] >= 2}
  /\ \A p \in Pairs : undone[p] <= applied[p]

\* Every correction applied was undone, can still be undone, is being undone, or
\* is settled.
Undoable(p) ==
  (IF undo.pair = p THEN 1 ELSE 0)
    + (IF pc = "undo" /\ correction.pair = p THEN 1 ELSE 0)

RejectionsAccounted == \A p \in Pairs : undone[p] + Undoable(p) <= applied[p]

\* A commit reads the gate from its first input on.
GateStartsOver == pc # "gate" => gateReads = 0

\* After a late commit the switches are still off, and no other commit has passed
\* the reads of both.
LateCommitIsLast ==
  lateCommits > 0 =>
    /\ ~Active
    /\ pc \notin {"evaluate", "recheck", "execute"}
    /\ pc = "gate" => (gateReads = 0 \/ (gateReads = 1 /\ enabled))

\* What every step preserves.
InductiveInvariant ==
  /\ TypeOK /\ QueueInOrder /\ UndoOnlyFromIdleSession /\ PairKnown
  /\ RejectionsRecorded /\ RejectionsAccounted /\ GateStartsOver
  /\ AtMostOneLateCommit /\ LateCommitIsLast

-----------------------------------------------------------------------------
(* Liveness.                                                               *)

\* Under Fairness, every queued event is received and processed, the
\* kill switch or not, unless the process exits.
EventsAreProcessed ==
  \A g \in 1 .. Budget["act"] :
    (\E i \in 1 .. Len(queue) : queue[i].gen = g) ~> (current.gen >= g \/ shutdown)

\* When the user settles in a field and leaves the switches on, capture ends up
\* allowed exactly if that field is safe prose and its process not excluded.
CaptureFollowsTheField ==
  \A f \in Fields :
    <>[](field = f /\ Active)
      => <>[](\/ shutdown
              \/ captureAllowed = (f \in ProseFields /\ WindowOf[f] \notin ExcludedWindows))

\* Once the kill switch stays off, the hook eventually captures nothing more.
KillSwitchStopsCapture == <>[]~Active => <>[](~captureAllowed \/ ~hooked)

\* Exit from the tray ends every thread: the joins of run_background return.
ExitCompletes == shutdown ~> mainPc = "exited"

=============================================================================
