# LangCheck: a TLA+ model of its two correction paths

LangCheck is a Windows autocorrector. A resident process (`langcheck --background`)
observes keys with a low-level keyboard hook, keeps the word being typed, and at a
word boundary may replace the word with `SendInput`. A second path, a TSF text
service loaded into the applications, asks the resident process over a named pipe
for a correction and applies it through the text framework. This directory holds a
model of that program, the TLC runs that check it on small instances, and proofs
that TLAPS checks for every instance.

Paths below are relative to `src/crates/`.

## 1. Inventory

| Component | State | Operations | Talks to |
|---|---|---|---|
| Keyboard observer, `langcheck-windows/src/input/mod.rs` | statics `CAPTURE_ALLOWED`, `GENERATION`, `DROPPED_EVENTS`, a `sync_channel(256)`, the hook thread | `keyboard_hook_proc`, `set_capture_allowed`, `stop` | writes the queue the coordinator reads; the gate is written by the focus thread and by main |
| Key translator, `input/translate.rs` | modifier flags | `translate`, `translate_key` | called by the hook |
| Token session, `langcheck-core/src/session.rs`, `token.rs` | bounded token with a sticky overflow flag, focus id | `handle` (char, boundary, backspace, focus change, reset) | owned by the coordinator |
| Undo state, `langcheck-core/src/undo.rs` | at most one pending undo | `record`, `clear`, `on_next_input` | owned by the coordinator |
| Coordinator, `langcheck-app/src/coordinator.rs` | session, undo, undo history, session blocklist; `SharedState` (focus id, kill switches, shutdown, TSF activity) | `run`, `process`, `try_commit`, `perform_undo` | queue, shared atomics, engine, executor |
| Replacement executor, `langcheck-windows/src/replace/mod.rs`, `integrity.rs` | none | `execute`, `execute_undo` | `SendInput` into the window in front |
| Focus thread, `langcheck-app/src/main.rs` `start_engine`, `langcheck-windows/src/focus`, `policy.rs` | none of its own | classify, publish, policy, gate, every 50 ms | `SharedState`, the capture gate |
| Tray and lifecycle, `main.rs`, `tray`, `startup` | config, single-instance mutex, run key | toggles, ignore/block lists, start at login, exit | kill switches, config file, registry |
| TSF broker, `langcheck-app/src/tsf_broker.rs`, `engine.rs` | engine | `serve`, `suggest` | pipe, kill switches, TSF activity note |
| IPC, `langcheck-core/src/ipc.rs`, `langcheck-ipc` | frames | `serve_one`, `exchange`, `request` | pipe |
| TSF adapter, `langcheck-tsf/src/lib.rs` | sinks and cookies, current context, reference count | `Activate`, `Deactivate`, `OnSetFocus`, `OnEndEdit`, edit sessions | host application, pipe |
| Decision algorithms, `langcheck-core/src/{classify,candidate,rank,confidence,token}.rs` | none | classify, assemble, rank, decide, restore case | coordinator, TSF broker |
| Lexicon, `langcheck-lexicon` | FST, personal dictionaries | membership, near matches, load and save | engine, files |
| Persistence and configuration, `persistence.rs`, `config.rs` | files | atomic write, load, normalise | tray, command line |

What is hard here:

* **Concurrency.** The hook runs on the input thread of the desktop, the coordinator,
  the focus thread, the main (tray) thread and the TSF broker thread run beside it,
  and they share single atomics, never a lock. Every multi-word decision (the commit
  gate, the TSF activity note, the capture gate) is read or written one atomic at a time.
* **A target nobody controls.** The text that is erased belongs to another process. The
  loop never sees it; it infers it from the keys it captured.
* **Failure.** The queue drops keys when it is full; `SendInput` may insert nothing or a
  part; a field may be unreadable; capture may be off for part of a word.
* **Ordering and time.** Keys of one window are processed after the focus thread published
  another; a Backspace is an undo or an edit depending on the undo window; the TSF note expires.

What makes each component correct:

* observer: order, no event invented, loss is only at the full queue, and after a stop
  or a kill switch nothing more is captured;
* session and undo: the token is what the field ends with, within the bound; an undo
  is offered only for the last correction, in its window;
* coordinator: a commit erases exactly the word it was computed for; one boundary commits
  at most once; a rejected pair is suppressed at the second rejection, and stays so;
  the kill switch stops commits;
* focus thread and lifecycle: capture converges to what the field and the switches say;
  exit ends every thread;
* TSF path: the two paths never both correct one word; the switches stop it; sinks are
  advised and unadvised in pairs; a range is replaced only when it still holds the word;
* algorithms: each agrees with a definition that says what it is for;
* persistence: a crash leaves the old or the new file; no update is lost.

The hazards, each at its line with the properties that cover it, are listed in
`PROJECT.json`.

## 2. Plan

Done, in this order, the most important behaviour first:

1. `Typing`, `Autocorrect`: the core loop, where a mistake destroys text; `TypingProofs`,
   `AutocorrectProofs`, and `AutocorrectTextProofs` for the text itself.
2. `TsfPath`: adapter, pipe, broker and the coordinator's deferral together; `TsfPathProofs`.
3. `TsfAdapter`: the text service inside an application, with a host that edits, moves
   the focus and unloads under it; `TsfAdapterProofs`.
4. `AtomicFile`, `Lifecycle`: what the processes share outside of memory, with crashes; the
   second implements the first; `LifecycleProofs`.
5. `Words`, `Lexicon`, `Decision`, `Wire`, `Engine`: the algorithms, and the two paths
   that use them side by side; `EngineProofs`.
6. `Keystrokes`: the translator's flags and the session's token against a physical keyboard;
   `KeystrokesProofs`.

Left:

7. `SafeCorrection`, an abstract editor in which a correction atomically replaces the last
   word and an undo restores it. `Autocorrect`, restricted to behaviours without blind spots,
   implements it under a refinement mapping.
8. The end of the broker's loop at shutdown, and the window procedure of the tray.

## 3. The modules

### `Typing`

The data of the loop as pure operators. A character is its *label*: the physical
generation of the key press that typed it, `Untracked` for a key nobody captured, and
the negated generation of the boundary for a character of a replacement. Labels are all
the properties need: they tell which key press a character comes from. `TokenState` is a
record of a sequence and the sticky overflow flag; `TokenAfter` is what `Session::handle`
does to it; `BuildKeyActions` and `BuildUndoKeyActions` are the two batches, and `Injected`
is what a field holds after a prefix of one arrived.

The session's own generation and token version are left out: the program never reads them.

### `Autocorrect`

One action per shared access. Threads have program counters (`pc`, `focusPc`, `mainPc`,
`brokerPc`); what a thread does with private data belongs to the action of the access
before it.

| Model | Code |
|---|---|
| `captureAllowed`, `generation`, `queue`, `dropped`, `hooked` | statics of `input/mod.rs`; `dropped` keeps which stamps `DROPPED_EVENTS` counted |
| `focusId`, `enabled`, `paused`, `shutdown`, `tsfActiveFocus`, `tsfActiveRecently` | `SharedState`; the noted time is only "within the defer window or not" |
| `session`, `undo`, `undoHistory`, `sessionBlocklist` | fields of `Coordinator` |
| `current`, `correction` | locals of `process`, `try_commit`, `perform_undo` |
| `field`, `text` | the environment: the field with the focus, and per field the characters known to precede the caret |
| `blindspot`, `undone`, `applied`, `lateCommits`, `textBefore` | history variables, read by properties only |

`PressKey` is `keyboard_hook_proc` and then the application's reaction: the hook runs
before the key is delivered and Windows serialises keys, so nothing falls between. `Receive`
to `CorrectionFailed` are the coordinator: `Reconciled`/`PendingUndo` is the focus
reconciliation at the head of `process`; `DeferReadFocus`, `DeferReadTime` the TSF defer;
`GateRead` reads the inputs of `commit_gate` one by one in the order `CommitContext` is
built; `Evaluate` is `engine::decide` with the block lists, its verdict a choice among the
pairs that may be proposed; `Recheck` the second generation test; `CorrectionSent` and
`CorrectionFailed` the executor and what follows it. The focus thread is a cycle of seven
steps. The tail of `run_background` is `DisallowCapture`, `StopObserver`, `JoinThreads`.

A field and its window are different things: the program identifies only the window
(`foreground_window_id`), the user works in fields.

### `TsfPath`

The second path and its coordination with the first. The user types whole words; a word is
its number and how it is spelled now, and `Corrections` says what `engine::decide` makes of a
spelling. Threads: the UI thread of each window's application (`hostPc`), the broker
(`brokerPc`), the coordinator (`pc`).

| Model | Code |
|---|---|
| `inbox`, `doc` | the environment: input of an application not yet handled; the last word of its document |
| `hostPc`, `request` | a UI thread in its message loop, or inside `langcheck_ipc::request` on behalf of `OnSetFocus` or `OnEndEdit` |
| `sessions` | edit sessions requested with `TF_ES_ASYNCDONTCARE`, not yet granted |
| `switchReads`, `active`, `client`, `brokerFocus` | locals of `tsf_broker::serve` and the client connected to its pipe |
| `tsfActiveFocus`, `tsfActiveRecently` | the two atomics of the note |
| `events`, `commit` | the queue, and the word that `try_commit` works on |
| `byKeys`, `byTsf`, `lapsed`, `staleAnswers`, `typedIn` | history variables; `typedIn` also tells the application in front of a word |

`ReadSwitch` is `enabled && !paused && tsf_enabled` with its short circuit, read before
`Accept` blocks; `Accept` is `ConnectNamedPipe` and the load of `focus_id` in the handler;
`NoteTsfFocus` and `NoteTsfTime` are the two stores; `Answer` is the response and what
`maybe_correct` makes of it: `verified_word_range` runs under the lock of the callback, so the
document still is what it was when the word was read. `CallFails` is the client's timeout
(the pipe has a single instance) or a missing pipe; in both the adapter does nothing. An
edit session that runs calls the adapter back for its own edit, and so does a batch of the
keystroke path.

The coordinator is reduced to what matters to the other path: `TakeWord` (the published focus
becomes the word's), the two loads of `tsf_handling`, and `Commit`, which may cancel
for any reason `Autocorrect` has, and else sends the batch under the switches, the focus and
the freshness that the gate reads. The focus thread is `PublishFocus`. When a session
runs is the text framework's choice, in which order an application handles focus and input
is the order in which it received them. The intermediate edits of a batch, one per
Backspace, are not events here.

### `TsfAdapter`

The DLL inside one application: documents, each with its text, selection, advised sinks and
waiting edit sessions. Positions count UTF-16 units from 0, as the ranges of the text
framework do.

| Model | Code |
|---|---|
| `loaded`, `locks` | the module in the process; locks of `ClassFactory::LockServer` |
| `service`, `advise` | the `TextService` (none, created, activated) and the pair it keeps for `Deactivate` |
| `focusSinks` | per cookie, a `ThreadMgrSink` the thread manager holds, with the context and cookie its cell keeps |
| `editSinks` | per document, the cookies of the `EditSink`s its context holds |
| `focus`, `told`, `text`, `sel` | the environment: the document in front, the one `OnSetFocus` announced, contents |
| `refs` | `REF_COUNT` |
| `sessions` | per document, the `ReplaceSession`s not yet granted, each with its range, replacement, and (read by properties only) the word it was requested for and whether the range or the document was edited since |

`Type`, `Backspace` and `Select` are the host, and each ends in the callback `OnEndEdit` of
every sink on the document (`Edited`): `ReadTrailingToken` is the window of `LOOKBACK_CHARS`
before the caret, `DetectToken` the word in it, `VerifiedWordRange` the reading back of the
range, and `Answer` the broker's reply. A range is anchored: an edit shifts it (`Shift`).
`GrantSession` is the host's lock at any later time: `DoEditSession` replaces what the range
covers *then*, and the edit calls the sinks back. `SetFocus` is `OnSetFocus`: unadvise, top
context, advise, any of which may fail. `refs` is a counter of its
own: each action adds `AddRef` for the objects it constructs and takes `Release` off for those it
drops (a sink that is unadvised or refused, a session that is granted or refused, and with a focus
sink the edit sink it kept), and `Unload` is the host acting on `DllCanUnloadNow`, which reads
nothing else. Each of several sinks left on one document by failing calls gets a session or
none by itself.

### `AtomicFile` and `Lifecycle`

`AtomicFile` promises what `atomic_write` is for: the file is absent or some whole version,
and a save puts a version there in one step or does nothing; only an editor, which writes in
place, may be seen half way. `Lifecycle` has the real steps: a temporary sibling named for
the process, create, write, rename, clean up, each of which may fail, with crashes between
any two. `FileIsAtomic` is the refinement; what a process is about to install is read off its
program counter.

A process of `Lifecycle` runs one command of `main`: `--background` with its tray,
`--broker-serve`, `--tsf-enable/disable`, `--register/unregister-startup`, `--reset`, or the
elevated half of `--register/unregister-tsf`. Shared are the file, its directory and the
temporary siblings, the Run value, the instance mutex, and what registration wrote. `failed`
holds the two results that `DllUnregisterServer` combines (`tsf.and(registry)`), and `Report` is the
end of either export. Deleting the class may fail half way, and fails when there is none; the
text service may refuse a removal when it is not registered.

`wanted`, `stale`, `excused`, `alone` and `outcome` are history variables: the settings as the
commands that succeeded left them, whose copy of the file is out of date, why settings may have
been lost or the registry may disagree, whether a registration command runs by itself, and what
the last such command ended with.

### `Words`, `Lexicon`, `Decision`

Pure operators. A text is a sequence of symbols with the set of its upper-case positions;
`Classify`, `CasePattern` and `RestoreCase` are the code's. `Lexicon` has the two distances
by their tables (`OsaDistance`, `BoundedLevenshtein`) and `Candidates`: the matches in the order of
their keys, cut at `RawMatchCap`, then the transpositions, ranked and cut again. `Decision` is
`assemble`, `rank`, `evaluate` and the engine's `decide`. Scores are the code's integers;
the logarithm of a frequency is the table `Reward`, and `u32::MAX`, the frequency of a
user's word, is 2^31 - 1 with the reward of `u32::MAX`, since TLC's integers end there.

### `Wire` and `Engine`

`Wire` encodes and decodes the frames of requests and responses, with the length of a
string in octets, the bound on a field and the size of the buffer. `Engine` is the system
around `Decision`: a dictionary, the three personal files read at each start, and one word that
is decided at a boundary of the keystroke path (`AtBoundary`, without the gate, which is in
`Autocorrect`) and by the broker for the adapter (`ThroughThePipe`).

### `Keystrokes`

A physical keyboard (`held`, `locked`), the translator's `flags` and the session's `token` side by side,
and the text before the caret (`field`). `Modifier`, `CapsLock`, `Press` and `Release` are
key messages with key repeat and the system-key variants of the Alt key; the hook's gate and
a full queue may lose any of them. The coordinator takes an event at once: the queue
between is in `Autocorrect`. `doubt`, `trust` and `joined` are history variables: the flags
that may be wrong because an event was missed, how far the token was typed under flags that
may be wrong, and whether the word was joined to text the session did not see.

### The `MC` and `Proofs` modules

The TLC instances (Section 4) and the proofs (Section 6): `TypingProofs`, `AutocorrectProofs`,
`AutocorrectTextProofs`, `TsfPathProofs`, `TsfAdapterProofs`, `LifecycleProofs`, `EngineProofs`,
`KeystrokesProofs`.

## 4. The runs

| Run | Question | Instance |
|---|---|---|
| `core_typing` | Is the text that a correction or an undo erases the text it was computed for? Does the queue keep its order, is the session idle while a correction is pending? | two fields in two windows, all five kinds of keys, clicks, focus changes, a user who types while the loop works, queue of 2, words of up to 2, 5 acts |
| `core_undo` | Is the undo offered for exactly the correction that the field shows, is a pair rejected twice never applied again, and is a boundary committed once, when sends fail or insert a part and undo windows expire? | one field, 8 acts, three pairs of which one is blocked by the user |
| `core_switches` | How many commits get past a kill switch? | both switches, two toggles, four acts, unreadable fields, one TSF contact |
| `core_liveness` | What must eventually happen? | three fields: one not prose, two sharing a window, one in an excluded process; two acts, two toggles, exit |
| `tsf_path` | Which words does the keystroke path leave to the adapter? How many answers get past a switch? Does every application come to rest? | two windows with the adapter, a correction that is itself corrected, a word, a move, a toggle, with and without a broker |
| `adapter` | Does a waiting session still cover its word? Is there exactly one sink, where the focus is? Does `REF_COUNT` return to zero, and only when nothing of the module is left, though calls fail? Do its own edits end? | two documents, letters a and b, one boundary, a window of 5, words of up to 3, two edits, a selection, two moves, one failing call |
| `lifecycle` | Is a setting lost? Do registry and file agree? Is there one observer? Is what a registration command ends with true, after others that failed or crashed? Is the file atomic? | two processes, three commands, one toggle, one crash, one failing call, one edit by hand |
| `engine` | Are the candidates the best, is an automatic correction clear, do known and forced words behave, do the two paths agree, are corrections final, are the personal files read back? | three letters of which two are neighbours, 52 dictionaries of up to six words, 15 words, the personal dictionaries of two lines |
| `keystrokes` | Do the translator's flags agree with the keyboard, is the token the text, is a completed word a whole word? | both Shift keys, one Alt, Caps Lock, a letter, a digit, space, Backspace, Left; four presses and two troubles (lost events, clicks, changes of focus or capture) |
| `tsf_both` | `codebase-guide.md` 924: both paths never correct the same word. They may. | one word, one move |
| `adapter_stale` | `lib.rs` 162: a range is replaced only if it covers the detected word. It need not. | as `adapter` |
| `engine_cap` | `confidence.rs` 170: the winner is compared with the most frequent equally close rival. Not with one the cap cut. | as `engine` |

Bounds. `Budget` bounds the user's acts (keys, clicks, focus changes), toggles and TSF
contacts; everything else is finite without a bound. Five acts type a word, its boundary
and a Backspace with a disturbance anywhere; eight acts are enough for a pair to be applied,
undone, applied, undone and proposed a third time, which the suppression needs. The
queue is small so that it overflows within the budget; the token bound is 1 or 2 so that
words reach it. One replacement length other than the word's length is used in
`core_undo`, so that an erase count taken from the wrong word shows.

`TsfAdapter`: the window of 5 holds the longest word, its boundary and one character more, so
that a word longer than the window occurs: what must not be taken for a word is its end. Two
edits make a word, and another while its session waits; corrections differ in length
from their words, so that ranges move. Two moves leave a document and come back. The model
assumes `MaxTokenChars < LookbackChars - 1` (see Section 7).

`Lifecycle`: three commands are enough for two that cross and a third that finds what
they left; one crash and one failing call, since the second would find a state that the
first already leaves behind: a registration that stops half way, a removal of what it left
and a registration again are within them. The processes are interchangeable, so symmetry is sound.

`Engine`: the caps (`RawMatchCap` 4 for 64, 3 candidates for 8) and the length from which two
edits are allowed (4) are scaled to the words; weights, thresholds and policy are the code's.
Frequencies lie on both sides of the dominance ratio and of what a score can outweigh.
`CandidatesAreTheBest` and `AutomaticIsClear` except the words whose near matches exceed the
cap, and `engine_cap` shows that the exception is needed.

`Keystrokes`: four presses make a word, its boundary, and a Shift or Caps Lock around them; two troubles
lose the two ends of one press. The bound on the token is 2, so that it overflows.

`LastCheckFindsTheWord` and `UndoRestoresTheText` exclude behaviours in which something
happened since the word began that the loop has no means to see (`blindspot`): a click, a change
of focus, an uncaptured or dropped key, or a batch that arrived after newer keys. This is
what the code relies on, made explicit. `UndoRestoresTheText` also excludes a key captured
between the Backspace and the undo: the code does not test for it.
`LastCheckFindsTheWord` speaks about the last check and not about the send: a key
between the two is caught by nothing in the code.

In `TsfPath`, one move is enough for a note of the wrong window and for a word decided
on while another window is being noted; one toggle suffices for the switches, which are
counted from the last toggle.

`GuardedWordsAreLeftToTsf` is what remains true of the documents' claim that both paths
never correct one word: a word is left to the adapter when the published focus is its
window, the note is of that window and has not expired, all from the boundary until the coordinator
decided. `lapsed` collects the other words, and `tsf_both` shows that some of them are
corrected twice.

`AtMostOneLateCommit` is the strongest form that holds: the switches are read once, before the
evaluation, so one commit may pass while the user switches off; a second one may not.

In the same way the exceptions of `SessionsCoverTheirWord` (a range that was edited),
`NoSettingIsLost` and `RegistryAgrees` (`excused`), `OneSinkOnTheFocus` (a failed call), `TokenIsTheText` and
`WordsAreWhole` (`trust`, `joined`) name what the code relies on; Section 7 says what happens
without.

## 5. Fairness

`FairSpec` assumes weak fairness of the coordinator, of the focus thread and of the main
thread once exit was requested: each is an OS thread that runs a loop whose waits are
bounded (`recv_timeout`, a 50 ms sleep) or end with a step of another fair thread (the
joins). The user, the adapter, the clock and the tray owe nothing. One weak fairness per
thread suffices: a thread has always exactly one next step, so no step of it can starve
another.

`TsfPath!FairSpec` assumes weak fairness of the broker, whose only unbounded wait is
for a client, and of each application's UI thread: a call ends with the broker's answer or
with `TIMEOUT_MS`, an edit session runs once the lock is free. The coordinator owes nothing
there: `HostsSettle` does not need it. `HostsSettle` assumes that the corrections of
corrections end; the model's table does, as `Corrections` of the instance is a chain.

`TsfAdapter!FairSpec` assumes that an application grants every edit session in the end, which is
what the text framework promises for an asynchronous request. `CorrectionsSettle` assumes,
as `HostsSettle` does, that corrections of corrections end.

`Lifecycle`, `Engine` and `Keystrokes` state safety only.

Deadlock is not checked in `core_liveness`, where the process may exit, in the runs of
`TsfPath`, where the loop of the coordinator has no idle step, and in those of the other
modules, which stop when the budget of user, faults and commands is used up.

## 6. What is proved

For every value of the constants that satisfies `TypingAssumption` and
`AutocorrectAssumption`, in `AutocorrectProofs`:

* `TypeCorrect`, `QueueCorrect`, `UndoCorrect`, `KillSwitchCorrect`: the invariants `TypeOK`,
  `QueueInOrder`, `UndoOnlyFromIdleSession` and `AtMostOneLateCommit`;
* `RejectionCorrect`: the action property `RejectedTwiceNeverReapplied`.

All rest on `InductiveInvariantHolds`. The invariants are not inductive by themselves, and
`InductiveInvariant` adds what they need:

* `PairKnown`: what is about to be undone or sent is of a known pair, and what is about to be
  sent of a pair that is not suppressed (else a suppressed pair could be re-applied);
* `RejectionsRecorded`: the history and the block list hold the pairs undone once and twice;
* `RejectionsAccounted`: for each pair, undos done plus the one that is possible or under way
  never exceed the corrections applied (else undos could outnumber corrections);
* `GateStartsOver`: the gate is read from its first input (else a commit could resume
  beyond the switches);
* `LateCommitIsLast`: after a late commit the switches are off and no commit stands beyond
  the reads of both (else a second could follow).

The proof has one lemma per group of actions and invariant part; types come first, so that
the other parts may use them. `TypingProofs` has the facts about tokens and batches.

On top of it, in `AutocorrectTextProofs`, what the loop is for:

* `CommitsOnce`: `BoundaryCommitsOnce`;
* `LastCheckCorrect`: `LastCheckFindsTheWord`;
* `UndoTextCorrect`: `UndoMatchesTheText`;
* `RestoreCorrect`: `UndoRestoresTheText`.

They rest on `TextInvariantHolds`. The coordinator is behind the user: the field has the keys that
still are in the queue, the token has not. What relates the two is `TextIsReplayed`: there is a
`past`, which says for each generation what the field in front was when the key of that generation
reached it, such that each key in the queue (and the one in hand) makes of one entry the next,
the newest entry is the field, and outside the blind spots the token, the word being
committed, the word that may be undone and the one that is restored are ends of the entries
of their generations (`QueueReplayed` to `RestoreReplayed`). A new key adds an entry, a
batch starts the entries over, and every other step keeps them. `past` is existentially
quantified instead of computed from the queue, which would need an induction over it; with
`past` as a history variable TLC finds the invariant true in the instances of `core_typing`
and `core_undo`. `BoundariesSettled` says that the field holds no label of a boundary that is
not committed yet, `BlindspotCovers` that a lost key is a blind spot, `WordsBegun` that a word
begins with a key that was handled.

For every value of the constants that satisfies `TsfPathAssumption`, in `TsfPathProofs`:

* `TsfTypeCorrect`: `TypeOK`;
* `GuardedCorrect`: `GuardedWordsAreLeftToTsf`, from `GuardInvariant`: as long as a word may be
  deferred it has lapsed or its guard stands and the coordinator tests the note for the
  window it was typed in (`GuardStands`); what passed the deferral, and every batch on its
  way, has lapsed (`DeferredOtherwise`, `BatchesLapsed`). The note is stored focus first and
  tested focus first; the proof shows that neither half can be stale for a guarded word;
* `StaleAnswerCorrect`: `AtMostOneStaleAnswer`, from `StaleInvariant`: after a stale answer the
  switches are off, the broker does not hold an old value, and what it has read of them since
  was on only for switches that are on.

For every set of processes, budget and value of the constants that satisfies
`LifecycleAssumption`, in `LifecycleProofs`:

* `LifecycleTypeCorrect`, `ObserverCorrect`, `RegistrationCorrect`: `TypeOK`, `OneObserver`,
  `OutcomeIsTrue`;
* `SettingsCorrect`, `RegistryCorrect`: `NoSettingIsLost`, `RegistryAgrees`;
* `FileCorrect`: `FileIsAtomic`, the refinement. Every step of a process is, under the mapping
  `Pending`, one of preparing, installing, abandoning and erasing a version, or a stutter.

`InductiveInvariant` there adds that the process that observes holds the mutex
(`ObserverHoldsMutex`); that a sibling file about to be renamed is the whole configuration of
its process or was taken away by a reset (`SiblingIsWhole`: without it a rename could install a
torn file); and that an editor that saves has a text (`EditorHasText`). For the settings,
`CopiesAreCurrent`: the copy of a process that is not `stale` is what the file holds, with the change
of its command on the way to the file, and an editor's copy likewise. For the registry,
`RegistryIsInOrder`: as long as nothing is excused, at most one command is between the Run
value and the file, and the value is what that command wants. For the registration,
`OutcomeIsInOrder`: the command that is alone has written, or removed, all that comes before the
call it is at (`SoFar`), except what its results admit; no other runs beside it, and none at
all once there is an outcome (`OneRegistration`).

For all documents, texts, corrections, budgets and failing calls that `TsfAdapterAssumption` allows,
in `TsfAdapterProofs`: `AdapterTypeCorrect`, `AdapterSessionsCorrect`, `AdapterSinkCorrect`,
`AdapterUnloadCorrect`, that is every invariant of the module. Its `InductiveInvariant` says that
each waiting session lies in its text, covers its word unless its range was edited, and covers
a whole word unless the document was edited (`DocumentsAreRight`; an edit
shifts the anchors of a range before, behind or over it, and each case has a lemma); that cookies are
numbers of which there is always another (`SinksAreRight`); that without a failure the
one focus sink is the one the service knows and the one edit sink the one that the focus sink
knows (`SinksKnownOf`); and that `REF_COUNT` is the number of services, focus sinks, edit sinks and
sessions, and of locks (`ObjectsAreCounted`), and that nothing is left of an unloaded module
(`NothingIsLeft`), from which `AdapterUnloadCorrect` follows in both directions: each action is shown
to count what it makes and to take off what it drops, the edit sinks as pairs of a document and a
cookie, since a failed call may leave several on one document.
That a session covers a whole word when it is
requested needs a window wider than the longest word: the assumption
`MaxTokenChars < LookbackChars - 1` is used there, and the default configuration meets it.

For every keyboard that `KeystrokesAssumption` describes (a letter is its own key, no other key types
one), in `KeystrokesProofs`: `FlagsCorrect`, `KeysTypeCorrect`, `TextCorrect`, `WordsCorrect`, that is
every property of the module. `FlagsAgree` is inductive once Caps Lock is known to be on or
off. `TokenIsTheText` and `WordsAreWhole` need both each other's and more: what is known
of the text also where the token is not trusted (`TokenShown`), and that what stands before
the token is not part of a word (`WordStartsClean`). None depends on the bounds.

For every dictionary, every content of the personal files, every text and all bounds that the
assumptions of `Words`, `Lexicon`, `Decision`, `Wire` and `Engine` allow, in `EngineProofs`:

* `EngineTypeCorrect`: `TypeOK`;
* `KnownWordsCorrect`: `KnownWordsStay`;
* `ForcedPairCorrect`: `ForcedPairWins`. The bonus of a user's pair exceeds whatever the
  frequency and the distance of another candidate can be worth, and the margin between them
  exceeds the one that the policy asks for;
* `PathsAgreeAlways`: `PathsAgree`, over the wire. A text of letters and marks of ASCII fits into a
  field and arrives as it was; any other does not arrive with symbols that would make it natural,
  so both paths leave it alone; no message exceeds the buffer;
* `CorrectionsStay`: `CorrectionsAreFinal`;
* `RoundTripCorrect`: `PersonalRoundTrip`. The lines are written in the order of their keys, and
  reading each one adds one entry, for which there is room before it;
* `CandidatesCorrect`: `CandidatesAreTheBest`. The heart of it is `DistanceIsEdits`: the table that
  `bounded_levenshtein` fills row by row, and gives up once a whole row is above the bound,
  yields the number of edits that `Within` counts without a table. Its cells say which edits
  make one beginning the other (`ZeroMeans`, `OneMeans`); in the other direction an edit of the second
  word raises no cell of its last column by more than one (`EditIsNear`, column by column). Below
  the cap the stream then yields every match, and every swap that it has not found has room
  (`RoomForAll`), by counting;
* `AutomaticCorrect`: `AutomaticIsClear`. The highest score of an automatic correction leaves room for one
  edit only; a rival as near is either dominated or behind by the margin, which is more than
  the reward for three times its frequency; and for a rival that the bound on candidates cut
  off, one that is at least as frequent was kept (`CandidatesKept`), since there is room for
  three: the token, the correction and a rival. In a first form the property was false: where
  the product with the ratio saturates, a word of frequency `u32::MAX` wins over any other, which
  the property now excepts.

`EngineInvariantHolds` is the invariant under them: the dictionary is one of those assumed, the
loaded `PersonalDictionary` is within its bounds with one pair per word, and the last word was
decided on both paths as `AtBoundary` and `ThroughThePipe` say.

The assumptions are facts of the code: the reward of a frequency is between 0 and `MaxReward`,
1200 ln 2^32 rounded, grows with the frequency, and grows by more than `TripledReward`, 1200 ln 3 with
the rounding, only if the frequency is at least tripled; three candidates at least are kept; each entry of `BUILTIN_TYPOS` is a word of the
dictionary's symbols at distance one; the words of a dictionary, the personal words, the built-in
corrections and a token of the default length fit into a field of the protocol, and a field
with its header fits into the buffer; no letter is a mark.

The model computes with folds over words and lists. The theorems of the libraries about them take
an operator as a parameter, so `EngineProofs` states what it needs itself: induction as a fact about a
set of numbers that has 0 and with each number the next (`Induction`, from the
well-foundedness of `<`), and a fold as a function on sets of positions that takes the largest one off
(`FoldExists`, `FoldRuns`). What each table, list or text of the model becomes is then a lemma
that says which steps its fold ran. The lists in an order (`InOrder`, `Ranked`) rest on the
uniqueness of the member with a given number of members before it (`Listing`, `Ranks`).

Only model-checked:

* all liveness, which like `ENABLED` is out of the prover's reach: `EventsAreProcessed`,
  `CaptureFollowsTheField`, `KillSwitchStopsCapture`, `ExitCompletes`, `HostsSettle`,
  `CorrectionsSettle`.

## 7. Disagreements between the documents and the code

Three are runs, each with a finding in `PROJECT.json` that quotes both sides: `tsf_both`,
`adapter_stale` and `engine_cap`. The others were met while modelling; the model does what the
code does.

Keystroke path:

* A key that the full queue refuses is counted and nothing else (`input/mod.rs` 260), so a word
  with a missing letter is committed. `blueprint.md` 799 and 1221: an overflow invalidates the
  session. `ResetReason::QueueOverflow` is never produced.
* After the evaluation only the generation is read again (`coordinator.rs` 437); the focus may
  have changed. `blueprint.md` 847: a change of focus cancels the commit.
* A pair is suppressed by its second undo (`coordinator.rs` 221 and 332-350; `docs/compatibility.md` 27
  and `codebase-guide.md` 441 agree). `langcheck-core/src/undo.rs` 3-5 and 30 say that an undo suppresses the
  pair, and so does `blueprint.md` 714. The model follows the code, so nothing here supports
  the stronger claim: after one undo the pair may be applied again, which `core_undo` reaches.
* `perform_undo` (`coordinator.rs` 335) tests nothing before it sends. `blueprint.md` 719: the undo
  uses the final checks of the correction.
* Caps Lock: a press that is missed, or one that the keyboard repeats, inverts the
  translator's case until the next such press; `translate.rs` 51 says the state is tracked precisely
  after the start.
* Two modifiers of a kind share a flag: with both Ctrl keys down and one let go, the shortcut that
  follows is read as text, against `translate.rs` 5.
* `@`, `\`, `.` and `:` end or reset the token, so the parts of addresses, host names and paths are
  corrected as words; the class of e-mail addresses never occurs on this path (`blueprint.md` 252).
* A boundary deleted by Backspace and typed on joins a word of which the session knows the end only
  (`session.rs` 62); it is eligible. A token that overflowed and was emptied by Backspaces stays
  overflowed, so the next word is refused: the harmless direction. Clicks are not seen at all.

TSF path:

* A request served after the focus moved notes the new window (`tsf_broker.rs` 57): corrections are
  suppressed there, which `codebase-guide.md` 922 excludes.
* The switches are read before the blocking accept (`tsf_broker.rs` 47): the first request after
  switching off is answered with the value of before, against `tsf_broker.rs` 6.
* `ClassFactory` objects are not counted in `REF_COUNT`, of which `lib.rs` 77 says "Count of live
  COM objects": the module may go while an application holds the factory without a lock. That is
  why `NothingOutlivesTheModule` is about every object but the class factory. A document that had the focus before `Activate` gets its sink at the next change
  of focus only. `max_token_chars` may be set to 64 while the adapter looks back 48 characters.
  The path has no memory of rejections, and two pairs of the user that map to each other's words
  would not settle.

Processes:

* `--broker-serve` takes no mutex; `main.rs` 423 speaks of a single broker instance.
* A removal of a class that is gone already, or after one that got as far, ends with an error
  (`lib.rs` 843): `set_tsf` reports a failure although nothing is left.
* `--reset` leaves the Run value. Enabled and paused are not persisted. `toggle_tsf` ignores a save that
  failed. Two start-up commands that cross may leave registry and file in disagreement, and
  two that load the file at the same time lose a setting: that is what `excused` excepts.

Engine:

* `evaluate_request` classifies with the default bound of 32 and the keystroke path with the
  configured one (`engine.rs` 5: the paths can never diverge); `PathsAgree` is about words within both.
* A pair of a word with itself makes a word of the dictionary unknown and so correctable.
* The bundled dictionary holds five of the misspellings of `BUILTIN_TYPOS` (wierd, untill, wich,
  accomodate, prefered) and lacks one of their corrections (embarrass).
* At the bound on entries an existing pair cannot be changed; comments count for the bound on lines.
  `MAX_CANDIDATES` cannot be reached, and the protocol's version is neither sent nor checked.

## 8. Not modelled

* Metrics, logging, diagnostics, benches: no effect on behaviour.
* Inside `FocusInspector` and `policy`: what UI Automation says of an element is an input
  (`ProseFields`); its failure at the start leaves capture closed for good.
* The start-up handshake of the hook thread: it ends before the other threads exist.
* The console mode `--run`, which is the background mode without tray and with other output,
  the self-tests, UAC, the window procedure of the tray. The fallback loop for a tray that cannot be
  created has no way to exit, and nothing to model.
* The end of the broker's loop at shutdown: it is a detached thread that the process ends with.
* The building of dictionaries (`from_word_list`, `dictionary-compiler`), the fake lexicon of the
  tests, the Windows spell checker, which no path uses; the FST and its automaton, a third-party crate that
  `Within` stands for.
* Dead keys, input methods and layouts other than one letter per key.
* Security descriptors, handle ownership and unsafe memory of the Win32 calls.
