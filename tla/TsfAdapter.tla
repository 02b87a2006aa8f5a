----------------------------- MODULE TsfAdapter -----------------------------
(***************************************************************************)
(* The text service inside one application (langcheck-tsf/src/lib.rs): the *)
(* objects it creates, the sinks it advises, the word it reads before the  *)
(* caret after every edit and the edit session that replaces it later.     *)
(* TsfPath has the conversation with the broker; here the broker answers   *)
(* from a table or not at all.                                             *)
(*                                                                         *)
(* Everything runs on the UI thread of the application, so a callback is   *)
(* one action; what interleaves is the application's edits, its changes of *)
(* focus, the moment it grants an edit session, and failures of its calls. *)
(***************************************************************************)
EXTENDS Integers, Sequences, FiniteSets, FiniteSetsExt

CONSTANTS
  Docs, NoDoc,      \* document managers of the thread, each with one context
  Letters,          \* characters a word is made of
  Boundaries,       \* the characters boundary_from_char accepts
  Blanks,           \* other white space
  InitialText,      \* per document: what it holds when the service is created
  LookbackChars,    \* LOOKBACK_CHARS
  MaxTokenChars,    \* config.performance.max_token_chars, at the broker
  Corrections,      \* the broker's replacement for a word
  Selections,       \* the selections the user makes besides typing
  MaxLocks,         \* how many LockServer calls at a time
  Budget            \* how many edits, selections, moves, failing calls

Chars == Letters \cup Boundaries \cup Blanks

ASSUME TsfAdapterAssumption ==
  /\ NoDoc \notin Docs /\ IsFiniteSet(Docs)
  /\ InitialText \in [Docs -> Seq(Chars)]
  /\ Selections \subseteq {s \in Nat \X Nat : s[1] <= s[2]}
  /\ LookbackChars \in Nat /\ MaxTokenChars \in Nat /\ MaxLocks \in Nat
  \* A word that fills the window may be the end of a longer one.
  /\ MaxTokenChars < LookbackChars - 1
  /\ DOMAIN Corrections \subseteq Seq(Letters)
  /\ \A w \in DOMAIN Corrections : Corrections[w] \in Seq(Letters)
  /\ Budget \in [{"edit", "select", "move", "fault"} -> Nat]

VARIABLES
  \* the application
  loaded,        \* the DLL is in the process
  service,       \* its text service: none, idle, active
  locks,         \* LockServer calls that are not undone
  refs,          \* REF_COUNT
  focus,         \* the document that has the focus
  told,          \* the document the sinks were last told of
  text, sel,     \* per document: characters and selection (start, end)
  sessions,      \* per document: edit sessions requested and not granted
  \* the adapter's objects that advising keeps alive
  advise,        \* TextService.advise
  focusSinks,    \* cookie -> ThreadMgrSink.edit_advise
  editSinks,     \* per document: cookies of the sinks on its context
  spent          \* how much of Budget is used

docVars  == <<text, sel, sessions>>
sinkVars == <<advise, focusSinks, editSinks>>
vars == <<loaded, service, locks, refs, focus, told, docVars, sinkVars, spent>>

NoCookie == 0
NoAdvise == [doc |-> NoDoc, cookie |-> NoCookie]
NewCookie(used) == CHOOSE n \in 1 .. Cardinality(used) + 1 : n \notin used

Init ==
  /\ loaded = TRUE /\ service = "none" /\ locks = 0 /\ refs = 0
  /\ focus = NoDoc /\ told = NoDoc
  /\ text = InitialText
  /\ sel = [d \in Docs |-> <<Len(text[d]), Len(text[d])>>]
  /\ sessions = [d \in Docs |-> <<>>]
  /\ advise = NoCookie /\ focusSinks = <<>>
  /\ editSinks = [d \in Docs |-> {}]
  /\ spent = [b \in DOMAIN Budget |-> 0]

Spend(what) ==
  /\ spent[what] < Budget[what]
  /\ spent' = [spent EXCEPT ![what] = @ + 1]

\* A call of the adapter that the application may refuse in a step.
Failing(fault) == IF fault = "none" THEN UNCHANGED spent ELSE Spend("fault")

-----------------------------------------------------------------------------
(* The word before the caret.  Positions are gaps between characters; the  *)
(* range [from, to] covers the characters from + 1 .. to.                  *)

Covered(t, from, to) == SubSeq(t, from + 1, to)

EndsWord(c) == c \in Boundaries \cup Blanks

\* detect_token: the word that the last character, a boundary, completes; <<>>
\* when it completes none.
DetectToken(seen) ==
  IF seen = <<>> \/ seen[Len(seen)] \notin Boundaries
  THEN <<>>
  ELSE LET last  == Len(seen) - 1
           start == Max({0} \cup {i \in 1 .. last : EndsWord(seen[i])})
       IN  SubSeq(seen, start + 1, last)

\* A window that is as wide as the longest word: the whole window may be a word.
NarrowTrailingToken(t, s) == DetectToken(Covered(t, Max({0, s[1] - MaxTokenChars - 1}), s[1]))

\* read_trailing_token: the range is extended back from the selection and read into
\* a buffer of LOOKBACK_CHARS, which holds less than a range that was not empty.
ReadTrailingToken(t, s) ==
  LET from == Max({0, s[1] - LookbackChars})
  IN  DetectToken(Covered(t, from, Min({s[2], from + LookbackChars})))

\* verified_word_range: the range one boundary before the caret, if it holds the token.
VerifiedWordRange(t, s, token) ==
  LET from == Max({0, s[1] - Len(token) - 1})
      to   == Max({from, s[2] - 1})
  IN  IF Covered(t, from, Min({to, from + LookbackChars})) = token
      THEN {<<from, to>>} ELSE {}

\* The broker refuses words beyond its bound.
Answer(token) ==
  IF Len(token) \in 1 .. MaxTokenChars /\ token \in DOMAIN Corrections
  THEN {Corrections[token]} ELSE {}

\* maybe_correct: at most one edit session.  touched and edited are history
\* variables: the range was edited, the document was.
CorrectionOf(token, t, s) ==
  {[from |-> r[1], to |-> r[2], replacement |-> a, word |-> token,
    touched |-> FALSE, edited |-> FALSE] :
     a \in Answer(token), r \in VerifiedWordRange(t, s, token)}

-----------------------------------------------------------------------------
(* The objects and their counter.  The locks count too; the class factory  *)
(* does not.                                                               *)

\* A constructor that forgets its object.
AddRefForgotten == [service |-> 1, focusSink |-> 1, editSink |-> 1, session |-> 0]

\* add_ref in the constructors.
AddRef == [service |-> 1, focusSink |-> 1, editSink |-> 1, session |-> 1]

\* release in the drops.
Release == [service |-> 1, focusSink |-> 1, editSink |-> 1, session |-> 1]

EditSinksOf(sinks) == UNION {{d} \X sinks[d] : d \in Docs}

\* How many edit sinks are gone when those of before are those of after.
Dropped(before, after) == Cardinality(EditSinksOf(before) \ EditSinksOf(after))

-----------------------------------------------------------------------------
(* An edit of a document: [from, to] is replaced by new.  The ranges of    *)
(* the sessions move with the text, as the framework's anchors do, and     *)
(* every edit sink of the context is called back.                          *)

Splice(t, from, to, new) ==
  SubSeq(t, 1, from) \o new \o SubSeq(t, to + 1, Len(t))

Shift(p, from, to, n) ==
  IF p <= from THEN p ELSE IF p >= to THEN p + n - (to - from) ELSE from

Shifted(s, from, to, n) ==
  [s EXCEPT !.from = Shift(@, from, to, n), !.to = Shift(@, from, to, n),
            !.edited = TRUE,
            !.touched = @ \/ ~(from >= s.to \/ (to <= s.from /\ from < s.from))]

\* Each sink that reaches the broker asks for a session of its own; a session that
\* the application refuses is dropped again, and so is one that was granted and is not
\* in the queue any more.
OnEndEdit(d, queue) ==
  \E token \in {ReadTrailingToken(text'[d], sel'[d])} :
    \E new \in UNION {[1 .. n -> CorrectionOf(token, text'[d], sel'[d])] :
                         n \in 0 .. Cardinality(editSinks[d])} :
      /\ sessions' = [sessions EXCEPT ![d] = queue \o new]
      /\ refs' = refs + AddRef.session * Len(new)
                      - Release.session * (Len(sessions[d]) - Len(queue))

Edited(d, from, to, new, selection, queue) ==
  /\ text' = [text EXCEPT ![d] = Splice(@, from, to, new)]
  /\ sel' = [sel EXCEPT ![d] = selection]
  /\ OnEndEdit(d, [i \in 1 .. Len(queue) |-> Shifted(queue[i], from, to, Len(new))])

Caret(p) == <<p, p>>

\* The user types a character over the selection.
Type(c) ==
  /\ focus # NoDoc
  /\ Spend("edit")
  /\ LET s == sel[focus]
     IN  Edited(focus, s[1], s[2], <<c>>, Caret(s[1] + 1), sessions[focus])
  /\ UNCHANGED <<loaded, service, locks, focus, told, sinkVars>>

Backspace ==
  /\ focus # NoDoc
  /\ Spend("edit")
  /\ LET s == sel[focus]
         from == IF s[1] = s[2] THEN Max({0, s[1] - 1}) ELSE s[1]
     IN  Edited(focus, from, s[2], <<>>, Caret(from), sessions[focus])
  /\ UNCHANGED <<loaded, service, locks, focus, told, sinkVars>>

\* A selection is an edit of the context too; it moves no range.
Select(from, to) ==
  /\ focus # NoDoc
  /\ Spend("select")
  /\ to <= Len(text[focus])
  /\ sel' = [sel EXCEPT ![focus] = <<from, to>>]
  /\ UNCHANGED <<loaded, service, locks, focus, told, text, sinkVars>>
  /\ OnEndEdit(focus, sessions[focus])

\* The session puts the word back: the next callback finds it again.
DoEditSessionWithTheWord(d) ==
  LET s == Head(sessions[d])
  IN  Edited(d, s.from, s.to, s.word,
             <<Shift(sel[d][1], s.from, s.to, Len(s.word)),
               Shift(sel[d][2], s.from, s.to, Len(s.word))>>, Tail(sessions[d]))

\* ReplaceSession::DoEditSession: SetText of the range, whatever it covers now.
DoEditSession(d) ==
  LET s == Head(sessions[d])
      n == Len(s.replacement)
  IN  Edited(d, s.from, s.to, s.replacement,
             <<Shift(sel[d][1], s.from, s.to, n), Shift(sel[d][2], s.from, s.to, n)>>,
             Tail(sessions[d]))

\* The application grants the lock.
GrantSession(d) ==
  /\ sessions[d] # <<>>
  /\ DoEditSession(d)
  /\ UNCHANGED <<loaded, service, locks, focus, told, sinkVars, spent>>

-----------------------------------------------------------------------------
(* Sinks and objects.                                                      *)

\* A drop that forgets the sink on the focused context, and a sink that moves on
\* without leaving the context it was on.
UnadviseNothing(gone, fault) == editSinks

\* unadvise_edit of the focus sinks with the given pairs, which are forgotten whether
\* or not the call succeeds.
UnadviseEdit(gone, fault) ==
  IF fault = "unadviseEdit"
  THEN editSinks
  ELSE [d \in Docs |-> editSinks[d] \ {p.cookie : p \in {q \in gone : q.doc = d}}]

\* advise_edit of focus sink c: its new pair.  top: GetTop fails, or the cast to
\* ITfSource.  The cookie tells whose sink it is.
AdviseEdit(c, left, d, fault) ==
  IF d = NoDoc \/ fault \in {"top", "advise"}
  THEN NoAdvise
  ELSE [doc |-> d, cookie |-> <<c, NewCookie({k[2] : k \in {x \in left[d] : x[1] = c}})>>]

\* OnSetFocus: another document, or none, gets the focus; every focus sink is told.
SetFocus(d, fault) ==
  /\ d # focus
  /\ spent["move"] < Budget["move"]
  /\ fault = "none" \/ (focusSinks # <<>> /\ spent["fault"] < Budget["fault"])
  /\ spent' = [spent EXCEPT !["move"] = @ + 1,
                            !["fault"] = IF fault = "none" THEN @ ELSE @ + 1]
  /\ focus' = d
  /\ told' = IF focusSinks = <<>> THEN told ELSE d
  /\ LET left == UnadviseEdit({focusSinks[c] : c \in DOMAIN focusSinks}, fault)
         new  == [c \in DOMAIN focusSinks |-> AdviseEdit(c, left, d, fault)]
         made == IF d = NoDoc \/ fault = "top" THEN 0 ELSE Cardinality(DOMAIN focusSinks)
         lost == Dropped(editSinks, left) + (IF fault = "advise" THEN made ELSE 0)
     IN  /\ focusSinks' = new
         /\ editSinks' = [x \in Docs |-> left[x] \cup
              {new[c].cookie : c \in {y \in DOMAIN new : new[y].doc = x}}]
         /\ refs' = refs + AddRef.editSink * made - Release.editSink * lost
  /\ UNCHANGED <<loaded, service, locks, docVars, advise>>

\* ClassFactory::CreateInstance.
CreateInstance ==
  /\ loaded /\ service = "none"
  /\ service' = "idle"
  /\ refs' = refs + AddRef.service
  /\ advise' = NoCookie
  /\ UNCHANGED <<loaded, locks, focus, told, docVars, focusSinks, editSinks, spent>>

\* The pair kept by a service that does not look whether AdviseSink succeeded.
PairOfAnyCall(fault) == NewCookie(DOMAIN focusSinks)

\* The pair TextService::Activate keeps.
AdvisedPair(fault) == IF fault = "advise" THEN NoCookie ELSE NewCookie(DOMAIN focusSinks)

\* TextService::Activate: a service whose sink is refused is inert.  The document that
\* has the focus already is not looked at.
Activate(fault) ==
  /\ service = "idle"
  /\ Failing(fault)
  /\ service' = "active"
  /\ advise' = AdvisedPair(fault)
  /\ LET new == NewCookie(DOMAIN focusSinks)
     IN  focusSinks' = IF fault = "advise" THEN focusSinks
                       ELSE [c \in DOMAIN focusSinks \cup {new} |->
                               IF c = new THEN NoAdvise ELSE focusSinks[c]]
  /\ refs' = refs + AddRef.focusSink - (IF fault = "advise" THEN Release.focusSink ELSE 0)
  /\ told' = NoDoc
  /\ UNCHANGED <<loaded, locks, focus, docVars, editSinks>>

\* TextService::Deactivate; the drop of the focus sink unadvises its edit sink.
Deactivate(fault) ==
  /\ service = "active"
  /\ Failing(fault)
  /\ service' = "idle"
  /\ advise' = NoCookie
  /\ IF advise = NoCookie \/ fault = "unadviseFocus"
     THEN UNCHANGED <<focusSinks, editSinks, refs>>
     ELSE /\ focusSinks' = [x \in DOMAIN focusSinks \ {advise} |-> focusSinks[x]]
          /\ editSinks' = UnadviseEdit({focusSinks[advise]}, fault)
          /\ refs' = refs - Release.focusSink - Release.editSink * Dropped(editSinks, editSinks')
  /\ UNCHANGED <<loaded, locks, focus, told, docVars>>

ReleaseService ==
  /\ service = "idle"
  /\ service' = "none"
  /\ refs' = refs - Release.service
  /\ UNCHANGED <<loaded, locks, focus, told, docVars, sinkVars, spent>>

\* ClassFactory::LockServer.
LockServer(lock) ==
  /\ loaded
  /\ IF lock THEN locks < MaxLocks /\ locks' = locks + 1 /\ refs' = refs + 1
             ELSE locks > 0 /\ locks' = locks - 1 /\ refs' = refs - 1
  /\ UNCHANGED <<loaded, service, focus, told, docVars, sinkVars, spent>>

\* DllGetClassObject brings the module back.
GetClassObject ==
  /\ ~loaded
  /\ loaded' = TRUE
  /\ UNCHANGED <<service, locks, refs, focus, told, docVars, sinkVars, spent>>

-----------------------------------------------------------------------------
(* When the module may leave the process.                                  *)

\* The application frees unused libraries; DllCanUnloadNow says S_OK.
Unload ==
  /\ loaded /\ refs = 0
  /\ loaded' = FALSE
  /\ UNCHANGED <<service, locks, refs, focus, told, docVars, sinkVars, spent>>

Host ==
  \/ \E c \in Chars : Type(c)
  \/ Backspace
  \/ \E s \in Selections : Select(s[1], s[2])
  \/ \E d \in Docs \cup {NoDoc}, fault \in {"none", "unadviseEdit", "top", "advise"} :
       SetFocus(d, fault)

Objects ==
  \/ CreateInstance
  \/ \E fault \in {"none", "advise"} : Activate(fault)
  \/ \E fault \in {"none", "unadviseFocus", "unadviseEdit"} : Deactivate(fault)
  \/ ReleaseService
  \/ \E lock \in BOOLEAN : LockServer(lock)
  \/ GetClassObject
  \/ Unload

Next == Host \/ Objects \/ \E d \in Docs : GrantSession(d)

Spec == Init /\ [][Next]_vars

\* An application grants every session in the end.
FairSpec == Spec /\ \A d \in Docs : WF_vars(GrantSession(d))

-----------------------------------------------------------------------------
Session ==
  [from : Nat, to : Nat, replacement : Seq(Letters), word : Seq(Letters),
   touched : BOOLEAN, edited : BOOLEAN]

Advised == [doc : Docs, cookie : Nat \X Nat] \cup {NoAdvise}

\* Types, and ranges and selections that lie in their document.
TypeOK ==
  /\ loaded \in BOOLEAN
  /\ service \in {"none", "idle", "active"} /\ locks \in Nat /\ refs \in Nat
  /\ focus \in Docs \cup {NoDoc} /\ told \in Docs \cup {NoDoc}
  /\ text \in [Docs -> Seq(Chars)]
  /\ advise \in Nat /\ (advise # NoCookie => advise \in DOMAIN focusSinks)
  /\ \A c \in DOMAIN focusSinks : focusSinks[c] \in Advised
  /\ \A d \in Docs :
       /\ sel[d] \in Nat \X Nat /\ sel[d][1] <= sel[d][2] /\ sel[d][2] <= Len(text[d])
       /\ \A i \in 1 .. Len(sessions[d]) :
            /\ sessions[d][i] \in Session
            /\ sessions[d][i].from <= sessions[d][i].to
            /\ sessions[d][i].to <= Len(text[d])

\* The range starts a word and the boundary follows it.
WholeWord(t, from, to) ==
  /\ from = 0 \/ EndsWord(t[from])
  /\ to < Len(t) /\ t[to + 1] \in Boundaries

\* An edit session that waits covers the word the broker was asked about, all of it and
\* nothing else, unless the range itself was edited meanwhile; and until the document
\* is edited at all that is a whole word, not the end of one that is longer than the
\* window of read_trailing_token (lib.rs 139-189).
SessionsCoverTheirWord ==
  \A d \in Docs : \A i \in 1 .. Len(sessions[d]) :
    LET s == sessions[d][i]
    IN  /\ ~s.touched => Covered(text[d], s.from, s.to) = s.word
        /\ ~s.edited  => WholeWord(text[d], s.from, s.to)

\* As long as no call of the adapter failed, exactly one sink is on the context that
\* the text service was told has the focus, and none on any other: a word is neither
\* evaluated twice nor evaluated where the user is not (lib.rs 311-370, 405-432).
OneSinkOnTheFocus ==
  spent["fault"] = 0 =>
    \A d \in Docs :
      Cardinality(editSinks[d]) = IF service = "active" /\ d = told THEN 1 ELSE 0

NothingLives ==
  /\ service = "none" /\ locks = 0 /\ focusSinks = <<>>
  /\ \A d \in Docs : editSinks[d] = {} /\ sessions[d] = <<>>

\* However the calls of the adapter fail, every add_ref has its release: no object but the
\* class factory outlives the module, neither a sink that a failed call left behind nor a
\* session that an application has yet to grant; and when the last of them is dropped the
\* counter is back at zero and keeps the module no longer (lib.rs 77-86, 199-212, 258-277,
\* 302-345, 390-402, 485-491).
NothingOutlivesTheModule ==
  /\ ~loaded => NothingLives
  /\ NothingLives => refs = 0

\* The adapter is called back for its own edits; it comes to rest all the same
\* (lib.rs 229-287).
CorrectionsSettle == <>[](\A d \in Docs : sessions[d] = <<>>)

\* What is replaced is the word that was detected.
OnlyTheDetectedWordIsReplaced ==
  [][\A d \in Docs :
       (sessions[d] # <<>> /\ Len(sessions'[d]) < Len(sessions[d])) =>
         LET s == Head(sessions[d]) IN Covered(text[d], s.from, s.to) = s.word]_vars

=============================================================================
