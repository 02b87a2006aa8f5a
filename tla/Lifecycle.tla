----------------------------- MODULE Lifecycle ------------------------------
(***************************************************************************)
(* The processes of LangCheck and what they share outside of memory: the   *)
(* configuration file (langcheck-app/src/persistence.rs, config.rs), the   *)
(* Run value of the registry and the instance mutex (langcheck-windows/    *)
(* src/startup), and the machine-wide registration of the text service     *)
(* (langcheck-windows/src/tsf.rs, langcheck-tsf/src/lib.rs).               *)
(*                                                                         *)
(* A process runs one command of main.rs: the resident --background with   *)
(* its tray, --broker-serve, or one that changes a setting and ends.  One  *)
(* action per access to the shared state; any process may crash between    *)
(* any two, and any call may fail.                                         *)
(***************************************************************************)
EXTENDS Integers, Sequences, FiniteSets

CONSTANTS
  Procs,
  Absent, Torn,   \* no such file; a file that is written only in part
  Budget          \* how many commands, toggles, crashes, failing calls, edits

\* Config: the fields that commands write and one (tuned) that only a person edits.
Config == [tsf : BOOLEAN, start : BOOLEAN, tuned : BOOLEAN]
Default == [tsf |-> TRUE, start |-> FALSE, tuned |-> FALSE]

TheEditor == "editor"

ASSUME LifecycleAssumption ==
  /\ Absent \notin Config \cup Procs /\ Torn \notin Config /\ Absent # Torn
  /\ TheEditor \notin Procs
  /\ Budget \in [{"command", "toggle", "crash", "fault", "edit"} -> Nat]

VARIABLES
  file,        \* config.toml
  dir,         \* the data directory exists
  temp,        \* per process: the temporary sibling of its process id
  runKey,      \* the Run value of the registry is set
  registered,  \* what the registration of the text service has written
  mutex,       \* the process that holds the instance mutex, or Absent
  pc, command, \* per process: where it is, in which command
  config,      \* per process: the configuration it loaded
  tsfSwitch,   \* per process: SharedState.tsf_enabled
  editor,      \* what a person has open in the editor; saving
  failed,      \* per process: which results of DllUnregisterServer are errors, so far
  spent,       \* how much of Budget is used
  \* history variables, read by properties only
  alone,       \* the process whose registration command no other overlaps, or Absent
  outcome,     \* what the last command that was alone ended with, or Absent
  stale,       \* processes (and the editor) whose copy of the file is out of date
  wanted,      \* the settings as the commands that succeeded left them
  excused      \* why settings may be lost, or the registry disagree

fileVars == <<file, dir, temp>>
machineVars == <<runKey, registered>>
procVars == <<pc, command, config, tsfSwitch, mutex>>
registrationVars == <<failed, alone, outcome>>
otherVars == <<registrationVars, stale, wanted, excused>>
vars == <<fileVars, machineVars, procVars, editor, spent, otherVars>>

NoCommand == [name |-> "none", on |-> FALSE]
Commands ==
  [name : {"tsf", "startup", "register"}, on : BOOLEAN]
    \cup [name : {"background", "broker-serve", "reset"}, on : {FALSE}]

Init ==
  /\ file = Absent /\ dir = FALSE
  /\ temp = [p \in Procs |-> Absent]
  /\ runKey = FALSE /\ registered = {} /\ mutex = Absent
  /\ pc = [p \in Procs |-> "idle"]
  /\ command = [p \in Procs |-> NoCommand]
  /\ config = [p \in Procs |-> Default]
  /\ tsfSwitch = [p \in Procs |-> TRUE]
  /\ editor = [text |-> Absent, saving |-> FALSE]
  /\ spent = [b \in DOMAIN Budget |-> 0]
  /\ failed = [p \in Procs |-> {}] /\ alone = Absent /\ outcome = Absent
  /\ stale = {} /\ wanted = Default /\ excused = {}

Spend(what) ==
  /\ spent[what] < Budget[what]
  /\ spent' = [spent EXCEPT ![what] = @ + 1]

\* ok, or one of the calls that fail.
Call(ok) == IF ok THEN UNCHANGED spent ELSE Spend("fault")

Goto(p, label) == pc' = [pc EXCEPT ![p] = label]
Background(p) == command[p].name \in {"background", "toggle"}
Resident(p) == Background(p) \/ command[p].name = "broker-serve"

\* Inside DllRegisterServer or DllUnregisterServer.
Registering(p) == pc[p] \in {"clsid", "values", "service", "profile", "category"}

\* Where a process goes when its command, or the menu item, is done.
Finish(p) == Goto(p, IF Resident(p) THEN "serving" ELSE "idle")

\* The file has changed: every other copy of it is out of date.
Outdates(writer) == stale' = (Procs \cup {TheEditor, writer}) \ {writer}

-----------------------------------------------------------------------------
(* Commands.                                                               *)

\* main: the process starts.  Registration runs elevated, in a second process that the
\* user consents to.
Launch(p, c) ==
  /\ pc[p] = "idle"
  /\ Spend("command")
  /\ command' = [command EXCEPT ![p] = c]
  /\ Goto(p, CASE c.name = "background"             -> "acquire"
               [] c.name \in {"tsf", "broker-serve"} -> "load"
               [] c.name = "startup"                -> "registry"
               [] c.name = "register" /\ c.on       -> "clsid"
               [] c.name = "register" /\ ~c.on      -> "category"
               [] c.name = "reset"                  -> "delete")
  /\ failed' = [failed EXCEPT ![p] = {}]
  /\ IF c.name = "register"
       THEN /\ alone' = IF \E q \in Procs : Registering(q) THEN Absent ELSE p
            /\ outcome' = Absent
       ELSE UNCHANGED <<alone, outcome>>
  /\ UNCHANGED <<fileVars, machineVars, config, tsfSwitch, mutex, editor, stale, wanted, excused>>

\* An instance that does not look at ERROR_ALREADY_EXISTS.
AcquireAnyway(p, ok) ==
  /\ pc[p] = "acquire"
  /\ Call(ok)
  /\ IF ok THEN mutex' = p /\ Goto(p, "load")
           ELSE UNCHANGED mutex /\ Goto(p, "idle")
  /\ UNCHANGED <<fileVars, machineVars, command, config, tsfSwitch, editor, otherVars>>

\* SingleInstance::acquire; without the mutex, for whatever reason, the process ends.
Acquire(p, ok) ==
  /\ pc[p] = "acquire"
  /\ Call(ok)
  /\ IF ok /\ mutex = Absent THEN mutex' = p /\ Goto(p, "load")
                             ELSE UNCHANGED mutex /\ Goto(p, "idle")
  /\ UNCHANGED <<fileVars, machineVars, command, config, tsfSwitch, editor, otherVars>>

\* Config::load_str: defaults for what is missing, unreadable or malformed.
Loaded == IF file \in Config THEN file ELSE Default

\* The command's own field, set in what was loaded.
Changed(c, old) ==
  CASE c.name \in {"tsf", "toggle"} -> [old EXCEPT !.tsf = c.on]
    [] c.name = "startup"           -> [old EXCEPT !.start = c.on]
    [] OTHER                        -> old

\* A setting that is written over defaults instead of over what is there.
LoadDefaults(p) ==
  /\ pc[p] = "load"
  /\ config' = [config EXCEPT ![p] = Changed(command[p], Default)]
  /\ stale' = IF file = Torn THEN stale \cup {p} ELSE stale \ {p}
  /\ Goto(p, IF command[p].name \in {"background", "broker-serve"} THEN "check" ELSE "temp")
  /\ UNCHANGED <<fileVars, machineVars, command, tsfSwitch, mutex, editor, spent,
                 registrationVars, wanted, excused>>

\* load_config, and the change that the command makes to it.
Load(p) ==
  /\ pc[p] = "load"
  /\ config' = [config EXCEPT ![p] = Changed(command[p], Loaded)]
  /\ stale' = IF file = Torn THEN stale \cup {p} ELSE stale \ {p}
  /\ Goto(p, IF command[p].name \in {"background", "broker-serve"} THEN "check" ELSE "temp")
  /\ UNCHANGED <<fileVars, machineVars, command, tsfSwitch, mutex, editor, spent,
                 registrationVars, wanted, excused>>

\* The switch of a resident process is what it loaded.  run_background also writes a
\* file for the user to edit if there is none.
StartServing(p) ==
  /\ pc[p] = "check"
  /\ tsfSwitch' = [tsfSwitch EXCEPT ![p] = config[p].tsf]
  /\ Goto(p, IF command[p].name = "background" /\ file = Absent THEN "temp" ELSE "serving")
  /\ UNCHANGED <<fileVars, machineVars, command, config, mutex, editor, spent, otherVars>>

\* The tray's toggle_tsf changes the switch first and then, as the commands do, the file.
ToggleTsf(p) ==
  /\ pc[p] = "serving" /\ Background(p)
  /\ Spend("toggle")
  /\ tsfSwitch' = [tsfSwitch EXCEPT ![p] = ~@]
  /\ command' = [command EXCEPT ![p] = [name |-> "toggle", on |-> ~tsfSwitch[p]]]
  /\ Goto(p, "load")
  /\ UNCHANGED <<fileVars, machineVars, config, mutex, editor, otherVars>>

\* Exit, in the tray's menu or by closing the console.
Exit(p) ==
  /\ pc[p] = "serving"
  /\ Goto(p, "idle")
  /\ mutex' = IF mutex = p THEN Absent ELSE mutex
  /\ UNCHANGED <<fileVars, machineVars, command, config, tsfSwitch, editor, spent, otherVars>>

Saving(p) == pc[p] \in {"load", "temp", "write", "rename", "cleanup"}

\* A registry call whose failure the command does not heed.
SetRunKeyOrNot(p, ok) ==
  /\ pc[p] = "registry"
  /\ Call(ok)
  /\ runKey' = IF ok THEN command[p].on ELSE runKey
  /\ Goto(p, "load")
  /\ excused' = excused \cup
       {"crossed" : q \in {x \in Procs : Saving(x) /\ command[x].name = "startup"}}
  /\ UNCHANGED <<fileVars, registered, command, config, tsfSwitch, mutex, editor,
                 registrationVars, stale, wanted>>

\* set_startup writes the registry first; deleting an absent value succeeds.
SetRunKey(p, ok) ==
  /\ pc[p] = "registry"
  /\ Call(ok)
  /\ runKey' = IF ok THEN command[p].on ELSE runKey
  /\ Goto(p, IF ok THEN "load" ELSE "idle")
  /\ excused' = excused \cup
       {"crossed" : q \in {x \in Procs : Saving(x) /\ command[x].name = "startup"}}
  /\ UNCHANGED <<fileVars, registered, command, config, tsfSwitch, mutex, editor,
                 registrationVars, stale, wanted>>

-----------------------------------------------------------------------------
(* atomic_write.                                                           *)

\* What a command that fails after it wrote the registry leaves behind.
HalfDone(p) ==
  excused' = excused \cup
    {"half done" : x \in {command[p].name} \cap (IF Saving(p) THEN {"startup"} ELSE {})}

\* create_dir_all may have made the directory when a later call fails.
MakeDir(ok) == dir' \in {TRUE} \cup (IF ok THEN {} ELSE {dir})

\* A save that opens the file itself.
CreateInPlace(p, ok) ==
  /\ pc[p] = "temp"
  /\ Call(ok)
  /\ MakeDir(ok) /\ file' = IF ok THEN Torn ELSE file
  /\ IF ok THEN Goto(p, "write") /\ UNCHANGED excused ELSE Finish(p) /\ HalfDone(p)
  /\ UNCHANGED <<temp, machineVars, command, config, tsfSwitch, mutex, editor,
                 registrationVars, stale, wanted>>

\* create_dir_all and the opening of the sibling; fs::write has two halves.
CreateTemp(p, ok) ==
  /\ pc[p] = "temp"
  /\ Call(ok)
  /\ MakeDir(ok) /\ temp' = IF ok THEN [temp EXCEPT ![p] = Torn] ELSE temp
  /\ IF ok THEN Goto(p, "write") /\ UNCHANGED excused ELSE Finish(p) /\ HalfDone(p)
  /\ UNCHANGED <<file, machineVars, command, config, tsfSwitch, mutex, editor,
                 registrationVars, stale, wanted>>

\* The sibling may be gone by now: a reset deletes it.
WriteTemp(p, ok) ==
  /\ pc[p] = "write"
  /\ Call(ok)
  /\ temp' = IF ok /\ temp[p] = Torn THEN [temp EXCEPT ![p] = config[p]] ELSE temp
  /\ IF ok THEN Goto(p, "rename") /\ UNCHANGED excused ELSE Finish(p) /\ HalfDone(p)
  /\ UNCHANGED <<file, dir, machineVars, command, config, tsfSwitch, mutex, editor,
                 registrationVars, stale, wanted>>

Rename(p) ==
  /\ pc[p] = "rename"
  /\ temp[p] # Absent
  /\ file' = temp[p]
  /\ temp' = [temp EXCEPT ![p] = Absent]
  /\ Outdates(p)
  /\ wanted' = Changed(command[p], wanted)
  /\ excused' = IF p \in stale THEN excused \cup {"lost"} ELSE excused
  /\ Finish(p)
  /\ UNCHANGED <<dir, machineVars, command, config, tsfSwitch, mutex, editor, spent, registrationVars>>

RenameFails(p) ==
  /\ pc[p] = "rename"
  /\ Call(temp[p] = Absent)
  /\ Goto(p, "cleanup")
  /\ UNCHANGED <<fileVars, machineVars, command, config, tsfSwitch, mutex, editor, otherVars>>

RemoveTemp(p) ==
  /\ pc[p] = "cleanup"
  /\ temp' = [temp EXCEPT ![p] = Absent]
  /\ Finish(p) /\ HalfDone(p)
  /\ UNCHANGED <<file, dir, machineVars, command, config, tsfSwitch, mutex, editor, spent,
                 registrationVars, stale, wanted>>

\* A crash, anywhere: what is on disk and in the registry stays, the mutex does not.
Crash(p) ==
  /\ pc[p] # "idle"
  /\ Spend("crash")
  /\ Goto(p, "idle")
  /\ mutex' = IF mutex = p THEN Absent ELSE mutex
  /\ HalfDone(p)
  /\ UNCHANGED <<fileVars, machineVars, command, config, tsfSwitch, editor,
                 registrationVars, stale, wanted>>

-----------------------------------------------------------------------------
(* reset_state: remove_dir_all, file by file.  The registry is left alone. *)

DeleteConfig(p) ==
  /\ pc[p] = "delete" /\ file # Absent
  /\ file' = Absent
  /\ wanted' = Default
  /\ Outdates(p)
  /\ excused' = IF runKey THEN excused \cup {"reset"} ELSE excused
  /\ UNCHANGED <<dir, temp, machineVars, procVars, editor, spent, registrationVars>>

DeleteTemp(p, q) ==
  /\ pc[p] = "delete" /\ temp[q] # Absent
  /\ temp' = [temp EXCEPT ![q] = Absent]
  /\ UNCHANGED <<file, dir, machineVars, procVars, editor, spent, otherVars>>

\* A directory that is deleted although a file has come into it.
DeleteDirAnyway(p) ==
  /\ pc[p] = "delete"
  /\ dir' = FALSE
  /\ Finish(p)
  /\ UNCHANGED <<file, temp, machineVars, command, config, tsfSwitch, mutex, editor, spent,
                 otherVars>>

DeleteDir(p) ==
  /\ pc[p] = "delete"
  /\ file = Absent /\ \A q \in Procs : temp[q] = Absent
  /\ dir' = FALSE
  /\ Finish(p)
  /\ UNCHANGED <<file, temp, machineVars, command, config, tsfSwitch, mutex, editor, spent,
                 otherVars>>

DeleteFails(p) ==
  /\ pc[p] = "delete"
  /\ Spend("fault")
  /\ Finish(p)
  /\ UNCHANGED <<fileVars, machineVars, command, config, tsfSwitch, mutex, editor, otherVars>>

-----------------------------------------------------------------------------
(* "Open settings": a person edits the file in an editor that writes in    *)
(* place.                                                                  *)

OpenEditor ==
  /\ editor.text = Absent /\ file \in Config
  /\ Spend("edit")
  /\ editor' = [editor EXCEPT !.text = file]
  /\ stale' = stale \ {TheEditor}
  /\ UNCHANGED <<fileVars, machineVars, procVars, registrationVars, wanted, excused>>

BeginSave ==
  /\ editor.text # Absent /\ ~editor.saving /\ dir
  /\ editor' = [editor EXCEPT !.saving = TRUE]
  /\ file' = Torn
  /\ stale' = stale \cup Procs
  /\ UNCHANGED <<dir, temp, machineVars, procVars, spent, registrationVars, wanted, excused>>

EndSave ==
  /\ editor.saving
  /\ editor' = [text |-> Absent, saving |-> FALSE]
  /\ file' = [editor.text EXCEPT !.tuned = ~@] /\ dir' = TRUE
  /\ wanted' = [wanted EXCEPT !.tuned = ~@]
  /\ excused' = IF TheEditor \in stale THEN excused \cup {"lost"} ELSE excused
  /\ stale' = stale \cup Procs
  /\ UNCHANGED <<temp, machineVars, procVars, spent, registrationVars>>

-----------------------------------------------------------------------------
(* DllRegisterServer and DllUnregisterServer, which tsf.rs calls in the    *)
(* elevated process.                                                       *)

Registers(p, step) == pc[p] = step /\ command[p] = [name |-> "register", on |-> TRUE]
Unregisters(p, step) == pc[p] = step /\ command[p] = [name |-> "register", on |-> FALSE]

\* The command is over: it ends with an error if anything failed, tsf.and(registry).
Report(p, what) ==
  /\ Goto(p, "idle")
  /\ alone' = Absent
  /\ outcome' = IF alone = p THEN [on |-> command[p].on, failed |-> failed[p] \cup what]
                             ELSE Absent
  /\ UNCHANGED failed

\* The CLSID key, its values, the text service, its profile, its category: the first
\* call that fails ends the registration and leaves what was written.
Register(p, ok) ==
  /\ \E step \in {<<"clsid", "values">>, <<"values", "service">>, <<"service", "profile">>,
                  <<"profile", "category">>, <<"category", "idle">>} :
       /\ Registers(p, step[1])
       /\ registered' = IF ok THEN registered \cup {step[1]} ELSE registered
       /\ \/ ok /\ step[2] # "idle" /\ Goto(p, step[2]) /\ UNCHANGED registrationVars
          \/ ok /\ step[2] = "idle" /\ Report(p, {})
          \/ ~ok /\ Report(p, {IF step[1] \in {"clsid", "values"} THEN "registry" ELSE "tsf"})
  /\ Call(ok)
  /\ UNCHANGED <<fileVars, runKey, command, config, tsfSwitch, mutex, editor, stale,
                 wanted, excused>>

\* A removal that ends at the first error.
UnregisterProfileOrStop(p, ok) ==
  /\ \/ /\ Unregisters(p, "category")
        /\ Call(ok)
        /\ registered' = IF ok THEN registered \ {"category"} ELSE registered
        /\ IF ok THEN Goto(p, "service") /\ UNCHANGED registrationVars ELSE Report(p, {"tsf"})
     \/ /\ Unregisters(p, "service")
        /\ Call(ok \/ "service" \notin registered)
        /\ registered' = IF ok THEN registered \ {"service", "profile"} ELSE registered
        /\ IF ok THEN Goto(p, "clsid") /\ UNCHANGED registrationVars ELSE Report(p, {"tsf"})
  /\ UNCHANGED <<fileVars, runKey, command, config, tsfSwitch, mutex, editor, stale,
                 wanted, excused>>

\* unregister_tsf_profile: what removing the category returns is ignored, but without its
\* manager neither it nor the profile is tried; the class is, whatever happens here.
UnregisterProfile(p, ok) ==
  /\ \/ /\ Unregisters(p, "category")
        /\ Call(ok)
        /\ registered' = IF ok THEN registered \ {"category"} ELSE registered
        /\ \/ Goto(p, "service") /\ UNCHANGED failed
           \/ ~ok /\ Goto(p, "clsid") /\ failed' = [failed EXCEPT ![p] = @ \cup {"tsf"}]
     \/ /\ Unregisters(p, "service")
        /\ Call(ok \/ "service" \notin registered)
        /\ registered' = IF ok THEN registered \ {"service", "profile"} ELSE registered
        /\ failed' = IF ok THEN failed ELSE [failed EXCEPT ![p] = @ \cup {"tsf"}]
        /\ Goto(p, "clsid")
  /\ UNCHANGED <<fileVars, runKey, command, config, tsfSwitch, mutex, editor, alone, outcome,
                 stale, wanted, excused>>

\* delete_com_registration: a key with what is below it; that may fail in between, and
\* does so at once when there is no key.
DeleteClsid(p, ok) ==
  /\ Unregisters(p, "clsid")
  /\ Call(ok \/ "clsid" \notin registered)
  /\ \E gone \in IF ok THEN {{"clsid", "values"}} ELSE {{}, {"values"}} :
       registered' = registered \ gone
  /\ Report(p, IF ok THEN {} ELSE {"registry"})
  /\ UNCHANGED <<fileVars, runKey, command, config, tsfSwitch, mutex, editor, stale,
                 wanted, excused>>

-----------------------------------------------------------------------------
Step(p) ==
  \/ Load(p) \/ StartServing(p) \/ ToggleTsf(p) \/ Exit(p)
  \/ Rename(p) \/ RenameFails(p) \/ RemoveTemp(p) \/ Crash(p)
  \/ DeleteConfig(p) \/ (\E q \in Procs : DeleteTemp(p, q)) \/ DeleteDir(p) \/ DeleteFails(p)
  \/ \E ok \in BOOLEAN :
       \/ Acquire(p, ok) \/ SetRunKey(p, ok) \/ CreateTemp(p, ok) \/ WriteTemp(p, ok)
       \/ Register(p, ok) \/ UnregisterProfile(p, ok) \/ DeleteClsid(p, ok)

Next ==
  \/ \E p \in Procs : (\E c \in Commands : Launch(p, c)) \/ Step(p)
  \/ OpenEditor \/ BeginSave \/ EndSave

Spec == Init /\ [][Next]_vars

-----------------------------------------------------------------------------
Files == Config \cup {Absent, Torn}

Labels == {"idle", "acquire", "load", "check", "temp", "write", "rename", "cleanup",
           "serving", "registry", "delete", "clsid", "values", "service", "profile", "category"}

\* Types; and a file is in its directory.
TypeOK ==
  /\ file \in Files /\ dir \in BOOLEAN /\ temp \in [Procs -> Files]
  /\ runKey \in BOOLEAN /\ mutex \in Procs \cup {Absent}
  /\ registered \subseteq {"clsid", "values", "service", "profile", "category"}
  /\ pc \in [Procs -> Labels]
  /\ command \in [Procs -> [name : {"none", "toggle", "tsf", "startup", "register",
                                    "background", "broker-serve", "reset"}, on : BOOLEAN]]
  /\ config \in [Procs -> Config] /\ tsfSwitch \in [Procs -> BOOLEAN]
  /\ editor \in [text : Config \cup {Absent}, saving : BOOLEAN]
  /\ failed \in [Procs -> SUBSET {"tsf", "registry"}] /\ alone \in Procs \cup {Absent}
  /\ outcome \in [on : BOOLEAN, failed : SUBSET {"tsf", "registry"}] \cup {Absent}
  /\ stale \subseteq Procs \cup {TheEditor} /\ wanted \in Config
  /\ file # Absent \/ (\E p \in Procs : temp[p] # Absent) => dir

\* No command loses a setting of another, and no failure or crash loses one, unless two
\* of them, or one and the editor, had the file loaded at the same time: load, change and
\* save are not under a lock (main.rs 102-110, 223-238, 399-409).
NoSettingIsLost ==
  ("lost" \notin excused /\ file # Torn) =>
    wanted = IF file = Absent THEN Default ELSE file

\* The registry and the configuration agree about start at login, between commands that
\* set it; unless one of them failed half way, two of them crossed, a save was lost or a
\* reset left the registry as it was (main.rs 223-238).
RegistryAgrees ==
  (excused = {} /\ \A p \in Procs : command[p].name = "startup" => ~Saving(p)) =>
    runKey = wanted.start

\* At most one resident process observes the keyboard, across crashes and restarts
\* (startup/mod.rs 141-170, main.rs 134-137).
OneObserver ==
  \A p, q \in Procs :
    (/\ Background(p) /\ pc[p] \notin {"idle", "acquire"}
     /\ Background(q) /\ pc[q] \notin {"idle", "acquire"}) => p = q

\* What a registration command ends with is true of the registry, whatever earlier commands
\* that failed or crashed left there: a registration without an error is complete; in a
\* removal the text service is gone unless its own result is an error, and so is the class
\* that applications load, which a failing TSF call must not save.  Unless a second such
\* command overlapped it (lib.rs 823-847, main.rs 276-289).
OutcomeIsTrue ==
  outcome # Absent =>
    IF outcome.on
      THEN outcome.failed = {} =>
             registered = {"clsid", "values", "service", "profile", "category"}
      ELSE /\ "tsf" \notin outcome.failed => registered \cap {"service", "profile"} = {}
           /\ "registry" \notin outcome.failed => registered \cap {"clsid", "values"} = {}

\* The file as its readers see it: whatever fails or crashes, a process installs a whole
\* version of it or none (persistence.rs 34-50).
Installing == {"temp", "write", "rename"}
Pending == [p \in Procs |-> IF pc[p] \in Installing THEN config[p] ELSE Absent]

Atomic ==
  INSTANCE AtomicFile WITH
    Contents <- Config, pending <- Pending, editing <- editor.saving

FileIsAtomic == Atomic!Spec

=============================================================================
