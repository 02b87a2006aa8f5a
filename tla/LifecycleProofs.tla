-------------------------- MODULE LifecycleProofs ---------------------------
(***************************************************************************)
(* Lifecycle, for any number of processes and any budget of commands,      *)
(* crashes, failing calls and edits: there is one observer, what a     *)
(* registration command ends with is true, and the steps of atomic_write   *)
(* implement AtomicFile.                                                   *)
(***************************************************************************)
EXTENDS Lifecycle, TLAPS

\* What the types need: an editor that saves has a text.
EditorHasText == editor.saving => editor.text # Absent

\* What OneObserver needs: the process that observes holds the mutex.
ObserverHoldsMutex ==
  \A p \in Procs : Background(p) /\ pc[p] \notin {"idle", "acquire"} => mutex = p

\* What the refinement needs: a sibling that is about to be renamed is whole, and is the
\* configuration of its process, unless a reset took it away.
SiblingIsWhole ==
  \A p \in Procs :
    /\ pc[p] = "write"  => temp[p] \in {Torn, Absent}
    /\ pc[p] = "rename" => temp[p] \in {config[p], Absent}

\* What NoSettingIsLost needs: a process whose copy of the file is up to date is about to
\* write the file with its own setting changed; an editor with a copy that is up to date
\* has what the commands want the file to be.
CopiesAreCurrent ==
  /\ \A p \in Procs \ stale :
       /\ file # Torn
       /\ pc[p] \in {"check", "temp", "write", "rename"} =>
            config[p] = Changed(command[p], Loaded)
  /\ TheEditor \notin stale /\ editor.text # Absent /\ "lost" \notin excused =>
       editor.text = wanted

NothingIsLost == CopiesAreCurrent /\ NoSettingIsLost

\* What RegistryAgrees needs: which commands can be where; and, as long as nothing excuses
\* them, that at most one command is between its write to the registry and its write to
\* the file, and that the registry has what it wants.
LabelFitsCommand ==
  \A p \in Procs :
    /\ pc[p] = "acquire" => command[p].name = "background"
    /\ pc[p] = "registry" => command[p].name = "startup"
    /\ pc[p] = "check" => command[p].name \in {"background", "broker-serve"}

SettingStartup(p) == command[p].name = "startup" /\ Saving(p)

StartupInOrder ==
  excused = {} =>
    /\ \A p, q \in Procs : SettingStartup(p) /\ SettingStartup(q) => p = q
    /\ \A p \in Procs : SettingStartup(p) => (runKey <=> command[p].on)
    /\ (\A p \in Procs : ~SettingStartup(p)) => (runKey <=> wanted.start)

RegistryIsInOrder == LabelFitsCommand /\ StartupInOrder

\* What OutcomeIsTrue needs: no other registration command runs beside the one that is
\* alone, none runs at all when there is an outcome, and the one that is alone has written,
\* or removed, everything before the place where it is.
OneRegistration ==
  /\ alone # Absent => \A q \in Procs : Registering(q) => q = alone
  /\ outcome # Absent => \A q \in Procs : ~Registering(q)

SoFar ==
  \A p \in Procs : alone = p =>
    IF command[p].on
      THEN /\ pc[p] = "values"   => {"clsid"} \subseteq registered
           /\ pc[p] = "service"  => {"clsid", "values"} \subseteq registered
           /\ pc[p] = "profile"  => {"clsid", "values", "service"} \subseteq registered
           /\ pc[p] = "category" => {"clsid", "values", "service", "profile"} \subseteq registered
      ELSE pc[p] = "clsid" /\ "tsf" \notin failed[p] =>
             registered \cap {"service", "profile"} = {}

OutcomeIsInOrder == OneRegistration /\ SoFar /\ OutcomeIsTrue

Types == TypeOK /\ EditorHasText

InductiveInvariant ==
  /\ Types
  /\ ObserverHoldsMutex
  /\ SiblingIsWhole
  /\ OutcomeIsInOrder
  /\ NothingIsLost
  /\ RegistryIsInOrder

-----------------------------------------------------------------------------
(* Types.                                                                  *)

CommandRecords ==
  [name : {"none", "toggle", "tsf", "startup", "register", "background", "broker-serve",
           "reset"}, on : BOOLEAN]

\* A command changes a configuration into a configuration.
LEMMA ChangedType ==
  ASSUME NEW c \in CommandRecords, NEW old \in Config
  PROVE  Changed(c, old) \in Config
<1>1. c.on \in BOOLEAN
  BY DEF CommandRecords
<1> QED
  BY <1>1 DEF Changed, Config

\* So does what is loaded, whatever the file is.
LEMMA LoadedType == Loaded \in Config
BY DEF Loaded, Default, Config

\* Each group of actions keeps the types.
LEMMA CommandsKeepTypes ==
  ASSUME Types, NEW p \in Procs,
         \/ \E c \in Commands : Launch(p, c)
         \/ Load(p) \/ StartServing(p) \/ ToggleTsf(p) \/ Exit(p) \/ Crash(p)
         \/ \E ok \in BOOLEAN : Acquire(p, ok) \/ SetRunKey(p, ok)
  PROVE  Types'
<1> USE DEF Types, TypeOK, EditorHasText, Goto, fileVars, machineVars, otherVars,
           registrationVars
<1>1. ASSUME NEW c \in Commands, Launch(p, c) PROVE Types'
  <2>1. c \in CommandRecords
    BY DEF Commands, CommandRecords
  <2>2. command' \in [Procs -> CommandRecords]
    BY <1>1, <2>1 DEF Launch, CommandRecords
  <2>3. pc' \in [Procs -> Labels]
    BY <1>1 DEF Launch, Commands, Labels
  <2>4. failed' \in [Procs -> SUBSET {"tsf", "registry"}]
    BY <1>1 DEF Launch
  <2>5. alone' \in Procs \cup {Absent} /\ outcome' \in {outcome, Absent}
    BY <1>1 DEF Launch
  <2>6. UNCHANGED <<file, dir, temp, runKey, registered, config, tsfSwitch, mutex, editor, stale,
                    wanted, excused>>
    BY <1>1 DEF Launch
  <2> QED
    BY <2>2, <2>3, <2>4, <2>5, <2>6 DEF CommandRecords
<1>2. ASSUME NEW ok \in BOOLEAN, Acquire(p, ok) PROVE Types'
  BY <1>2 DEF Acquire, Labels
<1>3. ASSUME Load(p) PROVE Types'
  <2>1. Changed(command[p], Loaded) \in Config
    BY LoadedType, ChangedType DEF CommandRecords
  <2>2. pc' \in [Procs -> Labels]
    BY <1>3 DEF Load, Labels
  <2> QED
    BY <1>3, <2>1, <2>2 DEF Load
<1>4. ASSUME StartServing(p) PROVE Types'
  <2>1. config[p].tsf \in BOOLEAN
    BY DEF Config
  <2>2. pc' \in [Procs -> Labels]
    BY <1>4 DEF StartServing, Labels
  <2> QED
    BY <1>4, <2>1, <2>2 DEF StartServing
<1>5. ASSUME ToggleTsf(p) PROVE Types'
  <2>1. pc' \in [Procs -> Labels]
    BY <1>5 DEF ToggleTsf, Labels
  <2>2. command' \in [Procs -> CommandRecords]
    BY <1>5 DEF ToggleTsf, CommandRecords
  <2>3. tsfSwitch' \in [Procs -> BOOLEAN]
    BY <1>5 DEF ToggleTsf
  <2> QED
    BY <1>5, <2>1, <2>2, <2>3 DEF ToggleTsf, CommandRecords
<1>6. ASSUME Exit(p) PROVE Types'
  BY <1>6 DEF Exit, Labels
<1>7. ASSUME Crash(p) PROVE Types'
  BY <1>7 DEF Crash, Labels
<1>8. ASSUME NEW ok \in BOOLEAN, SetRunKey(p, ok) PROVE Types'
  <2>1. command[p].on \in BOOLEAN
    BY DEF CommandRecords
  <2>2. pc' \in [Procs -> Labels]
    BY <1>8 DEF SetRunKey, Labels
  <2> QED
    BY <1>8, <2>1, <2>2 DEF SetRunKey
<1> QED
  BY <1>1, <1>2, <1>3, <1>4, <1>5, <1>6, <1>7, <1>8

LEMMA SavesKeepTypes ==
  ASSUME Types, NEW p \in Procs,
         \/ Rename(p) \/ RenameFails(p) \/ RemoveTemp(p)
         \/ \E ok \in BOOLEAN : CreateTemp(p, ok) \/ WriteTemp(p, ok)
  PROVE  Types'
<1> USE DEF Types, TypeOK, EditorHasText, Goto, Finish, fileVars, machineVars, otherVars,
           registrationVars
<1>1. Config \subseteq Files /\ Absent \in Files /\ Torn \in Files
  BY DEF Files
<1>2. {"idle", "serving", "write", "rename", "cleanup"} \subseteq Labels
  BY DEF Labels
<1>3. ASSUME NEW ok \in BOOLEAN, CreateTemp(p, ok) PROVE Types'
  <2>1. dir' \in BOOLEAN /\ (dir => dir') /\ (ok => dir')
    BY <1>3 DEF CreateTemp, MakeDir
  <2>2. pc' \in [Procs -> Labels] /\ temp' \in [Procs -> Files] /\ (ok \/ temp' = temp)
    BY <1>1, <1>2, <1>3 DEF CreateTemp
  <2>3. UNCHANGED <<file, runKey, registered, command, config, tsfSwitch, mutex, editor, failed, alone,
                    outcome, stale, wanted>>
    BY <1>3 DEF CreateTemp
  <2>4. file' # Absent \/ (\E q \in Procs : temp'[q] # Absent) => dir'
    BY <2>1, <2>2, <2>3
  <2> QED
    BY <2>1, <2>2, <2>3, <2>4
<1>4. ASSUME NEW ok \in BOOLEAN, WriteTemp(p, ok) PROVE Types'
  <2>1. temp' \in {temp, [temp EXCEPT ![p] = config[p]]}
    BY <1>4 DEF WriteTemp
  <2>2. temp' \in [Procs -> Files]
    BY <1>1, <2>1
  <2>3. pc' \in [Procs -> Labels]
    BY <1>2, <1>4 DEF WriteTemp
  <2>4. \A q \in Procs : temp'[q] # Absent => temp[q] # Absent
    BY <1>4, LifecycleAssumption DEF WriteTemp
  <2> QED
    BY <1>4, <2>2, <2>3, <2>4 DEF WriteTemp
<1>5. ASSUME Rename(p) PROVE Types'
  <2>1. wanted' \in Config
    BY <1>5, ChangedType DEF Rename, CommandRecords
  <2>2. stale' \subseteq Procs \cup {TheEditor}
    BY <1>5 DEF Rename, Outdates
  <2>3. file' \in Files /\ temp' \in [Procs -> Files] /\ pc' \in [Procs -> Labels]
    BY <1>1, <1>2, <1>5 DEF Rename
  <2>4. dir
    BY <1>5 DEF Rename
  <2> QED
    BY <1>5, <2>1, <2>2, <2>3, <2>4 DEF Rename
<1>6. ASSUME RenameFails(p) PROVE Types'
  BY <1>2, <1>6 DEF RenameFails
<1>7. ASSUME RemoveTemp(p) PROVE Types'
  BY <1>1, <1>2, <1>7 DEF RemoveTemp
<1> QED
  BY <1>3, <1>4, <1>5, <1>6, <1>7

LEMMA ResetKeepsTypes ==
  ASSUME Types, NEW p \in Procs,
         \/ DeleteConfig(p) \/ (\E q \in Procs : DeleteTemp(p, q)) \/ DeleteDir(p) \/ DeleteFails(p)
  PROVE  Types'
<1> USE DEF Types, TypeOK, EditorHasText, Goto, Finish, fileVars, machineVars, procVars, otherVars,
           registrationVars
<1>1. Config \subseteq Files /\ Absent \in Files
  BY DEF Files
<1>2. {"idle", "serving"} \subseteq Labels
  BY DEF Labels
<1>3. ASSUME DeleteConfig(p) PROVE Types'
  BY <1>1, <1>3 DEF DeleteConfig, Outdates, Default, Config
<1>4. ASSUME NEW q \in Procs, DeleteTemp(p, q) PROVE Types'
  BY <1>1, <1>4 DEF DeleteTemp
<1>5. ASSUME DeleteDir(p) PROVE Types'
  BY <1>2, <1>5 DEF DeleteDir
<1>6. ASSUME DeleteFails(p) PROVE Types'
  BY <1>2, <1>6 DEF DeleteFails
<1> QED
  BY <1>3, <1>4, <1>5, <1>6

LEMMA EditorKeepsTypes ==
  ASSUME Types, OpenEditor \/ BeginSave \/ EndSave
  PROVE  Types'
<1> USE DEF Types, TypeOK, EditorHasText, fileVars, machineVars, procVars, otherVars,
           registrationVars
<1>1. Config \subseteq Files /\ Torn \in Files
  BY DEF Files
<1>2. ASSUME OpenEditor PROVE Types'
  BY <1>2, LifecycleAssumption DEF OpenEditor
<1>3. ASSUME BeginSave PROVE Types'
  BY <1>1, <1>3 DEF BeginSave
<1>4. ASSUME EndSave PROVE Types'
  <2>1. editor.text \in Config
    BY <1>4 DEF EndSave
  <2>2. [editor.text EXCEPT !.tuned = ~@] \in Config /\ [wanted EXCEPT !.tuned = ~@] \in Config
    BY <2>1 DEF Config
  <2>3. editor' \in [text : Config \cup {Absent}, saving : BOOLEAN] /\ ~editor'.saving
    BY <1>4 DEF EndSave
  <2> QED
    BY <1>1, <1>4, <2>2, <2>3 DEF EndSave
<1> QED
  BY <1>2, <1>3, <1>4

\* A registration command is at one of its calls, and goes to another or ends; it touches
\* nothing but the registration.
LEMMA RegistrationMoves ==
  ASSUME Types, NEW p \in Procs, NEW ok \in BOOLEAN,
         Register(p, ok) \/ UnregisterProfile(p, ok) \/ DeleteClsid(p, ok)
  PROVE  /\ Registering(p) /\ (Registering(p)' \/ pc'[p] = "idle")
         /\ \A q \in Procs \ {p} : pc'[q] = pc[q]
         /\ pc' \in [Procs -> Labels]
         /\ UNCHANGED <<file, dir, temp, runKey, command, config, tsfSwitch, mutex, editor, stale,
                        wanted, excused>>
<1> USE DEF Types, TypeOK, fileVars, Labels, Registering
<1>1. ASSUME NEW label \in {"clsid", "values", "service", "profile", "category", "idle"},
             Goto(p, label)
      PROVE  /\ Registering(p)' \/ pc'[p] = "idle"
             /\ \A q \in Procs \ {p} : pc'[q] = pc[q]
             /\ pc' \in [Procs -> Labels]
  BY <1>1 DEF Goto
<1>2. ASSUME Register(p, ok)
      PROVE  Registering(p) /\ \E label \in {"values", "service", "profile", "category", "idle"} :
                                 Goto(p, label)
  BY <1>2 DEF Register, Registers, Report
<1>3. ASSUME UnregisterProfile(p, ok)
      PROVE  Registering(p) /\ \E label \in {"service", "clsid"} : Goto(p, label)
  BY <1>3 DEF UnregisterProfile, Unregisters
<1>4. ASSUME DeleteClsid(p, ok) PROVE Registering(p) /\ Goto(p, "idle")
  BY <1>4 DEF DeleteClsid, Unregisters, Report
<1>5. UNCHANGED <<file, dir, temp, runKey, command, config, tsfSwitch, mutex, editor, stale, wanted,
                  excused>>
  BY DEF Register, UnregisterProfile, DeleteClsid
<1>6. Registering(p) /\ \E label \in {"clsid", "values", "service", "profile", "category", "idle"} :
                          Goto(p, label)
  BY <1>2, <1>3, <1>4
<1> QED
  BY <1>1, <1>5, <1>6

\* What it ends with has its type.
LEMMA ReportType ==
  ASSUME TypeOK, NEW p \in Procs, NEW what \in SUBSET {"tsf", "registry"}, Report(p, what)
  PROVE  /\ failed' = failed /\ alone' \in Procs \cup {Absent}
         /\ outcome' \in [on : BOOLEAN, failed : SUBSET {"tsf", "registry"}] \cup {Absent}
<1>1. command[p].on \in BOOLEAN /\ failed[p] \cup what \in SUBSET {"tsf", "registry"}
  BY DEF TypeOK
<1> QED
  BY <1>1 DEF Report, TypeOK

LEMMA RegistrationKeepsTypes ==
  ASSUME Types, NEW p \in Procs, NEW ok \in BOOLEAN,
         Register(p, ok) \/ UnregisterProfile(p, ok) \/ DeleteClsid(p, ok)
  PROVE  Types'
<1>1. /\ pc' \in [Procs -> Labels]
      /\ UNCHANGED <<file, dir, temp, runKey, command, config, tsfSwitch, mutex, editor, stale,
                     wanted, excused>>
  BY RegistrationMoves
<1>2. registered' \subseteq {"clsid", "values", "service", "profile", "category"}
  <2>1. registered \subseteq {"clsid", "values", "service", "profile", "category"}
    BY DEF Types, TypeOK
  <2>2. ASSUME Register(p, ok)
        PROVE  \E part \in {"clsid", "values", "service", "profile", "category"} :
                 registered' \subseteq registered \cup {part}
    BY <2>2 DEF Register
  <2>3. ASSUME UnregisterProfile(p, ok) \/ DeleteClsid(p, ok) PROVE registered' \subseteq registered
    BY <2>3 DEF UnregisterProfile, DeleteClsid
  <2> QED
    BY <2>1, <2>2, <2>3
<1>3. /\ failed' \in [Procs -> SUBSET {"tsf", "registry"}] /\ alone' \in Procs \cup {Absent}
      /\ outcome' \in [on : BOOLEAN, failed : SUBSET {"tsf", "registry"}] \cup {Absent}
  <2>1. TypeOK
    BY DEF Types
  <2>2. ASSUME Register(p, ok)
        PROVE  UNCHANGED registrationVars \/ \E what \in SUBSET {"tsf", "registry"} : Report(p, what)
    <3>1. PICK step \in {<<"clsid", "values">>, <<"values", "service">>, <<"service", "profile">>,
                         <<"profile", "category">>, <<"category", "idle">>} :
                 \/ UNCHANGED registrationVars
                 \/ Report(p, {})
                 \/ Report(p, {IF step[1] \in {"clsid", "values"} THEN "registry" ELSE "tsf"})
      BY <2>2 DEF Register
    <3>2. {} \in SUBSET {"tsf", "registry"} /\ {"tsf"} \in SUBSET {"tsf", "registry"}
          /\ {"registry"} \in SUBSET {"tsf", "registry"}
      OBVIOUS
    <3> QED
      BY <3>1, <3>2
  <2>3. ASSUME UnregisterProfile(p, ok)
        PROVE  failed' \in [Procs -> SUBSET {"tsf", "registry"}] /\ UNCHANGED <<alone, outcome>>
    <3>1. failed' = failed \/ failed' = [failed EXCEPT ![p] = @ \cup {"tsf"}]
      BY <2>3 DEF UnregisterProfile
    <3> QED
      BY <2>1, <2>3, <3>1 DEF UnregisterProfile, TypeOK
  <2>4. ASSUME DeleteClsid(p, ok) PROVE \E what \in SUBSET {"tsf", "registry"} : Report(p, what)
    <3>1. {} \in SUBSET {"tsf", "registry"} /\ {"registry"} \in SUBSET {"tsf", "registry"}
      OBVIOUS
    <3> QED
      BY <2>4, <3>1 DEF DeleteClsid
  <2>5. ASSUME UNCHANGED registrationVars \/ \E what \in SUBSET {"tsf", "registry"} : Report(p, what)
        PROVE  /\ failed' \in [Procs -> SUBSET {"tsf", "registry"}] /\ alone' \in Procs \cup {Absent}
               /\ outcome' \in [on : BOOLEAN, failed : SUBSET {"tsf", "registry"}] \cup {Absent}
    BY <2>1, <2>5, ReportType DEF registrationVars, TypeOK
  <2> QED
    BY <2>1, <2>2, <2>3, <2>4, <2>5 DEF TypeOK
<1> QED
  BY <1>1, <1>2, <1>3 DEF Types, TypeOK, EditorHasText

\* Every step keeps the types.
LEMMA NextKeepsTypes == Types /\ [Next]_vars => Types'
<1> SUFFICES ASSUME Types, [Next]_vars PROVE Types'
  OBVIOUS
<1>1. CASE UNCHANGED vars
  BY <1>1 DEF Types, TypeOK, EditorHasText, vars, fileVars, machineVars, procVars, otherVars,
               registrationVars
<1>2. CASE OpenEditor \/ BeginSave \/ EndSave
  BY <1>2, EditorKeepsTypes
<1>3. ASSUME NEW p \in Procs, (\E c \in Commands : Launch(p, c)) \/ Step(p) PROVE Types'
  BY <1>3, CommandsKeepTypes, SavesKeepTypes, ResetKeepsTypes, RegistrationKeepsTypes DEF Step
<1> QED
  BY <1>1, <1>2, <1>3 DEF Next

-----------------------------------------------------------------------------
(* One observer.                                                           *)

\* A process that observes goes on with the mutex it has, and none takes it from it.
LEMMA ObserverKeepsMutex ==
  ASSUME Types, ObserverHoldsMutex, NEW p \in Procs, (\E c \in Commands : Launch(p, c)) \/ Step(p)
  PROVE  ObserverHoldsMutex'
<1> USE LifecycleAssumption DEF Types, TypeOK, ObserverHoldsMutex, Background
<1>1. ASSUME NEW c \in Commands, Launch(p, c) PROVE ObserverHoldsMutex'
  <2>1. c.name # "toggle" /\ (c.name = "background" => pc'[p] = "acquire")
    BY <1>1 DEF Launch, Goto, Commands
  <2>2. command'[p] = c /\ \A q \in Procs \ {p} : command'[q] = command[q] /\ pc'[q] = pc[q]
    BY <1>1 DEF Launch, Goto
  <2> QED
    BY <1>1, <2>1, <2>2 DEF Launch
<1>2. ASSUME NEW ok \in BOOLEAN, Acquire(p, ok) PROVE ObserverHoldsMutex'
  BY <1>2 DEF Acquire, Goto
<1>3. ASSUME ToggleTsf(p) PROVE ObserverHoldsMutex'
  <2>1. mutex = p /\ mutex' = mutex
    BY <1>3 DEF ToggleTsf
  <2>2. \A q \in Procs \ {p} : command'[q] = command[q] /\ pc'[q] = pc[q]
    BY <1>3 DEF ToggleTsf, Goto
  <2> QED
    BY <2>1, <2>2
<1>4. ASSUME Exit(p) \/ Crash(p) PROVE ObserverHoldsMutex'
  BY <1>4 DEF Exit, Crash, Goto
<1>5. ASSUME pc[p] \notin {"idle", "acquire"}, command' = command, mutex' = mutex,
             \A q \in Procs \ {p} : pc'[q] = pc[q]
      PROVE  ObserverHoldsMutex'
  BY <1>5
<1>6. ASSUME Load(p) \/ StartServing(p) PROVE ObserverHoldsMutex'
  BY <1>5, <1>6 DEF Load, StartServing, Goto
<1>7. ASSUME Rename(p) \/ RenameFails(p) \/ RemoveTemp(p) PROVE ObserverHoldsMutex'
  BY <1>5, <1>7 DEF Rename, RenameFails, RemoveTemp, Goto, Finish
<1>8. ASSUME DeleteConfig(p) \/ (\E q \in Procs : DeleteTemp(p, q)) \/ DeleteDir(p) \/ DeleteFails(p)
      PROVE  ObserverHoldsMutex'
  BY <1>5, <1>8 DEF DeleteConfig, DeleteTemp, DeleteDir, DeleteFails, Goto, Finish, procVars
<1>9. ASSUME NEW ok \in BOOLEAN, SetRunKey(p, ok) \/ CreateTemp(p, ok) \/ WriteTemp(p, ok)
      PROVE  ObserverHoldsMutex'
  BY <1>5, <1>9 DEF SetRunKey, CreateTemp, WriteTemp, Goto, Finish
<1>10. ASSUME NEW ok \in BOOLEAN, Register(p, ok) \/ UnregisterProfile(p, ok) \/ DeleteClsid(p, ok)
       PROVE  ObserverHoldsMutex'
  BY <1>5, <1>10, RegistrationMoves DEF Registering
<1> QED
  BY <1>1, <1>2, <1>3, <1>4, <1>6, <1>7, <1>8, <1>9, <1>10 DEF Step

-----------------------------------------------------------------------------
(* The sibling file.                                                       *)

\* Nobody but a process itself writes its sibling, and a reset only removes it.
LEMMA SiblingStaysWhole ==
  ASSUME Types, SiblingIsWhole, NEW p \in Procs, (\E c \in Commands : Launch(p, c)) \/ Step(p)
  PROVE  SiblingIsWhole'
<1> USE DEF Types, TypeOK, SiblingIsWhole, fileVars
<1>1. ASSUME \A q \in Procs \ {p} : pc'[q] = pc[q] /\ config'[q] = config[q] /\ temp'[q] = temp[q],
             pc'[p] \notin {"write", "rename"}
      PROVE  SiblingIsWhole'
  BY <1>1
<1>2. ASSUME NEW c \in Commands, Launch(p, c) PROVE SiblingIsWhole'
  <2>1. pc'[p] \notin {"write", "rename"}
    BY <1>2 DEF Launch, Goto, Commands
  <2> QED
    BY <1>1, <1>2, <2>1 DEF Launch, Goto
<1>3. ASSUME Load(p) \/ StartServing(p) \/ \E ok \in BOOLEAN : Acquire(p, ok) PROVE SiblingIsWhole'
  BY <1>1, <1>3 DEF Acquire, Load, StartServing, Goto
<1>4. ASSUME ToggleTsf(p) \/ Exit(p) \/ Crash(p) PROVE SiblingIsWhole'
  BY <1>1, <1>4 DEF ToggleTsf, Exit, Crash, Goto
<1>5. ASSUME Rename(p) \/ RenameFails(p) \/ RemoveTemp(p) PROVE SiblingIsWhole'
  BY <1>1, <1>5 DEF Rename, RenameFails, RemoveTemp, Goto, Finish
<1>6. ASSUME DeleteConfig(p) \/ DeleteDir(p) \/ DeleteFails(p) PROVE SiblingIsWhole'
  BY <1>1, <1>6 DEF DeleteConfig, DeleteDir, DeleteFails, Goto, Finish, procVars
<1>7. ASSUME NEW q \in Procs, DeleteTemp(p, q) PROVE SiblingIsWhole'
  BY <1>7 DEF DeleteTemp, procVars
<1>8. ASSUME NEW ok \in BOOLEAN, SetRunKey(p, ok) PROVE SiblingIsWhole'
  BY <1>1, <1>8 DEF SetRunKey, Goto
<1>9. ASSUME NEW ok \in BOOLEAN, CreateTemp(p, ok) PROVE SiblingIsWhole'
  <2>1. \A q \in Procs \ {p} : pc'[q] = pc[q] /\ config'[q] = config[q] /\ temp'[q] = temp[q]
    BY <1>9 DEF CreateTemp, Goto, Finish
  <2>2. (pc'[p] = "write" /\ temp'[p] = Torn) \/ pc'[p] \in {"serving", "idle"}
    BY <1>9 DEF CreateTemp, Goto, Finish
  <2> QED
    BY <2>1, <2>2
<1>10. ASSUME NEW ok \in BOOLEAN, WriteTemp(p, ok) PROVE SiblingIsWhole'
  <2>1. \A q \in Procs \ {p} : pc'[q] = pc[q] /\ config'[q] = config[q] /\ temp'[q] = temp[q]
    BY <1>10 DEF WriteTemp, Goto, Finish
  <2>2. \/ pc'[p] = "rename" /\ temp'[p] \in {config'[p], Absent}
        \/ pc'[p] \in {"serving", "idle"}
    BY <1>10 DEF WriteTemp, Goto, Finish
  <2> QED
    BY <2>1, <2>2
<1>11. ASSUME NEW ok \in BOOLEAN, Register(p, ok) \/ UnregisterProfile(p, ok) \/ DeleteClsid(p, ok)
       PROVE  SiblingIsWhole'
  BY <1>1, <1>11, RegistrationMoves DEF Registering
<1> QED
  BY <1>2, <1>3, <1>4, <1>5, <1>6, <1>7, <1>8, <1>9, <1>10, <1>11 DEF Step

-----------------------------------------------------------------------------
(* No setting is lost.                                                     *)

\* Where a process holds what it will write.
Copying == {"check", "temp", "write", "rename"}

\* As long as no setting is lost, what can be loaded is what is wanted.
LEMMA LoadedIsWanted ==
  ASSUME Types, NothingIsLost, "lost" \notin excused, file # Torn
  PROVE  wanted = Loaded
BY LifecycleAssumption DEF Types, TypeOK, Files, NothingIsLost, NoSettingIsLost, Loaded

\* A step that changes neither the file nor a copy of it that will be written.
LEMMA KeepsCopies ==
  ASSUME Types, NothingIsLost, NEW p \in Procs,
         UNCHANGED <<file, editor, wanted, stale>>, excused \subseteq excused',
         \A q \in Procs \ {p} : pc'[q] = pc[q] /\ config'[q] = config[q] /\ command'[q] = command[q],
         \/ pc'[p] \notin Copying
         \/ pc[p] \in Copying /\ config'[p] = config[p] /\ command'[p] = command[p]
  PROVE  NothingIsLost'
<1>1. Loaded' = Loaded
  BY DEF Loaded
<1>2. NoSettingIsLost'
  BY DEF NothingIsLost, NoSettingIsLost
<1>3. CopiesAreCurrent'
  BY <1>1 DEF NothingIsLost, CopiesAreCurrent, Copying
<1> QED
  BY <1>2, <1>3 DEF NothingIsLost

\* Where a process goes when it is done, it holds no copy that it will write.
LEMMA FinishedHoldsNothing ==
  ASSUME Types, NEW p \in Procs, Finish(p)
  PROVE  /\ pc'[p] \notin Copying
         /\ \A q \in Procs \ {p} : pc'[q] = pc[q]
BY DEF Types, TypeOK, Finish, Goto, Copying

LEMMA CommandsLoseNothing ==
  ASSUME Types, NothingIsLost, NEW p \in Procs,
         \/ \E c \in Commands : Launch(p, c)
         \/ Load(p) \/ StartServing(p) \/ ToggleTsf(p) \/ Exit(p) \/ Crash(p)
         \/ \E ok \in BOOLEAN : Acquire(p, ok) \/ SetRunKey(p, ok)
  PROVE  NothingIsLost'
<1> USE DEF Types, TypeOK, Goto, fileVars, otherVars, Copying
<1>1. ASSUME NEW c \in Commands, Launch(p, c) PROVE NothingIsLost'
  <2>1. pc'[p] \notin Copying
    BY <1>1 DEF Launch, Commands
  <2> QED
    BY <1>1, <2>1, KeepsCopies DEF Launch
<1>2. ASSUME ToggleTsf(p) \/ Exit(p) \/ \E ok \in BOOLEAN : Acquire(p, ok) PROVE NothingIsLost'
  BY <1>2, KeepsCopies DEF Acquire, ToggleTsf, Exit
<1>3. ASSUME Crash(p) PROVE NothingIsLost'
  BY <1>3, KeepsCopies DEF Crash, HalfDone
<1>4. ASSUME StartServing(p) PROVE NothingIsLost'
  BY <1>4, KeepsCopies DEF StartServing
<1>5. ASSUME NEW ok \in BOOLEAN, SetRunKey(p, ok) PROVE NothingIsLost'
  BY <1>5, KeepsCopies DEF SetRunKey
<1>6. ASSUME Load(p) PROVE NothingIsLost'
  <2>1. Loaded' = Loaded
    BY <1>6 DEF Load, Loaded
  <2>2. config'[p] = Changed(command[p], Loaded) /\ (file = Torn => p \in stale')
    BY <1>6 DEF Load
  <2>3. \A q \in Procs \ {p} : pc'[q] = pc[q] /\ config'[q] = config[q] /\ (q \in stale <=> q \in stale')
    BY <1>6 DEF Load
  <2>4. TheEditor \in stale <=> TheEditor \in stale'
    BY <1>6, LifecycleAssumption DEF Load
  <2>5. UNCHANGED <<file, command, editor, wanted, excused>>
    BY <1>6 DEF Load
  <2>6. CopiesAreCurrent'
    BY <2>1, <2>2, <2>3, <2>4, <2>5 DEF NothingIsLost, CopiesAreCurrent
  <2> QED
    BY <2>5, <2>6 DEF NothingIsLost, NoSettingIsLost
<1> QED
  BY <1>1, <1>2, <1>3, <1>4, <1>5, <1>6

\* A process that renames a current copy adds its setting to what is wanted; every other
\* copy of the file is out of date from now on.
LEMMA SavesLoseNothing ==
  ASSUME Types, NothingIsLost, SiblingIsWhole, NEW p \in Procs,
         \/ Rename(p) \/ RenameFails(p) \/ RemoveTemp(p)
         \/ \E ok \in BOOLEAN : CreateTemp(p, ok) \/ WriteTemp(p, ok)
  PROVE  NothingIsLost'
<1> USE DEF Copying
<1>1. ASSUME NEW ok \in BOOLEAN, CreateTemp(p, ok) \/ WriteTemp(p, ok) PROVE NothingIsLost'
  <2>1. /\ UNCHANGED <<file, editor, wanted, stale, config, command>>
        /\ excused \subseteq excused' /\ pc[p] \in Copying
    BY <1>1 DEF CreateTemp, WriteTemp, HalfDone
  <2>2. \A q \in Procs \ {p} : pc'[q] = pc[q]
    BY <1>1, FinishedHoldsNothing DEF CreateTemp, WriteTemp, Goto, Types, TypeOK
  <2> QED
    BY <2>1, <2>2, KeepsCopies
<1>2. ASSUME RenameFails(p) PROVE NothingIsLost'
  BY <1>2, KeepsCopies DEF RenameFails, Goto, Types, TypeOK, fileVars, otherVars
<1>3. ASSUME RemoveTemp(p) PROVE NothingIsLost'
  <2>1. UNCHANGED <<file, editor, wanted, stale, config, command>> /\ excused \subseteq excused'
    BY <1>3 DEF RemoveTemp, HalfDone
  <2> QED
    BY <1>3, <2>1, FinishedHoldsNothing, KeepsCopies DEF RemoveTemp
<1>4. ASSUME Rename(p) PROVE NothingIsLost'
  <2>1. /\ pc[p] = "rename" /\ file' = config[p] /\ config[p] \in Config
        /\ wanted' = Changed(command[p], wanted)
    BY <1>4 DEF Rename, SiblingIsWhole, Types, TypeOK
  <2>2. file' # Torn /\ file' # Absent
    BY <2>1, LifecycleAssumption
  <2>3. stale' = (Procs \cup {TheEditor}) \ {p}
    BY <1>4 DEF Rename, Outdates
  <2>4. pc'[p] \notin Copying
    BY <1>4, FinishedHoldsNothing DEF Rename
  <2>5. CopiesAreCurrent'
    BY <2>2, <2>3, <2>4, LifecycleAssumption DEF CopiesAreCurrent
  <2>6. ASSUME "lost" \notin excused' PROVE wanted' = file'
    <3>1. p \notin stale /\ "lost" \notin excused
      BY <1>4, <2>6 DEF Rename
    <3>2. file # Torn /\ config[p] = Changed(command[p], Loaded)
      BY <2>1, <3>1 DEF NothingIsLost, CopiesAreCurrent
    <3> QED
      BY <2>1, <3>1, <3>2, LoadedIsWanted
  <2> QED
    BY <2>2, <2>5, <2>6 DEF NothingIsLost, NoSettingIsLost
<1> QED
  BY <1>1, <1>2, <1>3, <1>4

LEMMA ResetLosesNothing ==
  ASSUME Types, NothingIsLost, NEW p \in Procs,
         \/ DeleteConfig(p) \/ (\E q \in Procs : DeleteTemp(p, q)) \/ DeleteDir(p) \/ DeleteFails(p)
  PROVE  NothingIsLost'
<1>1. ASSUME DeleteConfig(p) PROVE NothingIsLost'
  <2>1. stale' = (Procs \cup {TheEditor}) \ {p} /\ pc'[p] \notin Copying
    BY <1>1 DEF DeleteConfig, Outdates, procVars, Copying
  <2>2. file' = Absent /\ wanted' = Default
    BY <1>1 DEF DeleteConfig
  <2>3. CopiesAreCurrent'
    BY <2>1, <2>2, LifecycleAssumption DEF CopiesAreCurrent, Copying
  <2> QED
    BY <2>2, <2>3 DEF NothingIsLost, NoSettingIsLost
<1>2. ASSUME NEW q \in Procs, DeleteTemp(p, q) PROVE NothingIsLost'
  BY <1>2, KeepsCopies DEF DeleteTemp, procVars, otherVars, Copying
<1>3. ASSUME DeleteDir(p) \/ DeleteFails(p) PROVE NothingIsLost'
  BY <1>3, KeepsCopies, FinishedHoldsNothing DEF DeleteDir, DeleteFails, fileVars, otherVars
<1> QED
  BY <1>1, <1>2, <1>3

LEMMA RegistrationLosesNothing ==
  ASSUME Types, NothingIsLost, NEW p \in Procs, NEW ok \in BOOLEAN,
         Register(p, ok) \/ UnregisterProfile(p, ok) \/ DeleteClsid(p, ok)
  PROVE  NothingIsLost'
BY RegistrationMoves, KeepsCopies DEF Registering, Copying

\* A person saves what they opened; while they do, no process has a current copy.
LEMMA EditorLosesNothing ==
  ASSUME Types, NothingIsLost, OpenEditor \/ BeginSave \/ EndSave
  PROVE  NothingIsLost'
<1> USE LifecycleAssumption
    DEF Types, TypeOK, EditorHasText, NothingIsLost, NoSettingIsLost, CopiesAreCurrent, procVars,
        fileVars
<1>1. ASSUME OpenEditor PROVE NothingIsLost'
  <2>1. file # Torn /\ file # Absent /\ Loaded' = Loaded
    BY <1>1 DEF OpenEditor, Loaded
  <2>2. editor'.text = file /\ stale' = stale \ {TheEditor}
    BY <1>1 DEF OpenEditor
  <2>3. UNCHANGED <<file, wanted, excused, pc, config, command>>
    BY <1>1 DEF OpenEditor
  <2> QED
    BY <2>1, <2>2, <2>3
<1>2. ASSUME BeginSave PROVE NothingIsLost'
  <2>1. editor'.text = editor.text /\ file' = Torn /\ stale' = stale \cup Procs
    BY <1>2 DEF BeginSave
  <2>2. UNCHANGED <<wanted, excused>>
    BY <1>2 DEF BeginSave
  <2> QED
    BY <2>1, <2>2
<1>3. ASSUME EndSave PROVE NothingIsLost'
  <2>1. /\ editor'.text = Absent /\ stale' = stale \cup Procs
        /\ file' = [editor.text EXCEPT !.tuned = ~@] /\ wanted' = [wanted EXCEPT !.tuned = ~@]
    BY <1>3 DEF EndSave
  <2>2. editor.text \in Config
    BY <1>3 DEF EndSave
  <2>3. file' \in Config
    BY <2>1, <2>2 DEF Config
  <2>4. "lost" \notin excused' => TheEditor \notin stale /\ "lost" \notin excused
    BY <1>3 DEF EndSave
  <2>5. editor.text # Absent
    BY <2>2
  <2> QED
    BY <2>1, <2>3, <2>4, <2>5
<1> QED
  BY <1>1, <1>2, <1>3

-----------------------------------------------------------------------------
(* The registry and the file agree.                                        *)

\* A step of p that changes neither the registry nor what is wanted of it, and by which no
\* setting of start at login begins or ends.
LEMMA KeepsRegistry ==
  ASSUME RegistryIsInOrder, NEW p \in Procs,
         runKey' = runKey, wanted'.start = wanted.start, excused \subseteq excused',
         \A q \in Procs \ {p} : pc'[q] = pc[q] /\ command'[q] = command[q],
         pc'[p] \notin {"acquire", "registry", "check"},
         \/ ~SettingStartup(p) /\ ~SettingStartup(p)'
         \/ SettingStartup(p) /\ SettingStartup(p)' /\ command'[p] = command[p]
  PROVE  RegistryIsInOrder'
<1>1. LabelFitsCommand'
  BY DEF RegistryIsInOrder, LabelFitsCommand
<1>2. \A q \in Procs : SettingStartup(q)' <=> SettingStartup(q)
  BY DEF SettingStartup, Saving
<1>3. \A q \in Procs : SettingStartup(q) => command'[q] = command[q]
  OBVIOUS
<1>4. excused' = {} => excused = {}
  OBVIOUS
<1>5. StartupInOrder'
  BY <1>2, <1>3, <1>4 DEF RegistryIsInOrder, StartupInOrder
<1> QED
  BY <1>1, <1>5 DEF RegistryIsInOrder

\* A command that stops before its save is over says so if it was to set start at login.
LEMMA HalfDoneIsExcused ==
  ASSUME RegistryIsInOrder, NEW p \in Procs, HalfDone(p),
         runKey' = runKey, wanted' = wanted, command' = command,
         \A q \in Procs \ {p} : pc'[q] = pc[q],
         pc'[p] \in {"serving", "idle"}
  PROVE  RegistryIsInOrder'
<1>1. excused \subseteq excused'
  BY DEF HalfDone
<1>2. ~SettingStartup(p)'
  BY DEF SettingStartup, Saving
<1>3. CASE ~SettingStartup(p)
  BY <1>1, <1>2, <1>3, KeepsRegistry
<1>4. CASE SettingStartup(p)
  <2>1. "half done" \in excused'
    BY <1>4 DEF HalfDone, SettingStartup
  <2>2. LabelFitsCommand'
    BY DEF RegistryIsInOrder, LabelFitsCommand
  <2> QED
    BY <2>1, <2>2 DEF RegistryIsInOrder, StartupInOrder
<1> QED
  BY <1>3, <1>4

\* Where a process goes when it is done.
LEMMA FinishedIsDone ==
  ASSUME Types, NEW p \in Procs, Finish(p)
  PROVE  /\ pc'[p] \in {"serving", "idle"}
         /\ \A q \in Procs \ {p} : pc'[q] = pc[q]
BY DEF Types, TypeOK, Finish, Goto

LEMMA CommandsKeepRegistry ==
  ASSUME Types, RegistryIsInOrder, NEW p \in Procs,
         \/ \E c \in Commands : Launch(p, c)
         \/ Load(p) \/ StartServing(p) \/ ToggleTsf(p) \/ Exit(p) \/ Crash(p)
         \/ \E ok \in BOOLEAN : Acquire(p, ok)
  PROVE  RegistryIsInOrder'
<1> USE DEF Types, TypeOK, Goto, machineVars, otherVars, SettingStartup, Saving
<1>1. ASSUME NEW c \in Commands, Launch(p, c) PROVE RegistryIsInOrder'
  <2>1. /\ pc[p] = "idle" /\ command' = [command EXCEPT ![p] = c]
        /\ UNCHANGED <<runKey, wanted, excused>>
        /\ \A q \in Procs \ {p} : pc'[q] = pc[q]
    BY <1>1 DEF Launch
  <2>2. /\ pc'[p] = "registry" <=> c.name = "startup"
        /\ pc'[p] = "acquire" => c.name = "background"
        /\ pc'[p] # "check"
    BY <1>1, <2>1 DEF Launch, Commands
  <2>3. LabelFitsCommand'
    BY <2>1, <2>2 DEF RegistryIsInOrder, LabelFitsCommand
  <2>4. \A q \in Procs : SettingStartup(q)' <=> SettingStartup(q)
    BY <2>1, <2>2
  <2>5. \A q \in Procs : SettingStartup(q) => command'[q] = command[q]
    BY <2>1
  <2> HIDE DEF SettingStartup
  <2>6. StartupInOrder'
    BY <2>1, <2>4, <2>5 DEF RegistryIsInOrder, StartupInOrder
  <2> QED
    BY <2>3, <2>6 DEF RegistryIsInOrder
<1>2. ASSUME ToggleTsf(p) \/ Exit(p) \/ \E ok \in BOOLEAN : Acquire(p, ok) PROVE RegistryIsInOrder'
  <2>1. ASSUME NEW ok \in BOOLEAN, Acquire(p, ok) PROVE RegistryIsInOrder'
    <3>1. /\ pc[p] = "acquire" /\ pc'[p] \in {"load", "idle"} /\ command' = command
          /\ command[p].name # "startup"
      BY <2>1 DEF Acquire, RegistryIsInOrder, LabelFitsCommand
    <3>2. CASE pc'[p] = "idle"
      BY <2>1, <3>1, <3>2, KeepsRegistry DEF Acquire
    <3>3. CASE pc'[p] = "load"
      BY <2>1, <3>1, <3>3, KeepsRegistry DEF Acquire
    <3> QED
      BY <3>1, <3>2, <3>3
  <2>2. ASSUME ToggleTsf(p) PROVE RegistryIsInOrder'
    <3>1. pc[p] = "serving" /\ pc'[p] = "load" /\ command'[p].name = "toggle"
      BY <2>2 DEF ToggleTsf
    <3> QED
      BY <2>2, <3>1, KeepsRegistry DEF ToggleTsf
  <2>3. ASSUME Exit(p) PROVE RegistryIsInOrder'
    BY <2>3, KeepsRegistry DEF Exit
  <2> QED
    BY <1>2, <2>1, <2>2, <2>3
<1>3. ASSUME Load(p) PROVE RegistryIsInOrder'
  <2>1. /\ pc[p] = "load" /\ command' = command
        /\ pc'[p] = IF command[p].name \in {"background", "broker-serve"} THEN "check" ELSE "temp"
        /\ UNCHANGED <<runKey, wanted, excused>>
        /\ \A q \in Procs \ {p} : pc'[q] = pc[q]
    BY <1>3 DEF Load
  <2>2. LabelFitsCommand'
    BY <2>1 DEF RegistryIsInOrder, LabelFitsCommand
  <2>3. \A q \in Procs : SettingStartup(q)' <=> SettingStartup(q)
    BY <2>1
  <2> HIDE DEF SettingStartup
  <2>4. StartupInOrder'
    BY <2>1, <2>3 DEF RegistryIsInOrder, StartupInOrder
  <2> QED
    BY <2>2, <2>4 DEF RegistryIsInOrder
<1>4. ASSUME StartServing(p) PROVE RegistryIsInOrder'
  <2>1. /\ pc[p] = "check" /\ pc'[p] \in {"temp", "serving"} /\ command' = command
        /\ command[p].name # "startup"
    BY <1>4 DEF StartServing, RegistryIsInOrder, LabelFitsCommand
  <2> QED
    BY <1>4, <2>1, KeepsRegistry DEF StartServing
<1>5. ASSUME Crash(p) PROVE RegistryIsInOrder'
  BY <1>5, HalfDoneIsExcused DEF Crash
<1> QED
  BY <1>1, <1>2, <1>3, <1>4, <1>5

\* set_startup begins with the registry: unless another is on its way, it is the only one
\* from here on.
LEMMA SetRunKeyKeepsRegistry ==
  ASSUME Types, RegistryIsInOrder, NEW p \in Procs, NEW ok \in BOOLEAN, SetRunKey(p, ok)
  PROVE  RegistryIsInOrder'
<1> USE DEF Types, TypeOK, Goto
<1>1. /\ pc[p] = "registry" /\ command' = command /\ wanted' = wanted
      /\ pc' = [pc EXCEPT ![p] = IF ok THEN "load" ELSE "idle"]
      /\ runKey' = IF ok THEN command[p].on ELSE runKey
  BY DEF SetRunKey
<1>2. command[p].name = "startup"
  BY <1>1 DEF RegistryIsInOrder, LabelFitsCommand
<1>3. LabelFitsCommand'
  BY <1>1 DEF RegistryIsInOrder, LabelFitsCommand
<1>4. ASSUME excused' = {} PROVE excused = {} /\ \A q \in Procs : ~SettingStartup(q)
  <2>1. {"crossed" : q \in {x \in Procs : Saving(x) /\ command[x].name = "startup"}} = {}
    BY <1>4 DEF SetRunKey
  <2> QED
    BY <1>4, <2>1 DEF SetRunKey, SettingStartup
<1>5. \A q \in Procs \ {p} : SettingStartup(q)' <=> SettingStartup(q)
  BY <1>1 DEF SettingStartup, Saving
<1>6. ASSUME excused' = {} PROVE StartupInOrder'
  <2>1. CASE ok
    <3>1. SettingStartup(p)'
      BY <1>1, <1>2, <2>1 DEF SettingStartup, Saving
    <3> QED
      BY <1>1, <1>4, <1>5, <1>6, <2>1, <3>1 DEF StartupInOrder
  <2>2. CASE ~ok
    <3>1. ~SettingStartup(p)'
      BY <1>1, <2>2 DEF SettingStartup, Saving
    <3>2. runKey' = runKey
      BY <1>1, <2>2
    <3> QED
      BY <1>1, <1>4, <1>5, <1>6, <3>1, <3>2 DEF StartupInOrder, RegistryIsInOrder
  <2> QED
    BY <2>1, <2>2
<1> QED
  BY <1>3, <1>6 DEF RegistryIsInOrder, StartupInOrder

\* The save of a command that sets start at login brings the file to the registry; no
\* other save touches that field.
LEMMA SavesKeepRegistry ==
  ASSUME Types, RegistryIsInOrder, NEW p \in Procs,
         \/ Rename(p) \/ RenameFails(p) \/ RemoveTemp(p)
         \/ \E ok \in BOOLEAN : CreateTemp(p, ok) \/ WriteTemp(p, ok)
  PROVE  RegistryIsInOrder'
<1> USE DEF Types, TypeOK, machineVars, otherVars
<1>1. ASSUME NEW ok \in BOOLEAN, CreateTemp(p, ok) \/ WriteTemp(p, ok) PROVE RegistryIsInOrder'
  <2>1. pc[p] \in {"temp", "write"} /\ UNCHANGED <<runKey, command, wanted>>
    BY <1>1 DEF CreateTemp, WriteTemp
  <2>2. CASE ok
    <3>1. pc'[p] \in {"write", "rename"} /\ excused' = excused
      BY <1>1, <2>2 DEF CreateTemp, WriteTemp, Goto
    <3>2. \A q \in Procs \ {p} : pc'[q] = pc[q]
      BY <1>1, <2>2 DEF CreateTemp, WriteTemp, Goto
    <3>3. SettingStartup(p) <=> SettingStartup(p)'
      BY <2>1, <3>1 DEF SettingStartup, Saving
    <3> QED
      BY <2>1, <3>1, <3>2, <3>3, KeepsRegistry
  <2>3. CASE ~ok
    <3>1. Finish(p) /\ HalfDone(p)
      BY <1>1, <2>3 DEF CreateTemp, WriteTemp
    <3> QED
      BY <2>1, <3>1, FinishedIsDone, HalfDoneIsExcused
  <2> QED
    BY <2>2, <2>3
<1>2. ASSUME RenameFails(p) PROVE RegistryIsInOrder'
  <2>1. /\ pc[p] = "rename" /\ pc'[p] = "cleanup" /\ \A q \in Procs \ {p} : pc'[q] = pc[q]
        /\ UNCHANGED <<runKey, command, wanted, excused>>
    BY <1>2 DEF RenameFails, Goto
  <2>2. SettingStartup(p) <=> SettingStartup(p)'
    BY <2>1 DEF SettingStartup, Saving
  <2> QED
    BY <2>1, <2>2, KeepsRegistry
<1>3. ASSUME RemoveTemp(p) PROVE RegistryIsInOrder'
  BY <1>3, FinishedIsDone, HalfDoneIsExcused DEF RemoveTemp
<1>4. ASSUME Rename(p) PROVE RegistryIsInOrder'
  <2>1. /\ pc[p] = "rename" /\ UNCHANGED <<runKey, command>> /\ excused \subseteq excused'
        /\ wanted' = Changed(command[p], wanted)
    BY <1>4 DEF Rename
  <2>2. pc'[p] \in {"serving", "idle"} /\ \A q \in Procs \ {p} : pc'[q] = pc[q]
    BY <1>4, FinishedIsDone DEF Rename
  <2>3. ~SettingStartup(p)'
    BY <2>2 DEF SettingStartup, Saving
  <2>4. CASE command[p].name # "startup"
    <3>1. wanted'.start = wanted.start
      BY <2>1, <2>4 DEF Changed, Config
    <3>2. ~SettingStartup(p)
      BY <2>4 DEF SettingStartup
    <3> QED
      BY <2>1, <2>2, <2>3, <3>1, <3>2, KeepsRegistry
  <2>5. CASE command[p].name = "startup"
    <3>1. wanted'.start = command[p].on
      BY <2>1, <2>5 DEF Changed, Config
    <3>2. SettingStartup(p)
      BY <2>1, <2>5 DEF SettingStartup, Saving
    <3>3. \A q \in Procs \ {p} : SettingStartup(q)' <=> SettingStartup(q)
      BY <2>1, <2>2 DEF SettingStartup, Saving
    <3>4. LabelFitsCommand'
      BY <2>1, <2>2 DEF RegistryIsInOrder, LabelFitsCommand
    <3>5. StartupInOrder'
      BY <2>1, <2>3, <3>1, <3>2, <3>3 DEF RegistryIsInOrder, StartupInOrder
    <3> QED
      BY <3>4, <3>5 DEF RegistryIsInOrder
  <2> QED
    BY <2>4, <2>5
<1> QED
  BY <1>1, <1>2, <1>3, <1>4

\* A reset forgets the setting and leaves the registry.
LEMMA ResetKeepsRegistry ==
  ASSUME Types, RegistryIsInOrder, NEW p \in Procs,
         \/ DeleteConfig(p) \/ (\E q \in Procs : DeleteTemp(p, q)) \/ DeleteDir(p) \/ DeleteFails(p)
  PROVE  RegistryIsInOrder'
<1> USE DEF Types, TypeOK, machineVars, otherVars, procVars
<1>1. ASSUME DeleteConfig(p) PROVE RegistryIsInOrder'
  <2>1. /\ UNCHANGED <<pc, command, runKey>> /\ wanted'.start = FALSE
        /\ excused' = IF runKey THEN excused \cup {"reset"} ELSE excused
    BY <1>1 DEF DeleteConfig, Default
  <2>2. LabelFitsCommand'
    BY <2>1 DEF RegistryIsInOrder, LabelFitsCommand
  <2>3. \A q \in Procs : SettingStartup(q)' <=> SettingStartup(q)
    BY <2>1 DEF SettingStartup, Saving
  <2>4. excused' = {} => excused = {} /\ ~runKey
    BY <2>1
  <2>5. StartupInOrder'
    BY <2>1, <2>3, <2>4 DEF RegistryIsInOrder, StartupInOrder
  <2> QED
    BY <2>2, <2>5 DEF RegistryIsInOrder
<1>2. ASSUME (\E q \in Procs : DeleteTemp(p, q)) \/ DeleteDir(p) \/ DeleteFails(p)
      PROVE  RegistryIsInOrder'
  <2>1. pc[p] = "delete" /\ pc'[p] \in {"delete", "serving", "idle"}
        /\ \A q \in Procs \ {p} : pc'[q] = pc[q]
    BY <1>2, FinishedIsDone DEF DeleteTemp, DeleteDir, DeleteFails
  <2>2. UNCHANGED <<runKey, wanted, command, excused>>
    BY <1>2 DEF DeleteTemp, DeleteDir, DeleteFails
  <2>3. ~SettingStartup(p) /\ ~SettingStartup(p)'
    BY <2>1 DEF SettingStartup, Saving
  <2> QED
    BY <2>1, <2>2, <2>3, KeepsRegistry
<1> QED
  BY <1>1, <1>2

LEMMA RegistrationKeepsRegistry ==
  ASSUME Types, RegistryIsInOrder, NEW p \in Procs, NEW ok \in BOOLEAN,
         Register(p, ok) \/ UnregisterProfile(p, ok) \/ DeleteClsid(p, ok)
  PROVE  RegistryIsInOrder'
<1>1. UNCHANGED <<runKey, wanted, command, excused>> /\ \A q \in Procs \ {p} : pc'[q] = pc[q]
  BY RegistrationMoves
<1>2. pc'[p] \in {"idle", "clsid", "values", "service", "profile", "category"}
  BY RegistrationMoves DEF Registering
<1>3. ~SettingStartup(p) /\ ~SettingStartup(p)'
  BY <1>2, RegistrationMoves DEF Registering, SettingStartup, Saving
<1> QED
  BY <1>1, <1>2, <1>3, KeepsRegistry

LEMMA EditorKeepsRegistry ==
  ASSUME Types, RegistryIsInOrder, OpenEditor \/ BeginSave \/ EndSave
  PROVE  RegistryIsInOrder'
<1> USE DEF Types, TypeOK, machineVars, procVars
<1>1. UNCHANGED <<pc, command, runKey>> /\ excused \subseteq excused'
  BY DEF OpenEditor, BeginSave, EndSave
<1>2. wanted'.start = wanted.start
  BY DEF OpenEditor, BeginSave, EndSave, Config
<1>3. LabelFitsCommand'
  BY <1>1 DEF RegistryIsInOrder, LabelFitsCommand
<1>4. \A q \in Procs : SettingStartup(q)' <=> SettingStartup(q)
  BY <1>1 DEF SettingStartup, Saving
<1>5. excused' = {} => excused = {}
  BY <1>1
<1>6. StartupInOrder'
  BY <1>1, <1>2, <1>4, <1>5 DEF RegistryIsInOrder, StartupInOrder
<1> QED
  BY <1>3, <1>6 DEF RegistryIsInOrder

-----------------------------------------------------------------------------
(* The invariant, and what follows from it.                                *)

\* A step of p that ends no registration command and enters none.
LEMMA KeepsOutcome ==
  ASSUME OutcomeIsInOrder, NEW p \in Procs,
         UNCHANGED <<registered, failed, alone, outcome>>,
         \A q \in Procs \ {p} : pc'[q] = pc[q] /\ command'[q] = command[q],
         ~Registering(p)'
  PROVE  OutcomeIsInOrder'
<1>1. OneRegistration'
  BY DEF OutcomeIsInOrder, OneRegistration, Registering
<1>2. SoFar'
  BY DEF OutcomeIsInOrder, SoFar, Registering
<1>3. OutcomeIsTrue'
  BY DEF OutcomeIsInOrder, OutcomeIsTrue
<1> QED
  BY <1>1, <1>2, <1>3 DEF OutcomeIsInOrder

\* A registration command that starts is alone if no other is running, and forgets the
\* outcome of the one before.
LEMMA CommandsKeepOutcome ==
  ASSUME Types, OutcomeIsInOrder, NEW p \in Procs,
         \/ \E c \in Commands : Launch(p, c)
         \/ Load(p) \/ StartServing(p) \/ ToggleTsf(p) \/ Exit(p) \/ Crash(p)
         \/ \E ok \in BOOLEAN : Acquire(p, ok) \/ SetRunKey(p, ok)
  PROVE  OutcomeIsInOrder'
<1> USE DEF Types, TypeOK, Goto, machineVars, otherVars, registrationVars
<1>1. ASSUME NEW c \in Commands, Launch(p, c) PROVE OutcomeIsInOrder'
  <2>1. /\ pc[p] = "idle" /\ command' = [command EXCEPT ![p] = c] /\ registered' = registered
        /\ failed' = [failed EXCEPT ![p] = {}]
        /\ \A q \in Procs \ {p} : pc'[q] = pc[q]
    BY <1>1 DEF Launch
  <2>2. CASE c.name = "register"
    <3>1. /\ alone' = IF \E q \in Procs : Registering(q) THEN Absent ELSE p
          /\ outcome' = Absent
      BY <1>1, <2>2 DEF Launch
    <3>2. pc'[p] = IF c.on THEN "clsid" ELSE "category"
      BY <1>1, <2>2 DEF Launch, Commands
    <3>3. OneRegistration'
      BY <2>1, <3>1 DEF OneRegistration, Registering
    <3>4. SoFar'
      BY <2>1, <3>1, <3>2, LifecycleAssumption DEF SoFar
    <3> QED
      BY <3>1, <3>3, <3>4 DEF OutcomeIsInOrder, OutcomeIsTrue
  <2>3. CASE c.name # "register"
    <3>1. UNCHANGED <<alone, outcome>>
      BY <1>1, <2>3 DEF Launch
    <3>2. ~Registering(p)'
      BY <1>1, <2>3 DEF Launch, Commands, Registering
    <3>3. OneRegistration'
      BY <2>1, <3>1, <3>2 DEF OutcomeIsInOrder, OneRegistration, Registering
    <3>4. SoFar'
      BY <2>1, <3>1, <3>2 DEF OutcomeIsInOrder, SoFar, Registering
    <3>5. OutcomeIsTrue'
      BY <2>1, <3>1 DEF OutcomeIsInOrder, OutcomeIsTrue
    <3> QED
      BY <3>3, <3>4, <3>5 DEF OutcomeIsInOrder
  <2> QED
    BY <2>2, <2>3
<1>2. ASSUME Load(p) \/ StartServing(p) \/ ToggleTsf(p) PROVE OutcomeIsInOrder'
  BY <1>2, KeepsOutcome DEF Load, StartServing, ToggleTsf, Registering
<1>3. ASSUME Exit(p) \/ Crash(p) PROVE OutcomeIsInOrder'
  BY <1>3, KeepsOutcome DEF Exit, Crash, Registering
<1>4. ASSUME NEW ok \in BOOLEAN, Acquire(p, ok) \/ SetRunKey(p, ok) PROVE OutcomeIsInOrder'
  BY <1>4, KeepsOutcome DEF Acquire, SetRunKey, Registering
<1> QED
  BY <1>1, <1>2, <1>3, <1>4

LEMMA SavesKeepOutcome ==
  ASSUME Types, OutcomeIsInOrder, NEW p \in Procs,
         \/ Rename(p) \/ RenameFails(p) \/ RemoveTemp(p)
         \/ DeleteConfig(p) \/ (\E q \in Procs : DeleteTemp(p, q)) \/ DeleteDir(p) \/ DeleteFails(p)
         \/ \E ok \in BOOLEAN : CreateTemp(p, ok) \/ WriteTemp(p, ok)
  PROVE  OutcomeIsInOrder'
<1> USE DEF machineVars, otherVars, registrationVars, Registering
<1>1. ASSUME Rename(p) \/ RemoveTemp(p) \/ DeleteDir(p) \/ DeleteFails(p) PROVE OutcomeIsInOrder'
  <2>1. Finish(p) /\ UNCHANGED <<registered, failed, alone, outcome, command>>
    BY <1>1 DEF Rename, RemoveTemp, DeleteDir, DeleteFails
  <2> QED
    BY <2>1, FinishedIsDone, KeepsOutcome
<1>2. ASSUME RenameFails(p) PROVE OutcomeIsInOrder'
  BY <1>2, KeepsOutcome DEF RenameFails, Goto, Types, TypeOK
<1>3. ASSUME DeleteConfig(p) \/ (\E q \in Procs : DeleteTemp(p, q)) PROVE OutcomeIsInOrder'
  BY <1>3, KeepsOutcome DEF DeleteConfig, DeleteTemp, procVars
<1>4. ASSUME NEW ok \in BOOLEAN, CreateTemp(p, ok) \/ WriteTemp(p, ok) PROVE OutcomeIsInOrder'
  <2>1. UNCHANGED <<registered, failed, alone, outcome, command>>
    BY <1>4 DEF CreateTemp, WriteTemp
  <2>2. ~Registering(p)' /\ \A q \in Procs \ {p} : pc'[q] = pc[q]
    BY <1>4, FinishedIsDone DEF CreateTemp, WriteTemp, Goto, Types, TypeOK
  <2> QED
    BY <2>1, <2>2, KeepsOutcome
<1> QED
  BY <1>1, <1>2, <1>3, <1>4

\* A registration command that goes on has done what came before; it is the only one, or
\* not alone.
LEMMA GoesOn ==
  ASSUME Types, OutcomeIsInOrder, NEW p \in Procs, Registering(p),
         UNCHANGED <<alone, outcome, command>>,
         \A q \in Procs \ {p} : pc'[q] = pc[q],
         alone = p => SoFar'
  PROVE  OutcomeIsInOrder'
<1>1. OneRegistration'
  BY DEF OutcomeIsInOrder, OneRegistration, Registering
<1>2. outcome' = Absent
  BY DEF OutcomeIsInOrder, OneRegistration
<1>3. SoFar'
  <2>1. CASE alone = p
    BY <2>1
  <2>2. CASE alone # p
    <3>1. alone' = Absent
      BY <2>2 DEF OutcomeIsInOrder, OneRegistration
    <3> QED
      BY <3>1, LifecycleAssumption DEF SoFar
  <2> QED
    BY <2>1, <2>2
<1> QED
  BY <1>1, <1>2, <1>3 DEF OutcomeIsInOrder, OutcomeIsTrue

\* One that ends leaves none running if it was alone.
LEMMA Ends ==
  ASSUME Types, OutcomeIsInOrder, NEW p \in Procs, Registering(p), NEW what, Report(p, what),
         alone = p => OutcomeIsTrue'
  PROVE  OutcomeIsInOrder'
<1>1. /\ alone' = Absent /\ pc'[p] = "idle"
      /\ \A q \in Procs \ {p} : pc'[q] = pc[q]
      /\ alone # p => outcome' = Absent
  BY DEF Report, Goto, Types, TypeOK
<1>2. OneRegistration'
  BY <1>1, LifecycleAssumption DEF OutcomeIsInOrder, OneRegistration, Registering
<1>3. SoFar'
  BY <1>1, LifecycleAssumption DEF SoFar
<1>4. OutcomeIsTrue'
  BY <1>1 DEF OutcomeIsTrue
<1> QED
  BY <1>2, <1>3, <1>4 DEF OutcomeIsInOrder

LEMMA RegistrationKeepsOutcome ==
  ASSUME Types, OutcomeIsInOrder, NEW p \in Procs, NEW ok \in BOOLEAN,
         Register(p, ok) \/ UnregisterProfile(p, ok) \/ DeleteClsid(p, ok)
  PROVE  OutcomeIsInOrder'
<1>1. ASSUME Register(p, ok) PROVE OutcomeIsInOrder'
  <2>1. PICK step \in {<<"clsid", "values">>, <<"values", "service">>, <<"service", "profile">>,
                       <<"profile", "category">>, <<"category", "idle">>} :
               /\ Registers(p, step[1])
               /\ registered' = IF ok THEN registered \cup {step[1]} ELSE registered
               /\ \/ ok /\ step[2] # "idle" /\ Goto(p, step[2]) /\ UNCHANGED registrationVars
                  \/ ok /\ step[2] = "idle" /\ Report(p, {})
                  \/ ~ok /\ Report(p, {IF step[1] \in {"clsid", "values"} THEN "registry" ELSE "tsf"})
    BY <1>1 DEF Register
  <2>2. /\ pc[p] = step[1] /\ Registering(p) /\ command[p].on /\ command' = command
    BY <1>1, <2>1 DEF Register, Registers, Registering
  <2>3. CASE ok /\ step[2] # "idle"
    <3>1. /\ pc' = [pc EXCEPT ![p] = step[2]] /\ UNCHANGED <<failed, alone, outcome>>
          /\ registered' = registered \cup {step[1]}
      BY <2>1, <2>3 DEF Report, Goto, registrationVars, Types, TypeOK
    <3>2. alone = p => SoFar'
      BY <2>1, <2>2, <2>3, <3>1 DEF OutcomeIsInOrder, SoFar, Types, TypeOK
    <3> QED
      BY <2>2, <3>1, <3>2, GoesOn DEF Types, TypeOK
  <2>4. CASE ok /\ step[2] = "idle"
    <3>1. Report(p, {}) /\ registered' = registered \cup {"category"} /\ pc[p] = "category"
      BY <2>1, <2>2, <2>4
    <3>2. ASSUME alone = p PROVE OutcomeIsTrue'
      <4>1. {"clsid", "values", "service", "profile"} \subseteq registered
        BY <2>2, <3>1, <3>2 DEF OutcomeIsInOrder, SoFar
      <4>2. registered' = {"clsid", "values", "service", "profile", "category"}
        BY <3>1, <4>1 DEF Types, TypeOK
      <4>3. outcome'.on
        BY <2>2, <3>1, <3>2 DEF Report
      <4> QED
        BY <4>2, <4>3 DEF OutcomeIsTrue
    <3> QED
      BY <2>2, <3>1, <3>2, Ends
  <2>5. CASE ~ok
    <3>1. PICK what \in {"registry", "tsf"} : Report(p, {what})
      BY <2>1, <2>5
    <3>2. ASSUME alone = p PROVE OutcomeIsTrue'
      <4>1. outcome'.on /\ outcome'.failed # {}
        BY <2>2, <3>1, <3>2 DEF Report
      <4> QED
        BY <4>1 DEF OutcomeIsTrue
    <3> QED
      BY <2>2, <3>1, <3>2, Ends
  <2> QED
    BY <2>3, <2>4, <2>5
<1>2. ASSUME UnregisterProfile(p, ok) PROVE OutcomeIsInOrder'
  <2>1. /\ Registering(p) /\ ~command[p].on /\ UNCHANGED <<command, alone, outcome>>
        /\ \A q \in Procs \ {p} : pc'[q] = pc[q]
    BY <1>2 DEF UnregisterProfile, Unregisters, Registering, Goto, Types, TypeOK
  <2>2. \/ pc'[p] = "service"
        \/ pc'[p] = "clsid" /\ "tsf" \in failed'[p]
        \/ pc'[p] = "clsid" /\ registered' = registered \ {"service", "profile"}
    BY <1>2 DEF UnregisterProfile, Goto, Types, TypeOK
  <2>3. alone = p => SoFar'
    BY <2>1, <2>2 DEF SoFar
  <2> QED
    BY <2>1, <2>3, GoesOn
<1>3. ASSUME DeleteClsid(p, ok) PROVE OutcomeIsInOrder'
  <2>1. pc[p] = "clsid" /\ Registering(p) /\ ~command[p].on
    BY <1>3 DEF DeleteClsid, Unregisters, Registering
  <2>2. Report(p, IF ok THEN {} ELSE {"registry"})
    BY <1>3 DEF DeleteClsid
  <2>3. registered' \subseteq registered /\ (ok => registered' = registered \ {"clsid", "values"})
    BY <1>3 DEF DeleteClsid
  <2>4. ASSUME alone = p PROVE OutcomeIsTrue'
    <3>1. outcome' = [on |-> command[p].on, failed |-> failed[p] \cup IF ok THEN {} ELSE {"registry"}]
      BY <2>2, <2>4 DEF Report
    <3>2. "tsf" \notin outcome'.failed => "tsf" \notin failed[p]
      BY <3>1
    <3>3. "registry" \notin outcome'.failed => ok
      BY <3>1
    <3>4. "tsf" \notin failed[p] => registered \cap {"service", "profile"} = {}
      BY <2>1, <2>4 DEF OutcomeIsInOrder, SoFar
    <3> QED
      BY <2>1, <2>3, <3>1, <3>2, <3>3, <3>4 DEF OutcomeIsTrue
  <2> QED
    BY <2>1, <2>2, <2>4, Ends
<1> QED
  BY <1>1, <1>2, <1>3

\* Before any process runs, all parts of the invariant hold.
LEMMA InitEstablishesInvariant == Init => InductiveInvariant
<1> SUFFICES ASSUME Init PROVE InductiveInvariant
  OBVIOUS
<1>1. Types
  BY LifecycleAssumption
  DEF Init, Types, TypeOK, EditorHasText, Files, Labels, Default, Config, NoCommand
<1>2. ObserverHoldsMutex /\ SiblingIsWhole /\ OutcomeIsInOrder
  BY LifecycleAssumption
  DEF Init, ObserverHoldsMutex, SiblingIsWhole, OutcomeIsInOrder, OneRegistration, SoFar, OutcomeIsTrue
<1>3. NothingIsLost
  BY LifecycleAssumption DEF Init, NothingIsLost, NoSettingIsLost, CopiesAreCurrent
<1>4. RegistryIsInOrder
  BY DEF Init, RegistryIsInOrder, LabelFitsCommand, StartupInOrder, SettingStartup, Saving, Default
<1> QED
  BY <1>1, <1>2, <1>3, <1>4 DEF InductiveInvariant

\* Every step keeps all parts of the invariant.
LEMMA NextKeepsInvariant == InductiveInvariant /\ [Next]_vars => InductiveInvariant'
<1> SUFFICES ASSUME InductiveInvariant, [Next]_vars PROVE InductiveInvariant'
  OBVIOUS
<1> USE DEF InductiveInvariant
<1>1. Types'
  BY NextKeepsTypes
<1>2. ASSUME NEW p \in Procs, (\E c \in Commands : Launch(p, c)) \/ Step(p)
      PROVE  ObserverHoldsMutex' /\ SiblingIsWhole' /\ OutcomeIsInOrder'
  BY <1>2, ObserverKeepsMutex, SiblingStaysWhole, CommandsKeepOutcome, SavesKeepOutcome,
     RegistrationKeepsOutcome
  DEF Step
<1>4. ASSUME NEW p \in Procs, (\E c \in Commands : Launch(p, c)) \/ Step(p)
      PROVE  NothingIsLost' /\ RegistryIsInOrder'
  <2>1. NothingIsLost'
    BY <1>4, CommandsLoseNothing, SavesLoseNothing, ResetLosesNothing, RegistrationLosesNothing
    DEF Step
  <2>2. RegistryIsInOrder'
    BY <1>4, CommandsKeepRegistry, SetRunKeyKeepsRegistry, SavesKeepRegistry, ResetKeepsRegistry,
       RegistrationKeepsRegistry
    DEF Step
  <2> QED
    BY <2>1, <2>2
<1>5. ASSUME OpenEditor \/ BeginSave \/ EndSave PROVE NothingIsLost' /\ RegistryIsInOrder'
  BY <1>5, EditorLosesNothing, EditorKeepsRegistry
<1>6. ASSUME UNCHANGED vars PROVE NothingIsLost' /\ RegistryIsInOrder'
  <2>1. UNCHANGED <<file, editor, wanted, stale, excused, runKey, pc, config, command>>
    BY <1>6 DEF vars, fileVars, machineVars, procVars, otherVars
  <2>2. NothingIsLost'
    BY <2>1 DEF NothingIsLost, NoSettingIsLost, CopiesAreCurrent, Loaded
  <2>3. RegistryIsInOrder'
    BY <2>1 DEF RegistryIsInOrder, LabelFitsCommand, StartupInOrder, SettingStartup, Saving
  <2> QED
    BY <2>2, <2>3
<1>3. ASSUME OpenEditor \/ BeginSave \/ EndSave \/ UNCHANGED vars
      PROVE  ObserverHoldsMutex' /\ SiblingIsWhole' /\ OutcomeIsInOrder'
  <2>1. UNCHANGED <<pc, command, mutex, config, temp, failed, alone, outcome, registered>>
    BY <1>3 DEF OpenEditor, BeginSave, EndSave, vars, fileVars, machineVars, procVars, otherVars,
               registrationVars
  <2> QED
    BY <2>1 DEF ObserverHoldsMutex, Background, SiblingIsWhole, OutcomeIsInOrder, OneRegistration,
                Registering, SoFar, OutcomeIsTrue
<1> QED
  BY <1>1, <1>2, <1>3, <1>4, <1>5, <1>6 DEF Next

\* The invariant behind the theorems below (all of main.rs, persistence.rs, startup).
THEOREM InvariantHolds == Spec => []InductiveInvariant
BY InitEstablishesInvariant, NextKeepsInvariant, PTL DEF Spec

\* A file lies in its directory and every part of the state has its type (persistence.rs).
THEOREM LifecycleTypeCorrect == Spec => []TypeOK
<1>1. InductiveInvariant => TypeOK
  BY DEF InductiveInvariant, Types
<1> QED
  BY InvariantHolds, <1>1, PTL

\* SingleInstance: however many processes are started, and wherever they crash, no two of
\* them are past the mutex (startup/mod.rs 141-170).
THEOREM ObserverCorrect == Spec => []OneObserver
<1>1. InductiveInvariant => OneObserver
  BY DEF InductiveInvariant, ObserverHoldsMutex, OneObserver
<1> QED
  BY InvariantHolds, <1>1, PTL

\* DllRegisterServer and DllUnregisterServer: whatever earlier ones left in the registry,
\* and whichever calls fail, what a command that runs alone ends with is true, and a
\* removal gets to the class although the TSF calls before failed (lib.rs 823-847).
THEOREM RegistrationCorrect == Spec => []OutcomeIsTrue
<1>1. InductiveInvariant => OutcomeIsTrue
  BY DEF InductiveInvariant, OutcomeIsInOrder
<1> QED
  BY InvariantHolds, <1>1, PTL

\* The commands that set something and the tray: whatever fails or crashes, none undoes
\* what another has set, unless two had the file loaded at the same time (main.rs 102-110,
\* 223-238, 399-409).
THEOREM SettingsCorrect == Spec => []NoSettingIsLost
<1>1. InductiveInvariant => NoSettingIsLost
  BY DEF InductiveInvariant, NothingIsLost
<1> QED
  BY InvariantHolds, <1>1, PTL

\* set_startup: the registry and the file agree whenever no such command is under way,
\* except for the reasons that the property names (main.rs 223-238).
THEOREM RegistryCorrect == Spec => []RegistryAgrees
<1>1. InductiveInvariant => RegistryAgrees
  BY DEF InductiveInvariant, Types, TypeOK, Config, RegistryIsInOrder, StartupInOrder, SettingStartup,
         RegistryAgrees
<1> QED
  BY InvariantHolds, <1>1, PTL

-----------------------------------------------------------------------------
(* The steps of atomic_write implement AtomicFile.                         *)

\* A step of p that neither begins nor ends a save of its own.
LEMMA KeepsPending ==
  ASSUME NEW p \in Procs,
         \A q \in Procs \ {p} : pc'[q] = pc[q] /\ config'[q] = config[q],
         \/ pc[p] \notin Installing /\ pc'[p] \notin Installing
         \/ pc[p] \in Installing /\ pc'[p] \in Installing /\ config'[p] = config[p]
  PROVE  Pending' = Pending
BY DEF Pending

\* One that begins a save prepares the version it will install.
LEMMA BeginsSave ==
  ASSUME NEW p \in Procs,
         \A q \in Procs \ {p} : pc'[q] = pc[q] /\ config'[q] = config[q],
         pc[p] \notin Installing, pc'[p] \in Installing, config'[p] \in Config,
         file' = file, editor' = editor
  PROVE  Atomic!Prepare(p)
<1>1. Pending[p] = Absent /\ Pending' = [Pending EXCEPT ![p] = config'[p]]
  BY DEF Pending
<1> QED
  BY <1>1 DEF Atomic!Prepare

\* One that gives up a save abandons it.
LEMMA GivesUpSave ==
  ASSUME Types, NEW p \in Procs,
         \A q \in Procs \ {p} : pc'[q] = pc[q] /\ config'[q] = config[q],
         pc[p] \in Installing, pc'[p] \notin Installing,
         file' = file, editor' = editor
  PROVE  Atomic!Abandon(p)
<1>1. Pending[p] # Absent
  BY LifecycleAssumption DEF Pending, Types, TypeOK
<1>2. Pending' = [Pending EXCEPT ![p] = Absent]
  BY DEF Pending
<1> QED
  BY <1>1, <1>2 DEF Atomic!Abandon

LEMMA CommandsRefine ==
  ASSUME Types, NEW p \in Procs,
         \/ \E c \in Commands : Launch(p, c)
         \/ Load(p) \/ StartServing(p) \/ ToggleTsf(p) \/ Exit(p) \/ Crash(p)
         \/ \E ok \in BOOLEAN : Acquire(p, ok) \/ SetRunKey(p, ok)
  PROVE  Atomic!Prepare(p) \/ Atomic!Abandon(p) \/ UNCHANGED Atomic!vars
<1> USE DEF Types, TypeOK, Goto, fileVars, Installing
<1>1. ASSUME \A q \in Procs \ {p} : pc'[q] = pc[q] /\ config'[q] = config[q],
             pc[p] \notin Installing, pc'[p] \notin Installing, file' = file, editor' = editor
      PROVE  UNCHANGED Atomic!vars
  BY <1>1, KeepsPending DEF Atomic!vars
<1>2. ASSUME NEW c \in Commands, Launch(p, c) PROVE UNCHANGED Atomic!vars
  <2>1. pc[p] = "idle" /\ pc'[p] \notin Installing
    BY <1>2 DEF Launch, Commands
  <2> QED
    BY <1>1, <1>2, <2>1 DEF Launch
<1>3. ASSUME NEW ok \in BOOLEAN, Acquire(p, ok) PROVE UNCHANGED Atomic!vars
  BY <1>1, <1>3 DEF Acquire
<1>4. ASSUME Load(p) PROVE Atomic!Prepare(p) \/ UNCHANGED Atomic!vars
  <2>1. config'[p] \in Config
    BY <1>4, LoadedType, ChangedType DEF Load, CommandRecords
  <2>2. /\ \A q \in Procs \ {p} : pc'[q] = pc[q] /\ config'[q] = config[q]
        /\ file' = file /\ editor' = editor
        /\ pc[p] = "load" /\ pc'[p] \in {"check", "temp"}
    BY <1>4 DEF Load
  <2>3. CASE pc'[p] = "check"
    BY <1>1, <2>2, <2>3
  <2>4. CASE pc'[p] = "temp"
    BY <2>1, <2>2, <2>4, BeginsSave
  <2> QED
    BY <2>2, <2>3, <2>4
<1>5. ASSUME StartServing(p) PROVE Atomic!Prepare(p) \/ UNCHANGED Atomic!vars
  <2>1. /\ \A q \in Procs \ {p} : pc'[q] = pc[q] /\ config'[q] = config[q]
        /\ file' = file /\ editor' = editor
        /\ pc[p] = "check" /\ pc'[p] \in {"serving", "temp"} /\ config'[p] \in Config
    BY <1>5 DEF StartServing
  <2>2. CASE pc'[p] = "serving"
    BY <1>1, <2>1, <2>2
  <2>3. CASE pc'[p] = "temp"
    BY <2>1, <2>3, BeginsSave
  <2> QED
    BY <2>1, <2>2, <2>3
<1>6. ASSUME ToggleTsf(p) \/ Exit(p) PROVE UNCHANGED Atomic!vars
  BY <1>1, <1>6 DEF ToggleTsf, Exit
<1>7. ASSUME Crash(p) PROVE Atomic!Abandon(p) \/ UNCHANGED Atomic!vars
  <2>1. /\ \A q \in Procs \ {p} : pc'[q] = pc[q] /\ config'[q] = config[q]
        /\ file' = file /\ editor' = editor /\ pc'[p] = "idle"
    BY <1>7 DEF Crash
  <2>2. CASE pc[p] \notin Installing
    BY <1>1, <2>1, <2>2
  <2>3. CASE pc[p] \in Installing
    BY <2>1, <2>3, GivesUpSave
  <2> QED
    BY <2>2, <2>3
<1>8. ASSUME NEW ok \in BOOLEAN, SetRunKey(p, ok) PROVE UNCHANGED Atomic!vars
  BY <1>1, <1>8 DEF SetRunKey
<1> QED
  BY <1>2, <1>3, <1>4, <1>5, <1>6, <1>7, <1>8

\* The steps of a save: it goes on, gives up, or installs its version.
LEMMA SavesRefine ==
  ASSUME Types, SiblingIsWhole, NEW p \in Procs,
         \/ Rename(p) \/ RenameFails(p) \/ RemoveTemp(p)
         \/ \E ok \in BOOLEAN : CreateTemp(p, ok) \/ WriteTemp(p, ok)
  PROVE  Atomic!Install(p) \/ Atomic!Abandon(p) \/ UNCHANGED Atomic!vars
<1> USE DEF Types, TypeOK, Goto, Finish, fileVars, Installing
<1>1. ASSUME NEW ok \in BOOLEAN, CreateTemp(p, ok) \/ WriteTemp(p, ok)
      PROVE  Atomic!Abandon(p) \/ UNCHANGED Atomic!vars
  <2>1. /\ \A q \in Procs \ {p} : pc'[q] = pc[q] /\ config'[q] = config[q]
        /\ file' = file /\ editor' = editor /\ config'[p] = config[p]
        /\ pc[p] \in Installing /\ pc'[p] \in {"write", "rename", "serving", "idle"}
    BY <1>1 DEF CreateTemp, WriteTemp
  <2>2. CASE pc'[p] \in Installing
    BY <2>1, <2>2, KeepsPending DEF Atomic!vars
  <2>3. CASE pc'[p] \notin Installing
    BY <2>1, <2>3, GivesUpSave
  <2> QED
    BY <2>2, <2>3
<1>2. ASSUME Rename(p) PROVE Atomic!Install(p)
  <2>1. temp[p] = config[p] /\ Pending[p] = config[p]
    BY <1>2 DEF Rename, SiblingIsWhole, Pending
  <2>2. Pending[p] # Absent
    BY <2>1, LifecycleAssumption
  <2>3. pc'[p] \notin Installing /\ config' = config /\ \A q \in Procs \ {p} : pc'[q] = pc[q]
    BY <1>2 DEF Rename
  <2>4. Pending' = [Pending EXCEPT ![p] = Absent]
    BY <2>3 DEF Pending
  <2> QED
    BY <1>2, <2>1, <2>2, <2>4 DEF Rename, Atomic!Install
<1>3. ASSUME RenameFails(p) PROVE Atomic!Abandon(p)
  BY <1>3, GivesUpSave DEF RenameFails
<1>4. ASSUME RemoveTemp(p) PROVE UNCHANGED Atomic!vars
  BY <1>4, KeepsPending DEF RemoveTemp, Atomic!vars
<1> QED
  BY <1>1, <1>2, <1>3, <1>4

LEMMA ResetRefines ==
  ASSUME Types, NEW p \in Procs,
         \/ DeleteConfig(p) \/ (\E q \in Procs : DeleteTemp(p, q)) \/ DeleteDir(p) \/ DeleteFails(p)
  PROVE  Atomic!Erase \/ UNCHANGED Atomic!vars
<1> USE DEF Types, TypeOK, Goto, Finish, fileVars, procVars, Installing
<1>1. ASSUME DeleteConfig(p) PROVE Atomic!Erase
  BY <1>1 DEF DeleteConfig, Atomic!Erase, Pending
<1>2. ASSUME NEW q \in Procs, DeleteTemp(p, q) PROVE UNCHANGED Atomic!vars
  BY <1>2 DEF DeleteTemp, Atomic!vars, Pending
<1>3. ASSUME DeleteDir(p) \/ DeleteFails(p) PROVE UNCHANGED Atomic!vars
  BY <1>3, KeepsPending DEF DeleteDir, DeleteFails, Atomic!vars
<1> QED
  BY <1>1, <1>2, <1>3

LEMMA RegistrationRefines ==
  ASSUME Types, NEW p \in Procs, NEW ok \in BOOLEAN,
         Register(p, ok) \/ UnregisterProfile(p, ok) \/ DeleteClsid(p, ok)
  PROVE  UNCHANGED Atomic!vars
<1>1. pc[p] \notin Installing /\ pc'[p] \notin Installing
  BY RegistrationMoves DEF Registering, Installing
<1>2. /\ \A q \in Procs \ {p} : pc'[q] = pc[q] /\ config'[q] = config[q]
      /\ file' = file /\ editor' = editor
  BY RegistrationMoves
<1> QED
  BY <1>1, <1>2, KeepsPending DEF Atomic!vars

LEMMA EditorRefines ==
  ASSUME Types, OpenEditor \/ BeginSave \/ EndSave
  PROVE  Atomic!BeginEdit \/ Atomic!EndEdit \/ UNCHANGED Atomic!vars
<1> USE DEF Types, TypeOK, EditorHasText, procVars, fileVars
<1>1. Pending' = Pending
  BY DEF OpenEditor, BeginSave, EndSave, Pending
<1>2. ASSUME OpenEditor PROVE UNCHANGED Atomic!vars
  BY <1>1, <1>2 DEF OpenEditor, Atomic!vars
<1>3. ASSUME BeginSave PROVE Atomic!BeginEdit
  BY <1>1, <1>3 DEF BeginSave, Atomic!BeginEdit
<1>4. ASSUME EndSave PROVE Atomic!EndEdit
  <2>1. editor.text \in Config
    BY <1>4 DEF EndSave
  <2>2. [editor.text EXCEPT !.tuned = ~@] \in Config
    BY <2>1 DEF Config
  <2> QED
    BY <1>1, <1>4, <2>2 DEF EndSave, Atomic!EndEdit
<1> QED
  BY <1>2, <1>3, <1>4

\* Every step of Lifecycle is a step of AtomicFile, or leaves what it speaks of as it is.
LEMMA NextRefines ==
  InductiveInvariant /\ [Next]_vars => [Atomic!Next]_(Atomic!vars)
<1> SUFFICES ASSUME InductiveInvariant, [Next]_vars PROVE [Atomic!Next]_(Atomic!vars)
  OBVIOUS
<1> USE DEF InductiveInvariant
<1>1. ASSUME NEW p \in Procs, (\E c \in Commands : Launch(p, c)) \/ Step(p)
      PROVE  \/ Atomic!Prepare(p) \/ Atomic!Install(p) \/ Atomic!Abandon(p) \/ Atomic!Erase
             \/ UNCHANGED Atomic!vars
  BY <1>1, CommandsRefine, SavesRefine, ResetRefines, RegistrationRefines DEF Step
<1>2. ASSUME OpenEditor \/ BeginSave \/ EndSave
      PROVE  Atomic!BeginEdit \/ Atomic!EndEdit \/ UNCHANGED Atomic!vars
  BY <1>2, EditorRefines
<1>3. ASSUME UNCHANGED vars PROVE UNCHANGED Atomic!vars
  BY <1>3 DEF vars, fileVars, procVars, Atomic!vars, Pending
<1> QED
  BY <1>1, <1>2, <1>3 DEF Next, Atomic!Next

\* atomic_write does what it is for, for any number of processes that save, reset, fail
\* and crash between any two of its steps (persistence.rs 34-59).
THEOREM FileCorrect == Spec => FileIsAtomic
<1>1. Init => Atomic!Init
  BY DEF Init, Atomic!Init, Pending, Installing
<1> QED
  BY <1>1, InvariantHolds, NextRefines, PTL DEF Spec, FileIsAtomic, Atomic!Spec

=============================================================================
