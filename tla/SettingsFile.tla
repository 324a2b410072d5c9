---- MODULE SettingsFile ----
(***************************************************************************)
(* The operator's settings and crash reports on disk (gui.rs).             *)
(*                                                                         *)
(* A window loads the settings when it opens and saves them when an engine *)
(* is started and when it closes.  Saving writes a uniquely named sibling  *)
(* file, syncs it, and puts it under the settings name: by one rename and  *)
(* a directory sync on Unix, by way of a backup name on Windows.  One      *)
(* action is one file-system call, so that another window, the death of    *)
(* the process or a power loss may come between any two of them.           *)
(*                                                                         *)
(* Directory entries name contents by number: 0 is no entry, 1..MaxFiles   *)
(* is a file in the order of creation, Other is anything inspect refuses:  *)
(* a link, a directory, somebody else's file.  A power loss leaves one of  *)
(* the directories in `past`, those seen since the last directory sync,    *)
(* and an unsynced file is then incomplete.                                *)
(*                                                                         *)
(* SeeAnything, RecoverNothing, RecoverBackwards, WriteUnsynced,           *)
(* ReportUnsynced, StageByRemoval and RenameOnly are faulty variants of    *)
(* the operators that follow them; no step uses them.                      *)
(***************************************************************************)
EXTENDS Naturals, Sequences, FiniteSets

CONSTANTS
    UnixWindows,     \* the operator windows that may be open on Unix
    WindowsWindows,  \* the operator windows that may be open on Windows
    MaxFiles,        \* bound: files ever created, the first one included
    MaxFaults,       \* bound: file-system calls that fail
    MaxCrashes       \* bound: deaths of a window's process and power losses

ASSUME SettingsAssumption ==
    /\ MaxFiles \in Nat \ {0}
    /\ MaxFaults \in Nat /\ MaxCrashes \in Nat

VARIABLES
    platform,   \* "unix" or "windows"
    dir,        \* the directory as every process sees it
    past,       \* the directories a power loss may leave
    data,       \* what became of each file
    created,    \* how many files were created
    step,       \* per window: the file-system call it makes next
    goal,       \* per window: what it is doing: load, save, close or report
    seen,       \* per window: the entries its recovery has inspected
    file,       \* per window: the file it is writing or reading, or 0
    loaded,     \* per window: the file its settings were read from, or 0
    known,      \* per window: the files installed before it opened
    installed,  \* the files in the order they came under the settings name
    acked,      \* the files whose save returned Ok
    filed,      \* the files whose crash report returned Ok
    faults,     \* calls that have failed
    crashes     \* deaths and power losses so far

disk == <<dir, past, data, created>>
locals == <<step, goal, seen, file, loaded, known>>
promises == <<installed, acked, filed>>
settingsVars == <<platform, disk, locals, promises, faults, crashes>>

Windows == UnixWindows \cup WindowsWindows
Files == 1..MaxFiles
Other == MaxFiles + 1
Here == IF platform = "unix" THEN UnixWindows ELSE WindowsWindows

\* Before the first window: no settings, settings saved earlier, or an entry
\* that inspect_settings_file refuses.
SettingsAt(system, entry) ==
    /\ platform = system
    /\ dir = [current |-> entry, backup |-> 0, extra |-> {}]
    /\ past = {dir}
    /\ data = [f \in Files |-> IF f = 1 /\ entry = 1 THEN "synced" ELSE "absent"]
    /\ created = 1
    /\ step = [w \in Windows |-> "closed"]
    /\ goal = [w \in Windows |-> "load"]
    /\ seen = [w \in Windows |-> [current |-> 0, backup |-> 0]]
    /\ file = [w \in Windows |-> 0]
    /\ loaded = [w \in Windows |-> 0]
    /\ known = [w \in Windows |-> {}]
    /\ installed = IF entry = 1 THEN <<1>> ELSE <<>>
    /\ acked = IF entry = 1 THEN {1} ELSE {}
    /\ filed = {}
    /\ faults = 0 /\ crashes = 0

SettingsInit ==
    \E system \in {"unix", "windows"}, entry \in {0, 1, Other} : SettingsAt(system, entry)

-----------------------------------------------------------------------------
\* Helpers.

Goes(w, s) == step' = [step EXCEPT ![w] = s]

\* The operation of w returns; a closing window is then gone.
Returns(w) ==
    /\ Goes(w, IF goal[w] = "close" THEN "closed" ELSE "open")
    /\ file' = [file EXCEPT ![w] = 0]

\* A directory operation: every process sees it, a power loss may undo it.
Becomes(d) == dir' = d /\ past' = past \cup {d}

Keeps(w, s) == Goes(w, s) /\ UNCHANGED <<disk, file, promises>>
Refuses(w) == Returns(w) /\ UNCHANGED <<disk, promises>>

\* Where load_settings_at and save_settings_at begin, and where the recovery
\* of a staged file goes on: to the inspection of the caller, or to the
\* replacement when a temporary file is already written.
FirstCall(g) ==
    IF platform = "windows" THEN "seeCurrent" ELSE IF g = "load" THEN "inspect" ELSE "check"
AfterRecovery(w) ==
    IF goal[w] = "load" THEN "inspect" ELSE IF file[w] = 0 THEN "check" ELSE "look"

Position(f) == IF \E i \in DOMAIN installed : installed[i] = f
               THEN CHOOSE i \in DOMAIN installed : installed[i] = f
               ELSE 0
Newest(d) == IF Position(d.current) >= Position(d.backup)
             THEN Position(d.current) ELSE Position(d.backup)
HasSettings(d) == d.current # 0 \/ d.backup # 0

-----------------------------------------------------------------------------
\* A window opens, saves, files a crash report, closes.

Begins(w, g) ==
    /\ goal' = [goal EXCEPT ![w] = g]
    /\ file' = [file EXCEPT ![w] = 0]
    /\ UNCHANGED <<platform, disk, seen, promises, faults, crashes>>

OpenWindow(w) ==
    /\ w \in Here /\ step[w] = "closed"
    /\ Begins(w, "load") /\ Goes(w, FirstCall("load"))
    /\ loaded' = [loaded EXCEPT ![w] = 0]
    /\ known' = [known EXCEPT ![w] = {installed[i] : i \in DOMAIN installed}]

SaveOrClose(w) ==
    /\ step[w] = "open" /\ created < MaxFiles
    /\ \E g \in {"save", "close"} : Begins(w, g) /\ Goes(w, FirstCall(g))
    /\ UNCHANGED <<loaded, known>>

ReportCrash(w) ==
    /\ step[w] = "open" /\ created < MaxFiles
    /\ Begins(w, "report") /\ Goes(w, "create")
    /\ UNCHANGED <<loaded, known>>

-----------------------------------------------------------------------------
\* recover_windows_settings: inspect both names, then put a staged file back
\* or remove one that is no longer needed.

\* inspect_settings_file: a link, a directory, somebody else's file.
SeeAnything(entry) == FALSE
Refused(entry) == entry = Other

See(w, name, now, next) ==
    /\ step[w] = now
    /\ IF Refused(dir[name])
       THEN Refuses(w) /\ UNCHANGED seen
       ELSE /\ seen' = [seen EXCEPT ![w][name] = dir[name]]
            /\ Keeps(w, next)

RecoverNothing(w) ==
    IF seen[w].backup # 0 /\ seen[w].current # 0 /\ dir.backup # 0
    THEN Becomes([dir EXCEPT !.backup = 0]) /\ Goes(w, AfterRecovery(w)) /\ UNCHANGED file
    ELSE UNCHANGED <<dir, past>> /\ Goes(w, AfterRecovery(w)) /\ UNCHANGED file

RecoverBackwards(w) ==
    IF seen[w].backup # 0 /\ dir.backup # 0
    THEN /\ Becomes([dir EXCEPT !.current = dir.backup, !.backup = 0])
         /\ Goes(w, AfterRecovery(w)) /\ UNCHANGED file
    ELSE UNCHANGED <<dir, past>> /\ Goes(w, AfterRecovery(w)) /\ UNCHANGED file

RecoverStaged(w) ==
    IF seen[w].backup = 0
    THEN UNCHANGED <<dir, past>> /\ Goes(w, AfterRecovery(w)) /\ UNCHANGED file
    ELSE IF dir.backup = 0
    THEN UNCHANGED <<dir, past>> /\ Returns(w)
    ELSE /\ Becomes([dir EXCEPT !.backup = 0,
                                !.current = IF seen[w].current = 0 THEN dir.backup ELSE @])
         /\ Goes(w, AfterRecovery(w)) /\ UNCHANGED file

Recovery(w) ==
    \/ See(w, "current", "seeCurrent", "seeBackup")
    \/ See(w, "backup", "seeBackup", "recover")
    \/ /\ step[w] = "recover" /\ RecoverStaged(w)
       /\ UNCHANGED <<data, created, seen, promises>>

-----------------------------------------------------------------------------
\* load_settings_at: inspect, open, and on Unix compare the two; a file that
\* is not complete does not decode and leaves the defaults.

Inspect(w) ==
    /\ step[w] = "inspect"
    /\ IF dir.current \in {0, Other}
       THEN Refuses(w)
       ELSE /\ file' = [file EXCEPT ![w] = dir.current]
            /\ Goes(w, "openFile") /\ UNCHANGED <<disk, promises>>
    /\ UNCHANGED loaded

OpenFile(w) ==
    /\ step[w] = "openFile"
    /\ IF dir.current \in {0, Other} \/ (platform = "unix" /\ dir.current # file[w])
       THEN Refuses(w)
       ELSE /\ file' = [file EXCEPT ![w] = dir.current]
            /\ Goes(w, "read") /\ UNCHANGED <<disk, promises>>
    /\ UNCHANGED loaded

ReadFile(w) ==
    /\ step[w] = "read"
    /\ loaded' = [loaded EXCEPT ![w] = IF data[file[w]] = "partial" THEN 0 ELSE file[w]]
    /\ Refuses(w)

Loading(w) == (Inspect(w) \/ OpenFile(w) \/ ReadFile(w)) /\ UNCHANGED seen

-----------------------------------------------------------------------------
\* save_settings_at and write_crash_report_at: a new file, written and synced.

Check(w) ==
    /\ step[w] = "check"
    /\ IF dir.current = Other THEN Refuses(w) ELSE Keeps(w, "create")

Create(w) ==
    /\ step[w] = "create" /\ created < MaxFiles
    /\ created' = created + 1
    /\ file' = [file EXCEPT ![w] = created + 1]
    /\ data' = [data EXCEPT ![created + 1] = "partial"]
    /\ Becomes([dir EXCEPT !.extra = @ \cup {created + 1}])
    /\ Goes(w, "write") /\ UNCHANGED promises

WriteUnsynced(w) ==
    /\ data' = [data EXCEPT ![file[w]] = "written"]
    /\ Goes(w, IF goal[w] = "report" THEN "sync" ELSE "recheck")

WriteAll(w) == data' = [data EXCEPT ![file[w]] = "written"] /\ Goes(w, "sync")

Write(w) ==
    /\ step[w] = "write" /\ WriteAll(w)
    /\ UNCHANGED <<dir, past, created, file, promises>>

ReportUnsynced(w) == goal[w] = "report"

\* On Windows a crash report is complete here: its directory is not synced.
ReportDone(w) == goal[w] = "report" /\ platform = "windows"

Sync(w) ==
    /\ step[w] = "sync"
    /\ data' = [data EXCEPT ![file[w]] = "synced"]
    /\ IF ReportDone(w)
       THEN filed' = filed \cup {file[w]} /\ Returns(w)
       ELSE /\ Goes(w, IF goal[w] = "report" THEN "syncDirectory" ELSE "recheck")
            /\ UNCHANGED <<filed, file>>
    /\ UNCHANGED <<dir, past, created, installed, acked>>

Recheck(w) ==
    /\ step[w] = "recheck"
    /\ IF dir.current = Other THEN Refuses(w)
       ELSE Keeps(w, IF platform = "unix" THEN "install" ELSE "seeCurrent")

\* replace_settings_file on Windows: out of the way, in, and the backup gone.
Look(w) ==
    /\ step[w] = "look"
    /\ IF dir.current = Other THEN Refuses(w)
       ELSE Keeps(w, IF dir.current = 0 THEN "install" ELSE "stage")

StageByRemoval == [dir EXCEPT !.current = 0]
StagedAway == [dir EXCEPT !.current = 0, !.backup = dir.current]

Stage(w) ==
    /\ step[w] = "stage"
    /\ IF dir.current = 0 THEN Refuses(w)
       ELSE /\ Becomes(StagedAway) /\ Goes(w, "install")
            /\ UNCHANGED <<data, created, file, promises>>

Install(w) ==
    /\ step[w] = "install"
    /\ Becomes([dir EXCEPT !.current = file[w], !.extra = @ \ {file[w]}])
    /\ installed' = Append(installed, file[w])
    /\ Goes(w, IF platform = "unix" THEN "syncDirectory" ELSE "unstage")
    /\ UNCHANGED <<data, created, file, acked, filed>>

\* The rename failed: the old file goes back if it can.
InstallFails(w) ==
    /\ step[w] = "install" /\ platform = "windows"
    /\ Keeps(w, "undo")

Undo(w) ==
    /\ step[w] = "undo" /\ dir.backup # 0
    /\ Becomes([dir EXCEPT !.current = dir.backup, !.backup = 0])
    /\ Returns(w) /\ UNCHANGED <<data, created, promises>>

UndoNothing(w) == step[w] = "undo" /\ dir.backup = 0 /\ Refuses(w)

Unstage(w) ==
    /\ step[w] = "unstage"
    /\ IF dir.backup = 0 THEN UNCHANGED <<dir, past>> ELSE Becomes([dir EXCEPT !.backup = 0])
    /\ acked' = acked \cup {file[w]}
    /\ Returns(w) /\ UNCHANGED <<data, created, installed, filed>>

RenameOnly == UNCHANGED past
Synced == past' = {dir}

\* The directory sync that ends a save or a crash report on Unix.
SyncDirectory(w) ==
    /\ step[w] = "syncDirectory"
    /\ Synced
    /\ IF goal[w] = "report"
       THEN filed' = filed \cup {file[w]} /\ UNCHANGED acked
       ELSE acked' = acked \cup {file[w]} /\ UNCHANGED filed
    /\ Returns(w) /\ UNCHANGED <<dir, data, created, installed>>

Saving(w) ==
    /\ \/ Check(w) \/ Create(w) \/ Write(w) \/ Sync(w) \/ Recheck(w) \/ Look(w)
       \/ Stage(w) \/ Install(w) \/ Undo(w) \/ UndoNothing(w) \/ Unstage(w)
       \/ SyncDirectory(w)
    /\ UNCHANGED <<seen, loaded>>

-----------------------------------------------------------------------------
\* What goes wrong.

\* A call fails: the operation returns its error; a load leaves the defaults,
\* a save leaves its temporary file behind.
CallFails(w) ==
    /\ faults < MaxFaults /\ step[w] \notin {"closed", "open"}
    /\ faults' = faults + 1
    /\ IF step[w] = "install" /\ platform = "windows" THEN InstallFails(w) ELSE Refuses(w)
    /\ UNCHANGED <<platform, goal, seen, loaded, known, crashes>>

\* The process of a window dies: the directory and the files stay as they are.
Crash(w) ==
    /\ crashes < MaxCrashes /\ step[w] # "closed"
    /\ crashes' = crashes + 1
    /\ Goes(w, "closed") /\ file' = [file EXCEPT ![w] = 0]
    /\ UNCHANGED <<platform, disk, goal, seen, loaded, known, promises, faults>>

\* Power is lost.  On Windows nothing syncs the directory, so that even a
\* save that returned Ok may be undone.
PowerLoss ==
    /\ crashes < MaxCrashes
    /\ crashes' = crashes + 1
    /\ dir' \in past /\ past' = {dir'}
    /\ data' = [f \in Files |-> IF data[f] = "written" THEN "partial" ELSE data[f]]
    /\ step' = [w \in Windows |-> "closed"]
    /\ file' = [w \in Windows |-> 0]
    /\ loaded' = [w \in Windows |-> 0]
    /\ installed' = SubSeq(installed, 1, Newest(dir'))
    /\ acked' = (IF platform = "unix" THEN acked ELSE {})
    /\ filed' = (IF platform = "unix" THEN filed ELSE {})
    /\ UNCHANGED <<platform, created, goal, seen, known, faults>>

Calls(w) ==
    /\ \/ Recovery(w) /\ UNCHANGED loaded
       \/ Loading(w)
       \/ Saving(w)
    /\ UNCHANGED <<platform, goal, known, faults, crashes>>

SettingsNext ==
    \/ \E w \in Windows :
          \/ OpenWindow(w) \/ SaveOrClose(w) \/ ReportCrash(w)
          \/ Calls(w) \/ CallFails(w) \/ Crash(w)
    \/ PowerLoss

SettingsSpec == SettingsInit /\ [][SettingsNext]_settingsVars

-----------------------------------------------------------------------------
\* Properties.

Steps == {"closed", "open", "seeCurrent", "seeBackup", "recover", "inspect", "openFile",
          "read", "check", "create", "write", "sync", "recheck", "look", "stage",
          "install", "undo", "unstage", "syncDirectory"}
Directories ==
    [current : 0..Other, backup : 0..MaxFiles, extra : SUBSET Files]

\* The types of the variables; a directory that a power loss may leave always
\* includes the present one.
SettingsTypeOK ==
    /\ platform \in {"unix", "windows"}
    /\ dir \in Directories /\ past \subseteq Directories /\ dir \in past
    /\ data \in [Files -> {"absent", "partial", "written", "synced"}]
    /\ created \in Files
    /\ step \in [Windows -> Steps]
    /\ goal \in [Windows -> {"load", "save", "close", "report"}]
    /\ seen \in [Windows -> [current : 0..MaxFiles, backup : 0..MaxFiles]]
    /\ file \in [Windows -> 0..MaxFiles]
    /\ loaded \in [Windows -> 0..MaxFiles]
    /\ known \in [Windows -> SUBSET Files]
    /\ installed \in Seq(Files) /\ acked \subseteq Files /\ filed \subseteq Files
    /\ faults \in 0..MaxFaults /\ crashes \in 0..MaxCrashes

\* Whatever the power loss, the settings name and the backup name never show
\* a file that is not completely on disk: the temporary file is synced before
\* any rename (save_settings_at 457-461).
NeverTorn ==
    \A d \in past : \A f \in {d.current, d.backup} \cap Files : data[f] = "synced"

\* On Unix a save that returned Ok survives a power loss: every directory the
\* loss may leave shows that file or one installed later, from any window
\* (the directory sync, save_settings_at 469-472).
SavedSurvives ==
    platform = "unix" =>
        \A d \in past, f \in acked :
            d.current \in Files /\ Position(d.current) >= Position(f)

\* Once there are settings, the death of the process between any two calls
\* leaves them under one of the two names, and so does a power loss once
\* they are on disk (comment at gui.rs:484-485).
Recoverable ==
    /\ installed # <<>> => HasSettings(dir)
    /\ data[1] = "synced" \/ (platform = "unix" /\ acked # {}) =>
           \A d \in past : HasSettings(d)

\* A load that gets as far as looking for the settings finds them whenever
\* there ever were any: the recovery before it has put a staged file back.
FoundAgain ==
    \A w \in Windows : step[w] = "inspect" /\ installed # <<>> => dir.current # 0

\* A load never returns settings older than those in place before the window
\* opened: recovery does not bring back the old file of a replacement that
\* had put in the new one.
LoadsLatest ==
    \A w \in Windows : loaded[w] # 0 =>
        \A f \in known[w] : Position(loaded[w]) >= Position(f)

\* On Unix a crash report that was announced to the operator is complete on
\* disk and still there after a power loss.
ReportKept ==
    platform = "unix" =>
        \A d \in past : \A f \in filed : f \in d.extra /\ data[f] = "synced"

\* Through process deaths, failing calls and power losses, settings are found,
\* whole, none older than was promised, and so are crash reports.
SettingsKept ==
    /\ SettingsTypeOK
    /\ NeverTorn /\ SavedSurvives /\ Recoverable
    /\ FoundAgain /\ LoadsLatest
    /\ ReportKept

=============================================================================
