---- MODULE OperatorHostProofs ----
\* The operator's machine: the settings and crash reports on disk, for any
\* number of windows, files, faults and crashes; the memory preflight, for any
\* memory and any needs of RandomX; and the logs, for any number of windows.
EXTENDS SettingsFile, MemoryPreflight, DiagnosticsLog,
        SequenceTheorems, FiniteSetTheorems, WellFoundedInduction, TLAPS

----
\* The inductive invariant of the settings file.

\* The files that came under the settings name; none came twice, and each was
\* completely on disk.
Placed == {installed[i] : i \in DOMAIN installed}
Ordered == \A i, j \in DOMAIN installed : installed[i] = installed[j] => i = j
Whole == \A i \in DOMAIN installed : installed[i] <= created /\ data[installed[i]] = "synced"

\* No directory a power loss may leave shows any other file.
Shown == \A d \in past : d.current \in Placed \cup {0, Other} /\ d.backup \in Placed \cup {0}

\* A window that is writing a file of its own, before and after it came under
\* the settings name.
Recovering == {"seeCurrent", "seeBackup", "recover"}
Unfinished == {"write", "sync"}
HasFile(w) ==
    \/ step[w] \in Unfinished \cup {"recheck", "look", "stage", "install", "undo", "unstage",
                                    "syncDirectory"}
    \/ step[w] \in Recovering /\ file[w] # 0
Installed(w) == step[w] = "unstage" \/ (step[w] = "syncDirectory" /\ goal[w] # "report")

\* Nobody else writes that file, no promise was made about it yet, and it is
\* on disk before it gets a name that matters.
Owned(w) ==
    /\ file[w] > 1 /\ file[w] <= created /\ file[w] \notin filed
    /\ \A v \in Windows : HasFile(v) /\ file[v] = file[w] => v = w
    /\ step[w] \notin Unfinished => data[file[w]] = "synced"
    /\ file[w] \in Placed <=> Installed(w)
    /\ goal[w] = "report" => step[w] \in Unfinished \cup {"syncDirectory"}

Writers ==
    \A w \in Windows :
      /\ step[w] # "closed" => w \in Here
      /\ step[w] = "stage" => dir.current # Other
      /\ HasFile(w) => Owned(w)

\* Without a backup name the settings name always shows the last file.
UnixSteps == Steps \ (Recovering \cup {"look", "stage", "undo", "unstage"})
OnUnix ==
    /\ \A w \in Windows :
          step[w] \in UnixSteps /\ (HasFile(w) /\ goal[w] = "report" => file[w] \in dir.extra)
    /\ \A d \in past : d.backup = 0
    /\ installed # <<>> => dir.current = installed[Len(installed)]
    /\ acked \subseteq Placed

\* What holds for any number of windows on either system.
Disk ==
    /\ Ordered /\ Whole /\ Shown /\ Writers /\ filed \subseteq 1..created
    /\ platform = "unix" => OnUnix
    /\ SavedSurvives /\ ReportKept

DiskInv == SettingsTypeOK /\ Disk

----
\* Positions in a sequence without repetitions.

Place(s, f) == IF \E i \in DOMAIN s : s[i] = f THEN CHOOSE i \in DOMAIN s : s[i] = f ELSE 0
Once(s) == \A i, j \in DOMAIN s : s[i] = s[j] => i = j

\* Versions of the file are numbers, and a sequence of them is one of numbers.
LEMMA FilesAreNumbers ==
  ASSUME NEW s \in Seq(Files)
  PROVE  s \in Seq(Nat)
<1>1. Len(s) \in Nat /\ s \in [1..Len(s) -> Files]
  OBVIOUS
<1>2. Files \subseteq Nat
  BY DEF Files
<1>3. s \in [1..Len(s) -> Nat]
  BY <1>1, <1>2
<1> QED BY <1>1, <1>3

\* In a sequence without repetition a member is at one place.
LEMMA PlaceAt ==
  ASSUME NEW s \in Seq(Nat), Once(s), NEW i \in 1..Len(s)
  PROVE  Place(s, s[i]) = i
BY DEF Place, Once

\* The place of a member is where it is; that of anything else is none.
LEMMA PlaceIn ==
  ASSUME NEW s \in Seq(Nat), NEW f
  PROVE  /\ Place(s, f) \in 0..Len(s)
         /\ Place(s, f) # 0 => s[Place(s, f)] = f
         /\ (\E i \in 1..Len(s) : s[i] = f) => Place(s, f) # 0
<1>1. CASE \E i \in DOMAIN s : s[i] = f
  <2>1. Place(s, f) \in DOMAIN s /\ s[Place(s, f)] = f
    BY <1>1 DEF Place
  <2> QED BY <2>1
<1>2. CASE ~ \E i \in DOMAIN s : s[i] = f
  <2>1. Place(s, f) = 0
    BY <1>2 DEF Place
  <2> QED BY <1>2, <2>1
<1> QED BY <1>1, <1>2

\* A sequence without repetition and a new member at its end.
LEMMA OnceMore ==
  ASSUME NEW s \in Seq(Nat), Once(s), NEW g \in Nat, \A i \in 1..Len(s) : s[i] # g
  PROVE  /\ Append(s, g) \in Seq(Nat) /\ Once(Append(s, g)) /\ Len(Append(s, g)) = Len(s) + 1
         /\ \A i \in 1..Len(s) : Append(s, g)[i] = s[i]
         /\ Append(s, g)[Len(s) + 1] = g
BY DEF Once

\* The beginning of a sequence without repetition.
LEMMA OnceLess ==
  ASSUME NEW s \in Seq(Nat), Once(s), NEW n \in 0..Len(s)
  PROVE  /\ SubSeq(s, 1, n) \in Seq(Nat) /\ Once(SubSeq(s, 1, n)) /\ Len(SubSeq(s, 1, n)) = n
         /\ \A i \in 1..n : SubSeq(s, 1, n)[i] = s[i]
BY DEF Once

\* The position of a version is its place among the installed ones.
LEMMA PositionIs ==
  ASSUME NEW f
  PROVE  Position(f) = Place(installed, f)
BY DEF Position, Place

\* The same of the next state.
LEMMA PositionIsNext ==
  ASSUME NEW f
  PROVE  Position(f)' = Place(installed', f)
BY DEF Position, Place

----
\* The types of the settings file.

\* Every state of the directory the first window may meet is well typed.
LEMMA SettingsInitTypes == SettingsInit => SettingsTypeOK
<1> SUFFICES ASSUME NEW sys \in {"unix", "windows"}, NEW entry \in {0, 1, Other},
                    SettingsAt(sys, entry)
             PROVE  SettingsTypeOK
  BY DEF SettingsInit
<1>f. 1 \in Files /\ MaxFiles \in Nat /\ entry \in 0..Other
  BY SettingsAssumption DEF Files, Other
<1>1. installed \in Seq(Files) /\ acked \subseteq Files
  <2>1. CASE entry = 1
    <3>1. installed = <<1>> /\ acked = {1}
      BY <2>1 DEF SettingsAt
    <3> QED BY <1>f, <3>1
  <2>2. CASE entry # 1
    <3>1. installed = <<>> /\ acked = {}
      BY <2>2 DEF SettingsAt
    <3> QED BY <3>1
  <2> QED BY <2>1, <2>2
<1>2. dir \in Directories /\ past \subseteq Directories /\ dir \in past
  BY <1>f DEF SettingsAt, Directories
<1>3. data \in [Files -> {"absent", "partial", "written", "synced"}]
  BY DEF SettingsAt
<1>4. /\ step \in [Windows -> Steps] /\ goal \in [Windows -> {"load", "save", "close", "report"}]
      /\ known \in [Windows -> SUBSET Files]
  BY DEF SettingsAt, Steps
<1>5. /\ seen \in [Windows -> [current : 0..MaxFiles, backup : 0..MaxFiles]]
      /\ file \in [Windows -> 0..MaxFiles] /\ loaded \in [Windows -> 0..MaxFiles]
  BY SettingsAssumption DEF SettingsAt
<1>6. /\ platform \in {"unix", "windows"} /\ created \in Files /\ filed \subseteq Files
      /\ faults \in 0..MaxFaults /\ crashes \in 0..MaxCrashes
  BY <1>f, SettingsAssumption DEF SettingsAt
<1> QED BY <1>1, <1>2, <1>3, <1>4, <1>5, <1>6 DEF SettingsTypeOK

----
\* What the steps do.

\* The types of what a window keeps to itself, and of the bounds.
LocalTypes ==
    /\ step \in [Windows -> Steps]
    /\ goal \in [Windows -> {"load", "save", "close", "report"}]
    /\ seen \in [Windows -> [current : 0..MaxFiles, backup : 0..MaxFiles]]
    /\ file \in [Windows -> 0..MaxFiles]
    /\ loaded \in [Windows -> 0..MaxFiles]
    /\ known \in [Windows -> SUBSET Files]
    /\ faults \in 0..MaxFaults /\ crashes \in 0..MaxCrashes

\* A step of w is none of the other windows'.
Alone(w) ==
    /\ UNCHANGED platform
    /\ \A v \in Windows \ {w} :
          step'[v] = step[v] /\ file'[v] = file[v] /\ goal'[v] = goal[v]

\* w goes on to s with the file f; the rest of the windows' state stays.
Moves(w, s, f) ==
    /\ step' = [step EXCEPT ![w] = s] /\ file' = [file EXCEPT ![w] = f]
    /\ UNCHANGED <<platform, goal, known>>

\* What a step of one call changes of the call, and that no other call steps.
LEMMA MovesAre ==
  ASSUME SettingsTypeOK, NEW w \in Windows, NEW s \in Steps, NEW f \in 0..MaxFiles,
         Moves(w, s, f)
  PROVE  /\ Alone(w) /\ step'[w] = s /\ file'[w] = f /\ goal'[w] = goal[w]
         /\ step' \in [Windows -> Steps] /\ file' \in [Windows -> 0..MaxFiles]
         /\ goal' \in [Windows -> {"load", "save", "close", "report"}]
         /\ known' \in [Windows -> SUBSET Files]
<1>1. step \in [Windows -> Steps] /\ file \in [Windows -> 0..MaxFiles]
  BY DEF SettingsTypeOK
<1>2. /\ goal \in [Windows -> {"load", "save", "close", "report"}]
      /\ known \in [Windows -> SUBSET Files]
  BY DEF SettingsTypeOK
<1> QED BY <1>1, <1>2 DEF Moves, Alone

\* The three ways in which an operation goes on.
LEMMA KeepsMoves ==
  ASSUME SettingsTypeOK, NEW w \in Windows, NEW s \in Steps, Keeps(w, s),
         UNCHANGED <<platform, goal, known>>
  PROVE  /\ UNCHANGED <<dir, past, data, created, installed, acked, filed>>
         /\ Moves(w, s, file[w]) /\ file[w] \in 0..MaxFiles
<1>1. file \in [Windows -> 0..MaxFiles]
  BY DEF SettingsTypeOK
<1>2. file = [file EXCEPT ![w] = file[w]] /\ file[w] \in 0..MaxFiles
  BY <1>1
<1> QED BY <1>2 DEF Keeps, Goes, Moves, disk, promises

Ended(w) == IF goal[w] = "close" THEN "closed" ELSE "open"

\* A call that returns ends.
LEMMA ReturnsMoves ==
  ASSUME NEW w \in Windows, Returns(w), UNCHANGED <<platform, goal, known>>
  PROVE  Moves(w, Ended(w), 0) /\ Ended(w) \in {"open", "closed"} /\ Ended(w) \in Steps
BY DEF Returns, Goes, Moves, Ended, Steps

\* A call that is refused ends and leaves the directory alone.
LEMMA RefusesMoves ==
  ASSUME NEW w \in Windows, Refuses(w), UNCHANGED <<platform, goal, known>>
  PROVE  /\ UNCHANGED <<dir, past, data, created, installed, acked, filed>>
         /\ Moves(w, Ended(w), 0) /\ Ended(w) \in {"open", "closed"} /\ Ended(w) \in Steps
BY ReturnsMoves DEF Refuses, disk, promises

\* Nothing on disk changes, and w gets no file of its own.
Quiet(w) ==
    /\ UNCHANGED <<dir, past, data, created, installed, acked, filed>>
    /\ Alone(w) /\ LocalTypes'
    /\ HasFile(w)' =>
          /\ HasFile(w) /\ file'[w] = file[w] /\ goal'[w] = goal[w]
          /\ step[w] \notin Unfinished \cup {"unstage", "syncDirectory"}
          /\ step'[w] \notin Unfinished \cup {"unstage", "syncDirectory"}
    /\ step'[w] = "stage" => dir.current # Other
    /\ step'[w] # "closed" => w \in Here
    /\ platform = "unix" => step'[w] \in UnixSteps

\* A step that renames nothing and writes nothing keeps the invariant of the disk.
LEMMA QuietKeeps ==
  ASSUME DiskInv, NEW w \in Windows, Quiet(w)
  PROVE  DiskInv'
<1>1. SettingsTypeOK'
  BY DEF DiskInv, Quiet, LocalTypes, Alone, SettingsTypeOK
<1>2. UNCHANGED <<platform, dir, past, data, created, installed, acked, filed>>
  BY DEF Quiet, Alone
<1>3. /\ (Ordered /\ Whole /\ Shown)' /\ Placed' = Placed /\ Here' = Here
      /\ (filed \subseteq 1..created)'
  BY <1>2 DEF DiskInv, Disk, Ordered, Whole, Shown, Placed, Here
<1>4. SavedSurvives' /\ ReportKept'
  BY <1>2 DEF DiskInv, Disk, SavedSurvives, ReportKept, Position
<1>5. \A v \in Windows \ {w} :
         /\ HasFile(v)' <=> HasFile(v)
         /\ Installed(v)' <=> Installed(v)
         /\ step'[v] = step[v] /\ file'[v] = file[v] /\ goal'[v] = goal[v]
  BY DEF Quiet, Alone, HasFile, Installed
<1>6. Writers'
  <2> SUFFICES ASSUME NEW v \in Windows
               PROVE  /\ step'[v] # "closed" => v \in Here'
                      /\ step'[v] = "stage" => dir'.current # Other
                      /\ HasFile(v)' => Owned(v)'
    BY DEF Writers
  <2>1. step'[v] # "closed" => v \in Here'
    BY <1>3, <1>5 DEF Quiet, DiskInv, Disk, Writers
  <2>2. step'[v] = "stage" => dir'.current # Other
    BY <1>2, <1>5 DEF Quiet, DiskInv, Disk, Writers
  <2>3. \A u \in Windows : HasFile(u)' => HasFile(u) /\ file'[u] = file[u]
    BY <1>5 DEF Quiet
  <2>4. ASSUME HasFile(v)' PROVE Owned(v)'
    <3>1. Owned(v) /\ file'[v] = file[v]
      BY <2>3, <2>4 DEF DiskInv, Disk, Writers
    <3>2. step'[v] \notin Unfinished => step[v] \notin Unfinished
      BY <1>5, <2>4 DEF Quiet
    <3>3. Installed(v)' <=> Installed(v)
      BY <1>5, <2>4 DEF Quiet, Installed
    <3>4. goal'[v] = "report" => step'[v] \in Unfinished \cup {"syncDirectory"}
      BY <1>5, <2>4, <3>1 DEF Quiet, Owned
    <3> QED BY <1>2, <1>3, <2>3, <3>1, <3>2, <3>3, <3>4 DEF Owned
  <2> QED BY <2>1, <2>2, <2>4
<1>7. (platform = "unix" => OnUnix)'
  <2> SUFFICES ASSUME platform = "unix", OnUnix PROVE OnUnix'
    BY <1>2 DEF DiskInv, Disk
  <2>1. \A v \in Windows : step'[v] \in UnixSteps
    BY <1>5 DEF OnUnix, Quiet
  <2>2. \A v \in Windows : HasFile(v)' /\ goal'[v] = "report" => file'[v] \in dir'.extra
    BY <1>2, <1>5 DEF OnUnix, Quiet
  <2>3. /\ \A d \in past' : d.backup = 0
        /\ installed' # <<>> => dir'.current = installed'[Len(installed')]
        /\ acked' \subseteq Placed'
    BY <1>2, <1>3 DEF OnUnix
  <2> QED BY <2>1, <2>2, <2>3 DEF OnUnix
<1> QED BY <1>1, <1>3, <1>4, <1>6, <1>7 DEF DiskInv, Disk

\* A window on Unix is never in the steps of the replacement on Windows.
LEMMA InvAt ==
  ASSUME DiskInv, NEW w \in Windows
  PROVE  /\ step[w] # "closed" => w \in Here
         /\ platform = "unix" => step[w] \in UnixSteps
         /\ platform \in {"unix", "windows"} /\ step[w] \in Steps
         /\ file[w] \in 0..MaxFiles
BY DEF DiskInv, Disk, Writers, OnUnix, SettingsTypeOK

\* What MovesAre says suffices for a step that touches nothing on disk.
LEMMA QuietMove ==
  ASSUME DiskInv, NEW w \in Windows, NEW s \in Steps, NEW f \in 0..MaxFiles, Moves(w, s, f),
         UNCHANGED <<dir, past, data, created, installed, acked, filed>>,
         seen' \in [Windows -> [current : 0..MaxFiles, backup : 0..MaxFiles]],
         loaded' \in [Windows -> 0..MaxFiles],
         faults' \in 0..MaxFaults, crashes' \in 0..MaxCrashes,
         \/ s \in {"open", "closed", "inspect", "openFile", "read"}
         \/ s \in {"check", "create"}
         \/ s \in Recovering /\ f = 0
         \/ /\ HasFile(w) /\ f = file[w]
            /\ step[w] \notin Unfinished \cup {"unstage", "syncDirectory"}
            /\ s \notin Unfinished \cup {"unstage", "syncDirectory"},
         s = "stage" => dir.current # Other,
         s # "closed" => step[w] # "closed",
         platform = "unix" => s \in UnixSteps
  PROVE  Quiet(w)
<1>1. /\ Alone(w) /\ step'[w] = s /\ file'[w] = f /\ goal'[w] = goal[w]
      /\ step' \in [Windows -> Steps] /\ file' \in [Windows -> 0..MaxFiles]
      /\ goal' \in [Windows -> {"load", "save", "close", "report"}]
      /\ known' \in [Windows -> SUBSET Files]
  BY MovesAre DEF DiskInv
<1>2. LocalTypes'
  BY <1>1 DEF LocalTypes
<1>3. HasFile(w)' =>
          /\ HasFile(w) /\ f = file[w]
          /\ step[w] \notin Unfinished \cup {"unstage", "syncDirectory"}
          /\ s \notin Unfinished \cup {"unstage", "syncDirectory"}
  BY <1>1 DEF HasFile, Recovering, Unfinished
<1> QED BY <1>1, <1>2, <1>3, InvAt DEF Quiet

\* A refused, failed or finished operation: nothing is left of it but its files.
LEMMA RefusesQuiet ==
  ASSUME DiskInv, NEW w \in Windows, Refuses(w), UNCHANGED <<platform, goal, known>>,
         step[w] # "closed",
         seen' \in [Windows -> [current : 0..MaxFiles, backup : 0..MaxFiles]],
         loaded' \in [Windows -> 0..MaxFiles],
         faults' \in 0..MaxFaults, crashes' \in 0..MaxCrashes
  PROVE  Quiet(w)
<1>1. /\ UNCHANGED <<dir, past, data, created, installed, acked, filed>>
      /\ Moves(w, Ended(w), 0) /\ Ended(w) \in {"open", "closed"} /\ Ended(w) \in Steps
  BY RefusesMoves
<1>2. 0 \in 0..MaxFiles
  BY SettingsAssumption
<1>3. Ended(w) \in UnixSteps
  BY <1>1 DEF UnixSteps, Recovering
<1> QED BY <1>1, <1>2, <1>3, QuietMove

\* A step of a call that leaves the directory alone is such a step.
LEMMA KeepsQuiet ==
  ASSUME DiskInv, NEW w \in Windows, NEW s \in Steps, Keeps(w, s),
         UNCHANGED <<platform, goal, known>>,
         seen' \in [Windows -> [current : 0..MaxFiles, backup : 0..MaxFiles]],
         loaded' \in [Windows -> 0..MaxFiles],
         faults' \in 0..MaxFaults, crashes' \in 0..MaxCrashes,
         \/ s \in {"inspect", "openFile", "read", "check", "create"}
         \/ s \in Recovering /\ file[w] = 0
         \/ /\ HasFile(w) /\ step[w] \notin Unfinished \cup {"unstage", "syncDirectory"}
            /\ s \notin Unfinished \cup {"unstage", "syncDirectory"},
         s = "stage" => dir.current # Other,
         step[w] # "closed",
         platform = "unix" => s \in UnixSteps
  PROVE  Quiet(w)
<1>1. /\ UNCHANGED <<dir, past, data, created, installed, acked, filed>>
      /\ Moves(w, s, file[w]) /\ file[w] \in 0..MaxFiles
  BY KeepsMoves DEF DiskInv
<1> QED BY <1>1, QuietMove

\* The types of what a call leaves alone.
LEMMA CallTypes ==
  ASSUME DiskInv
  PROVE  /\ seen \in [Windows -> [current : 0..MaxFiles, backup : 0..MaxFiles]]
         /\ loaded \in [Windows -> 0..MaxFiles] /\ data \in [Files -> {"absent", "partial", "written", "synced"}]
         /\ faults \in 0..MaxFaults /\ crashes \in 0..MaxCrashes
         /\ dir \in Directories /\ past \subseteq Directories /\ dir \in past
         /\ installed \in Seq(Files) /\ created \in Files
BY DEF DiskInv, SettingsTypeOK

\* Opening a window, or beginning to save or to file a report.
LEMMA BeginsKeeps ==
  ASSUME DiskInv, NEW w \in Windows, OpenWindow(w) \/ SaveOrClose(w) \/ ReportCrash(w)
  PROVE  DiskInv'
<1>1. PICK g \in {"load", "save", "close", "report"}, s \in Steps :
        /\ Begins(w, g) /\ Goes(w, s)
        /\ s \in {"seeCurrent", "inspect", "check", "create"}
        /\ platform = "unix" => s # "seeCurrent"
  <2>1. \A g \in {"load", "save", "close"} : FirstCall(g) \in {"seeCurrent", "inspect", "check"}
                  /\ (platform = "unix" => FirstCall(g) # "seeCurrent")
    BY DEF FirstCall
  <2> QED BY <2>1 DEF OpenWindow, SaveOrClose, ReportCrash, Steps
<1>2. /\ UNCHANGED <<platform, dir, past, data, created, installed, acked, filed, seen, faults, crashes>>
      /\ goal' = [goal EXCEPT ![w] = g] /\ file' = [file EXCEPT ![w] = 0]
      /\ step' = [step EXCEPT ![w] = s]
  BY <1>1 DEF Begins, Goes, disk, promises
<1>t. /\ step \in [Windows -> Steps] /\ file \in [Windows -> 0..MaxFiles]
      /\ goal \in [Windows -> {"load", "save", "close", "report"}]
      /\ known \in [Windows -> SUBSET Files] /\ 0 \in 0..MaxFiles
  BY SettingsAssumption DEF DiskInv, SettingsTypeOK
<1>3. loaded' \in [Windows -> 0..MaxFiles] /\ known' \in [Windows -> SUBSET Files]
  <2>1. CASE UNCHANGED <<loaded, known>>
    BY <1>t, <2>1, CallTypes
  <2>2. CASE OpenWindow(w)
    <3>1. {installed[i] : i \in DOMAIN installed} \in SUBSET Files
      BY CallTypes
    <3>2. loaded' = [loaded EXCEPT ![w] = 0] /\ known' = [known EXCEPT ![w] = {installed[i] : i \in DOMAIN installed}]
      BY <2>2 DEF OpenWindow
    <3> QED BY <1>t, <3>1, <3>2, CallTypes
  <2> QED BY <2>1, <2>2 DEF SaveOrClose, ReportCrash
<1>4. w \in Here
  BY InvAt DEF OpenWindow, SaveOrClose, ReportCrash
<1>5. Alone(w) /\ LocalTypes'
  <2>1. Alone(w)
    BY <1>2, <1>t DEF Alone
  <2>2. /\ step' \in [Windows -> Steps] /\ file' \in [Windows -> 0..MaxFiles]
        /\ goal' \in [Windows -> {"load", "save", "close", "report"}]
    BY <1>2, <1>t
  <2> QED BY <1>2, <1>3, <2>1, <2>2, CallTypes DEF LocalTypes
<1>6. step'[w] = s /\ file'[w] = 0
  BY <1>2, InvAt DEF DiskInv, SettingsTypeOK
<1>7. ~HasFile(w)' /\ (platform = "unix" => s \in UnixSteps)
  BY <1>1, <1>6 DEF HasFile, Recovering, Unfinished, UnixSteps
<1> QED
  <2> Quiet(w)
    BY <1>1, <1>2, <1>4, <1>5, <1>6, <1>7 DEF Quiet
  <2> QED BY QuietKeeps

\* The calls of an operation leave these to others.
CallFrame == UNCHANGED <<platform, goal, known, faults, crashes>>

\* Looking at the two names keeps the invariant of the disk.
LEMMA SeeKeeps ==
  ASSUME DiskInv, NEW w \in Windows, CallFrame, UNCHANGED loaded,
         \/ See(w, "current", "seeCurrent", "seeBackup")
         \/ See(w, "backup", "seeBackup", "recover")
  PROVE  DiskInv'
<1>1. PICK name \in {"current", "backup"}, now \in {"seeCurrent", "seeBackup"},
           s \in {"seeBackup", "recover"} : See(w, name, now, s)
  BY Zenon
<1>2. step[w] \in Recovering /\ step[w] # "closed"
  BY <1>1 DEF See, Recovering
<1>3. platform # "unix"
  BY <1>2, InvAt DEF UnixSteps
<1>4. CASE Refuses(w) /\ UNCHANGED seen
  BY <1>2, <1>4, CallTypes, RefusesQuiet, QuietKeeps DEF CallFrame
<1>5. CASE seen' = [seen EXCEPT ![w][name] = dir[name]] /\ Keeps(w, s) /\ ~Refused(dir[name])
  <2>1. dir[name] \in 0..MaxFiles
    BY <1>5, CallTypes, SettingsAssumption DEF Directories, Refused, Other
  <2>2. seen' \in [Windows -> [current : 0..MaxFiles, backup : 0..MaxFiles]]
    BY <1>5, <2>1, CallTypes
  <2>3. s \in Steps /\ s \in Recovering /\ s # "stage" /\ step[w] \notin Unfinished \cup {"unstage", "syncDirectory"}
        /\ s \notin Unfinished \cup {"unstage", "syncDirectory"}
    BY <1>2 DEF Steps, Recovering, Unfinished
  <2>4. file[w] = 0 \/ HasFile(w)
    BY <1>2 DEF HasFile
  <2> QED BY <1>2, <1>3, <1>5, <2>2, <2>3, <2>4, CallTypes, KeepsQuiet, QuietKeeps DEF CallFrame
<1> QED BY <1>1, <1>4, <1>5 DEF See

\* Reading a file keeps the invariant of the disk.
LEMMA LoadingKeeps ==
  ASSUME DiskInv, NEW w \in Windows, CallFrame, Loading(w)
  PROVE  DiskInv'
<1>1. UNCHANGED seen /\ step[w] # "closed"
  BY DEF Loading, Inspect, OpenFile, ReadFile
<1>2. CASE Inspect(w) \/ OpenFile(w)
  <2>1. UNCHANGED loaded
    BY <1>2 DEF Inspect, OpenFile
  <2>2. CASE Refuses(w)
    BY <1>1, <2>1, <2>2, CallTypes, RefusesQuiet, QuietKeeps DEF CallFrame
  <2>3. CASE ~Refuses(w)
    <3>1. /\ dir.current \notin {0, Other} /\ file' = [file EXCEPT ![w] = dir.current]
          /\ UNCHANGED <<disk, promises>>
      BY <1>2, <2>3 DEF Inspect, OpenFile
    <3>2. PICK s \in {"openFile", "read"} : Goes(w, s)
      BY <1>2, <2>3 DEF Inspect, OpenFile
    <3>3. dir.current \in 0..MaxFiles
      BY <3>1, CallTypes, SettingsAssumption DEF Directories, Other
    <3>4. Moves(w, s, dir.current) /\ s \in Steps /\ s \in UnixSteps
      BY <3>1, <3>2 DEF Moves, Goes, CallFrame, Steps, UnixSteps, Recovering
    <3>5. UNCHANGED <<dir, past, data, created, installed, acked, filed>>
      BY <3>1 DEF disk, promises
    <3>6. s # "stage" /\ UNCHANGED <<faults, crashes>>
      BY DEF CallFrame
    <3>7. Quiet(w)
      BY <1>1, <2>1, <3>3, <3>4, <3>5, <3>6, CallTypes, QuietMove
    <3> QED BY <3>7, QuietKeeps
  <2> QED BY <2>2, <2>3
<1>3. CASE ReadFile(w)
  <2>1. loaded' \in [Windows -> 0..MaxFiles]
    BY <1>3, CallTypes, InvAt, SettingsAssumption DEF ReadFile
  <2> QED BY <1>1, <1>3, <2>1, CallTypes, RefusesQuiet, QuietKeeps DEF CallFrame, ReadFile
<1> QED BY <1>2, <1>3 DEF Loading

\* Looking before a rename keeps the invariant of the disk.
LEMMA CheckLookKeeps ==
  ASSUME DiskInv, NEW w \in Windows, CallFrame, UNCHANGED <<seen, loaded>>,
         Check(w) \/ Recheck(w) \/ Look(w) \/ UndoNothing(w)
  PROVE  DiskInv'
<1>1. step[w] # "closed" /\ step[w] \notin Unfinished \cup {"unstage", "syncDirectory"}
  BY DEF Check, Recheck, Look, UndoNothing, Unfinished
<1>2. CASE Refuses(w)
  BY <1>1, <1>2, CallTypes, RefusesQuiet, QuietKeeps DEF CallFrame
<1>3. CASE ~Refuses(w)
  <2>1. PICK s \in {"create", "install", "seeCurrent", "stage"} :
          /\ Keeps(w, s) /\ (s = "stage" => dir.current # Other)
          /\ platform = "unix" => s \in UnixSteps
          /\ s # "create" => HasFile(w)
    <3>1. CASE Check(w)
      BY <1>3, <3>1 DEF Check, UnixSteps, Steps, Recovering
    <3>2. CASE Recheck(w)
      BY <1>3, <3>2 DEF Recheck, UnixSteps, Steps, Recovering, HasFile
    <3>3. CASE Look(w)
      BY <1>3, <3>3, InvAt DEF Look, UnixSteps, HasFile
    <3> QED BY <1>3, <3>1, <3>2, <3>3 DEF UndoNothing
  <2>2. s \in Steps /\ s \notin Unfinished \cup {"unstage", "syncDirectory"}
    BY DEF Steps, Unfinished
  <2> QED BY <1>1, <2>1, <2>2, CallTypes, KeepsQuiet, QuietKeeps DEF CallFrame
<1> QED BY <1>2, <1>3

\* A call that fails leaves an error, or on Windows a replacement to undo.
LEMMA CallFailsKeeps ==
  ASSUME DiskInv, NEW w \in Windows, CallFails(w)
  PROVE  DiskInv'
<1>1. /\ UNCHANGED <<platform, goal, seen, loaded, known, crashes>>
      /\ faults' \in 0..MaxFaults /\ step[w] # "closed"
  BY CallTypes, SettingsAssumption DEF CallFails
<1>2. CASE Refuses(w)
  BY <1>1, <1>2, CallTypes, RefusesQuiet, QuietKeeps
<1>3. CASE ~Refuses(w)
  <2>1. step[w] = "install" /\ Keeps(w, "undo") /\ platform = "windows"
    BY <1>3 DEF CallFails, InstallFails
  <2>2. HasFile(w) /\ "undo" \in Steps
    BY <2>1 DEF HasFile, Steps
  <2> QED BY <1>1, <2>1, <2>2, CallTypes, KeepsQuiet, QuietKeeps DEF Unfinished
<1> QED BY <1>2, <1>3

\* The process of a window dies.
LEMMA CrashKeeps ==
  ASSUME DiskInv, NEW w \in Windows, Crash(w)
  PROVE  DiskInv'
<1>1. /\ UNCHANGED <<platform, dir, past, data, created, installed, acked, filed>>
      /\ UNCHANGED <<goal, seen, loaded, known, faults>>
      /\ crashes' \in 0..MaxCrashes /\ step[w] # "closed"
      /\ Moves(w, "closed", 0)
  BY CallTypes, SettingsAssumption DEF Crash, disk, promises, Moves, Goes
<1>2. "closed" \in Steps /\ "closed" \in UnixSteps /\ 0 \in 0..MaxFiles
  BY SettingsAssumption DEF Steps, UnixSteps, Recovering
<1>3. Quiet(w)
  BY <1>1, <1>2, CallTypes, QuietMove
<1> QED BY <1>3, QuietKeeps

----
\* The steps that change what is on disk.

\* The other windows keep their files, if w takes none of them.
LEMMA WritersKeep ==
  ASSUME DiskInv, NEW w \in Windows, Alone(w), created' \in Nat, created <= created',
         step'[w] # "closed" => w \in Here,
         step'[w] = "stage" => dir'.current # Other,
         dir'.current = Other => dir.current = Other,
         HasFile(w)' =>
            /\ file'[w] > 1 /\ file'[w] <= created' /\ file'[w] \notin filed'
            /\ step'[w] \notin Unfinished => data'[file'[w]] = "synced"
            /\ file'[w] \in Placed' <=> Installed(w)'
            /\ goal'[w] = "report" => step'[w] \in Unfinished \cup {"syncDirectory"},
         \A v \in Windows \ {w} : HasFile(v) =>
            /\ file[v] \notin filed' /\ data'[file[v]] = data[file[v]]
            /\ file[v] \in Placed' <=> file[v] \in Placed
            /\ HasFile(w)' => file'[w] # file[v]
  PROVE  Writers'
<1>1. \A v \in Windows \ {w} :
         /\ HasFile(v)' <=> HasFile(v)
         /\ Installed(v)' <=> Installed(v)
         /\ step'[v] = step[v] /\ file'[v] = file[v] /\ goal'[v] = goal[v]
  BY DEF Alone, HasFile, Installed
<1>2. Here' = Here
  BY DEF Alone, Here
<1>w. Writers /\ created \in Nat
  BY CallTypes, SettingsAssumption DEF DiskInv, Disk, Files
<1>3. ASSUME NEW v \in Windows \ {w}, HasFile(v)' PROVE Owned(v)'
  <2>1. Owned(v) /\ HasFile(v)
    BY <1>1, <1>3, <1>w DEF Writers
  <2>2. \A u \in Windows : HasFile(u)' /\ file'[u] = file'[v] => u = v
    BY <1>1, <2>1 DEF Owned
  <2>3. file[v] \in 0..MaxFiles
    BY InvAt
  <2> QED BY <1>1, <1>3, <1>w, <2>1, <2>2, <2>3 DEF Owned
<1>4. HasFile(w)' => Owned(w)'
  <2> SUFFICES ASSUME HasFile(w)' PROVE Owned(w)'
    OBVIOUS
  <2>1. \A u \in Windows : HasFile(u)' /\ file'[u] = file'[w] => u = w
    BY <1>1
  <2> QED BY <2>1 DEF Owned
<1>5. ASSUME NEW v \in Windows
      PROVE  /\ step'[v] # "closed" => v \in Here'
             /\ step'[v] = "stage" => dir'.current # Other
  BY <1>1, <1>2, <1>w DEF Writers
<1> QED BY <1>3, <1>4, <1>5 DEF Writers

\* On Unix the other windows are where they were.
LEMMA UnixKeeps ==
  ASSUME DiskInv, platform = "unix", NEW w \in Windows, Alone(w), step'[w] \in UnixSteps,
         HasFile(w)' /\ goal'[w] = "report" => file'[w] \in dir'.extra,
         \A v \in Windows \ {w} : HasFile(v) /\ file[v] \in dir.extra => file[v] \in dir'.extra,
         \A d \in past' : d.backup = 0,
         installed' # <<>> => dir'.current = installed'[Len(installed')],
         acked' \subseteq Placed'
  PROVE  OnUnix'
<1>1. OnUnix
  BY DEF DiskInv, Disk
<1>2. \A v \in Windows \ {w} :
         /\ HasFile(v)' <=> HasFile(v)
         /\ step'[v] = step[v] /\ file'[v] = file[v] /\ goal'[v] = goal[v]
  BY DEF Alone, HasFile
<1>3. \A v \in Windows :
          step'[v] \in UnixSteps /\ (HasFile(v)' /\ goal'[v] = "report" => file'[v] \in dir'.extra)
  BY <1>1, <1>2 DEF OnUnix
<1> QED BY <1>3 DEF OnUnix

\* What the invariant of the disk says, one fact at a time.
LEMMA DiskAt ==
  ASSUME DiskInv
  PROVE  /\ Ordered /\ Whole /\ Shown /\ Writers /\ filed \subseteq 1..created
         /\ platform = "unix" => OnUnix /\ (\A d \in past : d.backup = 0) /\ acked \subseteq Placed
         /\ SavedSurvives /\ ReportKept
         /\ created \in Nat /\ created >= 1 /\ created <= MaxFiles /\ MaxFiles \in Nat
         /\ Placed \subseteq 1..created /\ Placed \subseteq Files
         /\ \A f \in Placed : data[f] = "synced"
<1>1. created \in Nat /\ created >= 1 /\ created <= MaxFiles /\ MaxFiles \in Nat
  BY CallTypes, SettingsAssumption DEF Files
<1>2. \A i \in DOMAIN installed : installed[i] \in Files
  BY CallTypes
<1> QED BY <1>1, <1>2 DEF DiskInv, Disk, OnUnix, Placed, Whole, Files

\* What was saved stays so while no directory shows anything new.
LEMMA SavedKeeps ==
  ASSUME DiskInv, UNCHANGED <<platform, installed, acked>>,
         \A d \in past' : \E e \in past : d.current = e.current
  PROVE  SavedSurvives'
<1>1. \A f : Position(f)' = Position(f)
  BY DEF Position
<1> SUFFICES ASSUME platform = "unix", NEW d \in past', NEW f \in acked
             PROVE  d.current \in Files /\ Position(d.current)' >= Position(f)'
  BY DEF SavedSurvives
<1>2. PICK e \in past : d.current = e.current
  OBVIOUS
<1>3. e.current \in Files /\ Position(e.current) >= Position(f)
  BY DiskAt DEF SavedSurvives
<1> QED BY <1>1, <1>2, <1>3

\* A temporary file is created beside the settings.
LEMMA CreateKeeps ==
  ASSUME DiskInv, NEW w \in Windows, CallFrame, UNCHANGED <<seen, loaded>>, Create(w)
  PROVE  DiskInv'
<1> DEFINE new == created + 1
<1>1. /\ step[w] = "create" /\ created' = new /\ new \in Files /\ new \in 0..MaxFiles
      /\ UNCHANGED <<installed, acked, filed>>
      /\ data' = [data EXCEPT ![new] = "partial"]
      /\ Becomes([dir EXCEPT !.extra = @ \cup {new}])
      /\ Moves(w, "write", new)
  BY DiskAt DEF Create, promises, Moves, Goes, CallFrame, Files
<1>2. /\ dir' \in Directories /\ dir'.current = dir.current /\ dir'.backup = dir.backup
      /\ dir'.extra = dir.extra \cup {new} /\ past' = past \cup {dir'}
  <2>1. dir' = [dir EXCEPT !.extra = @ \cup {new}] /\ past' = past \cup {dir'}
    BY <1>1 DEF Becomes
  <2>2. dir \in Directories /\ new \in Files
    BY <1>1, CallTypes
  <2> QED BY <2>1, <2>2 DEF Directories
<1>3. "write" \in Steps /\ step'[w] = "write" /\ file'[w] = new /\ Alone(w) /\ goal'[w] = goal[w]
      /\ step' \in [Windows -> Steps] /\ file' \in [Windows -> 0..MaxFiles]
      /\ goal' \in [Windows -> {"load", "save", "close", "report"}]
      /\ known' \in [Windows -> SUBSET Files]
  <2>1. "write" \in Steps
    BY DEF Steps
  <2> QED BY <1>1, <2>1, MovesAre DEF DiskInv
<1>4. data' \in [Files -> {"absent", "partial", "written", "synced"}]
      /\ \A f \in 1..created : data'[f] = data[f]
  BY <1>1, CallTypes, DiskAt DEF Files
<1>5. SettingsTypeOK'
  BY <1>1, <1>2, <1>3, <1>4 DEF DiskInv, SettingsTypeOK, CallFrame
<1>6. Placed' = Placed /\ Ordered' /\ Whole' /\ (filed \subseteq 1..created)'
  <2>1. Placed' = Placed /\ Ordered'
    BY <1>1, DiskAt DEF Placed, Ordered
  <2>2. \A i \in DOMAIN installed : installed[i] \in 1..created
    BY DiskAt DEF Placed
  <2> QED BY <1>1, <1>4, <2>1, <2>2, DiskAt DEF Whole
<1>7. Shown'
  BY <1>2, <1>6, CallTypes, DiskAt DEF Shown
<1>8. Writers'
  <2>1. new > 1 /\ new \notin filed /\ new \notin Placed /\ created <= new /\ new \in Nat
    BY DiskAt
  <2>2. \A v \in Windows \ {w} : HasFile(v) => file[v] <= created /\ file[v] > 1 /\ file[v] \notin filed
    BY DiskAt DEF Writers, Owned
  <2>3. \A v \in Windows : file[v] \in Nat
    BY InvAt, SettingsAssumption
  <2>4. ~Installed(w)' /\ step'[w] \in Unfinished /\ step'[w] # "stage"
    BY <1>3 DEF Installed, Unfinished
  <2>5. \A v \in Windows \ {w} : HasFile(v) => file[v] # new /\ data'[file[v]] = data[file[v]]
    BY <1>4, <2>2, <2>3, DiskAt
  <2>6. w \in Here
    BY <1>1, InvAt
  <2> QED BY <1>1, <1>2, <1>3, <1>6, <2>1, <2>2, <2>4, <2>5, <2>6, WritersKeep
<1>9. (platform = "unix" => OnUnix)'
  <2> SUFFICES ASSUME platform = "unix" PROVE OnUnix'
    BY <1>3 DEF Alone
  <2>1. step'[w] \in UnixSteps
    BY <1>3 DEF UnixSteps, Steps, Recovering
  <2>2. /\ \A d \in past' : d.backup = 0
        /\ installed' # <<>> => dir'.current = installed'[Len(installed')]
        /\ acked' \subseteq Placed'
    BY <1>1, <1>2, <1>6, CallTypes, DiskAt DEF OnUnix
  <2> QED BY <1>2, <1>3, <2>1, <2>2, UnixKeeps
<1>10. SavedSurvives'
  BY <1>1, <1>2, <1>3, CallTypes, SavedKeeps DEF Alone
<1>11. ReportKept'
  <2>1. \A f \in filed : f \in 1..created
    BY DiskAt
  <2> QED BY <1>1, <1>2, <1>3, <1>4, <2>1, CallTypes, DiskAt DEF ReportKept, Alone
<1> QED BY <1>5, <1>6, <1>7, <1>8, <1>9, <1>10, <1>11 DEF DiskInv, Disk


\* Writing the temporary file, and syncing it.
LEMMA WriteSyncKeeps ==
  ASSUME DiskInv, NEW w \in Windows, CallFrame, UNCHANGED <<seen, loaded>>, Write(w) \/ Sync(w)
  PROVE  DiskInv'
<1>1. /\ step[w] \in Unfinished /\ UNCHANGED <<dir, past, created, installed, acked>>
      /\ \E k \in {"written", "synced"} :
            data' = [data EXCEPT ![file[w]] = k] /\ (step[w] = "sync" => k = "synced")
  <2>1. CASE Write(w)
    BY <2>1 DEF Write, WriteAll, Unfinished, promises
  <2>2. CASE Sync(w)
    BY <2>2 DEF Sync, Unfinished
  <2> QED BY <2>1, <2>2
<1>2. HasFile(w) /\ ~Installed(w)
  BY <1>1 DEF HasFile, Installed, Unfinished
<1>3. /\ file[w] \in 2..created /\ file[w] \notin filed /\ file[w] \notin Placed
      /\ \A v \in Windows \ {w} : HasFile(v) => file[v] # file[w]
  <2>1. Owned(w)
    BY <1>2, DiskAt DEF Writers
  <2>2. file[w] \in Nat
    BY InvAt, SettingsAssumption
  <2> QED BY <1>2, <2>1, <2>2, DiskAt DEF Owned
<1>4. PICK s \in Steps, f \in 0..MaxFiles :
         /\ Moves(w, s, f)
         /\ \/ step[w] = "write" /\ s = "sync" /\ f = file[w] /\ UNCHANGED filed
            \/ /\ step[w] = "sync" /\ s \in {"open", "closed"} /\ f = 0
               /\ platform = "windows" /\ filed' = filed \cup {file[w]}
            \/ /\ step[w] = "sync" /\ f = file[w] /\ UNCHANGED filed
               /\ s = IF goal[w] = "report" THEN "syncDirectory" ELSE "recheck"
  <2>1. file = [file EXCEPT ![w] = file[w]] /\ file[w] \in 0..MaxFiles /\ 0 \in 0..MaxFiles
    BY InvAt, SettingsAssumption DEF DiskInv, SettingsTypeOK
  <2>2. CASE Write(w)
    <3>1. Moves(w, "sync", file[w]) /\ step[w] = "write" /\ UNCHANGED filed /\ "sync" \in Steps
      BY <2>1, <2>2 DEF Write, WriteAll, Goes, Moves, CallFrame, promises, Steps
    <3> QED BY <2>1, <3>1
  <2>3. CASE Sync(w) /\ ReportDone(w)
    <3>1. /\ Moves(w, Ended(w), 0) /\ Ended(w) \in {"open", "closed"} /\ Ended(w) \in Steps
      BY <2>3, ReturnsMoves DEF Sync, CallFrame
    <3> QED BY <2>1, <2>3, <3>1 DEF Sync, ReportDone
  <2>4. CASE Sync(w) /\ ~ReportDone(w)
    <3> DEFINE s == IF goal[w] = "report" THEN "syncDirectory" ELSE "recheck"
    <3>1. Moves(w, s, file[w]) /\ UNCHANGED filed /\ step[w] = "sync" /\ s \in Steps
      BY <2>1, <2>4 DEF Sync, Goes, Moves, CallFrame, Steps
    <3> QED BY <2>1, <3>1
  <2> QED BY <2>2, <2>3, <2>4
<1>5. /\ Alone(w) /\ step'[w] = s /\ file'[w] = f /\ goal'[w] = goal[w]
      /\ step' \in [Windows -> Steps] /\ file' \in [Windows -> 0..MaxFiles]
      /\ goal' \in [Windows -> {"load", "save", "close", "report"}]
      /\ known' \in [Windows -> SUBSET Files]
  BY <1>4, MovesAre DEF DiskInv
<1>6. /\ data' \in [Files -> {"absent", "partial", "written", "synced"}]
      /\ \A g \in 1..created : g # file[w] => data'[g] = data[g]
      /\ step[w] = "sync" => data'[file[w]] = "synced"
  BY <1>1, <1>3, CallTypes, DiskAt DEF Files
<1>7. filed' \subseteq filed \cup {file[w]} /\ filed' \subseteq 1..created /\ filed' \subseteq Files
  BY <1>3, <1>4, DiskAt DEF Files
<1>8. SettingsTypeOK'
  BY <1>1, <1>5, <1>6, <1>7 DEF DiskInv, SettingsTypeOK, CallFrame
<1>9. Placed' = Placed /\ Ordered' /\ Whole' /\ Shown' /\ (filed \subseteq 1..created)'
  <2>1. Placed' = Placed /\ Ordered' /\ Shown'
    BY <1>1, DiskAt DEF Placed, Ordered, Shown
  <2>2. \A i \in DOMAIN installed : installed[i] \in 1..created /\ installed[i] # file[w]
    BY <1>3, DiskAt DEF Placed
  <2> QED BY <1>1, <1>6, <1>7, <2>1, <2>2, DiskAt DEF Whole
<1>10. Writers'
  <2>1. step'[w] # "stage" /\ w \in Here
    BY <1>1, <1>4, <1>5, InvAt DEF Unfinished
  <2>2. HasFile(w)' => /\ f = file[w] /\ UNCHANGED filed /\ ~Installed(w)'
                       /\ step'[w] \notin Unfinished => step[w] = "sync"
                       /\ goal'[w] = "report" => step'[w] \in Unfinished \cup {"syncDirectory"}
    <3>1. CASE s \in {"open", "closed"}
      BY <1>5, <3>1 DEF HasFile, Unfinished, Recovering
    <3>2. CASE s \notin {"open", "closed"}
      BY <1>4, <1>5, <3>2 DEF Installed, Unfinished
    <3> QED BY <3>1, <3>2
  <2>3. \A v \in Windows \ {w} : HasFile(v) =>
            /\ file[v] \in 1..created /\ file[v] \notin filed' /\ file[v] # file[w]
    <3> SUFFICES ASSUME NEW v \in Windows \ {w}, HasFile(v)
                 PROVE  file[v] \in 1..created /\ file[v] \notin filed' /\ file[v] # file[w]
      OBVIOUS
    <3>1. Owned(v) /\ file[v] \in Nat
      BY DiskAt, InvAt, SettingsAssumption DEF Writers
    <3> QED BY <1>3, <1>7, <3>1, DiskAt DEF Owned
  <2>4. HasFile(w)' =>
            /\ file'[w] > 1 /\ file'[w] <= created' /\ file'[w] \notin filed'
            /\ step'[w] \notin Unfinished => data'[file'[w]] = "synced"
            /\ file'[w] \in Placed' <=> Installed(w)'
            /\ goal'[w] = "report" => step'[w] \in Unfinished \cup {"syncDirectory"}
    BY <1>1, <1>3, <1>5, <1>6, <1>9, <2>2, DiskAt
  <2>5. \A v \in Windows \ {w} : HasFile(v) =>
            /\ file[v] \notin filed' /\ data'[file[v]] = data[file[v]]
            /\ file[v] \in Placed' <=> file[v] \in Placed
            /\ HasFile(w)' => file'[w] # file[v]
    BY <1>5, <1>6, <1>9, <2>2, <2>3
  <2> QED BY <1>1, <1>5, <2>1, <2>4, <2>5, DiskAt, WritersKeep
<1>11. (platform = "unix" => OnUnix)'
  <2> SUFFICES ASSUME platform = "unix" PROVE OnUnix'
    BY <1>5 DEF Alone
  <2>1. step'[w] \in UnixSteps /\ f = file[w]
    BY <1>4, <1>5 DEF UnixSteps, Steps, Recovering
  <2>2. HasFile(w)' /\ goal'[w] = "report" => file'[w] \in dir'.extra
    BY <1>1, <1>2, <1>5, <2>1, DiskAt DEF OnUnix
  <2> QED BY <1>1, <1>5, <1>9, <2>1, <2>2, DiskAt, UnixKeeps DEF OnUnix
<1>12. SavedSurvives'
  BY <1>1, <1>5, SavedKeeps DEF Alone
<1>13. ReportKept'
  <2> SUFFICES ASSUME platform = "unix" PROVE ReportKept'
    BY <1>5 DEF ReportKept, Alone
  <2>1. UNCHANGED filed
    BY <1>4
  <2> QED BY <1>1, <1>3, <1>6, <2>1, DiskAt DEF ReportKept
<1> QED BY <1>8, <1>9, <1>10, <1>11, <1>12, <1>13 DEF DiskInv, Disk


\* The replacement on Windows, its recovery and its undoing: files already
\* there change names.
Renames(w, s, f, c, b) ==
    /\ Moves(w, s, f) /\ platform = "windows"
    /\ step[w] \notin Unfinished \cup {"closed", "syncDirectory"}
    /\ Becomes([dir EXCEPT !.current = c, !.backup = b])
    /\ c = Other => dir.current = Other
    /\ UNCHANGED <<data, created, installed, filed, seen, loaded, faults, crashes>>
    /\ acked' \subseteq Files
    /\ \/ s \in {"open", "closed", "inspect", "check"}
       \/ HasFile(w) /\ ~Installed(w) /\ f = file[w] /\ s \in {"look", "install"}

\* A rename, whichever name it moves, keeps the invariant of the disk.
LEMMA RenamesKeeps ==
  ASSUME DiskInv, NEW w \in Windows, NEW s \in Steps, NEW f \in 0..MaxFiles,
         NEW c \in {dir.current, dir.backup, 0}, NEW b \in {dir.current, dir.backup, 0}, b # Other,
         Renames(w, s, f, c, b)
  PROVE  DiskInv'
<1> DEFINE d == [dir EXCEPT !.current = c, !.backup = b]
<1>0. /\ Moves(w, s, f) /\ platform = "windows"
      /\ step[w] \notin Unfinished \cup {"closed", "syncDirectory"}
      /\ Becomes(d) /\ (c = Other => dir.current = Other) /\ acked' \subseteq Files
      /\ UNCHANGED <<data, created, installed, filed, seen, loaded, faults, crashes>>
      /\ \/ s \in {"open", "closed", "inspect", "check"}
         \/ HasFile(w) /\ ~Installed(w) /\ f = file[w] /\ s \in {"look", "install"}
  BY DEF Renames
<1>1. /\ Alone(w) /\ step'[w] = s /\ file'[w] = f /\ goal'[w] = goal[w]
      /\ step' \in [Windows -> Steps] /\ file' \in [Windows -> 0..MaxFiles]
      /\ goal' \in [Windows -> {"load", "save", "close", "report"}]
      /\ known' \in [Windows -> SUBSET Files]
  BY <1>0, MovesAre DEF DiskInv
<1>2. c \in 0..Other /\ b \in 0..MaxFiles
  <2>1. dir.current \in 0..Other /\ dir.backup \in 0..MaxFiles
    BY CallTypes DEF Directories
  <2> QED BY <2>1, SettingsAssumption DEF Other
<1>3. /\ dir' \in Directories /\ dir'.current = c /\ dir'.backup = b
      /\ past' = past \cup {dir'} /\ past' \subseteq Directories /\ dir' \in past'
  <2>1. d \in Directories /\ d.current = c /\ d.backup = b
    BY <1>2, CallTypes DEF Directories
  <2> HIDE DEF d
  <2> QED BY <1>0, <2>1, CallTypes DEF Becomes
<1> HIDE DEF d
<1>4. SettingsTypeOK'
  BY <1>0, <1>1, <1>3 DEF DiskInv, SettingsTypeOK, Moves
<1>5. Placed' = Placed /\ Ordered' /\ Whole' /\ (filed \subseteq 1..created)'
  BY <1>0, DiskAt DEF Placed, Ordered, Whole
<1>6. Shown'
  <2>1. c \in Placed \cup {0, Other} /\ b \in Placed \cup {0}
    BY CallTypes, DiskAt DEF Shown
  <2> QED BY <1>3, <1>5, <2>1, DiskAt DEF Shown
<1>7. Writers'
  <2>1. step'[w] # "stage" /\ w \in Here /\ (dir'.current = Other => dir.current = Other)
    BY <1>0, <1>1, <1>3, InvAt
  <2>2. HasFile(w)' => HasFile(w) /\ ~Installed(w) /\ f = file[w] /\ ~Installed(w)'
    BY <1>0, <1>1 DEF HasFile, Installed, Unfinished, Recovering
  <2>3. HasFile(w) => Owned(w)
    BY DiskAt DEF Writers
  <2>4. HasFile(w)' =>
            /\ file'[w] > 1 /\ file'[w] <= created' /\ file'[w] \notin filed'
            /\ step'[w] \notin Unfinished => data'[file'[w]] = "synced"
            /\ file'[w] \in Placed' <=> Installed(w)'
            /\ goal'[w] = "report" => step'[w] \in Unfinished \cup {"syncDirectory"}
    BY <1>0, <1>1, <1>5, <2>2, <2>3 DEF Owned
  <2>5. \A v \in Windows \ {w} : HasFile(v) =>
            /\ file[v] \notin filed' /\ data'[file[v]] = data[file[v]]
            /\ file[v] \in Placed' <=> file[v] \in Placed
            /\ HasFile(w)' => file'[w] # file[v]
    BY <1>0, <1>1, <1>5, <2>2, DiskAt DEF Writers, Owned
  <2> QED BY <1>0, <1>1, <2>1, <2>4, <2>5, DiskAt, WritersKeep
<1>8. (platform = "unix" => OnUnix)' /\ SavedSurvives' /\ ReportKept'
  BY <1>0, <1>1 DEF Alone, SavedSurvives, ReportKept
<1> QED BY <1>4, <1>5, <1>6, <1>7, <1>8 DEF DiskInv, Disk

\* Recovering, staging and undoing are such renames.
LEMMA RenamingKeeps ==
  ASSUME DiskInv, NEW w \in Windows, CallFrame, UNCHANGED loaded,
         \/ /\ step[w] = "recover" /\ RecoverStaged(w)
            /\ UNCHANGED <<data, created, seen, promises>>
         \/ (Stage(w) \/ Undo(w) \/ Unstage(w)) /\ UNCHANGED seen
  PROVE  DiskInv'
<1>1. /\ UNCHANGED <<platform, goal, known, faults, crashes, seen, loaded>>
      /\ step[w] \in {"recover", "stage", "undo", "unstage"}
  BY DEF CallFrame, Stage, Undo, Unstage
<1>2. platform = "windows" /\ step[w] \notin Unfinished \cup {"closed", "syncDirectory"}
  BY <1>1, InvAt DEF UnixSteps, Recovering, Unfinished
<1>3. dir.backup # Other /\ dir.backup \in 0..MaxFiles /\ 0 # Other /\ 0 \in 0..MaxFiles /\ Other # 0
  BY CallTypes, SettingsAssumption DEF Directories, Other
<1>4. file = [file EXCEPT ![w] = file[w]] /\ file[w] \in 0..MaxFiles
  BY InvAt DEF DiskInv, SettingsTypeOK
<1>5. /\ Ended(w) \in {"open", "closed"} /\ Ended(w) \in Steps
      /\ dir = [dir EXCEPT !.current = dir.current]
  BY CallTypes DEF Ended, Steps, Directories
<1>6. CASE step[w] = "recover" /\ RecoverStaged(w) /\ UNCHANGED <<data, created, seen, promises>>
  <2> DEFINE s == AfterRecovery(w)
  <2>1. /\ s \in Steps /\ s # "stage"
        /\ s \in {"inspect", "check"} \/ (s = "look" /\ file[w] # 0)
    BY <1>2 DEF AfterRecovery, Steps
  <2>2. HasFile(w) \/ file[w] = 0
    BY <1>6 DEF HasFile, Recovering
  <2>3. ~Installed(w)
    BY <1>6 DEF Installed
  <2>4. UNCHANGED <<data, created, installed, acked, filed>>
    BY <1>6 DEF promises
  <2>5. CASE seen[w].backup = 0
    <3>1. Keeps(w, s)
      BY <1>6, <2>5 DEF RecoverStaged, Keeps, disk
    <3>2. s \notin Unfinished \cup {"unstage", "syncDirectory"}
      BY <2>1 DEF Unfinished
    <3>3. s \in {"inspect", "check"} \/ HasFile(w)
      BY <2>1, <2>2
    <3> HIDE DEF s
    <3>4. Quiet(w)
      BY <1>1, <1>2, <1>6, <2>1, <3>1, <3>2, <3>3, CallTypes, KeepsQuiet DEF Unfinished
    <3> QED BY <3>4, QuietKeeps
  <2>6. CASE seen[w].backup # 0 /\ dir.backup = 0
    <3>1. Refuses(w)
      BY <1>6, <2>6 DEF RecoverStaged, Refuses, disk
    <3> QED BY <1>1, <1>2, <3>1, CallTypes, RefusesQuiet, QuietKeeps
  <2>7. CASE seen[w].backup # 0 /\ dir.backup # 0
    <3> DEFINE c == IF seen[w].current = 0 THEN dir.backup ELSE dir.current
    <3>1. Becomes([dir EXCEPT !.backup = 0, !.current = c]) /\ Moves(w, s, file[w])
      BY <1>1, <1>4, <1>6, <2>7 DEF RecoverStaged, Goes, Moves
    <3>2. [dir EXCEPT !.backup = 0, !.current = c] = [dir EXCEPT !.current = c, !.backup = 0]
      BY CallTypes DEF Directories
    <3>3. Becomes([dir EXCEPT !.current = c, !.backup = 0])
      BY <3>1, <3>2
    <3>4. c \in {dir.current, dir.backup, 0} /\ (c = Other => dir.current = Other)
      BY <1>3
    <3>5. acked' \subseteq Files
      BY <2>4 DEF DiskInv, SettingsTypeOK
    <3>6. s \in {"inspect", "check"} \/ (HasFile(w) /\ ~Installed(w) /\ s = "look")
      BY <2>1, <2>2, <2>3
    <3> HIDE DEF c, s
    <3>7. Renames(w, s, file[w], c, 0)
      BY <1>1, <1>2, <2>4, <3>1, <3>3, <3>4, <3>5, <3>6 DEF Renames
    <3> QED BY <1>3, <1>4, <2>1, <3>4, <3>7, RenamesKeeps
  <2> QED BY <2>5, <2>6, <2>7
<1>7. CASE Stage(w)
  <2>1. CASE dir.current = 0
    BY <1>1, <1>2, <1>7, <2>1, CallTypes, RefusesQuiet, QuietKeeps DEF Stage
  <2>2. CASE dir.current # 0
    <3>1. /\ Becomes([dir EXCEPT !.current = 0, !.backup = dir.current])
          /\ Moves(w, "install", file[w]) /\ "install" \in Steps
          /\ UNCHANGED <<data, created, installed, acked, filed>>
      BY <1>1, <1>4, <1>7, <2>2 DEF Stage, StagedAway, Goes, Moves, promises, Steps
    <3>2. dir.current # Other /\ HasFile(w) /\ ~Installed(w)
      BY <1>7, DiskAt DEF Stage, Writers, HasFile, Installed
    <3>3. acked' \subseteq Files
      BY <3>1 DEF DiskInv, SettingsTypeOK
    <3>4. Renames(w, "install", file[w], 0, dir.current)
      BY <1>1, <1>2, <1>3, <3>1, <3>2, <3>3 DEF Renames
    <3> QED BY <1>3, <1>4, <3>1, <3>2, <3>4, RenamesKeeps
  <2> QED BY <2>1, <2>2
<1>8. CASE Undo(w)
  <2>1. /\ Becomes([dir EXCEPT !.current = dir.backup, !.backup = 0])
        /\ Moves(w, Ended(w), 0)
        /\ UNCHANGED <<data, created, installed, acked, filed>>
    BY <1>1, <1>8, ReturnsMoves DEF Undo, promises
  <2>2. acked' \subseteq Files
    BY <2>1 DEF DiskInv, SettingsTypeOK
  <2>3. Renames(w, Ended(w), 0, dir.backup, 0)
    BY <1>1, <1>2, <1>3, <1>5, <2>1, <2>2 DEF Renames
  <2> QED BY <1>3, <1>5, <2>3, RenamesKeeps
<1>9. CASE Unstage(w)
  <2>1. /\ IF dir.backup = 0 THEN UNCHANGED <<dir, past>> ELSE Becomes([dir EXCEPT !.backup = 0])
        /\ Moves(w, Ended(w), 0)
        /\ UNCHANGED <<data, created, installed, filed>>
        /\ acked' = acked \cup {file[w]}
    BY <1>1, <1>9, ReturnsMoves DEF Unstage
  <2>2. [dir EXCEPT !.backup = 0] = [dir EXCEPT !.current = dir.current, !.backup = 0]
    BY CallTypes DEF Directories
  <2>3. dir.backup = 0 => [dir EXCEPT !.backup = 0] = dir /\ past \cup {dir} = past
    BY CallTypes DEF Directories
  <2>4. Becomes([dir EXCEPT !.current = dir.current, !.backup = 0])
    BY <2>1, <2>2, <2>3 DEF Becomes
  <2>5. acked' \subseteq Files
    <3>1. HasFile(w) /\ Installed(w)
      BY <1>9 DEF Unstage, HasFile, Installed
    <3>2. file[w] \in Placed
      BY <3>1, DiskAt DEF Writers, Owned
    <3> QED BY <2>1, <3>2, DiskAt DEF DiskInv, SettingsTypeOK
  <2>6. Renames(w, Ended(w), 0, dir.current, 0)
    BY <1>1, <1>2, <1>3, <1>5, <2>1, <2>4, <2>5 DEF Renames
  <2> QED BY <1>3, <1>5, <2>6, RenamesKeeps
<1> QED BY <1>6, <1>7, <1>8, <1>9


\* The new file comes under the settings name.
LEMMA InstallKeeps ==
  ASSUME DiskInv, NEW w \in Windows, CallFrame, UNCHANGED <<seen, loaded>>, Install(w)
  PROVE  DiskInv'
<1> DEFINE s == IF platform = "unix" THEN "syncDirectory" ELSE "unstage"
           f == file[w]
           d == [dir EXCEPT !.current = f, !.extra = @ \ {f}]
<1>1. /\ step[w] = "install" /\ Becomes(d) /\ installed' = Append(installed, f)
      /\ Moves(w, s, f) /\ UNCHANGED <<data, created, acked, filed>>
      /\ s \in Steps /\ f \in 0..MaxFiles
  <2>1. file = [file EXCEPT ![w] = file[w]] /\ f \in 0..MaxFiles
    BY InvAt DEF DiskInv, SettingsTypeOK
  <2> QED BY <2>1 DEF Install, Goes, Moves, CallFrame, Steps
<1>2. /\ f \in 2..created /\ f \notin filed /\ f \notin Placed /\ data[f] = "synced"
      /\ f \in Files /\ goal[w] # "report"
      /\ \A v \in Windows \ {w} : HasFile(v) => file[v] # f
  <2>1. HasFile(w) /\ ~Installed(w) /\ step[w] \notin Unfinished
    BY <1>1 DEF HasFile, Installed, Unfinished
  <2>2. Owned(w)
    BY <2>1, DiskAt DEF Writers
  <2>3. f \in Nat
    BY InvAt, SettingsAssumption
  <2> QED BY <1>1, <2>1, <2>2, <2>3, DiskAt DEF Owned, Files, Unfinished
<1>3. /\ Alone(w) /\ step'[w] = s /\ file'[w] = f /\ goal'[w] = goal[w]
      /\ step' \in [Windows -> Steps] /\ file' \in [Windows -> 0..MaxFiles]
      /\ goal' \in [Windows -> {"load", "save", "close", "report"}]
      /\ known' \in [Windows -> SUBSET Files]
  BY <1>1, MovesAre DEF DiskInv
<1>4. /\ dir' \in Directories /\ dir'.current = f /\ dir'.backup = dir.backup
      /\ dir'.extra = dir.extra \ {f}
      /\ past' = past \cup {dir'} /\ past' \subseteq Directories /\ dir' \in past'
  <2>1. d \in Directories /\ d.current = f /\ d.backup = dir.backup /\ d.extra = dir.extra \ {f}
    <3>1. f \in 0..Other /\ dir \in Directories
      BY <1>2, CallTypes, DiskAt DEF Other
    <3> QED BY <3>1 DEF Directories
  <2> HIDE DEF d
  <2> QED BY <1>1, <2>1, CallTypes DEF Becomes
<1>5. /\ installed' \in Seq(Files) /\ Len(installed') = Len(installed) + 1
      /\ \A i \in 1..Len(installed) : installed'[i] = installed[i]
      /\ installed'[Len(installed')] = f
  BY <1>1, <1>2, CallTypes
<1> HIDE DEF s, d
<1>6. SettingsTypeOK'
  BY <1>1, <1>3, <1>4, <1>5 DEF DiskInv, SettingsTypeOK, Moves, CallFrame
<1>7. Placed' = Placed \cup {f}
  <2>1. DOMAIN installed = 1..Len(installed) /\ DOMAIN installed' = 1..(Len(installed) + 1)
        /\ Len(installed) \in Nat
    BY <1>5, CallTypes
  <2> QED BY <1>5, <2>1 DEF Placed
<1>8. Ordered'
  <2>1. \A i \in 1..Len(installed) : installed[i] # f
    BY <1>2, CallTypes DEF Placed
  <2>2. installed \in Seq(Nat) /\ Once(installed) /\ f \in Nat
    BY <1>2, CallTypes, DiskAt DEF Ordered, Once, Files
  <2>3. Once(Append(installed, f))
    BY <2>1, <2>2, OnceMore
  <2> QED BY <1>1, <2>3 DEF Ordered, Once
<1>9. Whole' /\ (filed \subseteq 1..created)'
  BY <1>1, <1>2, <1>5, CallTypes, DiskAt DEF Whole
<1>10. Shown'
  BY <1>4, <1>7, CallTypes, DiskAt DEF Shown
<1>11. Writers'
  <2>1. step'[w] \notin {"stage", "closed"} \cup Unfinished /\ Installed(w)' /\ w \in Here
    BY <1>1, <1>2, <1>3, InvAt DEF Installed, Unfinished, s
  <2>2. f > 1 /\ f <= created /\ f # Other /\ Other # f
    BY <1>2, DiskAt DEF Other
  <2>3. \A v \in Windows \ {w} : HasFile(v) =>
            /\ file[v] \notin filed' /\ data'[file[v]] = data[file[v]]
            /\ file[v] \in Placed' <=> file[v] \in Placed
            /\ HasFile(w)' => file'[w] # file[v]
    BY <1>1, <1>2, <1>3, <1>7, DiskAt DEF Writers, Owned
  <2> QED BY <1>1, <1>2, <1>3, <1>4, <1>7, <2>1, <2>2, <2>3, DiskAt, WritersKeep
<1>12. (platform = "unix" => OnUnix)'
  <2> SUFFICES ASSUME platform = "unix" PROVE OnUnix'
    BY <1>3 DEF Alone
  <2>1. step'[w] \in UnixSteps
    BY <1>3 DEF UnixSteps, Steps, Recovering, s
  <2>2. goal'[w] # "report"
    BY <1>2, <1>3
  <2>3. \A v \in Windows \ {w} : HasFile(v) /\ file[v] \in dir.extra => file[v] \in dir'.extra
    BY <1>2, <1>4
  <2>4. \A e \in past' : e.backup = 0
    BY <1>4, CallTypes, DiskAt
  <2>5. acked' \subseteq Placed'
    BY <1>1, <1>7, DiskAt
  <2> QED BY <1>3, <1>4, <1>5, <2>1, <2>2, <2>3, <2>4, <2>5, UnixKeeps
<1>13. SavedSurvives'
  <2> SUFFICES ASSUME platform = "unix", NEW e \in past', NEW g \in acked
               PROVE  e.current \in Files /\ Position(e.current)' >= Position(g)'
    BY <1>1, <1>3 DEF SavedSurvives, Alone
  <2>1. /\ installed \in Seq(Nat) /\ installed' \in Seq(Nat) /\ Once(installed) /\ Once(installed')
        /\ Len(installed) \in Nat
    BY <1>5, <1>8, CallTypes, DiskAt DEF Files, Once, Ordered
  <2>2. \A i \in 1..Len(installed) :
           Place(installed', installed[i]) = i /\ Place(installed, installed[i]) = i
    <3> SUFFICES ASSUME NEW i \in 1..Len(installed)
                 PROVE  Place(installed', installed[i]) = i /\ Place(installed, installed[i]) = i
      OBVIOUS
    <3>1. installed'[i] = installed[i] /\ i \in 1..Len(installed')
      BY <1>5, <2>1
    <3>2. Place(installed', installed'[i]) = i
      BY <2>1, <3>1, PlaceAt
    <3>3. Place(installed, installed[i]) = i
      BY <2>1, PlaceAt
    <3> QED BY <3>1, <3>2, <3>3
  <2>3. \A h \in Placed : Position(h)' = Position(h) /\ Position(h) <= Len(installed)
    BY <2>1, <2>2, PositionIs, PositionIsNext DEF Placed
  <2>4. g \in Placed
    BY DiskAt
  <2>5. CASE e = dir'
    <3>1. Place(installed', f) = Len(installed')
      BY <1>5, <2>1, PlaceAt
    <3>2. Position(e.current)' = Len(installed) + 1
      BY <1>4, <1>5, <2>5, <3>1, PositionIsNext
    <3>3. Position(g)' <= Len(installed) /\ Position(g)' \in Nat
      BY <2>1, <2>3, <2>4, PlaceIn, PositionIs
    <3> QED BY <1>2, <1>4, <2>1, <2>5, <3>2, <3>3
  <2>6. CASE e \in past
    <3>1. e.current \in Files /\ Position(e.current) >= Position(g)
      BY <2>6, DiskAt DEF SavedSurvives
    <3>2. e.current \in Placed
      BY <2>6, <3>1, DiskAt DEF Shown, Files, Other
    <3> QED BY <2>3, <2>4, <3>1, <3>2
  <2> QED BY <1>4, <2>5, <2>6
<1>14. ReportKept'
  BY <1>1, <1>2, <1>3, <1>4, CallTypes, DiskAt DEF ReportKept, Alone
<1> QED BY <1>6, <1>8, <1>9, <1>10, <1>11, <1>12, <1>13, <1>14 DEF DiskInv, Disk


\* The directory sync that ends a save or a report.
LEMMA SyncDirectoryKeeps ==
  ASSUME DiskInv, NEW w \in Windows, CallFrame, UNCHANGED <<seen, loaded>>, SyncDirectory(w)
  PROVE  DiskInv'
<1>1. /\ step[w] = "syncDirectory" /\ past' = {dir} /\ Moves(w, Ended(w), 0)
      /\ Ended(w) \in {"open", "closed"} /\ Ended(w) \in Steps /\ 0 \in 0..MaxFiles
      /\ UNCHANGED <<dir, data, created, installed>>
      /\ \/ goal[w] = "report" /\ filed' = filed \cup {file[w]} /\ acked' = acked
         \/ goal[w] # "report" /\ acked' = acked \cup {file[w]} /\ filed' = filed
  BY ReturnsMoves, SettingsAssumption DEF SyncDirectory, Synced, CallFrame
<1>2. /\ file[w] \in 2..created /\ data[file[w]] = "synced" /\ HasFile(w)
      /\ \A v \in Windows \ {w} : HasFile(v) => file[v] # file[w]
      /\ goal[w] # "report" => file[w] \in Placed
  <2>1. HasFile(w) /\ step[w] \notin Unfinished
    BY <1>1 DEF HasFile, Unfinished
  <2>2. Owned(w)
    BY <2>1, DiskAt DEF Writers
  <2>3. file[w] \in Nat
    BY InvAt, SettingsAssumption
  <2> QED BY <1>1, <2>1, <2>2, <2>3, DiskAt DEF Owned, Installed
<1>3. /\ Alone(w) /\ step'[w] = Ended(w) /\ file'[w] = 0 /\ goal'[w] = goal[w]
      /\ step' \in [Windows -> Steps] /\ file' \in [Windows -> 0..MaxFiles]
      /\ goal' \in [Windows -> {"load", "save", "close", "report"}]
      /\ known' \in [Windows -> SUBSET Files]
  BY <1>1, MovesAre DEF DiskInv
<1>4. ~HasFile(w)' /\ step'[w] \in UnixSteps /\ step'[w] # "stage"
  BY <1>1, <1>3 DEF HasFile, Unfinished, Recovering, UnixSteps
<1>5. /\ filed' \subseteq 1..created /\ filed' \subseteq Files /\ acked' \subseteq Files
      /\ filed' \subseteq filed \cup {file[w]} /\ filed \subseteq filed'
  <2>1. filed \subseteq Files /\ acked \subseteq Files /\ filed \subseteq 1..created
    BY DiskAt DEF DiskInv, SettingsTypeOK
  <2>2. file[w] \in Files /\ file[w] \in 1..created
    BY <1>2, DiskAt DEF Files
  <2> QED BY <1>1, <2>1, <2>2
<1>6. SettingsTypeOK'
  BY <1>1, <1>3, <1>5, CallTypes DEF DiskInv, SettingsTypeOK, CallFrame
<1>7. Placed' = Placed /\ Ordered' /\ Whole' /\ Shown' /\ (filed \subseteq 1..created)'
  <2>1. Placed' = Placed /\ Ordered' /\ Whole'
    BY <1>1, CallTypes, DiskAt DEF Placed, Ordered, Whole
  <2>2. Shown'
    BY <1>1, <2>1, CallTypes, DiskAt DEF Shown
  <2> QED BY <1>1, <1>5, <2>1, <2>2
<1>8. Writers'
  <2>1. \A v \in Windows \ {w} : HasFile(v) =>
            /\ file[v] \notin filed' /\ data'[file[v]] = data[file[v]]
            /\ file[v] \in Placed' <=> file[v] \in Placed
            /\ HasFile(w)' => file'[w] # file[v]
    BY <1>1, <1>2, <1>4, <1>5, <1>7, DiskAt DEF Writers, Owned
  <2>2. w \in Here
    BY <1>1, InvAt
  <2> QED BY <1>1, <1>3, <1>4, <2>1, <2>2, DiskAt, WritersKeep
<1>9. (platform = "unix" => OnUnix)'
  <2> SUFFICES ASSUME platform = "unix" PROVE OnUnix'
    BY <1>3 DEF Alone
  <2>1. acked' \subseteq Placed'
    BY <1>1, <1>2, <1>7, DiskAt
  <2>2. \A d \in past' : d.backup = 0
    BY <1>1, CallTypes, DiskAt
  <2> QED BY <1>1, <1>3, <1>4, <2>1, <2>2, DiskAt, UnixKeeps DEF OnUnix
<1>10. SavedSurvives'
  <2> SUFFICES ASSUME platform = "unix", NEW f \in acked'
               PROVE  dir.current \in Files /\ Position(dir.current)' >= Position(f)'
    BY <1>1, <1>3 DEF SavedSurvives, Alone
  <2>1. f \in Placed
    BY <1>1, <1>2, DiskAt
  <2>2. /\ installed \in Seq(Nat) /\ Once(installed) /\ Len(installed) \in Nat
        /\ Len(installed) \in 1..Len(installed) /\ dir.current = installed[Len(installed)]
    BY <2>1, CallTypes, DiskAt DEF Placed, OnUnix, Ordered, Once, Files
  <2>3. Place(installed, dir.current) = Len(installed)
    BY <2>2, PlaceAt
  <2>4. Place(installed, f) \in 0..Len(installed)
    BY <2>2, PlaceIn
  <2>5. dir.current \in Files
    BY <2>2, CallTypes
  <2>6. Position(f)' = Place(installed, f)
    BY <1>1, PositionIsNext
  <2>7. Position(dir.current) = Len(installed)
    BY <2>3, PositionIs
  <2>8. Position(dir.current)' = Position(dir.current)
    BY <1>1 DEF Position
  <2> QED BY <2>2, <2>4, <2>5, <2>6, <2>7, <2>8
<1>11. ReportKept'
  <2> SUFFICES ASSUME platform = "unix", NEW f \in filed'
               PROVE  f \in dir.extra /\ data[f] = "synced"
    BY <1>1, <1>3 DEF ReportKept, Alone
  <2>1. f \in filed => f \in dir.extra /\ data[f] = "synced"
    BY CallTypes, DiskAt DEF ReportKept
  <2>2. goal[w] = "report" => file[w] \in dir.extra
    BY <1>2, DiskAt DEF OnUnix
  <2> QED BY <1>1, <1>2, <2>1, <2>2
<1> QED BY <1>6, <1>7, <1>8, <1>9, <1>10, <1>11 DEF DiskInv, Disk

\* Power is lost: one of the directories of the past is there, and the files
\* that came after it are forgotten.
LEMMA PowerLossKeeps ==
  ASSUME DiskInv, PowerLoss
  PROVE  DiskInv'
<1> DEFINE n == Newest(dir')
           a == Place(installed, dir'.current)
           b == Place(installed, dir'.backup)
<1>1. /\ dir' \in past /\ past' = {dir'} /\ UNCHANGED <<platform, created, goal, seen, known, faults>>
      /\ data' = [f \in Files |-> IF data[f] = "written" THEN "partial" ELSE data[f]]
      /\ step' = [w \in Windows |-> "closed"] /\ file' = [w \in Windows |-> 0]
      /\ loaded' = [w \in Windows |-> 0] /\ crashes' \in 0..MaxCrashes
      /\ installed' = SubSeq(installed, 1, n)
      /\ acked' = (IF platform = "unix" THEN acked ELSE {})
      /\ filed' = (IF platform = "unix" THEN filed ELSE {})
  BY CallTypes, SettingsAssumption DEF PowerLoss
<1>2. /\ installed \in Seq(Nat) /\ Once(installed) /\ Len(installed) \in Nat
      /\ \A i \in 1..Len(installed) : installed[i] \in Files
  BY CallTypes, DiskAt DEF Ordered, Once, Files
<1>3. a \in 0..Len(installed) /\ b \in 0..Len(installed)
  BY <1>2, PlaceIn
<1>4. n = IF a >= b THEN a ELSE b
  BY PositionIs DEF Newest
<1>5. n \in 0..Len(installed) /\ a <= n /\ b <= n
  BY <1>3, <1>4
<1> HIDE DEF n, a, b
<1>6. /\ installed' \in Seq(Nat) /\ Once(installed') /\ Len(installed') = n
      /\ \A i \in 1..n : installed'[i] = installed[i]
  BY <1>1, <1>2, <1>5, OnceLess
<1>7. installed' \in Seq(Files)
  BY <1>1, <1>5, CallTypes
<1>8. \A f \in Placed : Place(installed, f) \in 1..Len(installed) /\ installed[Place(installed, f)] = f
  <2> SUFFICES ASSUME NEW f \in Placed
               PROVE Place(installed, f) \in 1..Len(installed) /\ installed[Place(installed, f)] = f
    OBVIOUS
  <2>1. \E i \in 1..Len(installed) : installed[i] = f
    BY <1>2 DEF Placed
  <2> QED BY <1>2, <2>1, PlaceIn
<1>9. \A f \in Placed : Place(installed, f) <= n => f \in Placed' /\ Place(installed', f) = Place(installed, f)
  <2> SUFFICES ASSUME NEW f \in Placed, Place(installed, f) <= n
               PROVE  f \in Placed' /\ Place(installed', f) = Place(installed, f)
    OBVIOUS
  <2> DEFINE i == Place(installed, f)
  <2>1. i \in 1..n /\ installed[i] = f
    BY <1>5, <1>8
  <2>2. installed'[i] = f /\ i \in 1..Len(installed')
    BY <1>6, <2>1
  <2>3. Place(installed', f) = i
    BY <1>6, <2>2, PlaceAt
  <2>4. f \in Placed'
    BY <1>6, <2>2 DEF Placed
  <2> QED BY <2>3, <2>4
<1>10. dir'.current \in Placed' \cup {0, Other} /\ dir'.backup \in Placed' \cup {0}
  BY <1>1, <1>5, <1>9, DiskAt DEF Shown, a, b
<1>11. Placed' \subseteq Placed
  <2> SUFFICES ASSUME NEW i \in DOMAIN installed' PROVE installed'[i] \in Placed
    BY DEF Placed
  <2> QED BY <1>2, <1>5, <1>6 DEF Placed
<1>12. SettingsTypeOK'
  <2>1. data' \in [Files -> {"absent", "partial", "written", "synced"}]
    BY <1>1, CallTypes
  <2>2. /\ step' \in [Windows -> Steps] /\ file' \in [Windows -> 0..MaxFiles]
        /\ loaded' \in [Windows -> 0..MaxFiles]
    BY <1>1, SettingsAssumption DEF Steps
  <2>3. dir' \in Directories /\ past' \subseteq Directories /\ acked' \subseteq Files /\ filed' \subseteq Files
    BY <1>1, CallTypes DEF DiskInv, SettingsTypeOK
  <2> QED BY <1>1, <1>7, <2>1, <2>2, <2>3 DEF DiskInv, SettingsTypeOK
<1>13. \A f \in Files : data[f] = "synced" => data'[f] = "synced"
  BY <1>1
<1>14. Ordered' /\ Whole' /\ Shown' /\ (filed \subseteq 1..created)'
  <2>1. Ordered'
    BY <1>6 DEF Ordered, Once
  <2>2. Whole'
    <3> SUFFICES ASSUME NEW i \in DOMAIN installed'
                 PROVE  installed'[i] <= created /\ data'[installed'[i]] = "synced"
      BY <1>1 DEF Whole
    <3>1. installed'[i] \in Placed
      BY <1>11 DEF Placed
    <3> QED BY <1>13, <3>1, DiskAt
  <2>3. Shown'
    BY <1>1, <1>10 DEF Shown
  <2>4. filed' \subseteq 1..created
    BY <1>1, DiskAt
  <2> QED BY <1>1, <2>1, <2>2, <2>3, <2>4
<1>15. Writers'
  BY <1>1 DEF Writers, HasFile, Unfinished, Recovering
<1>16. (platform = "unix" => OnUnix)'
  <2> SUFFICES ASSUME platform = "unix" PROVE OnUnix'
    BY <1>1
  <2>1. \A w \in Windows : step'[w] \in UnixSteps /\ ~HasFile(w)'
    BY <1>1 DEF UnixSteps, Steps, Recovering, HasFile, Unfinished
  <2>2. dir'.backup = 0 /\ \A d \in past' : d.backup = 0
    BY <1>1, DiskAt
  <2>3. b = 0
    <3>1. b # 0 => installed[b] = 0
      BY <1>2, <2>2, PlaceIn DEF b
    <3>2. \A i \in 1..Len(installed) : installed[i] # 0
      BY <1>2, SettingsAssumption DEF Files
    <3> QED BY <1>3, <3>1, <3>2
  <2>4. installed' # <<>> => dir'.current = installed'[Len(installed')]
    <3> SUFFICES ASSUME installed' # <<>> PROVE dir'.current = installed'[n]
      BY <1>6
    <3>1. n # 0
      BY <1>5, <1>6
    <3>2. n = a
      BY <1>3, <1>4, <2>3, <3>1
    <3>3. installed[a] = dir'.current
      BY <1>2, <3>1, <3>2, PlaceIn DEF a
    <3> QED BY <1>5, <1>6, <3>1, <3>2, <3>3
  <2>5. acked' \subseteq Placed'
    <3> SUFFICES ASSUME NEW f \in acked PROVE f \in Placed'
      BY <1>1
    <3>1. Position(dir'.current) >= Position(f)
      BY <1>1, DiskAt DEF SavedSurvives
    <3>2. Place(installed, f) <= n
      <4>1. a >= Place(installed, f)
        BY <3>1, PositionIs DEF a
      <4>2. Place(installed, f) \in Nat
        BY <1>2, PlaceIn
      <4> QED BY <1>3, <1>5, <4>1, <4>2
    <3> QED BY <1>9, <3>2, DiskAt
  <2> QED BY <2>1, <2>2, <2>4, <2>5 DEF OnUnix
<1>17. SavedSurvives'
  <2> SUFFICES ASSUME platform = "unix", NEW e \in past', NEW f \in acked
               PROVE  e.current \in Files /\ Position(e.current)' >= Position(f)'
    BY <1>1 DEF SavedSurvives
  <2>1. e \in past /\ e.current \in Files /\ Position(e.current) >= Position(f)
    BY <1>1, DiskAt DEF SavedSurvives
  <2>2. e.current \in Placed
    BY <2>1, SettingsAssumption, DiskAt DEF Shown, Files, Other
  <2>3. f \in Placed
    BY DiskAt
  <2>4. Place(installed, e.current) = a
    BY <1>1 DEF a
  <2>5. a >= Place(installed, f) /\ Place(installed, f) \in 1..Len(installed)
    BY <1>8, <2>1, <2>3, <2>4, PositionIs
  <2>6. Place(installed', f) = Place(installed, f)
    BY <1>3, <1>5, <1>9, <2>3, <2>5
  <2>7. Place(installed', e.current) = a
    BY <1>5, <1>9, <2>2, <2>4
  <2>8. Position(e.current)' = a /\ Position(f)' = Place(installed, f)
    BY <2>6, <2>7, PositionIsNext
  <2> QED BY <2>1, <2>5, <2>8
<1>18. ReportKept'
  <2>1. \A f \in filed : f \in Files
    BY DEF DiskInv, SettingsTypeOK
  <2> QED BY <1>1, <1>13, <2>1, DiskAt DEF ReportKept
<1> QED BY <1>12, <1>14, <1>15, <1>16, <1>17, <1>18 DEF DiskInv, Disk

----
\* Every step keeps the invariant.

\* The directory the first window meets satisfies the invariant.
LEMMA DiskInit == SettingsInit => DiskInv
<1> SUFFICES ASSUME NEW sys \in {"unix", "windows"}, NEW entry \in {0, 1, Other},
                    SettingsAt(sys, entry)
             PROVE  DiskInv
  BY DEF SettingsInit, DiskInv
<1>1. SettingsTypeOK
  BY SettingsInitTypes DEF SettingsInit
<1>2. 1 \in Files /\ Other \notin {0, 1} /\ Other \notin Files
  BY SettingsAssumption DEF Files, Other
<1>3. /\ platform = sys /\ past = {dir} /\ created = 1 /\ filed = {}
      /\ dir = [current |-> entry, backup |-> 0, extra |-> {}]
      /\ data = [f \in Files |-> IF f = 1 /\ entry = 1 THEN "synced" ELSE "absent"]
      /\ \A w \in Windows : step[w] = "closed" /\ file[w] = 0
  BY DEF SettingsAt
<1>4. CASE entry = 1
  <2>1. installed = <<1>> /\ acked = {1} /\ data[1] = "synced"
    BY <1>2, <1>3, <1>4 DEF SettingsAt
  <2>2. /\ Len(installed) = 1 /\ installed[1] = 1 /\ DOMAIN installed = {1} /\ Placed = {1}
    BY <2>1 DEF Placed
  <2>3. Ordered /\ Whole /\ Shown
    BY <1>3, <1>4, <2>1, <2>2 DEF Ordered, Whole, Shown
  <2>4. platform = "unix" => OnUnix
    BY <1>3, <1>4, <2>1, <2>2 DEF OnUnix, HasFile, Unfinished, UnixSteps, Steps, Recovering
  <2>5. SavedSurvives
    BY <1>2, <1>3, <1>4, <2>1, <2>2 DEF SavedSurvives, Position
  <2>6. Writers /\ ReportKept
    BY <1>3 DEF Writers, HasFile, Unfinished, Recovering, ReportKept
  <2> QED BY <1>1, <1>3, <2>3, <2>4, <2>5, <2>6 DEF DiskInv, Disk
<1>5. CASE entry # 1
  <2>1. installed = <<>> /\ acked = {}
    BY <1>5 DEF SettingsAt
  <2>2. Placed = {} /\ DOMAIN installed = {}
    BY <2>1 DEF Placed
  <2>3. Ordered /\ Whole /\ Shown
    BY <1>3, <1>5, <2>1, <2>2 DEF Ordered, Whole, Shown
  <2>4. platform = "unix" => OnUnix
    BY <1>3, <2>1, <2>2 DEF OnUnix, HasFile, Unfinished, UnixSteps, Steps, Recovering
  <2>5. SavedSurvives /\ Writers /\ ReportKept
    BY <1>3, <2>1 DEF SavedSurvives, Writers, HasFile, Unfinished, Recovering, ReportKept
  <2> QED BY <1>1, <1>3, <2>3, <2>4, <2>5 DEF DiskInv, Disk
<1> QED BY <1>4, <1>5

\* What leaves everything alone keeps the invariant of the disk.
LEMMA DiskStutters == DiskInv /\ UNCHANGED settingsVars => DiskInv'
<1> SUFFICES ASSUME DiskInv, UNCHANGED settingsVars PROVE DiskInv'
  OBVIOUS
<1>1. /\ UNCHANGED <<platform, dir, past, data, created>>
      /\ UNCHANGED <<step, goal, seen, file, loaded, known>>
      /\ UNCHANGED <<installed, acked, filed, faults, crashes>>
  BY DEF settingsVars, disk, locals, promises
<1>2. /\ SettingsTypeOK' /\ Ordered' /\ Whole' /\ Placed' = Placed /\ Here' = Here
      /\ SavedSurvives' /\ ReportKept'
  BY <1>1, DiskAt DEF DiskInv, SettingsTypeOK, Ordered, Whole, Placed, Here, SavedSurvives,
     Position, ReportKept
<1>3. \A w \in Windows : (HasFile(w)' <=> HasFile(w)) /\ (Owned(w) => Owned(w)')
  BY <1>1, <1>2 DEF HasFile, Owned, Installed
<1>4. Shown' /\ Writers' /\ (platform = "unix" => OnUnix)'
  BY <1>1, <1>2, <1>3, DiskAt DEF Shown, Writers, OnUnix
<1> QED BY <1>1, <1>2, <1>4, DiskAt DEF DiskInv, Disk

\* Every step of a load or a save keeps the invariant of the disk.
LEMMA CallsKeep ==
  ASSUME DiskInv, NEW w \in Windows, Calls(w)
  PROVE  DiskInv'
<1>1. CallFrame
  BY DEF Calls, CallFrame
<1>2. CASE Recovery(w) /\ UNCHANGED loaded
  BY <1>1, <1>2, SeeKeeps, RenamingKeeps DEF Recovery
<1>3. CASE Loading(w)
  BY <1>1, <1>3, LoadingKeeps
<1>4. CASE Saving(w)
  <2>1. UNCHANGED <<seen, loaded>>
    BY <1>4 DEF Saving
  <2>2. CASE Check(w) \/ Recheck(w) \/ Look(w) \/ UndoNothing(w)
    BY <1>1, <2>1, <2>2, CheckLookKeeps
  <2>3. CASE Create(w)
    BY <1>1, <2>1, <2>3, CreateKeeps
  <2>4. CASE Write(w) \/ Sync(w)
    BY <1>1, <2>1, <2>4, WriteSyncKeeps
  <2>5. CASE Stage(w) \/ Undo(w) \/ Unstage(w)
    BY <1>1, <2>1, <2>5, RenamingKeeps
  <2>6. CASE Install(w)
    BY <1>1, <2>1, <2>6, InstallKeeps
  <2>7. CASE SyncDirectory(w)
    BY <1>1, <2>1, <2>7, SyncDirectoryKeeps
  <2> QED BY <1>4, <2>2, <2>3, <2>4, <2>5, <2>6, <2>7 DEF Saving
<1> QED BY <1>2, <1>3, <1>4 DEF Calls

\* Every step of a window, a crash or a loss of power keeps the invariant of the disk.
LEMMA DiskStep == DiskInv /\ [SettingsNext]_settingsVars => DiskInv'
<1> SUFFICES ASSUME DiskInv, [SettingsNext]_settingsVars PROVE DiskInv'
  OBVIOUS
<1>1. CASE UNCHANGED settingsVars
  BY <1>1, DiskStutters
<1>2. CASE PowerLoss
  BY <1>2, PowerLossKeeps
<1>3. ASSUME NEW w \in Windows, OpenWindow(w) \/ SaveOrClose(w) \/ ReportCrash(w) PROVE DiskInv'
  BY <1>3, BeginsKeeps
<1>4. ASSUME NEW w \in Windows, Calls(w) PROVE DiskInv'
  BY <1>4, CallsKeep
<1>5. ASSUME NEW w \in Windows, CallFails(w) PROVE DiskInv'
  BY <1>5, CallFailsKeeps
<1>6. ASSUME NEW w \in Windows, Crash(w) PROVE DiskInv'
  BY <1>6, CrashKeeps
<1> QED BY <1>1, <1>2, <1>3, <1>4, <1>5, <1>6 DEF SettingsNext

\* The invariant of the disk always holds.
LEMMA DiskAlways == SettingsSpec => []DiskInv
BY DiskInit, DiskStep, PTL DEF SettingsSpec

\* By the invariant no name shows a file that was not written whole.
LEMMA NothingTorn == DiskInv => NeverTorn
<1> SUFFICES ASSUME DiskInv, NEW d \in past, NEW f \in {d.current, d.backup} \cap Files
             PROVE  data[f] = "synced"
  BY DEF NeverTorn
<1>1. f \in Placed
  BY SettingsAssumption, DiskAt DEF Shown, Files, Other
<1> QED BY <1>1, DiskAt

\* However many windows there are, whatever fails and dies: no name ever
\* shows a file that is not whole on disk, and on Unix what a save or a crash
\* report was acknowledged for is still there after a power loss
\* (save_settings_at and write_crash_report_at: sync before rename, directory
\* sync before Ok).
THEOREM AcknowledgedIsKept ==
    SettingsSpec => [](SettingsTypeOK /\ NeverTorn /\ SavedSurvives /\ ReportKept)
<1>1. DiskInv => SettingsTypeOK /\ NeverTorn /\ SavedSurvives /\ ReportKept
  BY NothingTorn DEF DiskInv, Disk
<1> QED BY DiskAlways, <1>1, PTL

----
\* What a single window on Windows may add: settings are found again, and the
\* latest of them.  Two windows there take each other's staged files away, so
\* that these properties need the hypothesis; on Unix there is none.

OneWindow == \A v, w \in WindowsWindows : v = w
Lone == platform = "unix" \/ OneWindow

\* One of the two names shows the last file installed, the backup name an
\* older one, and the first file is never gone from both.
Latest == Newest(dir) = Len(installed)
OlderBackup ==
    \A d \in past : d.current = 0 \/ d.backup = 0 \/ Position(d.current) > Position(d.backup)
FirstKept == data[1] = "synced" => \A d \in past : HasSettings(d)
Names == Latest /\ OlderBackup /\ FirstKept

\* What the window has seen is what is there, and where the replacement stands.
StagingAt(w) ==
    /\ step[w] \in {"seeBackup", "recover"} => seen[w].current = dir.current
    /\ step[w] = "recover" => seen[w].backup = dir.backup
    /\ step[w] \in {"inspect", "openFile", "read"} => dir.backup = 0
    /\ platform = "windows" /\ step[w] \in {"install", "undo"} => dir.current = 0
    /\ step[w] = "unstage" => dir.current = file[w]
Staging == \A w \in Windows : StagingAt(w)

\* What was installed before a window opened is not newer than what it loads.
NotOlder(l, w) == l \in Placed /\ \A f \in known[w] : Position(l) >= Position(f)
LoadsAt(w) ==
    /\ step[w] # "closed" \/ loaded[w] # 0 => known[w] \subseteq Placed
    /\ \A l \in {loaded[w]} \ {0} : NotOlder(l, w)
    /\ step[w] = "read" => \A l \in {file[w]} : NotOlder(l, w)
Loads == \A w \in Windows : LoadsAt(w)

LoneInv == Names /\ Staging /\ Loads

\* What the invariant of the disk says of the positions of the versions.
LEMMA Positions ==
  ASSUME DiskInv
  PROVE  /\ \A f : Position(f) \in 0..Len(installed)
         /\ \A f : Position(f) # 0 <=> f \in Placed
         /\ installed \in Seq(Nat) /\ Once(installed) /\ Len(installed) \in Nat
         /\ 0 \notin Placed /\ Other \notin Placed /\ Other # 0
<1>1. installed \in Seq(Nat) /\ Once(installed) /\ Len(installed) \in Nat
  BY CallTypes, DiskAt DEF Ordered, Once, Files
<1>2. 0 \notin Placed /\ Other \notin Placed /\ Other # 0
  BY DiskAt DEF Files, Other
<1>3. \A f : Position(f) \in 0..Len(installed)
  BY <1>1, PlaceIn, PositionIs
<1>4. ASSUME NEW f PROVE Position(f) # 0 <=> f \in Placed
  <2>1. f \in Placed <=> \E i \in 1..Len(installed) : installed[i] = f
    BY <1>1 DEF Placed
  <2>2. Position(f) # 0 => Position(f) \in 1..Len(installed) /\ installed[Position(f)] = f
    BY <1>1, <1>3, PlaceIn, PositionIs
  <2>3. f \in Placed => Position(f) # 0
    BY <1>1, <2>1, PlaceIn, PositionIs
  <2> QED BY <2>1, <2>2, <2>3
<1> QED BY <1>1, <1>2, <1>3, <1>4

\* Whether the latest version is under a name after a step, by places.
LEMMA LatestNext ==
  ASSUME NEW e, e = dir', NEW a, a = Place(installed', e.current), NEW b, b = Place(installed', e.backup)
  PROVE  Latest' <=> (IF a >= b THEN a ELSE b) = Len(installed')
BY DEF Latest, Newest, Position, Place

\* Whether the latest version is under a name, by places.
LEMMA LatestNow ==
  Latest <=> (IF Position(dir.current) >= Position(dir.backup)
              THEN Position(dir.current) ELSE Position(dir.backup)) = Len(installed)
BY DEF Latest, Newest

\* While nothing is installed and no name shows anything new.
Calm ==
    /\ UNCHANGED installed
    /\ dir'.current = dir.current /\ dir'.backup = dir.backup
    /\ \A d \in past' : \E e \in past : d.current = e.current /\ d.backup = e.backup
    /\ data'[1] = "synced" => data[1] = "synced"

\* A step that renames nothing keeps what is said of the names.
LEMMA CalmNames ==
  ASSUME Names, Calm
  PROVE  Names'
<1>1. \A f : Position(f)' = Position(f)
  BY DEF Calm, Position
<1>2. Latest'
  BY DEF Names, Latest, Newest, Position, Calm
<1>3. OlderBackup'
  BY <1>1 DEF Names, OlderBackup, Calm
<1>4. FirstKept'
  BY DEF Names, FirstKept, HasSettings, Calm
<1> QED BY <1>2, <1>3, <1>4 DEF Names

\* A replacement or a recovery under way, of the only window.
LEMMA RenamedNames ==
  ASSUME DiskInv, DiskInv', Names, UNCHANGED <<installed, data>>,
         NEW c, NEW b, Becomes([dir EXCEPT !.current = c, !.backup = b]),
         \/ b = 0 /\ c = dir.current /\ dir.current # 0
         \/ b = 0 /\ c = dir.backup /\ dir.current = 0 /\ dir.backup # 0
         \/ c = 0 /\ b = dir.current /\ dir.current \notin {0, Other}
  PROVE  Names'
<1>1. /\ dir'.current = c /\ dir'.backup = b /\ past' = past \cup {dir'}
      /\ dir \in past
  BY CallTypes DEF Becomes, Directories
<1>2. \A f : Position(f)' = Position(f) /\ Place(installed', f) = Position(f)
  BY PositionIs DEF Position
<1>3. /\ Position(dir.current) \in Nat /\ Position(dir.backup) \in Nat /\ Position(0) = 0
      /\ dir.current = 0 \/ dir.backup = 0 \/ Position(dir.current) > Position(dir.backup)
  BY Positions, <1>1 DEF Names, OlderBackup
<1>4. (IF Position(dir.current) >= Position(dir.backup)
       THEN Position(dir.current) ELSE Position(dir.backup)) = Len(installed)
  BY LatestNow DEF Names
<1>5. (IF Position(c) >= Position(b) THEN Position(c) ELSE Position(b)) = Len(installed)
  <2>1. CASE b = 0 /\ c = dir.current /\ dir.current # 0
    BY <1>3, <1>4, <2>1
  <2>2. CASE b = 0 /\ c = dir.backup /\ dir.current = 0 /\ dir.backup # 0
    BY <1>3, <1>4, <2>2
  <2>3. CASE c = 0 /\ b = dir.current /\ dir.current \notin {0, Other}
    BY <1>3, <1>4, <2>3
  <2> QED BY <2>1, <2>2, <2>3
<1>6. Latest'
  BY <1>1, <1>2, <1>5 DEF Latest, Newest, Position, Place
<1>7. OlderBackup'
  BY <1>1, <1>2 DEF Names, OlderBackup
<1>8. FirstKept'
  BY <1>1 DEF Names, FirstKept, HasSettings
<1> QED BY <1>6, <1>7, <1>8 DEF Names

\* Files already placed keep their positions when one is installed.
LEMMA InstallPlaces ==
  ASSUME DiskInv, DiskInv', NEW w \in Windows, Install(w)
  PROVE  /\ \A h \in Placed : h \in Placed' /\ Position(h)' = Position(h)
         /\ Len(installed') = Len(installed) + 1
         /\ Place(installed', file[w]) = Len(installed) + 1
         /\ file[w] \in Files /\ file[w] > 1 /\ dir'.current = file[w] /\ dir'.backup = dir.backup
         /\ past' = past \cup {dir'}
<1>1. file[w] \in Files /\ file[w] > 1
  <2>1. HasFile(w)
    BY DEF Install, HasFile
  <2>2. Owned(w) /\ file[w] \in Nat
    BY <2>1, DiskAt, InvAt DEF Writers
  <2> QED BY <2>2, DiskAt DEF Owned, Files
<1>2. /\ installed \in Seq(Nat) /\ Once(installed) /\ Len(installed) \in Nat
      /\ file[w] \in Nat
  BY <1>1, Positions DEF Files
<1>3. installed' \in Seq(Nat) /\ Once(installed')
  <2>1. installed' \in Seq(Files) /\ Ordered'
    BY DEF DiskInv, SettingsTypeOK, Disk
  <2>2. installed' \in Seq(Nat)
    BY <2>1, FilesAreNumbers
  <2>3. Once(installed')
    BY <2>1 DEF Ordered, Once
  <2> QED BY <2>2, <2>3
<1>4. /\ Len(installed') = Len(installed) + 1 /\ installed'[Len(installed) + 1] = file[w]
      /\ \A i \in 1..Len(installed) : installed'[i] = installed[i]
  BY <1>2 DEF Install
<1>5. Place(installed', file[w]) = Len(installed) + 1
  BY <1>2, <1>3, <1>4, PlaceAt
<1>6. ASSUME NEW h \in Placed PROVE h \in Placed' /\ Position(h)' = Position(h)
  <2>1. PICK i \in 1..Len(installed) : installed[i] = h
    BY <1>2 DEF Placed
  <2>2. i \in 1..Len(installed') /\ installed'[i] = h
    BY <1>2, <1>4, <2>1
  <2>3. Place(installed', h) = i
    BY <1>3, <2>2, PlaceAt
  <2>4. Place(installed, h) = i
    BY <1>2, <2>1, PlaceAt
  <2>5. h \in Placed'
    BY <1>3, <2>2 DEF Placed
  <2> QED BY <2>3, <2>4, <2>5, PositionIs, PositionIsNext
<1>7. dir'.current = file[w] /\ dir'.backup = dir.backup /\ past' = past \cup {dir'}
  BY CallTypes DEF Install, Becomes, Directories
<1> QED BY <1>1, <1>4, <1>5, <1>6, <1>7

\* The rename that installs a version puts the latest one in place.
LEMMA InstallNames ==
  ASSUME DiskInv, DiskInv', Names, NEW w \in Windows, Install(w)
  PROVE  Names'
<1>1. /\ \A h \in Placed : h \in Placed' /\ Position(h)' = Position(h)
      /\ Len(installed') = Len(installed) + 1 /\ Len(installed) \in Nat
      /\ Place(installed', file[w]) = Len(installed) + 1
      /\ file[w] \in Files /\ file[w] > 1 /\ dir'.current = file[w] /\ dir'.backup = dir.backup
      /\ past' = past \cup {dir'} /\ dir \in past
  BY InstallPlaces, Positions, CallTypes
<1>2. \A d \in past : /\ d.current \in Placed \cup {0, Other} /\ d.backup \in Placed \cup {0}
                      /\ d.current = 0 \/ d.backup = 0 \/ Position(d.current) > Position(d.backup)
  BY DiskAt DEF Shown, Names, OlderBackup
<1>3. dir'.backup # 0 => Position(dir.backup) \in 0..Len(installed)
         /\ Place(installed', dir.backup) = Position(dir.backup)
  <2> SUFFICES ASSUME dir.backup # 0
               PROVE  Position(dir.backup) \in 0..Len(installed)
                      /\ Place(installed', dir.backup) = Position(dir.backup)
    BY <1>1
  <2> DEFINE h == dir.backup
  <2>1. h \in Placed
    BY <1>1, <1>2
  <2> HIDE DEF h
  <2>2. PICK g \in Placed : g = h
    BY <2>1
  <2>3. Position(g)' = Position(g) /\ Position(g)' = Place(installed', g)
    BY <1>1, PositionIsNext
  <2> QED BY <2>2, <2>3, Positions DEF h
<1>4. Place(installed', 0) = 0
  <2>1. 0 \notin Placed'
    <3>1. installed' \in Seq(Files)
      BY DEF DiskInv, SettingsTypeOK
    <3>2. Placed' \subseteq Files
      BY <3>1 DEF Placed
    <3> QED BY <3>2, SettingsAssumption DEF Files
  <2>2. \A i \in DOMAIN installed' : installed'[i] # 0
    BY <2>1 DEF Placed
  <2> QED BY <2>2 DEF Place
<1>5. Latest'
  <2> DEFINE a == Place(installed', dir'.current)
             b == Place(installed', dir'.backup)
  <2>1. a = Len(installed) + 1 /\ b \in 0..Len(installed)
    <3>1. CASE dir'.backup = 0
      BY <1>1, <1>4, <3>1
    <3>2. CASE dir'.backup # 0
      BY <1>1, <1>3, <3>2
    <3> QED BY <3>1, <3>2
  <2>2. (IF a >= b THEN a ELSE b) = Len(installed')
    BY <1>1, <2>1
  <2> QED BY <2>2 DEF Latest, Newest, Position, Place
<1>6. OlderBackup'
  <2> SUFFICES ASSUME NEW d \in past', d.current # 0, d.backup # 0
               PROVE  Position(d.current)' > Position(d.backup)'
    BY DEF OlderBackup
  <2>1. CASE d \in past
    <3>1. Position(d.current) > Position(d.backup) /\ d.backup \in Placed
      BY <1>2, <2>1
    <3>2. d.current \in Placed
      BY <1>2, <2>1, <3>1, Positions
    <3> QED BY <1>1, <3>1, <3>2
  <2>2. CASE d = dir'
    <3>1. Position(d.current)' = Len(installed) + 1
      BY <1>1, <2>2, PositionIsNext
    <3>2. Position(d.backup)' \in 0..Len(installed)
      BY <1>1, <1>3, <2>2, PositionIsNext
    <3> QED BY <1>1, <3>1, <3>2
  <2> QED BY <1>1, <2>1, <2>2
<1>7. FirstKept'
  BY <1>1 DEF Names, FirstKept, HasSettings, Install
<1> QED BY <1>5, <1>6, <1>7 DEF Names

\* After a power loss the files that are still known stand where they stood.
LEMMA PowerLossPlaces ==
  ASSUME DiskInv, DiskInv', PowerLoss, NEW n, n = Newest(dir')
  PROVE  /\ n \in 0..Len(installed) /\ Len(installed') = n
         /\ \A f \in Placed : Position(f) <= n => Position(f)' = Position(f)
<1>1. /\ installed \in Seq(Nat) /\ Once(installed) /\ Len(installed) \in Nat
      /\ \A f : Position(f) \in 0..Len(installed)
  BY Positions
<1>2. n \in 0..Len(installed)
  <2>1. PICK e \in past : e = dir'
    BY DEF PowerLoss
  <2>2. Position(e.current) \in 0..Len(installed) /\ Position(e.backup) \in 0..Len(installed)
    BY <1>1
  <2>3. n = IF Position(e.current) >= Position(e.backup) THEN Position(e.current) ELSE Position(e.backup)
    BY <2>1 DEF Newest
  <2> QED BY <2>2, <2>3
<1>3. installed' = SubSeq(installed, 1, n)
  BY DEF PowerLoss
<1>4. /\ installed' \in Seq(Nat) /\ Once(installed') /\ Len(installed') = n
      /\ \A i \in 1..n : installed'[i] = installed[i]
  BY <1>1, <1>2, <1>3, OnceLess
<1>5. ASSUME NEW f \in Placed, Position(f) <= n PROVE Position(f)' = Position(f)
  <2>1. PICK i \in 1..Len(installed) : installed[i] = f
    BY <1>1 DEF Placed
  <2>2. Position(f) = i
    BY <1>1, <2>1, PlaceAt, PositionIs
  <2>3. i \in 1..n /\ installed'[i] = f
    BY <1>2, <1>4, <1>5, <2>1, <2>2
  <2>4. Place(installed', f) = i
    BY <1>4, <2>3, PlaceAt
  <2> QED BY <2>2, <2>4, PositionIsNext
<1> QED BY <1>2, <1>4, <1>5

\* A loss of power returns to an earlier directory, and forgets the versions it undid.
LEMMA PowerLossNames ==
  ASSUME DiskInv, DiskInv', Names, PowerLoss
  PROVE  Names'
<1> DEFINE n == Newest(dir')
<1>1. PICK e \in past : e = dir' /\ past' = {e}
  BY DEF PowerLoss
<1>2. /\ n \in 0..Len(installed) /\ Len(installed') = n
      /\ \A f \in Placed : Position(f) <= n => Position(f)' = Position(f)
  BY PowerLossPlaces
<1>3. n = IF Position(e.current) >= Position(e.backup) THEN Position(e.current) ELSE Position(e.backup)
  BY <1>1 DEF Newest
<1> HIDE DEF n
<1>4. /\ e.current \in Placed \cup {0, Other} /\ e.backup \in Placed \cup {0}
      /\ e.current = 0 \/ e.backup = 0 \/ Position(e.current) > Position(e.backup)
  BY DiskAt DEF Shown, Names, OlderBackup
<1>5. /\ \A f : Position(f) \in Nat /\ (Position(f) # 0 <=> f \in Placed)
      /\ 0 \notin Placed /\ Other \notin Placed
  BY Positions
<1>6. \A i \in DOMAIN installed' : installed'[i] # 0 /\ installed'[i] # Other
  <2>1. installed' \in Seq(Files)
    BY DEF DiskInv, SettingsTypeOK
  <2> QED BY <2>1, DiskAt DEF Files, Other
<1>7. Place(installed', 0) = 0 /\ Place(installed', Other) = 0
  BY <1>6 DEF Place
<1>8. Place(installed', e.current) = Position(e.current)
  <2>1. CASE e.current \in Placed
    <3>1. Position(e.current) <= n
      BY <1>2, <1>3, <1>5
    <3>2. Position(e.current)' = Position(e.current)
      BY <1>2, <2>1, <3>1
    <3> QED BY <3>2, PositionIsNext
  <2>2. CASE e.current \in {0, Other}
    BY <1>5, <1>7, <2>2
  <2> QED BY <1>4, <2>1, <2>2
<1>9. Place(installed', e.backup) = Position(e.backup)
  <2>1. CASE e.backup \in Placed
    <3>1. Position(e.backup) <= n
      BY <1>2, <1>3, <1>5
    <3>2. Position(e.backup)' = Position(e.backup)
      BY <1>2, <2>1, <3>1
    <3> QED BY <3>2, PositionIsNext
  <2>2. CASE e.backup = 0
    BY <1>5, <1>7, <2>2
  <2> QED BY <1>4, <2>1, <2>2
<1>10. Latest'
  BY <1>1, <1>2, <1>3, <1>8, <1>9 DEF Latest, Newest, Position, Place
<1>11. OlderBackup'
  <2>1. Position(e.current)' = Position(e.current) /\ Position(e.backup)' = Position(e.backup)
    BY <1>8, <1>9, PositionIsNext
  <2> QED BY <1>1, <1>4, <2>1 DEF OlderBackup
<1>12. FirstKept'
  <2>1. data'[1] = "synced" => data[1] = "synced"
    <3>1. 1 \in Files /\ data' = [f \in Files |-> IF data[f] = "written" THEN "partial" ELSE data[f]]
      BY SettingsAssumption DEF PowerLoss, Files
    <3> QED BY <3>1
  <2> QED BY <1>1, <2>1 DEF Names, FirstKept, HasSettings
<1> QED BY <1>10, <1>11, <1>12 DEF Names

\* What is said of the names holds at the start.
LEMMA NamesInit == SettingsInit => Names
<1> SUFFICES ASSUME NEW sys \in {"unix", "windows"}, NEW entry \in {0, 1, Other},
                    SettingsAt(sys, entry)
             PROVE  Names
  BY DEF SettingsInit
<1>1. /\ past = {dir} /\ dir.current = entry /\ dir.backup = 0
      /\ data = [f \in Files |-> IF f = 1 /\ entry = 1 THEN "synced" ELSE "absent"]
      /\ 1 \in Files /\ Other # 1
  BY SettingsAssumption DEF SettingsAt, Files, Other
<1>2. OlderBackup /\ FirstKept
  BY <1>1 DEF OlderBackup, FirstKept, HasSettings
<1>3. Latest
  <2>1. CASE entry = 1
    <3>1. installed = <<1>>
      BY <2>1 DEF SettingsAt
    <3>2. Len(installed) = 1 /\ installed[1] = 1 /\ DOMAIN installed = {1}
      BY <3>1
    <3>3. Position(1) = 1 /\ Position(0) = 0
      BY <3>2 DEF Position
    <3> QED BY <1>1, <2>1, <3>2, <3>3 DEF Latest, Newest
  <2>2. CASE entry # 1
    <3>1. installed = <<>> /\ Len(installed) = 0 /\ DOMAIN installed = {}
      BY <2>2 DEF SettingsAt
    <3>2. \A f : Position(f) = 0
      BY <3>1 DEF Position
    <3> QED BY <3>1, <3>2 DEF Latest, Newest
  <2> QED BY <2>1, <2>2
<1> QED BY <1>2, <1>3 DEF Names

\* Where a step of a call leads, and that it leads no other call anywhere.
LEMMA GoesTo ==
  ASSUME DiskInv, NEW w \in Windows
  PROVE  /\ \A s : Goes(w, s) => step'[w] = s /\ \A v \in Windows \ {w} : step'[v] = step[v]
         /\ Returns(w) => /\ step'[w] \in {"open", "closed"}
                          /\ \A v \in Windows \ {w} : step'[v] = step[v]
BY DEF DiskInv, SettingsTypeOK, Goes, Returns

\* The steps that leave the disk as it is.
LEMMA StillSteps ==
  ASSUME NEW w \in Windows,
         \/ OpenWindow(w) \/ SaveOrClose(w) \/ ReportCrash(w) \/ Loading(w) \/ CallFails(w)
         \/ Crash(w) \/ Check(w) \/ Recheck(w) \/ Look(w) \/ UndoNothing(w)
         \/ See(w, "current", "seeCurrent", "seeBackup")
         \/ See(w, "backup", "seeBackup", "recover")
  PROVE  UNCHANGED <<dir, past, data, installed>>
<1>1. \/ UNCHANGED <<disk, promises>>
      \/ Refuses(w)
      \/ \E s : Keeps(w, s)
  <2>1. CASE OpenWindow(w) \/ SaveOrClose(w) \/ ReportCrash(w)
    BY <2>1 DEF OpenWindow, SaveOrClose, ReportCrash, Begins
  <2>2. CASE Loading(w)
    BY <2>2 DEF Loading, Inspect, OpenFile, ReadFile
  <2>3. CASE CallFails(w) \/ Crash(w)
    BY <2>3 DEF CallFails, InstallFails, Crash
  <2>4. CASE Check(w) \/ Recheck(w) \/ Look(w) \/ UndoNothing(w)
    BY <2>4 DEF Check, Recheck, Look, UndoNothing
  <2>5. CASE \/ See(w, "current", "seeCurrent", "seeBackup")
             \/ See(w, "backup", "seeBackup", "recover")
    BY <2>5 DEF See
  <2> QED BY <2>1, <2>2, <2>3, <2>4, <2>5
<1> QED BY <1>1 DEF Refuses, Keeps, disk, promises

\* And those that leave the names as they are.
LEMMA CalmSteps ==
  ASSUME DiskInv, NEW w \in Windows, Create(w) \/ Write(w) \/ Sync(w) \/ SyncDirectory(w)
  PROVE  Calm
<1>1. CASE Create(w)
  <2>1. /\ UNCHANGED installed /\ data' = [data EXCEPT ![created + 1] = "partial"]
        /\ Becomes([dir EXCEPT !.extra = @ \cup {created + 1}]) /\ created + 1 # 1
    BY <1>1, DiskAt DEF Create, promises
  <2>2. dir'.current = dir.current /\ dir'.backup = dir.backup /\ past' = past \cup {dir'}
    BY <2>1, CallTypes DEF Becomes, Directories
  <2>3. data'[1] = data[1]
    BY <2>1, CallTypes, SettingsAssumption DEF Files
  <2> QED BY <2>1, <2>2, <2>3, CallTypes DEF Calm
<1>2. CASE Write(w) \/ Sync(w)
  <2>1. HasFile(w) /\ UNCHANGED <<dir, past, installed>>
    BY <1>2 DEF Write, Sync, WriteAll, HasFile, Unfinished, promises
  <2>2. file[w] # 1
    BY <2>1, DiskAt DEF Writers, Owned
  <2>3. \E k : data' = [data EXCEPT ![file[w]] = k]
    BY <1>2 DEF Write, Sync, WriteAll
  <2>4. data'[1] = data[1]
    BY <2>2, <2>3, CallTypes, SettingsAssumption DEF Files
  <2> QED BY <2>1, <2>4 DEF Calm
<1>3. CASE SyncDirectory(w)
  BY <1>3, CallTypes DEF SyncDirectory, Synced, Calm
<1> QED BY <1>1, <1>2, <1>3

\* The replacement and the recovery of the only window.
LEMMA RenamingNames ==
  ASSUME DiskInv, DiskInv', Names, Staging, NEW w \in Windows,
         \/ /\ step[w] = "recover" /\ RecoverStaged(w)
            /\ UNCHANGED <<data, created, seen, promises>>
         \/ Stage(w) \/ Undo(w) \/ Unstage(w)
  PROVE  Names'
<1>1. StagingAt(w) /\ (step[w] = "stage" => dir.current # Other) /\ dir.backup \in Placed \cup {0}
      /\ Other # 0 /\ Other \notin Placed
  BY CallTypes, DiskAt, Positions DEF Staging, Writers, Shown
<1>w. step[w] \in {"recover", "stage", "undo", "unstage"} => platform = "windows"
  BY InvAt DEF UnixSteps, Recovering
<1>2. CASE UNCHANGED <<dir, past, data, installed>>
  <2>1. Calm
    BY <1>2 DEF Calm
  <2> QED BY <2>1, CalmNames
<1>3. CASE /\ step[w] = "recover" /\ RecoverStaged(w)
           /\ UNCHANGED <<data, created, seen, promises>>
           /\ ~UNCHANGED <<dir, past, data, installed>>
  <2>1. seen[w].current = dir.current /\ seen[w].backup = dir.backup /\ UNCHANGED <<data, installed>>
    BY <1>1, <1>3 DEF StagingAt, promises
  <2>2. dir.backup # 0
        /\ Becomes([dir EXCEPT !.backup = 0, !.current = IF dir.current = 0 THEN dir.backup ELSE @])
    BY <1>3, <2>1 DEF RecoverStaged
  <2>3. PICK c \in {dir.current, dir.backup} : c = IF dir.current = 0 THEN dir.backup ELSE dir.current
    OBVIOUS
  <2>4. Becomes([dir EXCEPT !.current = c, !.backup = 0])
    <3>1. [dir EXCEPT !.backup = 0, !.current = IF dir.current = 0 THEN dir.backup ELSE @]
             = [dir EXCEPT !.current = c, !.backup = 0]
      BY <2>3, CallTypes DEF Directories
    <3> QED BY <2>2, <3>1
  <2> QED BY <2>1, <2>2, <2>3, <2>4, RenamedNames
<1>4. CASE Stage(w) /\ ~UNCHANGED <<dir, past, data, installed>>
  <2>1. /\ Becomes([dir EXCEPT !.current = 0, !.backup = dir.current])
        /\ dir.current \notin {0, Other} /\ UNCHANGED <<data, installed>>
    BY <1>1, <1>4 DEF Stage, StagedAway, Refuses, disk, promises
  <2> QED BY <2>1, RenamedNames
<1>5. CASE Undo(w)
  <2>1. /\ Becomes([dir EXCEPT !.current = dir.backup, !.backup = 0])
        /\ dir.backup # 0 /\ dir.current = 0 /\ UNCHANGED <<data, installed>>
    BY <1>1, <1>5, <1>w DEF Undo, StagingAt, promises
  <2> QED BY <2>1, RenamedNames
<1>6. CASE Unstage(w) /\ ~UNCHANGED <<dir, past, data, installed>>
  <2>1. /\ Becomes([dir EXCEPT !.backup = 0]) /\ dir.current = file[w]
        /\ UNCHANGED <<data, installed>> /\ HasFile(w)
    BY <1>1, <1>6 DEF Unstage, StagingAt, HasFile
  <2>2. dir.current # 0
    BY <2>1, DiskAt DEF Writers, Owned
  <2>3. [dir EXCEPT !.backup = 0] = [dir EXCEPT !.current = dir.current, !.backup = 0]
    BY CallTypes DEF Directories
  <2>4. Becomes([dir EXCEPT !.current = dir.current, !.backup = 0])
    BY <2>1, <2>3
  <2> QED BY <2>1, <2>2, <2>4, RenamedNames
<1> QED BY <1>2, <1>3, <1>4, <1>5, <1>6

\* Every step keeps what is said of the names.
LEMMA NamesStep ==
  ASSUME DiskInv, DiskInv', Names, Staging, [SettingsNext]_settingsVars
  PROVE  Names'
<1>1. CASE UNCHANGED <<dir, past, data, installed>>
  <2>1. Calm
    BY <1>1 DEF Calm
  <2> QED BY <2>1, CalmNames
<1>2. CASE UNCHANGED settingsVars
  BY <1>1, <1>2 DEF settingsVars, disk, promises
<1>3. CASE PowerLoss
  BY <1>3, PowerLossNames
<1>4. ASSUME NEW w \in Windows,
             \/ OpenWindow(w) \/ SaveOrClose(w) \/ ReportCrash(w) \/ CallFails(w) \/ Crash(w)
      PROVE  Names'
  BY <1>1, <1>4, StillSteps
<1>5. ASSUME NEW w \in Windows, Recovery(w) PROVE Names'
  BY <1>1, <1>5, StillSteps, RenamingNames DEF Recovery
<1>6. ASSUME NEW w \in Windows, Loading(w) PROVE Names'
  BY <1>1, <1>6, StillSteps
<1>7. ASSUME NEW w \in Windows, Saving(w) PROVE Names'
  <2>1. CASE Check(w) \/ Recheck(w) \/ Look(w) \/ UndoNothing(w)
    BY <1>1, <2>1, StillSteps
  <2>2. CASE Create(w) \/ Write(w) \/ Sync(w) \/ SyncDirectory(w)
    BY <2>2, CalmSteps, CalmNames
  <2>3. CASE Stage(w) \/ Undo(w) \/ Unstage(w)
    BY <2>3, RenamingNames
  <2>4. CASE Install(w)
    BY <2>4, InstallNames
  <2> QED BY <1>7, <2>1, <2>2, <2>3, <2>4 DEF Saving
<1> QED BY <1>2, <1>3, <1>4, <1>5, <1>6, <1>7 DEF SettingsNext, Calls

\* Who moves on Windows, when there is one window.
Acts(w) ==
    \/ OpenWindow(w) \/ SaveOrClose(w) \/ ReportCrash(w)
    \/ Calls(w) \/ CallFails(w) \/ Crash(w)

\* A step of a load or a save on Windows keeps what its window has seen.
LEMMA StagingCalls ==
  ASSUME DiskInv, platform = "windows", NEW w \in Windows, StagingAt(w), Calls(w)
  PROVE  StagingAt(w)'
<1>1. /\ \A s : Goes(w, s) => step'[w] = s
      /\ Returns(w) => step'[w] \in {"open", "closed"}
      /\ UNCHANGED <<platform, goal>>
  BY GoesTo DEF Calls
<1>2. CASE step'[w] \notin {"seeBackup", "recover", "inspect", "openFile", "read", "install", "undo",
                            "unstage"}
  BY <1>2 DEF StagingAt
<1>3. CASE See(w, "current", "seeCurrent", "seeBackup") /\ ~Refuses(w)
  <2>1. /\ step'[w] = "seeBackup" /\ seen' = [seen EXCEPT ![w].current = dir.current]
        /\ UNCHANGED dir
    BY <1>1, <1>3 DEF See, Keeps, disk
  <2>2. seen'[w].current = dir'.current
    BY <2>1, CallTypes
  <2> QED BY <2>1, <2>2 DEF StagingAt
<1>4. CASE See(w, "backup", "seeBackup", "recover") /\ ~Refuses(w)
  <2>1. /\ step'[w] = "recover" /\ seen' = [seen EXCEPT ![w].backup = dir.backup]
        /\ UNCHANGED dir /\ step[w] = "seeBackup"
    BY <1>1, <1>4 DEF See, Keeps, disk
  <2>2. seen'[w].current = dir'.current /\ seen'[w].backup = dir'.backup
    BY <2>1, CallTypes DEF StagingAt
  <2> QED BY <2>1, <2>2 DEF StagingAt
<1>5. CASE step[w] = "recover" /\ RecoverStaged(w) /\ ~Returns(w)
  <2>1. step'[w] \in {"inspect", "check", "look"}
    BY <1>1, <1>5 DEF RecoverStaged, AfterRecovery
  <2>2. dir'.backup = 0
    <3>1. CASE seen[w].backup = 0
      BY <1>5, <3>1 DEF RecoverStaged, StagingAt
    <3>2. CASE seen[w].backup # 0
      BY <1>5, <3>2, CallTypes DEF RecoverStaged, Becomes, Directories
    <3> QED BY <3>1, <3>2
  <2> QED BY <2>1, <2>2 DEF StagingAt
<1>6. CASE (Inspect(w) \/ OpenFile(w) \/ ReadFile(w)) /\ ~Returns(w)
  <2>1. step'[w] \in {"openFile", "read"} /\ UNCHANGED dir
        /\ step[w] \in {"inspect", "openFile"}
    BY <1>1, <1>6 DEF Inspect, OpenFile, ReadFile, Refuses, disk
  <2> QED BY <2>1 DEF StagingAt
<1>7. CASE Look(w) /\ ~Refuses(w)
  <2>1. UNCHANGED dir /\ (step'[w] = "install" => dir.current = 0) /\ step'[w] \in {"install", "stage"}
    BY <1>1, <1>7 DEF Look, Keeps, disk
  <2> QED BY <2>1 DEF StagingAt
<1>8. CASE Stage(w) /\ ~Refuses(w)
  <2>1. step'[w] = "install" /\ dir'.current = 0
    BY <1>1, <1>8, CallTypes DEF Stage, StagedAway, Becomes, Directories
  <2> QED BY <2>1 DEF StagingAt
<1>9. CASE Install(w)
  <2>1. step'[w] = "unstage" /\ dir'.current = file[w] /\ UNCHANGED file
    BY <1>1, <1>9, CallTypes DEF Install, Becomes, Directories
  <2> QED BY <2>1 DEF StagingAt
<1>10. ASSUME \/ Check(w) \/ Create(w) \/ Write(w) \/ Sync(w) \/ Recheck(w) \/ Undo(w)
              \/ UndoNothing(w) \/ Unstage(w) \/ SyncDirectory(w) \/ Refuses(w) \/ Returns(w)
       PROVE  StagingAt(w)'
  <2>1. step'[w] \in {"open", "closed", "create", "write", "sync", "recheck", "seeCurrent",
                      "syncDirectory"}
    BY <1>1, <1>10 DEF Check, Create, Write, WriteAll, Sync, Recheck, Undo, UndoNothing, Unstage,
       SyncDirectory, Refuses, Keeps
  <2> QED BY <1>2, <2>1
<1>11. CASE Recovery(w)
  BY <1>3, <1>4, <1>5, <1>10, <1>11 DEF Recovery
<1>12. CASE Loading(w)
  BY <1>6, <1>10, <1>12 DEF Loading
<1>13. CASE Saving(w)
  BY <1>7, <1>8, <1>9, <1>10, <1>13 DEF Saving
<1> QED BY <1>11, <1>12, <1>13 DEF Calls

\* Every step of a lone window keeps what it has seen of the directory.
LEMMA StagingStep ==
  ASSUME DiskInv, DiskInv', Lone, Staging, [SettingsNext]_settingsVars
  PROVE  Staging'
<1>1. UNCHANGED platform
  BY DEF SettingsNext, settingsVars, OpenWindow, SaveOrClose, ReportCrash, Begins, Calls, CallFails,
     Crash, PowerLoss
<1>2. CASE platform = "unix"
  <2>1. OnUnix' /\ dir' \in past' /\ platform' = "unix"
    BY <1>1, <1>2 DEF DiskInv, Disk, SettingsTypeOK
  <2>2. dir'.backup = 0 /\ \A w \in Windows : step'[w] \in UnixSteps
    BY <2>1 DEF OnUnix
  <2> QED BY <2>1, <2>2 DEF Staging, StagingAt, UnixSteps, Recovering
<1>3. CASE platform = "windows" /\ UNCHANGED settingsVars
  BY <1>3 DEF settingsVars, disk, locals, Staging, StagingAt
<1>4. CASE platform = "windows" /\ PowerLoss
  BY <1>4 DEF PowerLoss, Staging, StagingAt
<1>5. ASSUME platform = "windows", NEW w \in Windows, Acts(w) PROVE Staging'
  <2>1. StagingAt(w)
    BY DEF Staging
  <2>2. w \in Here
    BY <1>5, InvAt DEF Acts, OpenWindow, SaveOrClose, ReportCrash, Calls, CallFails, Crash, Recovery,
       See, Loading, Inspect, OpenFile, ReadFile, Saving, Check, Create, Write, Sync, Recheck, Look,
       Stage, Install, Undo, UndoNothing, Unstage, SyncDirectory
  <2>3. \A v \in Windows : step'[v] # "closed" => v = w
    <3>1. Writers'
      BY DEF DiskInv, Disk
    <3>2. \A v \in Windows : step'[v] # "closed" => v \in WindowsWindows
      BY <1>1, <1>5, <3>1 DEF Writers, Here
    <3> QED BY <1>5, <2>2, <3>2 DEF Lone, OneWindow, Here
  <2>4. StagingAt(w)'
    <3>1. CASE Calls(w)
      BY <1>5, <2>1, <3>1, StagingCalls
    <3>2. CASE OpenWindow(w) \/ SaveOrClose(w) \/ ReportCrash(w) \/ Crash(w)
      <4>1. step'[w] \in {"seeCurrent", "create", "closed"}
        BY <1>5, <3>2, GoesTo DEF OpenWindow, SaveOrClose, ReportCrash, Crash, FirstCall
      <4> QED BY <4>1 DEF StagingAt
    <3>3. CASE CallFails(w)
      <4>1. Refuses(w) \/ (step[w] = "install" /\ Keeps(w, "undo"))
        BY <3>3 DEF CallFails, InstallFails
      <4>2. \/ step'[w] \in {"open", "closed"}
            \/ step[w] = "install" /\ step'[w] = "undo" /\ UNCHANGED dir
        BY <4>1, GoesTo DEF Refuses, Keeps, disk
      <4> QED BY <1>5, <2>1, <4>2 DEF StagingAt
    <3> QED BY <1>5, <3>1, <3>2, <3>3 DEF Acts
  <2> QED BY <2>3, <2>4 DEF Staging, StagingAt
<1>6. platform \in {"unix", "windows"}
  BY DEF DiskInv, SettingsTypeOK
<1> QED BY <1>2, <1>3, <1>4, <1>5, <1>6 DEF SettingsNext, Acts

\* A load that was already known to be new enough stays so.
LEMMA LoadsKeep ==
  ASSUME DiskInv, NEW v \in Windows, LoadsAt(v),
         \A f \in Placed : f \in Placed' /\ Position(f)' = Position(f),
         known'[v] = known[v], loaded'[v] = loaded[v],
         step'[v] # "closed" => step[v] # "closed",
         step'[v] = "read" => step[v] = "read" /\ file'[v] = file[v]
  PROVE  LoadsAt(v)'
<1>1. ASSUME NEW l, NotOlder(l, v), known[v] \subseteq Placed PROVE NotOlder(l, v)'
  <2>1. l \in Placed' /\ Position(l)' = Position(l)
    BY <1>1 DEF NotOlder
  <2>2. ASSUME NEW f \in known'[v] PROVE Position(l)' >= Position(f)'
    BY <1>1, <2>1, <2>2 DEF NotOlder
  <2> QED BY <2>1, <2>2 DEF NotOlder
<1>2. step'[v] # "closed" \/ loaded'[v] # 0 => known'[v] \subseteq Placed'
  BY DEF LoadsAt
<1>3. ASSUME NEW l \in {loaded'[v]} \ {0} PROVE NotOlder(l, v)'
  BY <1>1, <1>3 DEF LoadsAt
<1>4. ASSUME step'[v] = "read", NEW l \in {file'[v]} PROVE NotOlder(l, v)'
  BY <1>1, <1>4 DEF LoadsAt
<1> QED BY <1>2, <1>3, <1>4 DEF LoadsAt

\* What the settings name shows once no backup is left is the last file.
LEMMA CurrentIsLast ==
  ASSUME DiskInv, Names, dir.backup = 0, NEW c, c = dir.current, NEW w, known[w] \subseteq Placed
  PROVE  /\ c \notin {0, Other} => NotOlder(c, w)
         /\ installed # <<>> => c # 0
<1>1. /\ \A f : Position(f) \in 0..Len(installed) /\ (Position(f) # 0 <=> f \in Placed)
      /\ Len(installed) \in Nat /\ 0 \notin Placed
  BY Positions
<1>2. Position(c) = Len(installed)
  BY <1>1, LatestNow DEF Names
<1>3. c \notin {0, Other} => c \in Placed
  BY CallTypes, DiskAt DEF Shown
<1>4. installed # <<>> => Len(installed) # 0
  BY CallTypes
<1> QED BY <1>1, <1>2, <1>3, <1>4 DEF NotOlder

\* A window that loads.
LEMMA LoadingLoads ==
  ASSUME DiskInv, Names, NEW w \in Windows, StagingAt(w), LoadsAt(w), Loading(w),
         UNCHANGED known
  PROVE  LoadsAt(w)'
<1>1. UNCHANGED <<dir, installed>> /\ step[w] \in {"inspect", "openFile", "read"}
  BY StillSteps DEF Loading, Inspect, OpenFile, ReadFile
<1>2. /\ Placed' = Placed /\ known[w] \subseteq Placed /\ dir.backup = 0
      /\ \A f : Position(f)' = Position(f)
  BY <1>1 DEF Placed, LoadsAt, StagingAt, Position
<1>3. \A l : NotOlder(l, w)' <=> NotOlder(l, w)
  BY <1>2 DEF NotOlder
<1>4. CASE UNCHANGED loaded /\ step'[w] # "read"
  BY <1>2, <1>3, <1>4 DEF LoadsAt
<1>5. CASE UNCHANGED loaded /\ step'[w] = "read"
  <2>1. OpenFile(w) /\ ~Refuses(w)
    BY <1>1, <1>5, GoesTo DEF Loading, Inspect, OpenFile, ReadFile, Refuses
  <2>2. file' = [file EXCEPT ![w] = dir.current] /\ dir.current \notin {0, Other}
    BY <2>1 DEF OpenFile
  <2>3. PICK c \in {dir.current} : c = dir.current
    OBVIOUS
  <2>4. file'[w] = c
    BY <2>2, <2>3, InvAt DEF DiskInv, SettingsTypeOK
  <2>5. NotOlder(c, w)
    BY <1>2, <2>2, <2>3, CurrentIsLast
  <2> QED BY <1>2, <1>3, <1>5, <2>4, <2>5 DEF LoadsAt
<1>6. CASE ReadFile(w)
  <2>1. step'[w] # "read"
    BY <1>6, GoesTo DEF ReadFile, Refuses
  <2>2. loaded'[w] \in {0, file[w]} /\ step[w] = "read"
    BY <1>6, CallTypes DEF ReadFile
  <2>3. \A l \in {loaded'[w]} \ {0} : NotOlder(l, w)
    BY <2>2 DEF LoadsAt
  <2> QED BY <1>2, <1>3, <2>1, <2>3 DEF LoadsAt
<1> QED BY <1>4, <1>5, <1>6 DEF Loading, Inspect, OpenFile

\* Every step of a lone window keeps what it loads as new as what was there before it.
LEMMA LoadsStep ==
  ASSUME DiskInv, DiskInv', Names, Staging, Loads, [SettingsNext]_settingsVars
  PROVE  Loads'
<1>1. CASE UNCHANGED settingsVars
  <2>1. \A v \in Windows : LoadsAt(v)'
    <3> SUFFICES ASSUME NEW v \in Windows PROVE LoadsAt(v)'
      OBVIOUS
    <3>1. UNCHANGED <<step, file, loaded, known, installed>>
      BY <1>1 DEF settingsVars, locals, promises
    <3>2. \A f : Position(f)' = Position(f)
      BY <3>1 DEF Position
    <3>3. Placed' = Placed
      BY <3>1 DEF Placed
    <3> QED BY <3>1, <3>2, <3>3, LoadsKeep DEF Loads
  <2> QED BY <2>1 DEF Loads
<1>2. CASE PowerLoss
  <2>1. \A v \in Windows : step'[v] = "closed" /\ loaded'[v] = 0
    BY <1>2 DEF PowerLoss
  <2> QED BY <2>1 DEF Loads, LoadsAt
<1>3. ASSUME NEW w \in Windows, Acts(w) PROVE Loads'
  <2>1. \A f \in Placed : f \in Placed' /\ Position(f)' = Position(f)
    <3>1. CASE UNCHANGED installed
      BY <3>1 DEF Placed, Position
    <3>2. CASE Install(w)
      BY <3>2, InstallPlaces
    <3>3. Install(w) \/ UNCHANGED installed
      <4>1. CASE OpenWindow(w) \/ SaveOrClose(w) \/ ReportCrash(w) \/ CallFails(w) \/ Crash(w)
        BY <4>1, StillSteps
      <4>2. CASE Recovery(w) \/ Loading(w)
        BY <4>2, StillSteps DEF Recovery, promises
      <4>3. CASE Saving(w)
        BY <4>3, StillSteps DEF Saving, Create, Write, Sync, Stage, Undo, Unstage, SyncDirectory,
           promises, Refuses
      <4> QED BY <1>3, <4>1, <4>2, <4>3 DEF Acts, Calls
    <3> QED BY <3>1, <3>2, <3>3
  <2>2. ASSUME NEW v \in Windows \ {w} PROVE LoadsAt(v)'
    <3>1. /\ step'[v] = step[v] /\ file'[v] = file[v] /\ known'[v] = known[v]
          /\ loaded'[v] = loaded[v]
      <4>1. step \in [Windows -> Steps] /\ file \in [Windows -> 0..MaxFiles]
            /\ loaded \in [Windows -> 0..MaxFiles] /\ known \in [Windows -> SUBSET Files]
        BY DEF DiskInv, SettingsTypeOK
      <4>2. step'[v] = step[v]
        <5>1. (\E s : Goes(w, s)) \/ Returns(w)
          BY <1>3 DEF Acts, OpenWindow, SaveOrClose, ReportCrash, CallFails, InstallFails, Crash,
             Calls, Recovery, See, RecoverStaged, Loading, Inspect, OpenFile, ReadFile, Saving, Check,
             Create, Write, WriteAll, Sync, Recheck, Look, Stage, Install, Undo, UndoNothing, Unstage,
             SyncDirectory, Refuses, Keeps
        <5> QED BY <5>1, GoesTo
      <4>3. file'[v] = file[v]
        <5>1. UNCHANGED file \/ \E f : file' = [file EXCEPT ![w] = f]
          BY <1>3 DEF Acts, OpenWindow, SaveOrClose, ReportCrash, Begins, CallFails, InstallFails, Crash,
             Calls, Recovery, See, RecoverStaged, Loading, Inspect, OpenFile, ReadFile, Saving, Check,
             Create, Write, WriteAll, Sync, Recheck, Look, Stage, Install, Undo, UndoNothing, Unstage,
             SyncDirectory, Refuses, Keeps, Returns
        <5> QED BY <4>1, <5>1
      <4>4. known'[v] = known[v]
        BY <1>3, <4>1 DEF Acts, OpenWindow, SaveOrClose, ReportCrash, CallFails, Crash, Calls
      <4>5. loaded'[v] = loaded[v]
        BY <1>3, <4>1 DEF Acts, OpenWindow, SaveOrClose, ReportCrash, CallFails, Crash, Calls, Loading,
           Inspect, OpenFile, ReadFile, Saving
      <4> QED BY <4>2, <4>3, <4>4, <4>5
    <3> QED BY <2>1, <3>1, LoadsKeep DEF Loads
  <2>3. LoadsAt(w)'
    <3>0. LoadsAt(w) /\ StagingAt(w)
      BY DEF Loads, Staging
    <3>1. CASE OpenWindow(w)
      <4>1. known'[w] = Placed /\ loaded'[w] = 0 /\ UNCHANGED installed /\ step'[w] # "read"
        BY <3>1, GoesTo DEF OpenWindow, Begins, promises, Placed, DiskInv, SettingsTypeOK, FirstCall
      <4>2. Placed' = Placed
        BY <4>1 DEF Placed
      <4> QED BY <4>1, <4>2 DEF LoadsAt
    <3>2. CASE Loading(w) /\ Calls(w)
      BY <3>0, <3>2, LoadingLoads DEF Calls
    <3>3. CASE \/ SaveOrClose(w) \/ ReportCrash(w) \/ CallFails(w) \/ Crash(w)
               \/ (Recovery(w) /\ Calls(w)) \/ (Saving(w) /\ Calls(w))
      <4>1. UNCHANGED <<loaded, known>> /\ (step'[w] # "closed" => step[w] # "closed")
        BY <3>3, GoesTo DEF SaveOrClose, ReportCrash, CallFails, Crash, Recovery, See, Saving, Calls,
           Check, Create, Write, Sync, Recheck, Look, Stage, Install, Undo, UndoNothing, Unstage,
           SyncDirectory, Loading, Inspect, OpenFile, ReadFile
      <4>2. step'[w] # "read"
        <5>1. (\E s : Goes(w, s) /\ s # "read") \/ Returns(w)
          <6>1. CASE SaveOrClose(w) \/ ReportCrash(w) \/ CallFails(w) \/ Crash(w)
            BY <6>1 DEF SaveOrClose, ReportCrash, CallFails, InstallFails, Crash, FirstCall, Refuses,
               Keeps
          <6>2. CASE Recovery(w)
            BY <6>2 DEF Recovery, See, RecoverStaged, AfterRecovery, Refuses, Keeps
          <6>3. CASE Saving(w)
            BY <6>3 DEF Saving, Check, Create, Write, WriteAll, Sync, Recheck, Look, Stage, Install,
               Undo, UndoNothing, Unstage, SyncDirectory, Refuses, Keeps
          <6> QED BY <3>3, <6>1, <6>2, <6>3
        <5> QED BY <5>1, GoesTo
      <4> QED BY <2>1, <3>0, <4>1, <4>2, LoadsKeep
    <3> QED BY <1>3, <3>1, <3>2, <3>3 DEF Acts, Calls
  <2> QED BY <2>2, <2>3 DEF Loads
<1> QED BY <1>1, <1>2, <1>3 DEF SettingsNext, Acts

\* At the start the names are in order, and nothing was seen or loaded.
LEMMA LoneInit == SettingsInit => Names /\ Staging /\ Loads
<1> SUFFICES ASSUME SettingsInit PROVE Staging /\ Loads
  BY NamesInit
<1>1. \A w \in Windows : step[w] = "closed" /\ loaded[w] = 0
  BY DEF SettingsInit, SettingsAt
<1> QED BY <1>1 DEF Staging, StagingAt, Loads, LoadsAt

\* Where a window on Windows is alone, every step keeps all of this.
LEMMA LoneStep ==
  DiskInv /\ (Lone => LoneInv) /\ [SettingsNext]_settingsVars => (Lone => LoneInv)'
<1> SUFFICES ASSUME DiskInv, Lone => LoneInv, [SettingsNext]_settingsVars, Lone'
             PROVE  LoneInv'
  OBVIOUS
<1>1. DiskInv'
  BY DiskStep
<1>2. UNCHANGED platform
  BY DEF SettingsNext, settingsVars, OpenWindow, SaveOrClose, ReportCrash, Begins, Calls, CallFails,
     Crash, PowerLoss
<1>3. Lone /\ Names /\ Staging /\ Loads
  BY <1>2 DEF Lone, LoneInv
<1> QED BY <1>1, <1>3, NamesStep, StagingStep, LoadsStep DEF LoneInv

\* By this the latest version can be recovered, is found and is loaded.
LEMMA LoneKept == DiskInv /\ LoneInv => Recoverable /\ FoundAgain /\ LoadsLatest
<1> SUFFICES ASSUME DiskInv, Names, Staging, Loads
             PROVE  Recoverable /\ FoundAgain /\ LoadsLatest
  BY DEF LoneInv
<1>1. /\ \A f : Position(f) \in 0..Len(installed) /\ (Position(f) # 0 <=> f \in Placed)
      /\ 0 \notin Placed /\ (installed # <<>> => Len(installed) # 0)
  BY Positions, CallTypes
<1>2. Recoverable
  <2>1. installed # <<>> => HasSettings(dir)
    BY <1>1, LatestNow DEF Names, HasSettings
  <2>2. data[1] = "synced" => \A d \in past : HasSettings(d)
    BY DEF Names, FirstKept
  <2>3. platform = "unix" /\ acked # {} => \A d \in past : HasSettings(d)
    BY DiskAt DEF SavedSurvives, HasSettings, Files
  <2> QED BY <2>1, <2>2, <2>3 DEF Recoverable
<1>3. FoundAgain
  <2> SUFFICES ASSUME NEW w \in Windows, step[w] = "inspect", installed # <<>>
               PROVE  dir.current # 0
    BY DEF FoundAgain
  <2>1. dir.backup = 0
    BY DEF Staging, StagingAt
  <2> QED BY <1>1, <2>1, LatestNow DEF Names
<1>4. LoadsLatest
  BY DEF LoadsLatest, Loads, LoadsAt, NotOlder
<1> QED BY <1>2, <1>3, <1>4

\* With one window on Windows, and any number on Unix: settings that were
\* ever installed are found again after every death and power loss, whole,
\* and never older than those in place when the window opened.
THEOREM SettingsAreKept == SettingsSpec => [](Lone => SettingsKept)
<1>1. SettingsInit => (Lone => LoneInv)
  BY LoneInit DEF LoneInv
<1>2. DiskInv /\ (Lone => LoneInv) => (Lone => SettingsKept)
  BY LoneKept, NothingTorn DEF DiskInv, Disk, SettingsKept
<1> QED BY <1>1, <1>2, LoneStep, DiskAlways, PTL DEF SettingsSpec

----
\* The memory preflight.

\* What lets RandomX run on a reading, or without one.
Safe(reading) ==
    IF reading = NoReading THEN engine.confirmed ELSE Fits(reading, engine.workers, engine.light)

\* An engine was started on a reading that fits or on a confirmation, the
\* confirmation it was handed was for as many workers, and its answer is that
\* of its own scan.
MemoryInv ==
    /\ MemoryTypeOK
    /\ confirmed => shownFor = workers
    /\ engine.state # "none" =>
          Safe(engine.basis) /\ (engine.confirmed => shownFor >= engine.workers)
    /\ engine.state = "refused" => ~Safe(engine.reading)
    /\ engine.state = "approved" => Safe(engine.reading)

\* A finite set of numbers has a greatest element.
LEMMA FitsGreatest ==
  ASSUME NEW S \in SUBSET Nat, IsFiniteSet(S), S # {}
  PROVE  \E m \in S : \A k \in S : k <= m
<1> DEFINE Above(x) == {k \in S : k > x}
           U == {Above(x) : x \in S}
           R == StrictSubsetOrdering(S)
<1>1. IsWellFoundedOn(R, FiniteSubsetsOf(S)) /\ FiniteSubsetsOf(S) = SUBSET S
  BY FS_StrictSubsetOrderingWellFounded, FS_FiniteSubsetsOfFinite
<1>2. U \subseteq FiniteSubsetsOf(S) /\ U # {}
  <2>1. \A x \in S : Above(x) \in SUBSET S
    OBVIOUS
  <2>2. PICK x \in S : TRUE
    OBVIOUS
  <2>3. Above(x) \in U /\ U \subseteq SUBSET S
    BY <2>1
  <2> HIDE DEF U
  <2> QED BY <1>1, <2>3
<1>3. \E A \in U : \A B \in U : ~ (<<B, A>> \in R)
  <2> HIDE DEF R, U
  <2> QED BY <1>1, <1>2, WFMin
<1>4. PICK m \in S : \A B \in U : <<B, Above(m)>> \notin R
  BY <1>3
<1>5. ASSUME NEW k \in S, k > m PROVE FALSE
  <2> DEFINE Ak == Above(k)
             Am == Above(m)
  <2>1. \A x \in S : x \in Nat
    OBVIOUS
  <2>2. k \in Am /\ k \notin Ak
    BY <1>5, <2>1
  <2>3. \A j \in S : j \in Ak => j \in Am
    BY <1>5, <2>1
  <2>4. Ak \subseteq Am /\ Ak # Am /\ Ak \in SUBSET S /\ Am \in SUBSET S
    BY <2>2, <2>3
  <2>5. <<Ak, Am>> \in R
    <3> HIDE DEF Ak, Am
    <3> QED BY <2>4 DEF StrictSubsetOrdering
  <2> QED BY <1>4, <2>5
<1> QED BY <1>5

\* What the assumptions say of the units of memory.
LEMMA Units ==
  /\ HeadroomUnits \in Nat /\ DatasetUnits \in Nat \ {0} /\ LightUnits \in Nat /\ WorkerUnits \in Nat
  /\ MaxWorkers \in Nat \ {0} /\ Total \in Nat /\ Readings \subseteq 0..Total
  /\ NoReading \in Nat /\ NoReading = Total + 1
  /\ \A n \in Nat, light \in BOOLEAN : EngineUnits(n, light) \in Nat
<1>1. /\ DatasetUnits \in Nat \ {0} /\ LightUnits \in Nat /\ WorkerUnits \in Nat
      /\ MinHeadroom \in Nat /\ MaxHeadroom \in Nat
      /\ MaxWorkers \in Nat \ {0} /\ Total \in Nat /\ Readings \subseteq 0..Total
  BY MemoryAssumption
<1>2. Total \div 10 \in Nat
  BY <1>1
<1>3. HeadroomUnits \in Nat
  <2> DEFINE tenth == Total \div 10
  <2>1. tenth \in Nat
    BY <1>2
  <2> HIDE DEF tenth
  <2>2. Clamped(tenth, MinHeadroom, MaxHeadroom) \in Nat
    BY <1>1, <2>1 DEF Clamped
  <2> QED BY <2>2 DEF HeadroomUnits, tenth
<1>4. \A n \in Nat, light \in BOOLEAN : EngineUnits(n, light) \in Nat
  <2> SUFFICES ASSUME NEW n \in Nat, NEW light \in BOOLEAN PROVE EngineUnits(n, light) \in Nat
    OBVIOUS
  <2>1. WorkerUnits * n \in Nat
    BY <1>1
  <2> QED BY <1>1, <2>1 DEF EngineUnits
<1> QED BY <1>1, <1>3, <1>4 DEF NoReading

\* Fewer workers need no more memory.
LEMMA FewerFit ==
  ASSUME NEW m \in Nat, NEW n \in Nat, m <= n, NEW light \in BOOLEAN
  PROVE  EngineUnits(m, light) <= EngineUnits(n, light)
<1>1. PICK k \in Nat : n = m + k
  <2>1. n - m \in Nat /\ n = m + (n - m)
    OBVIOUS
  <2> QED BY <2>1
<1>2. WorkerUnits * n = WorkerUnits * m + WorkerUnits * k
  BY <1>1, Units
<1>3. WorkerUnits * k \in Nat /\ WorkerUnits * m \in Nat
  BY Units
<1> DEFINE a == WorkerUnits * m
           b == WorkerUnits * k
           c == WorkerUnits * n
<1>4. c = a + b /\ a \in Nat /\ b \in Nat
  BY <1>2, <1>3
<1> HIDE DEF a, b, c
<1>5. EngineUnits(m, light) = (IF light THEN LightUnits ELSE DatasetUnits) + a
      /\ EngineUnits(n, light) = (IF light THEN LightUnits ELSE DatasetUnits) + c
  BY DEF EngineUnits, a, c
<1> QED BY <1>4, <1>5, Units

\* The limit that the window recommends is the largest count that fits.
LEMMA LimitIsExact ==
  ASSUME NEW reading \in 0..Total, NEW n \in 1..MaxWorkers
  PROVE  n <= RecommendedLimit(reading) <=> Fits(reading, n, FALSE)
<1> DEFINE needs(m) == EngineUnits(m, FALSE)
           fits(m) == Fits(reading, m, FALSE)
           fitting == {m \in 1..MaxWorkers : needs(m) <= Usable(reading)}
           top == CHOOSE m \in fitting : \A k \in fitting : k <= m
           limit == RecommendedLimit(reading)
<1>1. limit = IF fitting = {} THEN 0 ELSE top
  BY DEF RecommendedLimit
<1>2. \A m \in 1..MaxWorkers : needs(m) \in Nat /\ needs(m) # 0
  <2> SUFFICES ASSUME NEW m \in 1..MaxWorkers PROVE needs(m) \in Nat /\ needs(m) # 0
    OBVIOUS
  <2>1. WorkerUnits * m \in Nat
    BY Units
  <2> QED BY <2>1, Units DEF EngineUnits
<1>3. \A m \in 1..MaxWorkers : fits(m) <=> reading >= needs(m) + HeadroomUnits
  BY DEF Fits
<1>4. \A k, m \in 1..MaxWorkers : k <= m => needs(k) <= needs(m)
  <2> SUFFICES ASSUME NEW k \in 1..MaxWorkers, NEW m \in 1..MaxWorkers, k <= m
               PROVE  needs(k) <= needs(m)
    OBVIOUS
  <2>1. k \in Nat /\ m \in Nat /\ FALSE \in BOOLEAN
    OBVIOUS
  <2> QED BY <2>1, FewerFit
<1> SUFFICES n <= limit <=> fits(n)
  OBVIOUS
<1> HIDE DEF needs, fits, limit
<1>5. \A m \in 1..MaxWorkers : m \in fitting <=> fits(m)
  <2> SUFFICES ASSUME NEW m \in 1..MaxWorkers
               PROVE  needs(m) <= Usable(reading) <=> fits(m)
    OBVIOUS
  <2> QED BY <1>2, <1>3, Units DEF Usable
<1>6. Usable(reading) \in Nat
  BY Units DEF Usable
<1>7. CASE fitting = {}
  <2> HIDE DEF fitting, top
  <2> QED BY <1>1, <1>5, <1>7
<1>8. CASE fitting # {}
  <2>1. fitting \in SUBSET Nat /\ IsFiniteSet(fitting)
    <3>1. fitting \subseteq 1..MaxWorkers /\ 1..MaxWorkers \subseteq Nat
      OBVIOUS
    <3>2. IsFiniteSet(1..MaxWorkers)
      <4>1. 1 \in Int /\ MaxWorkers \in Int
        BY Units
      <4> QED BY <4>1, FS_Interval
    <3> HIDE DEF fitting
    <3> QED BY <3>1, <3>2, FS_Subset
  <2>2. top \in fitting /\ \A k \in fitting : k <= top
    <3> HIDE DEF fitting
    <3>1. \E m \in fitting : \A k \in fitting : k <= m
      BY <1>8, <2>1, FitsGreatest
    <3> QED BY <3>1
  <2> HIDE DEF top
  <2>3. top \in 1..MaxWorkers /\ needs(top) <= Usable(reading)
    BY <2>2
  <2>4. n <= top => n \in fitting
    BY <1>2, <1>4, <1>6, <2>3
  <2> HIDE DEF fitting
  <2>5. n <= top <=> fits(n)
    BY <1>5, <2>2, <2>4
  <2> QED BY <1>1, <1>8, <2>5
<1> QED BY <1>7, <1>8

\* The types of the scanning threads, through their scans.
ScansOK ==
    /\ scan \in [Threads -> {"idle", "polling", "joining", "answered"}]
    /\ child \in [Threads -> {"none", "running", "ended", "stuck"}]
    /\ answer \in [Threads -> Scan]

\* A reading, or none, is a number.
LEMMA AnyReading ==
  ASSUME NEW r \in Readings \cup {NoReading}
  PROVE  r \in Scan
BY Units DEF Scan

\* What a scan of the memory does to the scans keeps their type.
LEMMA ScansTyped ==
  ASSUME ScansOK, NEW t \in Threads,
         \/ UNCHANGED scans \/ BeginScan(t) \/ Forgotten(t)
         \/ ScanEnds(t) \/ ScanStep(t)
  PROVE  ScansOK'
<1>1. NoReading \in Scan
  BY Units DEF Scan
<1>2. CASE UNCHANGED scans
  BY <1>2 DEF ScansOK, scans
<1>3. CASE BeginScan(t)
  BY <1>1, <1>3, AnyReading DEF ScansOK, BeginScan
<1>4. CASE Forgotten(t)
  BY <1>4 DEF ScansOK, Forgotten
<1>5. CASE ScanEnds(t)
  BY <1>5, AnyReading DEF ScansOK, ScanEnds
<1>6. CASE ScanStep(t)
  BY <1>1, <1>6 DEF ScansOK, ScanStep, Reap, Overdue, DetachReaders, Join
<1> QED BY <1>2, <1>3, <1>4, <1>5, <1>6

\* What the type invariant says, one fact at a time.
LEMMA MemoryTypes ==
  ASSUME MemoryTypeOK
  PROVE  /\ ScansOK /\ workers \in 1..MaxWorkers /\ shownFor \in 0..MaxWorkers
         /\ workers \in Nat /\ shownFor \in Nat /\ MaxWorkers \in Nat /\ MaxWorkers >= 1
         /\ snapshot \in Scan /\ confirmed \in BOOLEAN /\ NoReading \in Scan
         /\ engine.workers \in 0..MaxWorkers /\ engine.light \in BOOLEAN
         /\ engine.confirmed \in BOOLEAN /\ engine.basis \in Scan /\ engine.reading \in Scan
         /\ engine.state \in {"none", "started", "checking", "approved", "refused"}
         /\ \A t \in Threads : answer[t] \in Scan
<1>1. NoReading \in Scan /\ MaxWorkers \in Nat /\ MaxWorkers >= 1
  BY Units DEF Scan
<1>2. workers \in Nat /\ shownFor \in Nat
  BY <1>1 DEF MemoryTypeOK
<1> QED BY <1>1, <1>2 DEF MemoryTypeOK, ScansOK

\* Nothing was measured or approved at the start.
LEMMA MemoryStart == MemoryInit => MemoryInv
<1> SUFFICES ASSUME NEW os \in {"macos", "other"}, MemoryAt(os) PROVE MemoryInv
  BY DEF MemoryInit
<1>1. /\ NoReading \in Scan /\ 1 \in 1..MaxWorkers /\ 0 \in 0..MaxWorkers /\ snapshot \in Scan
  BY Units, AnyReading DEF MemoryAt, Scan
<1>2. /\ scan \in [Threads -> {"idle", "polling", "joining", "answered"}]
      /\ child \in [Threads -> {"none", "running", "ended", "stuck"}]
      /\ answer \in [Threads -> Scan]
  BY <1>1 DEF MemoryAt
<1>3. engine.state = "none" /\ ~confirmed
      /\ engine \in [state : {"none", "started", "checking", "approved", "refused"},
                     workers : 0..MaxWorkers, light : BOOLEAN, confirmed : BOOLEAN,
                     basis : Scan, reading : Scan]
  BY <1>1 DEF MemoryAt, NoEngine
<1>4. MemoryTypeOK
  BY <1>1, <1>2, <1>3 DEF MemoryAt, MemoryTypeOK
<1> QED BY <1>3, <1>4 DEF MemoryInv

\* The steps that leave the engine, the worker count and the confirmation.
LEMMA MemoryIdles ==
  ASSUME MemoryInv, UNCHANGED <<system, workers, confirmed, shownFor, engine>>,
         recovery' \in {"none", recovery}, snapshot' \in Scan, due' \in BOOLEAN,
         receiver' \in BOOLEAN, gui' \in {"frame", "waiting", "scanning", "deciding"},
         ScansOK'
  PROVE  MemoryInv'
<1>1. MemoryTypeOK'
  BY DEF MemoryInv, MemoryTypeOK, ScansOK
<1>2. \A r : Safe(r)' <=> Safe(r)
  BY DEF Safe
<1>3. /\ confirmed' => shownFor' = workers'
      /\ engine'.state # "none" =>
            Safe(engine.basis)' /\ (engine'.confirmed => shownFor' >= engine'.workers)
      /\ engine'.state = "refused" => ~Safe(engine.reading)'
      /\ engine'.state = "approved" => Safe(engine.reading)'
  BY DEF MemoryInv, Safe
<1> QED BY <1>1, <1>3 DEF MemoryInv

\* Every step of the gate, a scan or an engine keeps the invariant.
LEMMA MemoryStep == MemoryInv /\ [MemoryNext]_memoryVars => MemoryInv'
<1> SUFFICES ASSUME MemoryInv, [MemoryNext]_memoryVars PROVE MemoryInv'
  OBVIOUS
<1>t. MemoryTypeOK /\ ScansOK
  BY MemoryTypes DEF MemoryInv
<1>0. /\ "gui" \in Threads /\ "probe" \in Threads /\ "engine" \in Threads
      /\ snapshot \in Scan /\ recovery \in {"none", "single", "light"} /\ due \in BOOLEAN
      /\ receiver \in BOOLEAN /\ gui \in {"frame", "waiting", "scanning", "deciding"}
  BY <1>t DEF Threads, MemoryTypeOK
<1>1. CASE UNCHANGED memoryVars
  <2>1. ScansOK'
    BY <1>0, <1>1, <1>t, ScansTyped DEF memoryVars
  <2> QED BY <1>0, <1>1, <2>1, MemoryIdles DEF memoryVars, window
<1>2. ASSUME NEW t \in Threads, ScanEnds(t) \/ ScanStep(t) PROVE MemoryInv'
  <2>1. ScansOK'
    BY <1>2, <1>t, ScansTyped
  <2>2. UNCHANGED <<system, window, engine>>
    BY <1>2 DEF ScanEnds, ScanStep, Reap, Overdue, Join
  <2> QED BY <1>0, <2>1, <2>2, MemoryIdles DEF window
<1>3. CASE ProbeDiscarded \/ TakeProbe \/ ProbeAwaited \/ Scanned
  <2>1. ScansOK'
    BY <1>0, <1>3, <1>t, ScansTyped DEF ProbeDiscarded, TakeProbe, ProbeAwaited, Scanned
  <2>2. /\ UNCHANGED <<system, workers, confirmed, shownFor, engine>> /\ UNCHANGED <<recovery, due>>
        /\ snapshot' \in {snapshot, answer["probe"], answer["gui"], NoReading}
        /\ receiver' \in BOOLEAN /\ gui' \in {"frame", "waiting", "scanning", "deciding"}
    BY <1>0, <1>3 DEF ProbeDiscarded, TakeProbe, ProbeAwaited, Scanned, window
  <2>3. snapshot' \in Scan
    BY <1>0, <1>t, <2>2, MemoryTypes
  <2> QED BY <1>0, <2>1, <2>2, <2>3, MemoryIdles
<1>4. CASE IntervalElapses \/ StartProbe \/ RefreshNow
  <2>1. ScansOK'
    BY <1>0, <1>4, <1>t, ScansTyped DEF IntervalElapses, StartProbe, RefreshNow
  <2>2. snapshot' \in Scan
    BY <1>0, <1>4, <1>t, AnyReading, MemoryTypes DEF IntervalElapses, StartProbe, RefreshNow
  <2>3. /\ UNCHANGED <<system, workers, confirmed, shownFor, engine, recovery, gui>>
        /\ due' \in BOOLEAN /\ receiver' \in BOOLEAN
    BY <1>0, <1>4 DEF IntervalElapses, StartProbe, RefreshNow
  <2> QED BY <1>0, <2>1, <2>2, <2>3, MemoryIdles
<1>5. CASE Start
  <2>1. UNCHANGED scans \/ BeginScan("gui")
    BY <1>5 DEF Start, BeginStart
  <2>2. ScansOK'
    BY <1>0, <1>t, <2>1, ScansTyped
  <2>3. /\ UNCHANGED <<system, workers, confirmed, shownFor, engine, snapshot, due, receiver>>
        /\ recovery' \in {"none", recovery} /\ gui' \in {"waiting", "scanning"}
    BY <1>5 DEF Start, BeginStart
  <2> QED BY <1>0, <2>2, <2>3, MemoryIdles
<1>6. CASE ChangeWorkers \/ Confirm
  <2>1. /\ engine.state = "none" /\ UNCHANGED <<system, recovery, snapshot, due, gui, receiver, scans, engine>>
        /\ workers' \in 1..MaxWorkers /\ confirmed' \in BOOLEAN /\ shownFor' \in {0, workers'}
        /\ confirmed' => shownFor' = workers'
    BY <1>6, <1>t, MemoryTypes DEF ChangeWorkers, Withdrawn, Counts, Confirm
  <2>2. shownFor' \in 0..MaxWorkers
    BY <2>1, <1>t, MemoryTypes
  <2>3. MemoryTypeOK'
    BY <1>t, <2>1, <2>2 DEF MemoryTypeOK, scans
  <2> QED BY <2>1, <2>3 DEF MemoryInv
<1>7. CASE Decide
  <2>1. /\ UNCHANGED <<system, workers, recovery, snapshot, confirmed, shownFor, due, receiver, scans>>
        /\ gui' = "frame"
        /\ engine' = IF PreflightError THEN NoEngine
                     ELSE [state |-> "started", workers |-> EffectiveWorkers, light |-> Light,
                           confirmed |-> ForwardedConfirmation,
                           basis |-> snapshot, reading |-> NoReading]
    BY <1>7 DEF Decide
  <2>2. EffectiveWorkers \in 1..workers /\ EffectiveWorkers \in 0..MaxWorkers /\ Light \in BOOLEAN
        /\ ForwardedConfirmation \in BOOLEAN
    BY <1>t, MemoryTypes DEF EffectiveWorkers, Light, ForwardedConfirmation
  <2>3. engine' \in [state : {"none", "started", "checking", "approved", "refused"},
                     workers : 0..MaxWorkers, light : BOOLEAN, confirmed : BOOLEAN,
                     basis : Scan, reading : Scan]
    <3>1. CASE PreflightError
      BY <1>t, <2>1, <3>1, MemoryTypes DEF NoEngine
    <3>2. CASE ~PreflightError
      BY <1>t, <2>1, <2>2, <3>2, MemoryTypes
    <3> QED BY <3>1, <3>2
  <2>4. MemoryTypeOK'
    BY <1>t, <2>1, <2>3 DEF MemoryTypeOK, scans
  <2>5. confirmed' => shownFor' = workers'
    BY <2>1 DEF MemoryInv
  <2>6. CASE PreflightError
    BY <2>1, <2>4, <2>5, <2>6 DEF MemoryInv, NoEngine
  <2>7. CASE ~PreflightError
    <3>1. /\ engine'.state = "started" /\ engine'.workers = EffectiveWorkers /\ engine'.light = Light
          /\ engine'.confirmed = ForwardedConfirmation /\ engine'.basis = snapshot
      BY <2>1, <2>7
    <3>2. engine'.confirmed => shownFor' >= engine'.workers
      <4>1. ForwardedConfirmation => shownFor = workers
        BY DEF ForwardedConfirmation, MemoryInv
      <4> QED BY <1>t, <2>1, <2>2, <3>1, <4>1, MemoryTypes
    <3>3. IF snapshot = NoReading THEN ForwardedConfirmation
          ELSE Fits(snapshot, EffectiveWorkers, Light)
      BY <2>7 DEF PreflightError, ForwardedConfirmation
    <3>4. Safe(engine.basis)'
      BY <3>1, <3>3 DEF Safe
    <3> QED BY <2>4, <2>5, <3>1, <3>2, <3>4 DEF MemoryInv
  <2> QED BY <2>6, <2>7
<1>8. CASE EnsureSafe \/ ResolveMemory
  <2>1. /\ UNCHANGED <<system, window>> /\ engine.state # "none"
        /\ \E s \in {"checking", "approved", "refused"}, r \in {engine.reading, answer["engine"]} :
              /\ engine' = [engine EXCEPT !.state = s, !.reading = r]
              /\ s = "refused" => ~Safe(r)
              /\ s = "approved" => Safe(r)
    <3>1. CASE EnsureSafe
      <4>1. [engine EXCEPT !.state = "checking"]
              = [engine EXCEPT !.state = "checking", !.reading = engine.reading]
        BY <1>t DEF MemoryTypeOK
      <4> QED BY <3>1, <4>1 DEF EnsureSafe
    <3>2. CASE ResolveMemory
      <4> DEFINE r == answer["engine"]
      <4>1. /\ engine.state = "checking" /\ UNCHANGED <<system, window>>
            /\ engine' = [engine EXCEPT !.state = IF Safe(r) THEN "approved" ELSE "refused",
                                        !.reading = r]
        BY <3>2 DEF ResolveMemory, Safe
      <4> QED BY <4>1
    <3> QED BY <1>8, <3>1, <3>2
  <2>2. PICK s \in {"checking", "approved", "refused"}, r \in {engine.reading, answer["engine"]} :
              /\ engine' = [engine EXCEPT !.state = s, !.reading = r]
              /\ s = "refused" => ~Safe(r)
              /\ s = "approved" => Safe(r)
    BY <2>1
  <2>3. r \in Scan
    BY <1>0, <1>t, MemoryTypes
  <2>4. /\ engine'.state = s /\ engine'.reading = r /\ engine'.workers = engine.workers
        /\ engine'.light = engine.light /\ engine'.confirmed = engine.confirmed
        /\ engine'.basis = engine.basis
        /\ engine' \in [state : {"none", "started", "checking", "approved", "refused"},
                        workers : 0..MaxWorkers, light : BOOLEAN, confirmed : BOOLEAN,
                        basis : Scan, reading : Scan]
    BY <1>t, <2>2, <2>3 DEF MemoryTypeOK
  <2>5. ScansOK'
    BY <1>0, <1>8, <1>t, ScansTyped DEF EnsureSafe, ResolveMemory
  <2>6. MemoryTypeOK'
    BY <1>t, <2>1, <2>4, <2>5 DEF MemoryTypeOK, ScansOK, window
  <2>7. \A q : Safe(q)' <=> Safe(q)
    BY <2>4 DEF Safe
  <2>8. Safe(engine.basis)' /\ (s = "refused" => ~Safe(engine.reading)')
        /\ (s = "approved" => Safe(engine.reading)')
    BY <2>1, <2>2, <2>4 DEF Safe, MemoryInv
  <2> QED BY <2>1, <2>4, <2>6, <2>8 DEF MemoryInv, window
<1>9. CASE EngineEnds
  <2>1. /\ UNCHANGED <<system, workers, snapshot, confirmed, shownFor, due, gui, receiver, answer>>
        /\ engine' = NoEngine /\ recovery' \in {"none", "single", "light"}
    BY <1>0, <1>9 DEF EngineEnds
  <2>2. ScansOK'
    BY <1>9, <1>t DEF EngineEnds, ScansOK
  <2>3. engine' \in [state : {"none", "started", "checking", "approved", "refused"},
                     workers : 0..MaxWorkers, light : BOOLEAN, confirmed : BOOLEAN,
                     basis : Scan, reading : Scan]
    BY <1>t, <2>1, MemoryTypes DEF NoEngine
  <2>4. MemoryTypeOK'
    BY <1>t, <2>1, <2>2, <2>3 DEF MemoryTypeOK, ScansOK
  <2> QED BY <2>1, <2>4 DEF MemoryInv, NoEngine
<1> QED BY <1>1, <1>2, <1>3, <1>4, <1>5, <1>6, <1>7, <1>8, <1>9 DEF MemoryNext

\* An engine is refused by its own scan only when that read something else
\* than the window's, what runs without a reading was confirmed for as many
\* workers, and the limit shown is the one enforced (memory_preflight_error,
\* headless_command, resolve_headless_memory).
THEOREM PreflightIsSound == MemorySpec => []PreflightSound
<1>1. ASSUME MemoryInv PROVE PreflightSound
  <2>1. GateAgrees
    BY <1>1 DEF MemoryInv, GateAgrees, Safe
  <2>2. ConfirmedForCount
    BY <1>1 DEF MemoryInv, ConfirmedForCount, Safe
  <2>3. LimitAgrees
    <3> SUFFICES ASSUME snapshot # NoReading, recovery = "none"
                 PROVE  workers <= RecommendedLimit(snapshot) <=> ~PreflightError
      BY DEF LimitAgrees
    <3>1. snapshot \in 0..Total /\ workers \in 1..MaxWorkers
      BY <1>1, MemoryTypes, Units DEF MemoryInv, Scan
    <3>2. PreflightError <=> ~Fits(snapshot, workers, FALSE)
      BY DEF PreflightError, EffectiveWorkers, Light
    <3> QED BY <3>1, <3>2, LimitIsExact
  <2> QED BY <1>1, <2>1, <2>2, <2>3 DEF MemoryInv, PreflightSound
<1> QED BY <1>1, MemoryStart, MemoryStep, PTL DEF MemorySpec

----
\* The diagnostic logs.

\* The logs written after the log x.
Later(s, x) == {y \in Range(s) : \E i, k \in DOMAIN s : i < k /\ s[i] = x /\ s[k] = y}

\* A listing of logs has as many logs as places.
LEMMA RangeSize ==
    ASSUME NEW S, NEW s \in Seq(S)
    PROVE  /\ IsFiniteSet(Range(s)) /\ Cardinality(Range(s)) <= Len(s)
           /\ IsInjective(s) => Cardinality(Range(s)) = Len(s)
<1>1. Len(s) \in Nat /\ DOMAIN s = 1..Len(s)
  OBVIOUS
<1>2. IsFiniteSet(1..Len(s)) /\ Cardinality(1..Len(s)) = Len(s)
  BY <1>1, FS_Interval
<1>3. s \in Surjection(1..Len(s), Range(s))
  <2>1. s \in [1..Len(s) -> Range(s)]
    BY <1>1 DEF Range
  <2>2. \A y \in Range(s) : \E i \in 1..Len(s) : s[i] = y
    BY <1>1 DEF Range
  <2> QED BY <2>1, <2>2 DEF Surjection
<1>4. IsInjective(s) => s \in Injection(1..Len(s), Range(s))
  <2>1. s \in [1..Len(s) -> Range(s)]
    BY <1>1 DEF Range
  <2> QED BY <2>1 DEF Injection
<1> QED BY <1>2, <1>3, <1>4, FS_Surjection

\* The members of a sequence over a set are in the set.
LEMMA RangeIn ==
    ASSUME NEW S, NEW s \in Seq(S)
    PROVE  Range(s) \subseteq S
<1>1. DOMAIN s = 1..Len(s) /\ \A i \in 1..Len(s) : s[i] \in S
  OBVIOUS
<1> QED BY <1>1 DEF Range

\* What a removal leaves: the other logs, in their order.
LEMMA WithoutIs ==
    ASSUME NEW S, logs \in Seq(S), IsInjective(logs), NEW l \in Range(logs)
    PROVE  \E i \in 1..Len(logs) :
             /\ logs[i] = l
             /\ Without(l) \in Seq(S) /\ Len(Without(l)) = Len(logs) - 1
             /\ \A j \in 1..(Len(logs) - 1) :
                   Without(l)[j] = IF j < i THEN logs[j] ELSE logs[j + 1]
<1>1. Len(logs) \in Nat /\ DOMAIN logs = 1..Len(logs)
  OBVIOUS
<1> DEFINE i == CHOOSE i \in DOMAIN logs : logs[i] = l
           a == SubSeq(logs, 1, i - 1)
           b == SubSeq(logs, i + 1, Len(logs))
<1>2. i \in 1..Len(logs) /\ logs[i] = l
  <2>1. \E k \in DOMAIN logs : logs[k] = l
    BY DEF Range
  <2> QED BY <1>1, <2>1
<1>3. Without(l) = a \o b
  BY DEF Without
<1> HIDE DEF i
<1>4. a \in Seq(S) /\ Len(a) = i - 1 /\ \A j \in 1..(i - 1) : a[j] = logs[j]
  BY <1>1, <1>2
<1>5. b \in Seq(S) /\ Len(b) = Len(logs) - i
      /\ \A j \in 1..(Len(logs) - i) : b[j] = logs[i + j]
  <2>1. i + 1 \in Int /\ Len(logs) \in Int
        /\ \A j \in (i + 1)..Len(logs) : logs[j] \in S
    BY <1>1, <1>2
  <2>2. /\ b \in Seq(S)
        /\ Len(b) = IF i + 1 <= Len(logs) THEN Len(logs) - (i + 1) + 1 ELSE 0
        /\ \A j \in 1..(Len(logs) - (i + 1) + 1) : b[j] = logs[(i + 1) + j - 1]
    BY <2>1, SubSeqProperties
  <2> HIDE DEF a, b
  <2>3. \A k \in Nat : i \in 1..k =>
          /\ (IF i + 1 <= k THEN k - (i + 1) + 1 ELSE 0) = k - i /\ k - (i + 1) + 1 = k - i
          /\ \A j \in 1..(k - i) : (i + 1) + j - 1 = i + j
    BY <1>2
  <2>4. Len(b) = Len(logs) - i
    BY <1>1, <1>2, <2>2, <2>3
  <2>5. ASSUME NEW j \in 1..(Len(logs) - i) PROVE b[j] = logs[i + j]
    BY <1>1, <1>2, <2>2, <2>3
  <2> QED BY <2>2, <2>4, <2>5
<1> HIDE DEF a, b
<1>6. a \o b \in Seq(S) /\ Len(a \o b) = Len(logs) - 1
  <2>1. a \o b \in Seq(S)
    BY <1>4, <1>5
  <2>2. Len(a \o b) = Len(a) + Len(b)
    BY <1>4, <1>5
  <2> QED BY <1>1, <1>2, <1>4, <1>5, <2>1, <2>2
<1>7. ASSUME NEW j \in 1..(Len(logs) - 1)
      PROVE  (a \o b)[j] = IF j < i THEN logs[j] ELSE logs[j + 1]
  <2>1. CASE j < i
    BY <1>1, <1>2, <1>4, <1>5, <2>1
  <2>2. CASE ~(j < i)
    <3>1. (a \o b)[j] = b[j - (i - 1)]
      BY <1>1, <1>2, <1>4, <1>5, <2>2
    <3>2. j - (i - 1) \in 1..(Len(logs) - i) /\ i + (j - (i - 1)) = j + 1
      BY <1>1, <1>2, <2>2
    <3>3. b[j - (i - 1)] = logs[i + (j - (i - 1))]
      BY <1>5, <3>2
    <3> QED BY <2>2, <3>1, <3>2, <3>3
  <2> QED BY <2>1, <2>2
<1> QED BY <1>2, <1>3, <1>6, <1>7

\* Removing a log keeps the order of the others.
LEMMA WithoutKeeps ==
    ASSUME NEW S, logs \in Seq(S), IsInjective(logs), NEW l
    PROVE  /\ Without(l) \in Seq(S) /\ IsInjective(Without(l))
           /\ Range(Without(l)) = Range(logs) \ {l}
           /\ \A x \in Range(logs) \ {l} : Later(Without(l), x) \subseteq Later(logs, x) \ {l}
<1>1. CASE l \notin Range(logs)
  BY <1>1 DEF Without, Later
<1>2. CASE l \in Range(logs)
  <2>1. PICK i \in 1..Len(logs) :
             /\ logs[i] = l
             /\ Without(l) \in Seq(S) /\ Len(Without(l)) = Len(logs) - 1
             /\ \A j \in 1..(Len(logs) - 1) :
                   Without(l)[j] = IF j < i THEN logs[j] ELSE logs[j + 1]
    BY <1>2, WithoutIs
  <2> DEFINE s == Without(l)
             n == Len(logs)
  <2>2. n \in Nat /\ DOMAIN logs = 1..n /\ DOMAIN s = 1..(n - 1) /\ s \in Seq(S)
    BY <2>1
  <2>3. \A j \in 1..(n - 1) : s[j] = IF j < i THEN logs[j] ELSE logs[j + 1]
    BY <2>1
  <2>4. \A j, k \in 1..n : logs[j] = logs[k] => j = k
    BY <2>2 DEF IsInjective
  <2>5. i \in 1..n /\ logs[i] = l
    BY <2>1
  <2> HIDE DEF s, n
  <2> SUFFICES /\ s \in Seq(S) /\ IsInjective(s) /\ Range(s) = Range(logs) \ {l}
               /\ \A x \in Range(logs) \ {l} : Later(s, x) \subseteq Later(logs, x) \ {l}
    BY DEF s
  <2>6. IsInjective(s)
    <3> SUFFICES ASSUME NEW j \in 1..(n - 1), NEW k \in 1..(n - 1), s[j] = s[k]
                 PROVE  j = k
      BY <2>2 DEF IsInjective
    <3>1. j \in 1..n /\ k \in 1..n /\ j + 1 \in 1..n /\ k + 1 \in 1..n
      BY <2>2
    <3> QED BY <2>2, <2>3, <2>4, <2>5, <3>1
  <2>7. \A j \in 1..(n - 1) : s[j] \in Range(logs) \ {l}
    <3> SUFFICES ASSUME NEW j \in 1..(n - 1) PROVE s[j] \in Range(logs) \ {l}
      OBVIOUS
    <3>1. j \in 1..n /\ j + 1 \in 1..n
      BY <2>2
    <3>2. PICK k \in 1..n : s[j] = logs[k] /\ k # i
      BY <2>2, <2>3, <2>5, <3>1
    <3> QED BY <2>2, <2>4, <2>5, <3>2 DEF Range
  <2>8. \A k \in 1..n : k # i => \E j \in 1..(n - 1) : s[j] = logs[k]
    <3> SUFFICES ASSUME NEW k \in 1..n, k # i PROVE \E j \in 1..(n - 1) : s[j] = logs[k]
      OBVIOUS
    <3>1. CASE k < i
      <4>1. k \in 1..(n - 1)
        BY <2>2, <2>5, <3>1
      <4>2. s[k] = logs[k]
        BY <2>3, <3>1, <4>1
      <4> QED BY <4>1, <4>2
    <3>2. CASE k > i
      <4>1. k - 1 \in 1..(n - 1) /\ ~(k - 1 < i) /\ (k - 1) + 1 = k
        BY <2>2, <2>5, <3>2
      <4>2. s[k - 1] = logs[k]
        BY <2>3, <4>1
      <4> QED BY <4>1, <4>2
    <3> QED BY <2>2, <2>5, <3>1, <3>2
  <2>9. Range(s) = Range(logs) \ {l}
    <3>1. \A x \in Range(s) : x \in Range(logs) \ {l}
      BY <2>2, <2>7 DEF Range
    <3>2. \A x \in Range(logs) \ {l} : x \in Range(s)
      <4> SUFFICES ASSUME NEW x \in Range(logs), x # l PROVE x \in Range(s)
        OBVIOUS
      <4>1. PICK k \in 1..n : logs[k] = x
        BY <2>2 DEF Range
      <4>2. PICK j \in 1..(n - 1) : s[j] = x
        BY <2>5, <2>8, <4>1
      <4> QED BY <2>2, <4>2 DEF Range
    <3> QED BY <3>1, <3>2
  <2>10. ASSUME NEW x \in Range(logs) \ {l}, NEW y \in Later(s, x)
         PROVE  y \in Later(logs, x) \ {l}
    <3>1. PICK j, k \in 1..(n - 1) : j < k /\ s[j] = x /\ s[k] = y
      BY <2>2, <2>10 DEF Later
    <3>2. y \in Range(logs) \ {l}
      BY <2>7, <3>1
    <3>3. \E p, q \in 1..n : p < q /\ logs[p] = x /\ logs[q] = y
      <4>1. j \in 1..n /\ k \in 1..n /\ j + 1 \in 1..n /\ k + 1 \in 1..n
        BY <2>2
      <4> QED BY <2>2, <2>3, <2>5, <3>1, <4>1
    <3> QED BY <2>2, <3>2, <3>3 DEF Later
  <2> QED BY <2>2, <2>6, <2>9, <2>10
<1> QED BY <1>1, <1>2

\* What a new last log adds.
LEMMA AppendKeeps ==
    ASSUME NEW S, NEW s \in Seq(S), IsInjective(s), NEW l \in S, l \notin Range(s)
    PROVE  /\ Append(s, l) \in Seq(S) /\ IsInjective(Append(s, l))
           /\ Range(Append(s, l)) = Range(s) \cup {l}
           /\ Later(Append(s, l), l) = {}
           /\ \A x \in Range(s) : Later(Append(s, l), x) \subseteq Later(s, x) \cup {l}
<1> DEFINE t == Append(s, l)
           n == Len(s)
<1>1. n \in Nat /\ DOMAIN s = 1..n /\ DOMAIN t = 1..(n + 1) /\ t \in Seq(S)
  OBVIOUS
<1>2. t[n + 1] = l /\ \A j \in 1..n : t[j] = s[j]
  OBVIOUS
<1>3. \A j \in 1..(n + 1) : j = n + 1 \/ j \in 1..n
  BY <1>1
<1>4. \A j \in 1..n : j \in 1..(n + 1) /\ s[j] # l /\ s[j] \in Range(s)
  BY <1>1 DEF Range
<1>5. \A j, k \in 1..n : s[j] = s[k] => j = k
  BY <1>1 DEF IsInjective
<1> HIDE DEF t, n
<1> SUFFICES /\ t \in Seq(S) /\ IsInjective(t) /\ Range(t) = Range(s) \cup {l}
             /\ Later(t, l) = {} /\ \A x \in Range(s) : Later(t, x) \subseteq Later(s, x) \cup {l}
  BY DEF t
<1>6. IsInjective(t)
  BY <1>1, <1>2, <1>3, <1>4, <1>5 DEF IsInjective
<1>7. Range(t) = Range(s) \cup {l}
  <2>1. n + 1 \in 1..(n + 1)
    BY <1>1
  <2> QED BY <1>1, <1>2, <1>3, <1>4, <2>1 DEF Range
<1>8. Later(t, l) = {}
  <2> SUFFICES ASSUME NEW i \in 1..(n + 1), NEW k \in 1..(n + 1), i < k, t[i] = l PROVE FALSE
    BY <1>1 DEF Later
  <2>1. i \in 1..n
    BY <1>1
  <2> QED BY <1>2, <1>4, <2>1
<1>9. ASSUME NEW x \in Range(s), NEW y \in Later(t, x), y # l PROVE y \in Later(s, x)
  <2>1. PICK i, k \in 1..(n + 1) : i < k /\ t[i] = x /\ t[k] = y
    BY <1>1, <1>9 DEF Later
  <2>2. k \in 1..n
    BY <1>2, <1>3, <1>9, <2>1
  <2>3. i \in 1..n
    BY <1>1, <2>1, <2>2
  <2>4. s[i] = x /\ s[k] = y
    BY <1>2, <2>1, <2>2, <2>3
  <2> QED BY <1>1, <1>4, <2>1, <2>2, <2>3, <2>4 DEF Later
<1> QED BY <1>1, <1>6, <1>7, <1>8, <1>9
\* What the retention leaves of a directory, and what it never removes.
LEMMA KeptByPrune ==
    ASSUME NEW S, logs \in Seq(S), IsInjective(logs)
    PROVE  /\ TooOld \subseteq Range(logs)
           /\ Cardinality(Range(logs) \ TooOld) <= Retained - 1
           /\ \A i \in 1..Len(logs) : Len(logs) - i < Retained - 1 => logs[i] \notin TooOld
<1>1. Len(logs) \in Nat /\ DOMAIN logs = 1..Len(logs) /\ Retained \in Nat \ {0}
  BY LogAssumption
<1>2. CASE Len(logs) < Retained
  <2>1. TooOld = {}
    BY <1>2 DEF TooOld
  <2>2. Cardinality(Range(logs)) = Len(logs)
    BY RangeSize
  <2>3. Range(logs) \ TooOld = Range(logs)
    BY <2>1
  <2> QED BY <1>1, <1>2, <2>1, <2>2, <2>3
<1>3. CASE Len(logs) >= Retained
  <2> DEFINE m == Len(logs) - Retained + 1
             old == SubSeq(logs, 1, m)
             new == SubSeq(logs, m + 1, Len(logs))
  <2>1. m \in 1..Len(logs) /\ Len(logs) - (m + 1) + 1 = Retained - 1
    BY <1>1, <1>3
  <2>2. TooOld = Range(old)
    <3>1. ~(Len(logs) < Retained)
      BY <1>1, <1>3
    <3> QED BY <3>1 DEF TooOld
  <2>3. old \in Seq(S) /\ Len(old) = m /\ \A j \in 1..m : old[j] = logs[j]
    BY <1>1, <2>1
  <2>4. /\ new \in Seq(S)
        /\ Len(new) = IF m + 1 <= Len(logs) THEN Len(logs) - (m + 1) + 1 ELSE 0
        /\ \A j \in 1..(Len(logs) - (m + 1) + 1) : new[j] = logs[(m + 1) + j - 1]
    <3>1. m + 1 \in Int /\ Len(logs) \in Int
          /\ \A j \in (m + 1)..Len(logs) : logs[j] \in S
      BY <1>1, <2>1
    <3> HIDE DEF m
    <3> QED BY <3>1, SubSeqProperties
  <2> HIDE DEF old, new, m
  <2>5. Range(old) = {logs[j] : j \in 1..m}
    BY <2>1, <2>3 DEF Range
  <2>6. Len(new) <= Retained - 1
    <3>1. CASE m + 1 <= Len(logs)
      <4>1. Len(new) = Len(logs) - (m + 1) + 1
        BY <2>4, <3>1
      <4> QED BY <1>1, <2>1, <4>1
    <3>2. CASE ~(m + 1 <= Len(logs))
      <4>1. Len(new) = 0
        BY <2>4, <3>2
      <4> QED BY <1>1, <4>1
    <3> QED BY <3>1, <3>2
  <2>7. \A i \in 1..Len(logs) : i > m => logs[i] \notin TooOld
    <3> SUFFICES ASSUME NEW i \in 1..Len(logs), i > m, NEW j \in 1..m, logs[i] = logs[j]
                 PROVE  FALSE
      BY <2>2, <2>5
    <3>1. j \in 1..Len(logs) /\ i # j
      BY <1>1, <2>1
    <3> QED BY <1>1, <3>1 DEF IsInjective
  <2>8. TooOld \subseteq Range(logs)
    <3>1. \A j \in 1..m : j \in DOMAIN logs
      BY <1>1, <2>1
    <3>2. \A j \in 1..m : logs[j] \in Range(logs)
      BY <3>1 DEF Range
    <3> QED BY <2>2, <2>5, <3>2
  <2>9. Range(logs) \ TooOld \subseteq Range(new)
    <3> SUFFICES ASSUME NEW i \in 1..Len(logs), logs[i] \notin TooOld
                 PROVE  logs[i] \in Range(new)
      BY <1>1 DEF Range
    <3>1. i \notin 1..m
      BY <2>2, <2>5
    <3>2. i - m \in 1..(Len(logs) - (m + 1) + 1) /\ (m + 1) + (i - m) - 1 = i
          /\ m + 1 <= Len(logs)
      BY <1>1, <2>1, <3>1
    <3>3. new[i - m] = logs[i] /\ i - m \in 1..Len(new)
      BY <2>4, <3>2
    <3> QED BY <2>4, <3>3 DEF Range
  <2>10. Cardinality(Range(logs) \ TooOld) <= Retained - 1
    <3>1. IsFiniteSet(Range(new)) /\ Cardinality(Range(new)) <= Len(new)
      BY <2>4, RangeSize
    <3>2. IsFiniteSet(Range(logs) \ TooOld)
          /\ Cardinality(Range(logs) \ TooOld) <= Cardinality(Range(new))
      BY <2>9, <3>1, FS_Subset
    <3> QED BY <1>1, <2>4, <2>6, <3>1, <3>2, FS_CardinalityType
  <2>11. ASSUME NEW i \in 1..Len(logs), Len(logs) - i < Retained - 1
         PROVE  i > m
    BY <1>1, <2>11 DEF m
  <2> QED BY <2>7, <2>8, <2>10, <2>11
<1> QED BY <1>1, <1>2, <1>3

----
\* The inductive invariant of the logs.

\* Of the logs, Q's prunes leave these.
Pruning == {p \in Processes : phase[p] = "pruning"}
Remaining(Q) == Range(logs) \ UNION {stale[q] : q \in Q}

\* Whichever of the pruning processes finish first and open their logs, the
\* directory stays within the limit.
Budget ==
    \A Q \in SUBSET Pruning :
        Cardinality(Remaining(Q)) + Cardinality(Q) <= Retained + Cardinality(Processes) - 1

\* Logs are numbered as they are opened; a running process has one of its own,
\* and only a pruning one has any to remove.
NumberedAt(p) ==
    /\ stale[p] \subseteq 1..opened /\ own[p] \in 0..opened
    /\ phase[p] # "pruning" => stale[p] = {}
    /\ own[p] # 0 <=> phase[p] = "running"
    /\ \A q \in Processes : own[p] = own[q] /\ own[p] # 0 => p = q
Numbered == Range(logs) \subseteq 1..opened /\ \A p \in Processes : NumberedAt(p)

LogInv == LogTypeOK /\ Numbered /\ Budget


\* There are finitely many processes, and the limit holds their logs.
LEMMA ProcessesFinite ==
    /\ IsFiniteSet(Processes) /\ Cardinality(Processes) \in Nat \ {0}
    /\ Retained \in Nat \ {0} /\ MaxLogs \in Nat /\ Retained <= MaxLogs
<1> DEFINE G == {<<w, "gui">> : w \in Operators}
           E == {<<w, "engine">> : w \in Operators}
<1>1. IsFiniteSet(G)
  <2> DEFINE f == [w \in Operators |-> <<w, "gui">>]
  <2>1. f \in Surjection(Operators, G)
    BY DEF Surjection
  <2> QED BY <2>1, FS_Surjection, LogAssumption
<1>2. IsFiniteSet(E)
  <2> DEFINE f == [w \in Operators |-> <<w, "engine">>]
  <2>1. f \in Surjection(Operators, E)
    BY DEF Surjection
  <2> QED BY <2>1, FS_Surjection, LogAssumption
<1>3. Processes = G \cup E
  BY DEF Processes
<1>4. Processes # {}
  <2>1. PICK w : w \in Operators
    BY LogAssumption
  <2>2. <<w, "gui">> \in Processes
    BY <2>1 DEF Processes
  <2> QED BY <2>2
<1> HIDE DEF G, E
<1>5. IsFiniteSet(Processes)
  BY <1>1, <1>2, <1>3, FS_Union
<1> QED BY <1>4, <1>5, FS_CardinalityType, FS_EmptySet, LogAssumption

\* The logs that stay are counted.
LEMMA RemainingFinite ==
    ASSUME LogTypeOK, NEW Q \in SUBSET Pruning
    PROVE  /\ IsFiniteSet(Remaining(Q)) /\ Cardinality(Remaining(Q)) \in Nat
           /\ IsFiniteSet(Q) /\ Cardinality(Q) \in Nat
           /\ Cardinality(Q) <= Cardinality(Processes)
<1>1. IsFiniteSet(Range(logs))
  BY RangeSize DEF LogTypeOK
<1>2. Remaining(Q) \in SUBSET Range(logs)
  BY DEF Remaining
<1>3. Q \in SUBSET Processes
  BY DEF Pruning
<1> QED BY <1>1, <1>2, <1>3, ProcessesFinite, FS_Subset, FS_CardinalityType

\* No log is there before the first process opens one.
LEMMA LogStart == LogInit => LogInv
<1> SUFFICES ASSUME LogInit PROVE LogInv
  OBVIOUS
<1>0. Retained \in Nat \ {0} /\ MaxLogs \in Nat /\ Retained <= MaxLogs
  BY LogAssumption
<1>1. logs = [i \in 1..Retained |-> i] /\ opened = Retained
  BY DEF LogInit, OldLogs
<1>2. logs \in Seq(1..MaxLogs) /\ IsInjective(logs) /\ Range(logs) = 1..Retained
      /\ Len(logs) = Retained
  BY <1>0, <1>1 DEF IsInjective, Range
<1>3. LogTypeOK
  BY <1>0, <1>1, <1>2 DEF LogInit, LogTypeOK
<1>4. Numbered
  BY <1>0, <1>1, <1>2 DEF LogInit, Numbered, NumberedAt
<1>5. Budget
  <2> SUFFICES ASSUME NEW Q \in SUBSET Pruning
               PROVE  Cardinality(Remaining(Q)) + Cardinality(Q)
                        <= Retained + Cardinality(Processes) - 1
    BY DEF Budget
  <2>1. Q = {}
    BY DEF LogInit, Pruning
  <2>2. Remaining(Q) = Range(logs) /\ Cardinality(Q) = 0
    BY <2>1, FS_EmptySet DEF Remaining
  <2>3. Cardinality(Range(logs)) = Retained
    BY <1>2, RangeSize
  <2> QED BY <1>0, <2>2, <2>3, ProcessesFinite
<1> QED BY <1>3, <1>4, <1>5 DEF LogInv
\* The directory after a step: no log twice, none but those numbered so far.
LEMMA RemoveTypes ==
    ASSUME LogTypeOK, NEW p \in Processes, RemoveLog(p)
    PROVE  \E l \in stale[p] :
             /\ logs' = Without(l) /\ stale' = [stale EXCEPT ![p] = stale[p] \ {l}]
             /\ logs' \in Seq(1..MaxLogs) /\ IsInjective(logs')
             /\ Range(logs') = Range(logs) \ {l}
             /\ \A x \in Range(logs) \ {l} : Later(logs', x) \subseteq Later(logs, x) \ {l}
<1>1. PICK l \in stale[p] : logs' = Without(l) /\ stale' = [stale EXCEPT ![p] = stale[p] \ {l}]
  BY DEF RemoveLog
<1>2. logs \in Seq(1..MaxLogs) /\ IsInjective(logs)
  BY DEF LogTypeOK
<1> QED BY <1>1, <1>2, WithoutKeeps

\* A line written moves the process's own log to the end and no other.
LEMMA WriteTypes ==
    ASSUME LogTypeOK, NEW p \in Processes, WriteLine(p)
    PROVE  /\ logs' \in Seq(1..MaxLogs) /\ IsInjective(logs') /\ Range(logs') = Range(logs)
           /\ own[p] \in Range(logs) => Later(logs', own[p]) = {}
           /\ \A x \in Range(logs) \ {own[p]} : Later(logs', x) \subseteq Later(logs, x) \cup {own[p]}
           /\ \A x \in Range(logs) \ {own[p]} :
                 own[p] \notin Range(logs) => Later(logs', x) \subseteq Later(logs, x)
<1>2. logs \in Seq(1..MaxLogs) /\ IsInjective(logs) /\ DOMAIN logs = 1..Len(logs)
  BY DEF LogTypeOK
<1>3. CASE own[p] \notin Range(logs)
  <2>1. logs' = logs
    BY <1>3 DEF WriteLine
  <2> QED BY <1>2, <1>3, <2>1 DEF Later
<1>4. CASE own[p] \in Range(logs)
  <2> DEFINE s == Without(own[p])
  <2>1. logs' = Append(s, own[p])
    BY <1>4 DEF WriteLine
  <2>2. /\ s \in Seq(1..MaxLogs) /\ IsInjective(s) /\ Range(s) = Range(logs) \ {own[p]}
        /\ \A x \in Range(logs) \ {own[p]} : Later(s, x) \subseteq Later(logs, x) \ {own[p]}
    BY <1>2, WithoutKeeps
  <2>3. own[p] \in 1..MaxLogs
    BY <1>2, <1>4, RangeIn
  <2> HIDE DEF s
  <2>4. /\ Append(s, own[p]) \in Seq(1..MaxLogs) /\ IsInjective(Append(s, own[p]))
        /\ Range(Append(s, own[p])) = Range(s) \cup {own[p]}
        /\ Later(Append(s, own[p]), own[p]) = {}
        /\ \A x \in Range(s) : Later(Append(s, own[p]), x) \subseteq Later(s, x) \cup {own[p]}
    <3>1. own[p] \notin Range(s)
      BY <2>2
    <3>2. ASSUME NEW l \in 1..MaxLogs, l \notin Range(s)
          PROVE  /\ Append(s, l) \in Seq(1..MaxLogs) /\ IsInjective(Append(s, l))
                 /\ Range(Append(s, l)) = Range(s) \cup {l}
                 /\ Later(Append(s, l), l) = {}
                 /\ \A x \in Range(s) : Later(Append(s, l), x) \subseteq Later(s, x) \cup {l}
      <4>1. s \in Seq(1..MaxLogs) /\ IsInjective(s)
        BY <2>2
      <4> QED BY <3>2, <4>1, AppendKeeps
    <3> QED BY <2>3, <3>1, <3>2
  <2>5. \A x \in Range(logs) \ {own[p]} : Later(logs', x) \subseteq Later(logs, x) \cup {own[p]}
    BY <2>1, <2>2, <2>4
  <2>6. Range(logs') = Range(logs)
    BY <1>4, <2>1, <2>2, <2>4
  <2> QED BY <1>4, <2>1, <2>4, <2>5, <2>6
<1> QED BY <1>3, <1>4

\* A log that is opened comes last, and is a new one.
LEMMA OpenTypes ==
    ASSUME LogTypeOK, Range(logs) \subseteq 1..opened, NEW p \in Processes, OpenLog(p)
    PROVE  /\ logs' \in Seq(1..MaxLogs) /\ IsInjective(logs')
           /\ Range(logs') = Range(logs) \cup {opened + 1}
           /\ Later(logs', opened + 1) = {}
           /\ \A x \in Range(logs) : Later(logs', x) \subseteq Later(logs, x) \cup {opened + 1}
<1>1. logs \in Seq(1..MaxLogs) /\ IsInjective(logs) /\ opened \in 0..MaxLogs
  BY DEF LogTypeOK
<1>2. opened < MaxLogs /\ logs' = Append(logs, opened + 1) /\ MaxLogs \in Nat
  BY LogAssumption DEF OpenLog, FreshName
<1>3. opened + 1 \in 1..MaxLogs
  BY <1>1, <1>2
<1>4. opened + 1 \notin Range(logs)
  BY <1>1
<1> QED BY <1>1, <1>2, <1>3, <1>4, AppendKeeps

\* Every step keeps the logs well typed and without repetition.
LEMMA LogTypes == LogTypeOK /\ Numbered /\ [LogNext]_logVars => LogTypeOK'
<1> SUFFICES ASSUME LogTypeOK, Numbered, [LogNext]_logVars PROVE LogTypeOK'
  OBVIOUS
<1>n. MaxLogs \in Nat
  BY LogAssumption
<1>1. CASE UNCHANGED logVars
  BY <1>1 DEF logVars, LogTypeOK
<1>2. ASSUME NEW w \in Operators, NEW role \in {"gui", "engine"}, Launch(w, role)
      PROVE  LogTypeOK'
  <2>1. phase' \in [Processes -> {"none", "listing", "pruning", "running"}]
    BY <1>2 DEF Launch, LogTypeOK
  <2>2. owed' \in [Operators -> BOOLEAN]
    BY <1>2, LogAssumption DEF Launch, LogTypeOK
  <2> QED BY <1>2, <2>1, <2>2 DEF Launch, LogTypeOK
<1>3. ASSUME NEW p \in Processes, ListLogs(p)
      PROVE  LogTypeOK'
  <2>1. TooOld \subseteq 1..MaxLogs
    <3>1. Range(logs) \subseteq 1..MaxLogs
      BY RangeIn DEF LogTypeOK
    <3>2. TooOld \subseteq Range(logs)
      BY KeptByPrune DEF LogTypeOK
    <3> QED BY <3>1, <3>2
  <2>2. stale' \in [Processes -> SUBSET (1..MaxLogs)]
    BY <1>3, <2>1 DEF ListLogs, LogTypeOK
  <2>3. phase' \in [Processes -> {"none", "listing", "pruning", "running"}]
    BY <1>3 DEF ListLogs, LogTypeOK
  <2> QED BY <1>3, <2>2, <2>3 DEF ListLogs, LogTypeOK
<1>4. ASSUME NEW p \in Processes, RemoveLog(p)
      PROVE  LogTypeOK'
  <2>1. logs' \in Seq(1..MaxLogs) /\ IsInjective(logs')
    BY <1>4, RemoveTypes
  <2>2. PICK l \in stale[p] : stale' = [stale EXCEPT ![p] = stale[p] \ {l}]
    BY <1>4, RemoveTypes
  <2>3. stale' \in [Processes -> SUBSET (1..MaxLogs)]
    BY <2>2 DEF LogTypeOK
  <2> QED BY <1>4, <2>1, <2>3 DEF RemoveLog, LogTypeOK
<1>5. ASSUME NEW p \in Processes, OpenLog(p)
      PROVE  LogTypeOK'
  <2>1. logs' \in Seq(1..MaxLogs) /\ IsInjective(logs')
    BY <1>5, OpenTypes DEF Numbered
  <2>2. opened' \in 0..MaxLogs /\ opened + 1 \in 0..MaxLogs
    BY <1>5, <1>n DEF OpenLog, LogTypeOK
  <2>3. own' \in [Processes -> 0..MaxLogs]
    BY <1>5, <2>2 DEF OpenLog, FreshName, LogTypeOK
  <2>4. phase' \in [Processes -> {"none", "listing", "pruning", "running"}]
    BY <1>5 DEF OpenLog, LogTypeOK
  <2> QED BY <1>5, <2>1, <2>2, <2>3, <2>4 DEF OpenLog, LogTypeOK
<1>6. ASSUME NEW p \in Processes, WriteLine(p)
      PROVE  LogTypeOK'
  <2>1. logs' \in Seq(1..MaxLogs) /\ IsInjective(logs')
    BY <1>6, WriteTypes
  <2>2. owed' \in [Operators -> BOOLEAN]
    <3>1. owed' = [owed EXCEPT ![p[1]] = @ /\ p[2] = "engine"] /\ owed \in [Operators -> BOOLEAN]
      BY <1>6 DEF WriteLine, LogTypeOK
    <3> QED BY <3>1
  <2> QED BY <1>6, <2>1, <2>2 DEF WriteLine, LogTypeOK
<1>7. ASSUME NEW p \in Processes, End(p)
      PROVE  LogTypeOK'
  <2>1. owed' \in [Operators -> BOOLEAN]
    <3>1. owed' = [owed EXCEPT ![p[1]] = @ /\ p[2] = "engine"] /\ owed \in [Operators -> BOOLEAN]
      BY <1>7 DEF End, LogTypeOK
    <3> QED BY <3>1
  <2>2. stale' \in [Processes -> SUBSET (1..MaxLogs)]
    BY <1>7 DEF End, LogTypeOK
  <2>3. own' \in [Processes -> 0..MaxLogs]
    BY <1>7, <1>n DEF End, LogTypeOK
  <2>4. phase' \in [Processes -> {"none", "listing", "pruning", "running"}]
    BY <1>7 DEF End, LogTypeOK
  <2> QED BY <1>7, <2>1, <2>2, <2>3, <2>4 DEF End, LogTypeOK
<1> QED BY <1>1, <1>2, <1>3, <1>4, <1>5, <1>6, <1>7 DEF LogNext

\* Every step keeps the logs among those that were opened.
LEMMA NumberedStep == LogTypeOK /\ Numbered /\ [LogNext]_logVars => Numbered'
<1> SUFFICES ASSUME LogTypeOK, Numbered, [LogNext]_logVars PROVE Numbered'
  OBVIOUS
<1>n. opened \in Nat /\ Range(logs) \subseteq 1..opened /\ \A q \in Processes : NumberedAt(q)
  BY LogAssumption DEF LogTypeOK, Numbered
<1>t. /\ phase \in [Processes -> {"none", "listing", "pruning", "running"}]
      /\ stale \in [Processes -> SUBSET (1..MaxLogs)] /\ own \in [Processes -> 0..MaxLogs]
  BY DEF LogTypeOK
<1>1. CASE UNCHANGED logVars
  BY <1>1 DEF logVars, Numbered, NumberedAt
<1>2. ASSUME NEW w \in Operators, NEW role \in {"gui", "engine"}, Launch(w, role)
      PROVE  Numbered'
  <2> DEFINE p == <<w, role>>
  <2>1. p \in Processes /\ UNCHANGED <<logs, opened, stale, own>> /\ phase[p] = "none"
        /\ phase' = [phase EXCEPT ![p] = "listing"]
    BY <1>2 DEF Launch, Processes
  <2> HIDE DEF p
  <2>2. ASSUME NEW q \in Processes PROVE NumberedAt(q)'
    <3>1. phase'[q] = IF q = p THEN "listing" ELSE phase[q]
      BY <1>t, <2>1
    <3>2. NumberedAt(q)
      BY <1>n
    <3>3. phase'[q] = "running" <=> phase[q] = "running"
      BY <2>1, <3>1
    <3>4. phase'[q] # "pruning" => stale'[q] = {}
      BY <2>1, <3>1, <3>2 DEF NumberedAt
    <3>5. own'[q] # 0 <=> phase'[q] = "running"
      BY <2>1, <3>2, <3>3 DEF NumberedAt
    <3> QED BY <2>1, <3>2, <3>4, <3>5 DEF NumberedAt
  <2> QED BY <1>n, <2>1, <2>2 DEF Numbered
<1>3. ASSUME NEW p \in Processes, ListLogs(p)
      PROVE  Numbered'
  <2>1. TooOld \subseteq 1..opened
    <3>1. TooOld \subseteq Range(logs)
      BY KeptByPrune DEF LogTypeOK
    <3> QED BY <1>n, <3>1
  <2>2. UNCHANGED <<logs, opened, own>> /\ phase[p] = "listing"
        /\ phase' = [phase EXCEPT ![p] = "pruning"] /\ stale' = [stale EXCEPT ![p] = TooOld]
    BY <1>3 DEF ListLogs
  <2>3. ASSUME NEW q \in Processes PROVE NumberedAt(q)'
    <3>1. /\ phase'[q] = IF q = p THEN "pruning" ELSE phase[q]
          /\ stale'[q] = IF q = p THEN TooOld ELSE stale[q]
      BY <1>t, <2>2
    <3>2. NumberedAt(q)
      BY <1>n
    <3>3. phase'[q] = "running" <=> phase[q] = "running"
      BY <2>2, <3>1
    <3>4. phase'[q] # "pruning" => stale'[q] = {}
      BY <2>2, <3>1, <3>2 DEF NumberedAt
    <3>5. own'[q] # 0 <=> phase'[q] = "running"
      BY <2>2, <3>2, <3>3 DEF NumberedAt
    <3>6. stale'[q] \subseteq 1..opened'
      BY <2>1, <2>2, <3>1, <3>2 DEF NumberedAt
    <3> QED BY <2>2, <3>2, <3>4, <3>5, <3>6 DEF NumberedAt
  <2> QED BY <1>n, <2>2, <2>3 DEF Numbered
<1>4. ASSUME NEW p \in Processes, RemoveLog(p)
      PROVE  Numbered'
  <2>1. PICK l \in stale[p] : /\ stale' = [stale EXCEPT ![p] = stale[p] \ {l}]
                              /\ Range(logs') = Range(logs) \ {l}
    BY <1>4, RemoveTypes
  <2>2. UNCHANGED <<opened, phase, own>>
    BY <1>4 DEF RemoveLog
  <2>3. ASSUME NEW q \in Processes PROVE NumberedAt(q)'
    <3>1. stale'[q] = IF q = p THEN stale[p] \ {l} ELSE stale[q]
      BY <1>t, <2>1
    <3>2. stale'[q] \subseteq stale[q]
      BY <3>1
    <3> QED BY <1>n, <2>2, <3>2 DEF NumberedAt
  <2> QED BY <1>n, <2>1, <2>2, <2>3 DEF Numbered
<1>5. ASSUME NEW p \in Processes, OpenLog(p)
      PROVE  Numbered'
  <2>1. Range(logs') = Range(logs) \cup {opened + 1}
    BY <1>5, <1>n, OpenTypes
  <2>2. UNCHANGED <<stale>> /\ stale[p] = {} /\ opened' = opened + 1 /\ phase[p] = "pruning"
        /\ phase' = [phase EXCEPT ![p] = "running"] /\ own' = [own EXCEPT ![p] = opened + 1]
    BY <1>5 DEF OpenLog, FreshName
  <2>3. \A q \in Processes : /\ phase'[q] = IF q = p THEN "running" ELSE phase[q]
                             /\ own'[q] = IF q = p THEN opened + 1 ELSE own[q]
    BY <1>t, <2>2
  <2>4. \A q \in Processes : own[q] \in 0..opened
    BY <1>n DEF NumberedAt
  <2>5. ASSUME NEW q \in Processes PROVE NumberedAt(q)'
    <3>1. stale'[q] \subseteq 1..opened'
      BY <1>n, <2>2 DEF NumberedAt
    <3>2. own'[q] \in 0..opened'
      BY <1>n, <2>2, <2>3, <2>4
    <3>3. phase'[q] # "pruning" => stale'[q] = {}
      BY <1>n, <2>2, <2>3 DEF NumberedAt
    <3>4. own'[q] # 0 <=> phase'[q] = "running"
      BY <1>n, <2>3 DEF NumberedAt
    <3>5. ASSUME NEW r \in Processes, own'[q] = own'[r], own'[q] # 0 PROVE q = r
      <4>1. own[q] \in 0..opened /\ own[r] \in 0..opened /\ opened + 1 \notin 0..opened
        BY <1>n, <2>4
      <4>2. own[q] = own[r] /\ own[q] # 0 => q = r
        BY <1>n DEF NumberedAt
      <4> QED BY <2>3, <3>5, <4>1, <4>2
    <3> QED BY <3>1, <3>2, <3>3, <3>4, <3>5 DEF NumberedAt
  <2>6. Range(logs') \subseteq 1..opened'
    BY <1>n, <2>1, <2>2
  <2> QED BY <2>5, <2>6 DEF Numbered
<1>6. ASSUME NEW p \in Processes, WriteLine(p)
      PROVE  Numbered'
  <2>1. Range(logs') = Range(logs) /\ UNCHANGED <<opened, phase, stale, own>>
    BY <1>6, WriteTypes DEF WriteLine
  <2> QED BY <1>n, <2>1 DEF Numbered, NumberedAt
<1>7. ASSUME NEW p \in Processes, End(p)
      PROVE  Numbered'
  <2>1. UNCHANGED <<logs, opened>> /\ phase' = [phase EXCEPT ![p] = "none"]
        /\ stale' = [stale EXCEPT ![p] = {}] /\ own' = [own EXCEPT ![p] = 0]
    BY <1>7 DEF End
  <2>2. \A q \in Processes : /\ phase'[q] = IF q = p THEN "none" ELSE phase[q]
                             /\ stale'[q] = IF q = p THEN {} ELSE stale[q]
                             /\ own'[q] = IF q = p THEN 0 ELSE own[q]
    BY <1>t, <2>1
  <2>3. ASSUME NEW q \in Processes PROVE NumberedAt(q)'
    <3>1. NumberedAt(q)
      BY <1>n
    <3>2. stale'[q] \subseteq stale[q] /\ own'[q] \in {0, own[q]} /\ phase'[q] \in {"none", phase[q]}
      BY <2>2
    <3>3. \A r \in Processes : own'[q] = own'[r] /\ own'[q] # 0 => own[q] = own[r] /\ own[q] # 0
      BY <2>2
    <3>4. own'[q] # 0 <=> phase'[q] = "running"
      BY <2>2, <3>1 DEF NumberedAt
    <3>5. phase'[q] # "pruning" => stale'[q] = {}
      BY <2>2, <3>1 DEF NumberedAt
    <3>6. stale'[q] \subseteq 1..opened' /\ own'[q] \in 0..opened'
      BY <1>n, <2>1, <3>1, <3>2 DEF NumberedAt
    <3> QED BY <3>1, <3>3, <3>4, <3>5, <3>6 DEF NumberedAt
  <2> QED BY <1>n, <2>1, <2>3 DEF Numbered
<1> QED BY <1>1, <1>2, <1>3, <1>4, <1>5, <1>6, <1>7 DEF LogNext
\* A set of pruning processes whose prunes leave no more than some set of them
\* did before the step.
LEMMA BudgetKept ==
    ASSUME LogTypeOK, Budget, NEW Q \in SUBSET Pruning, NEW R, R \subseteq Remaining(Q)
    PROVE  Cardinality(R) + Cardinality(Q) <= Retained + Cardinality(Processes) - 1
<1>1. /\ IsFiniteSet(Remaining(Q)) /\ Cardinality(Remaining(Q)) \in Nat
      /\ Cardinality(Q) \in Nat
  BY RemainingFinite
<1>2. IsFiniteSet(R) /\ Cardinality(R) <= Cardinality(Remaining(Q)) /\ Cardinality(R) \in Nat
  BY <1>1, FS_Subset, FS_CardinalityType
<1>3. Cardinality(Remaining(Q)) + Cardinality(Q) <= Retained + Cardinality(Processes) - 1
  BY DEF Budget
<1> QED BY <1>1, <1>2, <1>3, ProcessesFinite

\* Every step keeps the logs within the limit, and those of the processes opening one.
LEMMA BudgetStep == LogTypeOK /\ Numbered /\ Budget /\ [LogNext]_logVars => Budget'
<1> SUFFICES ASSUME LogTypeOK, Numbered, Budget, [LogNext]_logVars PROVE Budget'
  OBVIOUS
<1> DEFINE Most == Retained + Cardinality(Processes) - 1
<1>t. /\ phase \in [Processes -> {"none", "listing", "pruning", "running"}]
      /\ stale \in [Processes -> SUBSET (1..MaxLogs)]
  BY DEF LogTypeOK
<1>0. Budget' <=> \A Q \in SUBSET Pruning' : Cardinality(Remaining(Q)') + Cardinality(Q) <= Most
  BY DEF Budget, Remaining
<1> HIDE DEF Most
<1> SUFFICES ASSUME NEW Q \in SUBSET Pruning'
             PROVE  Cardinality(Remaining(Q)') + Cardinality(Q) <= Most
  BY <1>0
\* Nothing is left to such a Q that was not left to it before.
<1>s. ASSUME Q \subseteq Pruning, Remaining(Q)' \subseteq Remaining(Q)
      PROVE  Cardinality(Remaining(Q)') + Cardinality(Q) <= Most
  <2>1. ASSUME NEW R, R \subseteq Remaining(Q) PROVE Cardinality(R) + Cardinality(Q) <= Most
    BY <1>s, <2>1, BudgetKept DEF Most
  <2> QED BY <1>s, <2>1
<1>f. ASSUME Q \subseteq Pruning, \A q \in Q : stale[q] \subseteq stale'[q],
             Range(logs') \subseteq Range(logs)
      PROVE  Cardinality(Remaining(Q)') + Cardinality(Q) <= Most
  BY <1>f, <1>s DEF Remaining
<1>p. Q \subseteq Processes /\ \A q \in Q : phase'[q] = "pruning"
  BY DEF Pruning
<1>1. CASE UNCHANGED logVars
  BY <1>1, <1>f DEF logVars, Pruning
<1>2. ASSUME NEW w \in Operators, NEW role \in {"gui", "engine"}, Launch(w, role)
      PROVE  Cardinality(Remaining(Q)') + Cardinality(Q) <= Most
  <2>1. logs' = logs /\ stale' = stale /\ phase' = [phase EXCEPT ![<<w, role>>] = "listing"]
        /\ <<w, role>> \in Processes
    BY <1>2 DEF Launch, Processes
  <2>2. \A q \in Q : phase[q] = "pruning"
    BY <1>p, <1>t, <2>1
  <2> QED BY <1>f, <1>p, <2>1, <2>2 DEF Pruning
<1>3. ASSUME NEW p \in Processes, ListLogs(p)
      PROVE  Cardinality(Remaining(Q)') + Cardinality(Q) <= Most
  <2>1. logs' = logs /\ stale' = [stale EXCEPT ![p] = TooOld]
        /\ phase' = [phase EXCEPT ![p] = "pruning"]
    BY <1>3 DEF ListLogs
  <2>2. CASE p \in Q
    <3>1. stale'[p] = TooOld
      BY <1>t, <2>1
    <3>2. Remaining(Q)' \subseteq Range(logs) \ TooOld
      BY <2>1, <2>2, <3>1 DEF Remaining
    <3>3. IsFiniteSet(Range(logs)) /\ Cardinality(Range(logs) \ TooOld) <= Retained - 1
      BY KeptByPrune, RangeSize DEF LogTypeOK
    <3>4. IsFiniteSet(Range(logs) \ TooOld) /\ Cardinality(Range(logs) \ TooOld) \in Nat
      BY <3>3, FS_Subset, FS_CardinalityType
    <3>5. ASSUME NEW R, R \subseteq Range(logs) \ TooOld
          PROVE  Cardinality(R) <= Retained - 1 /\ Cardinality(R) \in Nat
      <4>1. IsFiniteSet(R) /\ Cardinality(R) <= Cardinality(Range(logs) \ TooOld)
        BY <3>4, <3>5, FS_Subset
      <4> QED BY <3>3, <3>4, <4>1, FS_CardinalityType, ProcessesFinite
    <3>6. Cardinality(Q) <= Cardinality(Processes) /\ Cardinality(Q) \in Nat
      BY <1>p, ProcessesFinite, FS_Subset, FS_CardinalityType
    <3>7. Cardinality(Remaining(Q)') <= Retained - 1 /\ Cardinality(Remaining(Q)') \in Nat
      BY <3>2, <3>5
    <3> QED BY <3>6, <3>7, ProcessesFinite DEF Most
  <2>3. CASE p \notin Q
    <3>1. \A q \in Q : phase[q] = "pruning" /\ stale'[q] = stale[q]
      BY <1>p, <1>t, <2>1, <2>3
    <3> QED BY <1>f, <1>p, <2>1, <3>1 DEF Pruning
  <2> QED BY <2>2, <2>3
<1>4. ASSUME NEW p \in Processes, RemoveLog(p)
      PROVE  Cardinality(Remaining(Q)') + Cardinality(Q) <= Most
  <2>1. PICK l \in stale[p] : /\ stale' = [stale EXCEPT ![p] = stale[p] \ {l}]
                              /\ Range(logs') = Range(logs) \ {l}
    BY <1>4, RemoveTypes
  <2>2. Q \subseteq Pruning
    BY <1>4, <1>p DEF RemoveLog, Pruning
  <2>3. \A q \in Q : stale[q] \subseteq stale'[q] \cup {l}
    BY <1>p, <1>t, <2>1
  <2>4. Remaining(Q)' \subseteq Remaining(Q)
    BY <2>1, <2>3 DEF Remaining
  <2> QED BY <1>s, <2>2, <2>4
<1>5. ASSUME NEW p \in Processes, OpenLog(p)
      PROVE  Cardinality(Remaining(Q)') + Cardinality(Q) <= Most
  <2>1. Range(logs') = Range(logs) \cup {opened + 1}
    BY <1>5, OpenTypes DEF Numbered
  <2>2. stale' = stale /\ stale[p] = {} /\ phase[p] = "pruning"
        /\ phase' = [phase EXCEPT ![p] = "running"]
    BY <1>5 DEF OpenLog
  <2>3. p \notin Q /\ \A q \in Q : phase[q] = "pruning"
    BY <1>p, <1>t, <2>2
  <2> DEFINE P == Q \cup {p}
  <2>4. P \in SUBSET Pruning
    BY <1>p, <2>2, <2>3 DEF Pruning
  <2>5. /\ IsFiniteSet(Remaining(P)) /\ Cardinality(Remaining(P)) \in Nat
        /\ IsFiniteSet(Q) /\ Cardinality(Q) \in Nat
    <3>1. Q \in SUBSET Pruning
      BY <2>4
    <3> QED BY <2>4, <3>1, RemainingFinite
  <2>6. Cardinality(P) = Cardinality(Q) + 1
    BY <2>3, <2>5, FS_AddElement
  <2>7. Cardinality(Remaining(P)) + Cardinality(P) <= Most
    BY <2>4 DEF Budget, Most
  <2>8. Remaining(Q)' \subseteq Remaining(P) \cup {opened + 1}
    BY <2>1, <2>2 DEF Remaining
  <2> DEFINE R == Remaining(P) \cup {opened + 1}
  <2>9. IsFiniteSet(R) /\ Cardinality(R) \in Nat /\ Cardinality(R) <= Cardinality(Remaining(P)) + 1
    <3>1. ASSUME NEW S, IsFiniteSet(S), NEW l
          PROVE  /\ IsFiniteSet(S \cup {l}) /\ Cardinality(S \cup {l}) \in Nat
                 /\ Cardinality(S \cup {l}) <= Cardinality(S) + 1
      <4>1. IsFiniteSet(S \cup {l}) /\ Cardinality(S) \in Nat /\ Cardinality(S \cup {l}) \in Nat
        BY <3>1, FS_AddElement, FS_CardinalityType
      <4>2. Cardinality(S \cup {l}) \in {Cardinality(S), Cardinality(S) + 1}
        BY <3>1, FS_AddElement
      <4> QED BY <4>1, <4>2
    <3> QED BY <2>5, <3>1
  <2> HIDE DEF P, R
  <2>10. ASSUME NEW T, T \subseteq R PROVE Cardinality(T) \in Nat /\ Cardinality(T) <= Cardinality(R)
    BY <2>9, <2>10, FS_Subset, FS_CardinalityType
  <2>11. Cardinality(Remaining(Q)') \in Nat /\ Cardinality(Remaining(Q)') <= Cardinality(R)
    BY <2>8, <2>10 DEF R
  <2>12. Most \in Nat
    BY ProcessesFinite DEF Most
  <2> QED BY <2>5, <2>6, <2>7, <2>9, <2>11, <2>12
<1>6. ASSUME NEW p \in Processes, WriteLine(p)
      PROVE  Cardinality(Remaining(Q)') + Cardinality(Q) <= Most
  <2>1. Range(logs') = Range(logs) /\ phase' = phase /\ stale' = stale
    BY <1>6, WriteTypes DEF WriteLine
  <2> QED BY <1>f, <1>p, <2>1 DEF Pruning
<1>7. ASSUME NEW p \in Processes, End(p)
      PROVE  Cardinality(Remaining(Q)') + Cardinality(Q) <= Most
  <2>1. logs' = logs /\ phase' = [phase EXCEPT ![p] = "none"] /\ stale' = [stale EXCEPT ![p] = {}]
    BY <1>7 DEF End
  <2>2. \A q \in Q : phase[q] = "pruning" /\ stale'[q] = stale[q]
    BY <1>p, <1>t, <2>1
  <2> QED BY <1>f, <1>p, <2>1, <2>2 DEF Pruning
<1> QED BY <1>1, <1>2, <1>3, <1>4, <1>5, <1>6, <1>7 DEF LogNext

\* The invariant of the logs always holds.
LEMMA LogInvAlways == LogSpec => []LogInv
<1>1. LogInv /\ [LogNext]_logVars => LogInv'
  BY LogTypes, NumberedStep, BudgetStep DEF LogInv
<1> QED BY <1>1, LogStart, PTL DEF LogSpec

\* By the invariant there are never more logs than the limit and the open processes allow.
LEMMA BudgetBounds == LogInv => LogsBounded
<1> SUFFICES ASSUME LogInv PROVE LogsBounded
  OBVIOUS
<1>1. {} \in SUBSET Pruning /\ Remaining({}) = Range(logs) /\ Cardinality({}) = 0
  BY FS_EmptySet DEF Remaining
<1>2. Cardinality(Remaining({})) + 0 <= Retained + Cardinality(Processes) - 1
  BY <1>1 DEF LogInv, Budget
<1>3. Cardinality(Range(logs)) = Len(logs) /\ Len(logs) \in Nat
  BY RangeSize DEF LogInv, LogTypeOK
<1> QED BY <1>1, <1>2, <1>3 DEF LogsBounded

\* However many windows and engines list, prune and open their logs at once,
\* the directory stays bounded (prune_old_logs, log_file_path).
THEOREM LogsStayBounded == LogSpec => [](LogTypeOK /\ LogsBounded)
<1>1. LogInv => LogTypeOK /\ LogsBounded
  BY BudgetBounds DEF LogInv
<1> QED BY <1>1, LogInvAlways, PTL
----
\* The window's own log.

\* One window, whose line about each engine it starts is written, and room for
\* at least its own log and two engines'.
OneRun == (\A v, w \in Operators : v = w) /\ Verbose /\ Retained > 2

\* Between two of the window's lines at most one engine is started: while one
\* is about to prune, at most one log is newer than the window's.
OursAt(w) ==
    LET g == <<w, "gui">>
        e == <<w, "engine">>
    IN  phase[g] = "running" =>
          /\ own[g] \in Range(logs) /\ own[g] \notin stale[e]
          /\ phase[e] \in {"listing", "pruning"} /\ ~owed[w] => Later(logs, own[g]) = {}
          /\ phase[e] = "running" /\ ~owed[w] => Later(logs, own[g]) \subseteq {own[e]}
          /\ (phase[e] = "none" /\ ~owed[w]) \/ phase[e] \in {"listing", "pruning"} =>
                \E x : Later(logs, own[g]) \subseteq {x}
Ours == \A w \in Operators : OursAt(w)

\* What is said of the window's log holds at the start.
LEMMA OursStart == LogInit => Ours
BY DEF LogInit, Ours, OursAt, Processes

\* The only processes, when there is one window.
LEMMA TheProcesses ==
    ASSUME OneRun, NEW w \in Operators, NEW p \in Processes
    PROVE  p = <<w, "gui">> \/ p = <<w, "engine">>
BY DEF OneRun, Processes

\* A log with at most one newer log is not among those a prune removes.
LEMMA NewestStay ==
    ASSUME LogTypeOK, Retained > 2, NEW y \in Range(logs), NEW x,
           Later(logs, y) \subseteq {x}
    PROVE  y \notin TooOld
<1>1. logs \in Seq(1..MaxLogs) /\ IsInjective(logs)
  BY DEF LogTypeOK
<1>2. Len(logs) \in Nat /\ DOMAIN logs = 1..Len(logs)
  BY <1>1
<1>3. PICK i \in 1..Len(logs) : logs[i] = y
  BY <1>2 DEF Range
<1>4. CASE Len(logs) - i < Retained - 1
  BY <1>1, <1>3, <1>4, KeptByPrune
<1>5. CASE ~(Len(logs) - i < Retained - 1)
  <2>1. Retained \in Nat
    BY LogAssumption
  <2>2. /\ Len(logs) \in 1..Len(logs) /\ Len(logs) - 1 \in 1..Len(logs)
        /\ i < Len(logs) /\ i < Len(logs) - 1
    BY <1>2, <1>5, <2>1
  <2>3. \A k \in 1..Len(logs) : i < k => logs[k] \in Later(logs, y)
    BY <1>2, <1>3 DEF Later, Range
  <2>4. logs[Len(logs)] = x /\ logs[Len(logs) - 1] = x
    BY <2>2, <2>3
  <2>5. Len(logs) = Len(logs) - 1
    BY <1>1, <1>2, <2>2, <2>4 DEF IsInjective
  <2> QED BY <1>2, <2>5
<1> QED BY <1>4, <1>5

\* In a run of one engine at a time no step prunes the log of a window that writes.
LEMMA OursStep ==
    LogTypeOK /\ Numbered /\ Ours /\ OneRun /\ [LogNext]_logVars => Ours'
<1> SUFFICES ASSUME LogTypeOK, Numbered, Ours, OneRun, [LogNext]_logVars, NEW w \in Operators
             PROVE  OursAt(w)'
  BY DEF Ours
<1> DEFINE g == <<w, "gui">>
           e == <<w, "engine">>
<1>0. g \in Processes /\ e \in Processes /\ g # e /\ g[1] = w /\ e[1] = w
      /\ g[2] = "gui" /\ e[2] = "engine" /\ \A p \in Processes : p = g \/ p = e
  BY TheProcesses DEF Processes
<1>w. \A v \in Operators : v = w
  BY DEF OneRun
<1>t. /\ phase \in [Processes -> {"none", "listing", "pruning", "running"}]
      /\ stale \in [Processes -> SUBSET (1..MaxLogs)] /\ own \in [Processes -> 0..MaxLogs]
      /\ owed \in [Operators -> BOOLEAN]
  BY DEF LogTypeOK
<1>n. /\ opened \in Nat /\ Range(logs) \subseteq 1..opened
      /\ stale[e] \subseteq 1..opened
      /\ phase[e] # "pruning" => stale[e] = {}
      /\ own[e] \in 0..opened /\ own[g] \in 0..opened
      /\ own[g] # 0 <=> phase[g] = "running"
      /\ own[e] # 0 <=> phase[e] = "running"
      /\ own[g] = own[e] => own[g] = 0
  <2>1. opened \in Nat /\ Range(logs) \subseteq 1..opened
    BY LogAssumption DEF LogTypeOK, Numbered
  <2>2. NumberedAt(g) /\ NumberedAt(e)
    BY <1>0 DEF Numbered
  <2> HIDE DEF g, e
  <2>3. own[g] = own[e] => own[g] = 0
    BY <1>0, <2>2 DEF NumberedAt
  <2> QED BY <2>1, <2>2, <2>3 DEF NumberedAt
<1>o. phase[g] = "running" =>
        /\ own[g] \in Range(logs) /\ own[g] \notin stale[e]
        /\ phase[e] \in {"listing", "pruning"} /\ ~owed[w] => Later(logs, own[g]) = {}
        /\ phase[e] = "running" /\ ~owed[w] => Later(logs, own[g]) \subseteq {own[e]}
        /\ (phase[e] = "none" /\ ~owed[w]) \/ phase[e] \in {"listing", "pruning"} =>
              \E x : Later(logs, own[g]) \subseteq {x}
  BY DEF Ours, OursAt
<1> SUFFICES ASSUME phase'[g] = "running"
    PROVE  /\ own'[g] \in Range(logs') /\ own'[g] \notin stale'[e]
           /\ phase'[e] \in {"listing", "pruning"} /\ ~owed'[w] => Later(logs', own'[g]) = {}
           /\ phase'[e] = "running" /\ ~owed'[w] => Later(logs', own'[g]) \subseteq {own'[e]}
           /\ (phase'[e] = "none" /\ ~owed'[w]) \/ phase'[e] \in {"listing", "pruning"} =>
                 \E x : Later(logs', own'[g]) \subseteq {x}
  BY DEF OursAt
<1> DEFINE Goal ==
           /\ own'[g] \in Range(logs') /\ own'[g] \notin stale'[e]
           /\ phase'[e] \in {"listing", "pruning"} /\ ~owed'[w] => Later(logs', own'[g]) = {}
           /\ phase'[e] = "running" /\ ~owed'[w] => Later(logs', own'[g]) \subseteq {own'[e]}
           /\ (phase'[e] = "none" /\ ~owed'[w]) \/ phase'[e] \in {"listing", "pruning"} =>
                 \E x : Later(logs', own'[g]) \subseteq {x}
<1> SUFFICES Goal OBVIOUS
<1> HIDE DEF g, e
<1>1. CASE UNCHANGED logVars
  BY <1>o, <1>1 DEF logVars
<1>2. ASSUME NEW v \in Operators, NEW role \in {"gui", "engine"}, Launch(v, role)
      PROVE  Goal
  <2>1. v = w
    BY <1>w
  <2>2. CASE role = "gui"
    <3>1. phase'[g] = "listing"
      BY <1>0, <1>2, <1>t, <2>1, <2>2 DEF Launch, g
    <3> QED BY <3>1
  <2>3. CASE role = "engine"
    <3>1. /\ phase' = [phase EXCEPT ![e] = "listing"] /\ UNCHANGED <<logs, stale, own>>
          /\ phase[e] = "none" /\ phase[g] = "running" /\ ~owed[w]
          /\ owed' = [owed EXCEPT ![w] = role = "engine" /\ Verbose]
      BY <1>2, <2>1, <2>3 DEF Launch, g, e
    <3>2. phase'[e] = "listing" /\ owed'[w]
      BY <1>0, <1>t, <2>3, <3>1 DEF OneRun
    <3> QED BY <1>o, <3>1, <3>2
  <2> QED BY <2>2, <2>3
<1>3. ASSUME NEW p \in Processes, ListLogs(p)
      PROVE  Goal
  <2>1. /\ phase' = [phase EXCEPT ![p] = "pruning"] /\ phase[p] = "listing"
        /\ stale' = [stale EXCEPT ![p] = TooOld] /\ UNCHANGED <<logs, own, owed>>
    BY <1>3 DEF ListLogs
  <2>2. CASE p = g
    BY <1>0, <1>t, <2>1, <2>2
  <2>3. CASE p = e
    <3>1. phase[g] = "running" /\ phase'[e] = "pruning" /\ stale'[e] = TooOld
      BY <1>0, <1>t, <2>1, <2>3
    <3>2. PICK x : Later(logs, own[g]) \subseteq {x}
      BY <1>o, <2>1, <2>3, <3>1
    <3>3. own[g] \in Range(logs)
      BY <1>o, <3>1
    <3>4. own[g] \notin TooOld
      BY <3>2, <3>3, NewestStay DEF OneRun
    <3> QED BY <1>o, <2>1, <2>3, <3>1, <3>2, <3>4
  <2> QED BY <1>0, <2>2, <2>3
<1>4. ASSUME NEW p \in Processes, RemoveLog(p)
      PROVE  Goal
  <2>1. phase[p] = "pruning" /\ UNCHANGED <<phase, own, owed>>
    BY <1>4 DEF RemoveLog
  <2>2. PICK l \in stale[p] :
             /\ stale' = [stale EXCEPT ![p] = stale[p] \ {l}]
             /\ Range(logs') = Range(logs) \ {l}
             /\ \A x \in Range(logs) \ {l} : Later(logs', x) \subseteq Later(logs, x) \ {l}
    BY <1>4, RemoveTypes
  <2>3. p = e
    BY <1>0, <2>1
  <2>4. phase[g] = "running" /\ stale'[e] \subseteq stale[e] /\ own[g] # l /\ own[g] \in Range(logs)
    BY <1>0, <1>o, <1>t, <2>1, <2>2, <2>3
  <2>5. Later(logs', own[g]) \subseteq Later(logs, own[g]) /\ own[g] \in Range(logs')
    BY <2>2, <2>4
  <2> QED BY <1>o, <2>1, <2>4, <2>5
<1>5. ASSUME NEW p \in Processes, OpenLog(p)
      PROVE  Goal
  <2>1. /\ Range(logs') = Range(logs) \cup {opened + 1} /\ Later(logs', opened + 1) = {}
        /\ \A x \in Range(logs) : Later(logs', x) \subseteq Later(logs, x) \cup {opened + 1}
    BY <1>5, <1>n, OpenTypes
  <2>2. /\ stale[p] = {} /\ phase[p] = "pruning" /\ UNCHANGED <<stale, owed>>
        /\ phase' = [phase EXCEPT ![p] = "running"] /\ own' = [own EXCEPT ![p] = opened + 1]
    BY <1>5 DEF OpenLog, FreshName
  <2>3. CASE p = g
    <3>1. own'[g] = opened + 1 /\ opened + 1 \notin 1..opened
      BY <1>0, <1>n, <1>t, <2>2, <2>3
    <3> QED BY <1>n, <2>1, <2>2, <3>1
  <2>4. CASE p = e
    <3>1. /\ phase[g] = "running" /\ own'[g] = own[g] /\ phase'[e] = "running"
          /\ own'[e] = opened + 1
      BY <1>0, <1>t, <2>2, <2>4
    <3>2. own[g] \in Range(logs) /\ (~owed[w] => Later(logs, own[g]) = {})
      BY <1>o, <2>2, <2>4, <3>1
    <3>3. ~owed'[w] => Later(logs', own'[g]) \subseteq {own'[e]}
      BY <2>1, <2>2, <3>1, <3>2
    <3> QED BY <2>1, <2>2, <2>4, <3>1, <3>2, <3>3
  <2> QED BY <1>0, <2>3, <2>4
<1>6. ASSUME NEW p \in Processes, WriteLine(p)
      PROVE  Goal
  <2>1. /\ Range(logs') = Range(logs)
        /\ own[p] \in Range(logs) => Later(logs', own[p]) = {}
        /\ \A x \in Range(logs) \ {own[p]} : Later(logs', x) \subseteq Later(logs, x) \cup {own[p]}
        /\ \A x \in Range(logs) \ {own[p]} :
              own[p] \notin Range(logs) => Later(logs', x) \subseteq Later(logs, x)
    BY <1>6, WriteTypes
  <2>2. /\ phase[p] = "running" /\ UNCHANGED <<phase, stale, own>>
        /\ owed' = [owed EXCEPT ![p[1]] = @ /\ p[2] = "engine"]
    BY <1>6 DEF WriteLine
  <2>3. phase[g] = "running" /\ own[g] \in Range(logs) /\ own[g] \notin stale[e]
    BY <1>o, <2>2
  <2>4. CASE p = g
    <3>1. Later(logs', own[g]) = {}
      BY <2>1, <2>3, <2>4
    <3> QED BY <2>1, <2>2, <2>3, <3>1
  <2>5. CASE p = e
    <3>1. owed'[w] = owed[w]
      BY <1>0, <1>t, <2>2, <2>5
    <3>2. own[g] # own[e]
      BY <1>n, <2>3
    <3>3. Later(logs', own[g]) \subseteq Later(logs, own[g]) \cup {own[e]}
      BY <2>1, <2>3, <2>5, <3>2
    <3>4. phase[e] = "running"
      BY <2>2, <2>5
    <3> QED BY <1>o, <2>1, <2>2, <2>3, <3>1, <3>3, <3>4
  <2> QED BY <1>0, <2>4, <2>5
<1>7. ASSUME NEW p \in Processes, End(p)
      PROVE  Goal
  <2>1. /\ UNCHANGED <<logs>> /\ phase' = [phase EXCEPT ![p] = "none"] /\ phase[p] # "none"
        /\ stale' = [stale EXCEPT ![p] = {}] /\ own' = [own EXCEPT ![p] = 0]
        /\ owed' = [owed EXCEPT ![p[1]] = @ /\ p[2] = "engine"]
    BY <1>7 DEF End
  <2>2. CASE p = g
    BY <1>0, <1>t, <2>1, <2>2
  <2>3. CASE p = e
    <3>1. /\ owed'[w] = owed[w] /\ phase'[e] = "none" /\ stale'[e] = {} /\ own'[g] = own[g]
          /\ phase[g] = "running"
      BY <1>0, <1>t, <2>1, <2>3
    <3>2. ~owed[w] => \E x : Later(logs, own[g]) \subseteq {x}
      <4>1. phase[e] \in {"listing", "pruning", "running"}
        BY <1>0, <1>t, <2>1, <2>3
      <4> QED BY <1>o, <3>1, <4>1
    <3> QED BY <1>o, <2>1, <3>1, <3>2
  <2> QED BY <1>0, <2>2, <2>3
<1> HIDE DEF Goal
<1> QED BY <1>1, <1>2, <1>3, <1>4, <1>5, <1>6, <1>7 DEF LogNext

\* With one window that logs the engines it starts, no number of restarts lets
\* their prunes remove the log the window is still writing (start_engine,
\* prune_old_logs, write_line).
THEOREM LogsAreKept == LogSpec => [](OneRun => LogsKept)
<1> DEFINE Kept == OneRun => Ours
<1>1. LogInit => Kept
  BY OursStart
<1>2. LogInv /\ Kept /\ [LogNext]_logVars => Kept'
  <2>1. OneRun' <=> OneRun
    BY DEF OneRun
  <2> QED BY <2>1, OursStep DEF LogInv
<1>3. LogInv /\ Kept => (OneRun => LogsKept)
  BY BudgetBounds DEF LogInv, LogsKept, WindowLogKept, Ours, OursAt
<1> HIDE DEF Kept
<1> QED BY <1>1, <1>2, <1>3, LogInvAlways, PTL DEF LogSpec

====
