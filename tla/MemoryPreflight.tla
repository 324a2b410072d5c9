---- MODULE MemoryPreflight ----
(***************************************************************************)
(* The memory preflight of RandomX (gui.rs 1498-1627, main.rs 54-333 and   *)
(* 2067-2154).                                                             *)
(*                                                                         *)
(* The window scans the machine's memory, every ten seconds and before     *)
(* each start, and refuses to start an engine that does not fit.  The      *)
(* engine scans again before its first RandomX job.  When the scan is      *)
(* unavailable the operator may confirm instead, and the confirmation is   *)
(* handed to the engine on its command line.  On macOS a scan is a child   *)
(* process with a deadline: it may hang, fail, or refuse to be killed.     *)
(*                                                                         *)
(* Memory is counted in units; a reading is a number of available units or *)
(* NoReading.  What other programs use is not modelled: each scan reads    *)
(* any of Readings.                                                        *)
(*                                                                         *)
(* An abandoned background scan ends before the next one is started.       *)
(*                                                                         *)
(* WithoutHeadroom, JoinRegardless, KeepingConfirmation, CountsFromZero    *)
(* and WithoutConfirmation are faulty variants of the operators that       *)
(* follow them; no step uses them.                                         *)
(***************************************************************************)
EXTENDS Integers, FiniteSets

CONSTANTS
    Total,         \* the machine's memory
    Readings,      \* the available units a scan may read
    DatasetUnits,  \* RANDOMX_DATASET_GIB
    LightUnits,    \* RANDOMX_LIGHT_CACHE_MIB
    WorkerUnits,   \* RANDOMX_WORKER_MIB
    MinHeadroom,   \* MIN_MEMORY_HEADROOM_GIB
    MaxHeadroom,   \* MAX_MEMORY_HEADROOM_GIB
    MaxWorkers     \* bound: 64 in the code

ASSUME MemoryAssumption ==
    /\ Total \in Nat \ {0} /\ Readings \subseteq 0..Total
    /\ {DatasetUnits, LightUnits, WorkerUnits, MinHeadroom, MaxHeadroom} \subseteq Nat
    /\ MinHeadroom <= MaxHeadroom /\ LightUnits <= DatasetUnits /\ DatasetUnits # 0
    /\ MaxWorkers \in Nat \ {0}

VARIABLES
    system,     \* "macos", or "other" where a scan is one call
    workers,    \* Settings.workers
    recovery,   \* "none", "single" or "light": the supervisor's escalation
    snapshot,   \* memory_snapshot: a reading or NoReading
    confirmed,  \* memory_acknowledged
    shownFor,   \* how many workers the confirmation was for, 0 for none
    due,        \* MEMORY_REFRESH_INTERVAL has passed
    gui,        \* "frame", or where a start is: "waiting", "scanning", "deciding"
    receiver,   \* memory_probe: the background scan is awaited
    scan,       \* per scanning thread: where query_memory_counters is
    child,      \* per scanning thread: its memory_pressure process
    answer,     \* per scanning thread: its result
    engine      \* the engine: state, workers, light, confirmed, basis, reading

scans == <<scan, child, answer>>
window == <<workers, recovery, snapshot, confirmed, shownFor, due, gui, receiver>>
memoryVars == <<system, window, scans, engine>>

NoReading == Total + 1
Threads == {"gui", "probe", "engine"}
NoEngine == [state |-> "none", workers |-> 0, light |-> FALSE, confirmed |-> FALSE,
             basis |-> NoReading, reading |-> NoReading]

-----------------------------------------------------------------------------
\* What RandomX needs, and what is left to the rest of the machine.

Clamped(n, low, high) == IF n < low THEN low ELSE IF n > high THEN high ELSE n
HeadroomUnits == Clamped(Total \div 10, MinHeadroom, MaxHeadroom)
EngineUnits(count, light) ==
    (IF light THEN LightUnits ELSE DatasetUnits) + WorkerUnits * count
Fits(reading, count, light) == reading >= EngineUnits(count, light) + HeadroomUnits

\* recommended_worker_limit: the largest count that fits, 0 if none does.
WithoutHeadroom(reading) == reading
Usable(reading) == IF reading > HeadroomUnits THEN reading - HeadroomUnits ELSE 0
RecommendedLimit(reading) ==
    LET fitting == {n \in 1..MaxWorkers : EngineUnits(n, FALSE) <= Usable(reading)}
    IN  IF fitting = {} THEN 0 ELSE CHOOSE n \in fitting : \A m \in fitting : m <= n

EffectiveWorkers == IF recovery = "none" THEN workers ELSE 1
Light == recovery = "light"

\* memory_preflight_error: no start without room, or without a confirmation
\* when nothing could be read.
PreflightError ==
    IF snapshot = NoReading THEN ~confirmed
    ELSE ~Fits(snapshot, EffectiveWorkers, Light)

MemoryAt(os) ==
    /\ system = os
    /\ workers = 1 /\ recovery = "none"
    /\ snapshot \in Readings \cup {NoReading}
    /\ confirmed = FALSE /\ shownFor = 0
    /\ due = FALSE /\ gui = "frame" /\ receiver = FALSE
    /\ scan = [t \in Threads |-> "idle"]
    /\ child = [t \in Threads |-> "none"]
    /\ answer = [t \in Threads |-> NoReading]
    /\ engine = NoEngine

MemoryInit == \E os \in {"macos", "other"} : MemoryAt(os)

-----------------------------------------------------------------------------
\* query_memory_counters: the threads that scan.

\* The scan begins: one call elsewhere, a child process on macOS, which may
\* not start.
BeginScan(t) ==
    IF system = "macos"
    THEN \/ /\ scan' = [scan EXCEPT ![t] = "polling"]
            /\ child' = [child EXCEPT ![t] = "running"]
            /\ UNCHANGED answer
         \/ /\ scan' = [scan EXCEPT ![t] = "answered"]
            /\ answer' = [answer EXCEPT ![t] = NoReading]
            /\ UNCHANGED child
    ELSE /\ scan' = [scan EXCEPT ![t] = "answered"]
         /\ \E r \in Readings \cup {NoReading} : answer' = [answer EXCEPT ![t] = r]
         /\ UNCHANGED child

\* memory_pressure ends by itself: with a reading, or with nothing to parse.
ScanEnds(t) ==
    /\ child[t] = "running"
    /\ child' = [child EXCEPT ![t] = "ended"]
    /\ \E r \in Readings \cup {NoReading} : answer' = [answer EXCEPT ![t] = r]
    /\ UNCHANGED <<system, window, scan, engine>>

\* try_wait sees the end; both output readers are then joined.
Reap(t) ==
    /\ scan[t] = "polling" /\ child[t] = "ended"
    /\ scan' = [scan EXCEPT ![t] = "joining"]
    /\ UNCHANGED <<system, window, child, answer, engine>>

\* The cleanup of a child that cannot be killed leaves the readers alone.
JoinRegardless(t) ==
    /\ child' = [child EXCEPT ![t] = "stuck"]
    /\ scan' = [scan EXCEPT ![t] = "joining"]
DetachReaders(t) ==
    /\ child' = [child EXCEPT ![t] = "stuck"]
    /\ scan' = [scan EXCEPT ![t] = "answered"]

\* The deadline has passed, or the child cannot be observed: it is killed,
\* waited for and its readers joined, or abandoned when that fails.
Overdue(t) ==
    /\ scan[t] = "polling" /\ child[t] = "running"
    /\ \/ /\ child' = [child EXCEPT ![t] = "ended"]
          /\ scan' = [scan EXCEPT ![t] = "joining"]
       \/ DetachReaders(t)
    /\ answer' = [answer EXCEPT ![t] = NoReading]
    /\ UNCHANGED <<system, window, engine>>

\* The readers end with the pipes of the child.
Join(t) ==
    /\ scan[t] = "joining" /\ child[t] = "ended"
    /\ scan' = [scan EXCEPT ![t] = "answered"]
    /\ UNCHANGED <<system, window, child, answer, engine>>

Forgotten(t) ==
    /\ scan' = [scan EXCEPT ![t] = "idle"]
    /\ child' = [child EXCEPT ![t] = "none"]
    /\ UNCHANGED answer

\* A background scan nobody awaits any more sends into a closed channel.
ProbeDiscarded ==
    /\ scan["probe"] = "answered" /\ ~receiver
    /\ Forgotten("probe")
    /\ UNCHANGED <<system, window, engine>>

-----------------------------------------------------------------------------
\* The window between starts.

IntervalElapses ==
    /\ gui = "frame" /\ ~due
    /\ due' = TRUE
    /\ UNCHANGED <<system, workers, recovery, snapshot, confirmed, shownFor, gui, receiver,
                   scans, engine>>

\* refresh_memory_if_due, macOS: take the background scan's result, or start
\* the next one.
TakeProbe ==
    /\ gui = "frame" /\ receiver /\ scan["probe"] = "answered"
    /\ snapshot' = answer["probe"] /\ receiver' = FALSE
    /\ Forgotten("probe")
    /\ UNCHANGED <<system, workers, recovery, confirmed, shownFor, due, gui, engine>>

StartProbe ==
    /\ system = "macos" /\ gui = "frame" /\ due /\ ~receiver /\ scan["probe"] = "idle"
    /\ due' = FALSE
    /\ \/ receiver' = TRUE /\ BeginScan("probe") /\ UNCHANGED snapshot
       \/ receiver' = FALSE /\ snapshot' = NoReading /\ UNCHANGED scans
    /\ UNCHANGED <<system, workers, recovery, confirmed, shownFor, gui, engine>>

\* refresh_memory_if_due elsewhere: one call.
RefreshNow ==
    /\ system = "other" /\ gui = "frame" /\ due
    /\ due' = FALSE
    /\ snapshot' \in Readings \cup {NoReading}
    /\ UNCHANGED <<system, workers, recovery, confirmed, shownFor, gui, receiver, scans, engine>>

\* The operator changes the worker count, which withdraws the confirmation.
KeepingConfirmation == UNCHANGED <<confirmed, shownFor>>
Withdrawn == confirmed' = FALSE /\ shownFor' = 0

CountsFromZero == 0..MaxWorkers
Counts == 1..MaxWorkers

ChangeWorkers ==
    /\ gui = "frame" /\ engine.state = "none"
    /\ workers' \in Counts \ {workers}
    /\ Withdrawn
    /\ UNCHANGED <<system, recovery, snapshot, due, gui, receiver, scans, engine>>

\* The confirmation is offered while the scan is unavailable.
Confirm ==
    /\ gui = "frame" /\ engine.state = "none" /\ snapshot = NoReading
    /\ confirmed' = ~confirmed
    /\ shownFor' = IF confirmed THEN 0 ELSE workers
    /\ UNCHANGED <<system, workers, recovery, snapshot, due, gui, receiver, scans, engine>>

-----------------------------------------------------------------------------
\* A start: refresh_memory_now, the preflight, the command line.

BeginStart ==
    IF system = "macos" /\ receiver
    THEN gui' = "waiting" /\ UNCHANGED scans
    ELSE gui' = "scanning" /\ BeginScan("gui")

\* The operator's Start gives up the recovery mode; the supervisor's restart
\* keeps it.
Start ==
    /\ gui = "frame" /\ engine.state = "none"
    /\ recovery' \in {"none", recovery}
    /\ BeginStart
    /\ UNCHANGED <<system, workers, snapshot, confirmed, shownFor, due, receiver, engine>>

\* The background scan answers in time, or the wait for it is over; its
\* channel is dropped either way.
ProbeAwaited ==
    /\ gui = "waiting"
    /\ \/ scan["probe"] = "answered" /\ snapshot' = answer["probe"] /\ Forgotten("probe")
       \/ scan["probe"] # "answered" /\ snapshot' = NoReading /\ UNCHANGED scans
    /\ gui' = "deciding" /\ receiver' = FALSE
    /\ UNCHANGED <<system, workers, recovery, confirmed, shownFor, due, engine>>

Scanned ==
    /\ gui = "scanning" /\ scan["gui"] = "answered"
    /\ snapshot' = answer["gui"]
    /\ Forgotten("gui") /\ gui' = "deciding"
    /\ UNCHANGED <<system, workers, recovery, confirmed, shownFor, due, receiver, engine>>

\* headless_command: the confirmation is forwarded only without a reading.
WithoutConfirmation == FALSE
ForwardedConfirmation == snapshot = NoReading /\ confirmed

Decide ==
    /\ gui = "deciding"
    /\ gui' = "frame"
    /\ engine' = IF PreflightError THEN NoEngine
                 ELSE [state |-> "started", workers |-> EffectiveWorkers, light |-> Light,
                       confirmed |-> ForwardedConfirmation,
                       basis |-> snapshot, reading |-> NoReading]
    /\ UNCHANGED <<system, workers, recovery, snapshot, confirmed, shownFor, due, receiver, scans>>

-----------------------------------------------------------------------------
\* The engine: RandomxMemoryGate.

\* A RandomX job finds the gate not yet approved.
EnsureSafe ==
    /\ engine.state \in {"started", "refused"}
    /\ engine' = [engine EXCEPT !.state = "checking"]
    /\ BeginScan("engine")
    /\ UNCHANGED <<system, window>>

\* resolve_headless_memory.
ResolveMemory ==
    LET reading == answer["engine"]
        safe == IF reading = NoReading THEN engine.confirmed
                ELSE Fits(reading, engine.workers, engine.light)
    IN  /\ engine.state = "checking" /\ scan["engine"] = "answered"
        /\ engine' = [engine EXCEPT !.state = IF safe THEN "approved" ELSE "refused",
                                    !.reading = reading]
        /\ Forgotten("engine")
        /\ UNCHANGED <<system, window>>

\* The engine ends, at any time; on Windows the supervisor may then lower the
\* number of workers or fall back to the light cache.
EngineEnds ==
    /\ engine.state # "none" /\ gui = "frame"
    /\ engine' = NoEngine
    /\ scan' = [scan EXCEPT !["engine"] = "idle"]
    /\ child' = [child EXCEPT !["engine"] = "none"]
    /\ recovery' \in {recovery} \cup (IF system = "other" THEN {"single", "light"} ELSE {})
    /\ UNCHANGED <<system, workers, snapshot, confirmed, shownFor, due, gui, receiver, answer>>

-----------------------------------------------------------------------------

ScanStep(t) == Reap(t) \/ Overdue(t) \/ Join(t)

MemoryNext ==
    \/ \E t \in Threads : ScanEnds(t) \/ ScanStep(t)
    \/ ProbeDiscarded
    \/ IntervalElapses \/ TakeProbe \/ StartProbe \/ RefreshNow
    \/ ChangeWorkers \/ Confirm
    \/ Start \/ ProbeAwaited \/ Scanned \/ Decide
    \/ EnsureSafe \/ ResolveMemory \/ EngineEnds

MemorySpec == MemoryInit /\ [][MemoryNext]_memoryVars

\* A scanning thread keeps running, and its deadline passes; so does the
\* 600 ms wait of a start.  Nothing is assumed of the scanned child.
MemoryFairness ==
    /\ \A t \in Threads : WF_memoryVars(ScanStep(t))
    /\ WF_memoryVars(ProbeAwaited) /\ WF_memoryVars(Scanned) /\ WF_memoryVars(Decide)
    /\ WF_memoryVars(ResolveMemory)

-----------------------------------------------------------------------------
\* Properties.

Scan == 0..NoReading

\* The types of the variables.
MemoryTypeOK ==
    /\ system \in {"macos", "other"}
    /\ workers \in 1..MaxWorkers /\ recovery \in {"none", "single", "light"}
    /\ snapshot \in Scan /\ confirmed \in BOOLEAN /\ shownFor \in 0..MaxWorkers
    /\ due \in BOOLEAN /\ receiver \in BOOLEAN
    /\ gui \in {"frame", "waiting", "scanning", "deciding"}
    /\ scan \in [Threads -> {"idle", "polling", "joining", "answered"}]
    /\ child \in [Threads -> {"none", "running", "ended", "stuck"}]
    /\ answer \in [Threads -> Scan]
    /\ engine \in [state : {"none", "started", "checking", "approved", "refused"},
                   workers : 0..MaxWorkers, light : BOOLEAN, confirmed : BOOLEAN,
                   basis : Scan, reading : Scan]

\* The two preflights agree: an engine refuses RandomX only when its own scan
\* read something else than the scan the window started it on.  The worker
\* count, the light mode and the confirmation all reach it.
GateAgrees ==
    engine.state = "refused" => engine.reading # engine.basis

\* An engine that runs RandomX without a reading was confirmed by the
\* operator for at least as many workers as it runs.
ConfirmedForCount ==
    engine.state = "approved" /\ engine.reading = NoReading =>
        shownFor >= engine.workers

\* The worker limit the window recommends is exactly what its preflight
\* accepts.
LimitAgrees ==
    snapshot # NoReading /\ recovery = "none" =>
        (workers <= RecommendedLimit(snapshot) <=> ~PreflightError)

\* A start always comes to a decision and an engine's check to an answer,
\* even when memory_pressure hangs or cannot be killed.
ScansAnswer ==
    /\ gui # "frame" ~> gui = "frame"
    /\ engine.state = "checking" ~> engine.state # "checking"

\* The window and its engine never disagree about one reading, and nothing runs
\* that neither a reading nor the operator allowed.
PreflightSound == MemoryTypeOK /\ GateAgrees /\ ConfirmedForCount /\ LimitAgrees

=============================================================================
