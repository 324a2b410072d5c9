-------------------------- MODULE EngineSupervisor --------------------------
(***************************************************************************)
(* The window's supervision of the mining engine, which runs in a child    *)
(* process (MinerApp in gui.rs): starting it, reading its output, noticing *)
(* its end, restarting it after a delay, stopping it, and what becomes of  *)
(* a process that cannot be killed or observed.                            *)
(*                                                                         *)
(* Concurrent are: the operator and the frames of the window, on one       *)
(* thread; the engine process; the two threads that read its pipes into a  *)
(* bounded queue; the clocks.  poll_process, which a frame runs, is split  *)
(* where the process or the readers can move in between.  Any call of the  *)
(* operating system may fail wherever the code handles it.                 *)
(*                                                                         *)
(* What a message does to the dashboard is in TelemetryView; here a message*)
(* is only what it means to supervision.                                   *)
(*                                                                         *)
(* Some definitions follow a variant of themselves that holds a plausible  *)
(* mistake (LiveStateOfChild before LiveState).  No action uses a variant: *)
(* PROJECT.json says which property refutes it.                            *)
(***************************************************************************)
EXTENDS Naturals, Sequences, FiniteSets

CONSTANTS
  Engines,        \* names for processes; a name is free again once reaped
  NoEngine,       \* no process held
  NoCode,         \* no exit status pending
  MaxRestarts,    \* MAX_AUTOMATIC_ENGINE_RESTARTS
  QueueCapacity,  \* CHILD_OUTPUT_QUEUE_CAPACITY
  FrameBudget,    \* MAX_PROCESS_MESSAGES_PER_FRAME
  Platforms       \* the builds considered: "unix", "windows", "other"

ASSUME SupervisorAssumption ==
  /\ IsFiniteSet(Engines)
  /\ NoEngine \notin Engines
  /\ {MaxRestarts, QueueCapacity, FrameBudget} \subseteq Nat \ {0}
  /\ Platforms \subseteq {"unix", "windows", "other"}

\* Exit statuses, as far as the code tells them apart.  "killed" is the status
\* of a process ended by Child::kill: signal 9 on Unix, code 1 on Windows;
\* "fault" is an exhausted memory or a native fault, "dll" a missing library.
Codes == {"killed", "failed", "fault", "dll"}
ASSUME NoCodeAssumption == NoCode \notin Codes

\* What an engine may exit with by itself: another process may send signal 9,
\* and a failing engine may use code 1.
OwnCodes == [unix    |-> {"killed", "failed"},
             windows |-> Codes,
             other   |-> {"failed"}]

Messages == {"connecting", "job", "metrics", "session_error", "engine_fatal"}
Phases == {"Idle", "Starting", "Connecting", "Mining", "Reconnecting",
           "Stopping", "Error"}
Tiers == {"optimized", "single", "light"}  \* single_worker_, light_randomx_recovery

VARIABLES
  platform,
  proc,           \* the processes: "free", "alive", "dying" or an exit code not reaped
  open,           \* the window exists
  child, quarantined,           \* the Child handles it holds
  pendingExit, pendingFailure,  \* an end that waits for the last output
  receiver,       \* the queue of output is being read
  readers,        \* reader threads that have not ended
  queue,
  disconnectedAt, \* a reader ended although the child is not waitable
  requestedStop,  \* kill succeeded on the child
  fatalSeen,
  recovery,       \* automatic restarts: enabled, attempts, when, and the tier
  stableSince,
  phase, linkLive,
  step, left, drained,  \* where a frame is: messages it may still read, its result
  operator,       \* history: the operator's last word
  launches,       \* history: automatic launches since Start or a renewed budget
  starved         \* history: an engine died of memory or a native fault since Start

processVars == <<platform, proc>>
handleVars  == <<open, child, quarantined, pendingExit, pendingFailure>>
outputVars  == <<receiver, readers, queue, disconnectedAt>>
stopVars    == <<requestedStop, fatalSeen>>
viewVars    == <<phase, linkLive, stableSince>>
frameVars   == <<step, left, drained>>
historyVars == <<operator, launches, starved>>
vars == <<processVars, handleVars, outputVars, stopVars, recovery, viewVars,
          frameVars, historyVars>>

NoRecovery == [enabled |-> FALSE, attempts |-> 0, due |-> "never",
               tier |-> "optimized"]

Running(e) == proc[e] \in {"alive", "dying"}
EngineGone == \A e \in Engines : ~Running(e)

LiveStateOfChild == child # NoEngine \/ pendingExit # NoCode \/ pendingFailure # "none"
LiveState ==
  \/ child # NoEngine
  \/ quarantined # NoEngine
  \/ pendingExit # NoCode
  \/ pendingFailure # "none"

IsRunning == LiveState \/ recovery.due # "never"

Init ==
  /\ platform \in Platforms
  /\ proc = [e \in Engines |-> "free"]
  /\ open = TRUE
  /\ child = NoEngine /\ quarantined = NoEngine
  /\ pendingExit = NoCode /\ pendingFailure = "none"
  /\ receiver = FALSE /\ readers = 0 /\ queue = <<>> /\ disconnectedAt = "never"
  /\ requestedStop = FALSE /\ fatalSeen = FALSE
  /\ recovery = NoRecovery
  /\ phase = "Idle" /\ linkLive = FALSE /\ stableSince = "never"
  /\ step = "idle" /\ left = FrameBudget /\ drained = FALSE
  /\ operator = "none" /\ launches = 0 /\ starved = FALSE

-----------------------------------------------------------------------------
(* Helpers of the window.                                                  *)

\* terminate_and_reap_child: whether the end was confirmed, and what is left.
\* A kill that fails leaves the process as it is; a wait that fails after the
\* kill leaves one that ends on its own.
TerminateAndReap(p) ==
  {[ok |-> TRUE, left |-> "free"], [ok |-> FALSE, left |-> p]}
    \cup (IF p = "alive" THEN {[ok |-> FALSE, left |-> "dying"]} ELSE {})

ExhaustedOneLate(attempts) == attempts > MaxRestarts
Exhausted(attempts) == attempts >= MaxRestarts

SingleAgain(tier) == IF platform = "windows" THEN "single" ELSE tier
SingleAtLeast(tier) ==
  IF platform = "windows" /\ tier = "optimized" THEN "single" ELSE tier

\* schedule_automatic_restart, on recovery state r, and the phase it leaves;
\* `stop` is requested_stop at that moment.
MaySchedule(stop, r) == ~stop /\ r.enabled

Scheduled(stop, r) ==
  IF ~MaySchedule(stop, r) THEN r
  ELSE IF Exhausted(r.attempts)
    THEN [r EXCEPT !.enabled = FALSE, !.due = "never", !.tier = SingleAtLeast(@)]
    ELSE [r EXCEPT !.attempts = @ + 1, !.due = "later", !.tier = SingleAtLeast(@)]

ScheduledPhase(stop, r) ==
  IF MaySchedule(stop, r) /\ ~Exhausted(r.attempts) THEN "Reconnecting" ELSE "Error"

\* recovery_escalation ...
Escalation(r, code) ==
  IF platform # "windows" THEN "keep"
  ELSE IF code = "dll" THEN "terminal"
  ELSE IF r.tier # "light" /\ (code = "fault" \/ r.attempts >= 1) THEN "light"
  ELSE "keep"

\* ... and what finish_exited_child does with it.
Escalated(r, code) ==
  CASE Escalation(r, code) = "keep" -> [r EXCEPT !.tier = SingleAtLeast(@)]
    [] Escalation(r, code) = "light" -> [r EXCEPT !.tier = "light"]
    [] Escalation(r, code) = "terminal" -> [r EXCEPT !.enabled = FALSE]

\* exit_status_matches_requested_stop
MatchesAny(code) == TRUE
MatchesRequestedStop(code) == code = "killed" /\ platform # "other"

\* Messages that reach a window that has seen a fatal end, or asked for one,
\* change nothing (head of apply_telemetry).
Ignored(m) == fatalSeen \/ (requestedStop /\ m # "engine_fatal")

-----------------------------------------------------------------------------
(* The engine, its readers and the clocks.                                 *)

EngineExits(e) ==
  /\ open /\ Running(e)
  /\ \E code \in OwnCodes[platform] \cup (IF proc[e] = "dying" THEN {"killed"} ELSE {}) :
       proc' = [proc EXCEPT ![e] = code]
  /\ UNCHANGED <<platform, handleVars, outputVars, stopVars, recovery, viewVars,
                 frameVars, historyVars>>

\* A reader delivers a line: of the engine, or of the tail left in its pipe.
ReaderDelivers ==
  /\ receiver /\ readers > 0 /\ Len(queue) < QueueCapacity
  /\ \E m \in Messages : queue' = Append(queue, m)
  /\ UNCHANGED <<processVars, handleVars, receiver, readers, disconnectedAt,
                 stopVars, recovery, viewVars, frameVars, historyVars>>

\* A reader ends at the end of its pipe, or because reading failed.
ReaderEnds ==
  /\ receiver /\ readers > 0
  /\ readers' = readers - 1
  /\ UNCHANGED <<processVars, handleVars, receiver, queue, disconnectedAt,
                 stopVars, recovery, viewVars, frameVars, historyVars>>

RestartComesDue ==
  /\ recovery.due = "later"
  /\ recovery' = [recovery EXCEPT !.due = "now"]
  /\ UNCHANGED <<processVars, handleVars, outputVars, stopVars, viewVars,
                 frameVars, historyVars>>

DrainGraceElapses ==
  /\ pendingFailure = "draining"
  /\ pendingFailure' = "overdue"
  /\ UNCHANGED <<processVars, open, child, quarantined, pendingExit, outputVars,
                 stopVars, recovery, viewVars, frameVars, historyVars>>

DisconnectGraceElapses ==
  /\ disconnectedAt = "lately"
  /\ disconnectedAt' = "long ago"
  /\ UNCHANGED <<processVars, handleVars, receiver, readers, queue, stopVars,
                 recovery, viewVars, frameVars, historyVars>>

StabilityElapses ==
  /\ stableSince = "lately"
  /\ stableSince' = "long ago"
  /\ UNCHANGED <<processVars, handleVars, outputVars, stopVars, recovery, phase,
                 linkLive, frameVars, historyVars>>

-----------------------------------------------------------------------------
(* Starting (start, start_engine, fail_engine_start).  r is the recovery   *)
(* state the attempt begins with.                                          *)

FailStart(automatic, stop, r) ==
  /\ recovery' = IF automatic THEN Scheduled(stop, r) ELSE r
  /\ phase' = IF automatic THEN ScheduledPhase(stop, r) ELSE "Error"

\* The part of reset_telemetry that supervision reads, and the fresh latch.
ResetKeepingStop ==
  /\ UNCHANGED requestedStop /\ fatalSeen' = FALSE
  /\ linkLive' = FALSE /\ stableSince' = "never" /\ disconnectedAt' = "never"
  /\ pendingFailure' = "none"
ResetForStart ==
  /\ requestedStop' = FALSE /\ fatalSeen' = FALSE
  /\ linkLive' = FALSE /\ stableSince' = "never" /\ disconnectedAt' = "never"
  /\ pendingFailure' = "none"

\* The settings are invalid, or the memory preflight refuses.
StartRefused(automatic, r) ==
  /\ UNCHANGED <<proc, child, quarantined, pendingFailure, outputVars, stopVars,
                 linkLive, stableSince>>
  /\ FailStart(automatic, requestedStop, r)

SpawnFails(automatic, r) ==
  /\ ResetForStart
  /\ UNCHANGED <<proc, child, quarantined, receiver, readers, queue>>
  /\ FailStart(automatic, FALSE, r)

\* A new process; names are reused in order, so that a second one is taken only
\* while the first is still in use.
Fresh == CHOOSE e \in Engines : proc[e] = "free"
CanSpawn == \E e \in Engines : proc[e] = "free"

\* The process runs, but the password cannot be written to it or a reader
\* thread does not start: it is ended again, or quarantined.
StartAbandoned(automatic, r) ==
  /\ ResetForStart
  /\ CanSpawn
  /\ \E end \in TerminateAndReap("alive") :
       /\ proc' = [proc EXCEPT ![Fresh] = end.left]
       /\ quarantined' = IF end.ok THEN NoEngine ELSE Fresh
  /\ UNCHANGED <<child, receiver, readers, queue>>
  /\ FailStart(automatic, FALSE, r)

EngineStarts(r) ==
  /\ ResetForStart
  /\ CanSpawn
  /\ proc' = [proc EXCEPT ![Fresh] = "alive"]
  /\ child' = Fresh
  /\ receiver' = TRUE /\ readers' = 2 /\ queue' = <<>>
  /\ phase' = "Starting"
  /\ recovery' = r
  /\ UNCHANGED quarantined

StartEngine(automatic, r) ==
  /\ UNCHANGED <<platform, open, pendingExit>>
  /\ \/ StartRefused(automatic, r)
     \/ SpawnFails(automatic, r)
     \/ StartAbandoned(automatic, r)
     \/ EngineStarts(r)

\* The operator presses Start, which is offered when nothing runs.
Start ==
  /\ open /\ step = "idle" /\ ~IsRunning
  /\ StartEngine(FALSE, [NoRecovery EXCEPT !.enabled = TRUE])
  /\ operator' = "start" /\ launches' = 0 /\ starved' = FALSE
  /\ UNCHANGED frameVars

-----------------------------------------------------------------------------
(* Stopping (stop) and losing sight of the process.                        *)

\* Cleanup of a process that may still live, and its quarantine.
CleanupForgetting(e) ==
  \E end \in TerminateAndReap(proc[e]) :
    /\ proc' = [proc EXCEPT ![e] = end.left]
    /\ quarantined' = NoEngine
Cleanup(e) ==
  \E end \in TerminateAndReap(proc[e]) :
    /\ proc' = [proc EXCEPT ![e] = end.left]
    /\ quarantined' = IF end.ok THEN NoEngine ELSE e

\* begin_observation_failure, with the child still in its slot.
LoseSight ==
  /\ fatalSeen' = TRUE /\ requestedStop' = FALSE
  /\ linkLive' = FALSE /\ phase' = "Error"
  /\ Cleanup(child)
  /\ child' = NoEngine
  /\ pendingFailure' = "draining"
  /\ UNCHANGED <<platform, open, pendingExit, outputVars, stableSince>>

CancelledRecoveryKeepingPlan == [recovery EXCEPT !.enabled = FALSE]
CancelledRecovery ==
  [recovery EXCEPT !.enabled = FALSE, !.due = "never",
                   !.attempts = IF recovery.due = "never" THEN @ ELSE 0]

StopWithoutChild ==
  /\ child = NoEngine
  /\ IF quarantined = NoEngine THEN UNCHANGED <<proc, quarantined>>
                               ELSE Cleanup(quarantined)
  /\ linkLive' = (linkLive /\ recovery.due = "never")
  /\ phase' = IF pendingExit # NoCode \/ pendingFailure # "none" THEN "Stopping"
              ELSE IF quarantined' = NoEngine THEN "Idle" ELSE phase
  /\ UNCHANGED <<platform, open, child, pendingExit, pendingFailure, outputVars,
                 stopVars, stableSince>>

StopFindsExit ==
  /\ child # NoEngine
  /\ proc[child] \in Codes
  /\ pendingExit' = proc[child]
  /\ proc' = [proc EXCEPT ![child] = "free"]
  /\ child' = NoEngine
  /\ UNCHANGED <<platform, open, quarantined, pendingFailure, outputVars,
                 stopVars, viewVars>>

\* The process may have ended since it was looked at: kill then succeeds
\* without changing its status.
StopKills ==
  /\ child # NoEngine
  /\ proc' = [proc EXCEPT ![child] = IF @ = "alive" THEN "dying" ELSE @]
  /\ requestedStop' = TRUE
  /\ phase' = "Stopping" /\ linkLive' = FALSE
  /\ UNCHANGED <<platform, handleVars, outputVars, fatalSeen, stableSince>>

StopCannotKill ==
  /\ child # NoEngine
  /\ fatalSeen' = TRUE
  /\ phase' = "Error" /\ linkLive' = FALSE
  /\ UNCHANGED <<processVars, handleVars, outputVars, requestedStop, stableSince>>

Stop ==
  /\ open /\ step = "idle" /\ IsRunning
  /\ \/ StopWithoutChild
     \/ child # NoEngine /\ LoseSight
     \/ StopFindsExit
     \/ StopKills
     \/ StopCannotKill
  /\ recovery' = CancelledRecovery
  /\ operator' = "stop"
  /\ UNCHANGED <<frameVars, launches, starved>>

-----------------------------------------------------------------------------
(* A frame (logic and poll_process).  It begins in step "idle", where the   *)
(* operator may act instead.                                               *)

\* apply_telemetry, as far as supervision depends on it.  Where the phase also
\* depends on worker errors, both phases are possible.
MayProve == linkLive  \* with a positive hashrate and every worker ready
BudgetRenewed == stableSince = "long ago" /\ recovery.attempts > 0

Apply(m) ==
  CASE Ignored(m) ->
         UNCHANGED <<fatalSeen, recovery, viewVars, launches>>
    [] ~Ignored(m) /\ m = "connecting" ->
         /\ phase' \in {"Connecting", "Error"} /\ linkLive' = FALSE
         /\ UNCHANGED <<fatalSeen, recovery, stableSince, launches>>
    [] ~Ignored(m) /\ m = "job" ->
         /\ phase' \in {"Mining", "Error"} /\ linkLive' = TRUE
         /\ UNCHANGED <<fatalSeen, recovery, stableSince, launches>>
    [] ~Ignored(m) /\ m = "session_error" ->
         /\ phase' = "Reconnecting" /\ linkLive' = FALSE /\ stableSince' = "never"
         /\ UNCHANGED <<fatalSeen, recovery, launches>>
    [] ~Ignored(m) /\ m = "engine_fatal" ->
         /\ fatalSeen' = TRUE
         /\ phase' = "Error" /\ linkLive' = FALSE /\ stableSince' = "never"
         /\ UNCHANGED <<recovery, launches>>
    [] ~Ignored(m) /\ m = "metrics" ->
         /\ \/ /\ MayProve
               /\ stableSince' = IF stableSince = "never" THEN "lately" ELSE stableSince
               /\ recovery' = IF BudgetRenewed THEN [recovery EXCEPT !.attempts = 0]
                                               ELSE recovery
               /\ launches' = IF BudgetRenewed THEN 0 ELSE launches
            \/ stableSince' = "never" /\ UNCHANGED <<recovery, launches>>
         /\ UNCHANGED <<fatalSeen, phase, linkLive>>

\* drain_process_messages: one message ...
DrainOne ==
  /\ open /\ step \in {"idle", "drain"} /\ receiver /\ left > 0 /\ queue # <<>>
  /\ Apply(Head(queue))
  /\ queue' = Tail(queue)
  /\ left' = left - 1
  /\ step' = "drain"
  /\ UNCHANGED <<processVars, handleVars, receiver, readers, disconnectedAt,
                 requestedStop, drained, operator, starved>>

\* ... until the budget is spent or nothing is queued: `drained` says that
\* nothing will come any more.
DrainEnds ==
  /\ open /\ step \in {"idle", "drain"}
  /\ ~receiver \/ left = 0 \/ queue = <<>>
  /\ drained' = (~receiver \/ (left > 0 /\ queue = <<>> /\ readers = 0))
  /\ left' = FrameBudget
  /\ step' = "observe"
  /\ UNCHANGED <<processVars, handleVars, outputVars, stopVars, recovery, viewVars,
                 historyVars>>

\* try_wait on the child, unless its end is already pending.
ObservesUntilFatal ==
  pendingExit = NoCode /\ pendingFailure = "none" /\ child # NoEngine /\ ~fatalSeen
Observes == pendingExit = NoCode /\ pendingFailure = "none" /\ child # NoEngine

ObserveExit ==
  /\ Observes
  /\ proc[child] \in Codes
  /\ pendingExit' = proc[child]
  /\ proc' = [proc EXCEPT ![child] = "free"]
  /\ child' = NoEngine
  /\ linkLive' = FALSE
  /\ UNCHANGED <<platform, open, quarantined, pendingFailure, outputVars,
                 stopVars, phase, stableSince>>

ObserveNothing ==
  /\ Observes => Running(child)
  /\ UNCHANGED <<processVars, handleVars, outputVars, stopVars, viewVars>>

Observe ==
  /\ step = "observe"
  /\ ObserveExit \/ (Observes /\ LoseSight) \/ ObserveNothing
  /\ step' = "settle"
  /\ UNCHANGED <<recovery, left, drained, historyVars>>

\* What both ends of an engine clear.
ClearEngine ==
  /\ receiver' = FALSE /\ readers' = 0 /\ queue' = <<>>
  /\ disconnectedAt' = "never"
  /\ linkLive' = FALSE /\ stableSince' = "never"

\* finish_observation_failure, after the tail or after its deadline.
FailureIsDrained == drained \/ pendingFailure = "overdue"

FinishFailure ==
  /\ pendingFailure # "none" /\ FailureIsDrained
  /\ ClearEngine
  /\ pendingFailure' = "none"
  /\ phase' = ScheduledPhase(requestedStop, recovery)
  /\ recovery' = Scheduled(requestedStop, recovery)
  /\ UNCHANGED <<open, child, pendingExit, stopVars, starved>>

\* finish_exited_child, after the tail.
StoppedAsAsked == requestedStop /\ ~fatalSeen /\ MatchesRequestedStop(pendingExit)

FinishExit ==
  /\ pendingExit # NoCode /\ drained
  /\ ClearEngine
  /\ pendingExit' = NoCode
  /\ UNCHANGED <<open, child, pendingFailure, stopVars>>
  /\ IF StoppedAsAsked
       THEN phase' = "Idle" /\ UNCHANGED <<recovery, starved>>
       ELSE LET r == Escalated(recovery, pendingExit)
            IN  /\ phase' = ScheduledPhase(requestedStop, r)
                /\ recovery' = Scheduled(requestedStop, r)
                /\ starved' = (starved \/ (platform = "windows" /\ pendingExit = "fault"))

NothingToFinish ==
  /\ pendingFailure = "none" \/ ~FailureIsDrained
  /\ pendingExit = NoCode \/ ~drained
  /\ UNCHANGED <<open, child, pendingExit, pendingFailure, outputVars, stopVars,
                 recovery, viewVars, starved>>

\* try_wait on the quarantined process; it may fail again.
ReleaseQuarantined ==
  /\ quarantined # NoEngine /\ proc[quarantined] \in Codes
  /\ proc' = [proc EXCEPT ![quarantined] = "free"]
  /\ quarantined' = NoEngine

KeepQuarantined == UNCHANGED <<proc, quarantined>>

\* The end of a child and that of a quarantined process are never both pending,
\* so their order in poll_process does not show.
Settle ==
  /\ step = "settle"
  /\ FinishFailure \/ FinishExit \/ NothingToFinish
  /\ ReleaseQuarantined \/ KeepQuarantined
  /\ step' = "watch"
  /\ UNCHANGED <<platform, left, drained, operator, launches>>

\* A reader that ended while the child is not waitable: after a grace period
\* the engine, whose output nobody reads, is ended.
ReaderEnded == drained \/ (receiver /\ readers < 2)
Unwatched == pendingExit = NoCode /\ child # NoEngine /\ ReaderEnded

MustEnd == Unwatched /\ disconnectedAt = "long ago" /\ ~requestedStop /\ ~fatalSeen

EndUnwatched ==
  /\ MustEnd
  /\ fatalSeen' = TRUE /\ linkLive' = FALSE /\ phase' = "Error"
  /\ \E p \in {proc[child], IF proc[child] = "alive" THEN "dying" ELSE proc[child]} :
       proc' = [proc EXCEPT ![child] = p]
  /\ UNCHANGED <<platform, disconnectedAt>>

KeepWatch ==
  /\ ~MustEnd
  /\ disconnectedAt' = IF Unwatched /\ disconnectedAt = "never" THEN "lately"
                       ELSE IF ReaderEnded THEN disconnectedAt ELSE "never"
  /\ UNCHANGED <<processVars, fatalSeen, phase, linkLive>>

\* A restart that is due is made when nothing of an engine is left; there is
\* then nothing to watch either.
RelaunchesUnlessFatal == recovery.due = "now" /\ ~LiveState /\ ~fatalSeen
Relaunches == recovery.due = "now" /\ ~LiveState

\* The rest of the frame; metrics that are not fresh end a stable period.
Watch ==
  /\ step = "watch" /\ ~Relaunches
  /\ EndUnwatched \/ KeepWatch
  /\ stableSince' \in {stableSince, "never"}
  /\ step' = "idle" /\ drained' = FALSE
  /\ UNCHANGED <<handleVars, receiver, readers, queue, requestedStop, recovery,
                 left, historyVars>>

Relaunch ==
  /\ step = "watch" /\ Relaunches
  /\ StartEngine(TRUE, [recovery EXCEPT !.due = "never"])
  /\ launches' = launches + 1
  /\ step' = "idle" /\ drained' = FALSE
  /\ UNCHANGED <<left, operator, starved>>

-----------------------------------------------------------------------------
(* The end of the window.  Its pipes close with it, and the engine's       *)
(* watchdog, which writes to them every two seconds, ends the engine.      *)

WindowIsGone ==
  /\ open' = FALSE
  /\ child' = NoEngine /\ quarantined' = NoEngine
  /\ pendingExit' = NoCode /\ pendingFailure' = "none"
  /\ receiver' = FALSE /\ readers' = 0 /\ queue' = <<>> /\ disconnectedAt' = "never"
  /\ requestedStop' = FALSE /\ fatalSeen' = FALSE
  /\ recovery' = NoRecovery
  /\ phase' = "Idle" /\ linkLive' = FALSE /\ stableSince' = "never"
  /\ step' = "idle" /\ left' = FrameBudget /\ drained' = FALSE
  /\ operator' = "stop"
  /\ UNCHANGED <<platform, launches, starved>>

\* Drop: both handles are ended once more, which may fail.
AfterDrop(e) ==
  IF e \in {child, quarantined} THEN {end.left : end \in TerminateAndReap(proc[e])}
                               ELSE {proc[e]}

Close ==
  /\ open /\ step = "idle"
  /\ proc' \in {q \in [Engines -> {"free", "alive", "dying"} \cup Codes] :
                \A e \in Engines : q[e] \in AfterDrop(e)}
  /\ WindowIsGone

\* The window's process is killed.
WindowDies == open /\ WindowIsGone /\ UNCHANGED proc

\* emit finds the pipe broken and exits with status 70.
OrphanExitsIfKilled(e) ==
  /\ ~open /\ proc[e] = "dying"
  /\ proc' = [proc EXCEPT ![e] = "free"]
  /\ UNCHANGED <<platform, handleVars, outputVars, stopVars, recovery, viewVars,
                 frameVars, historyVars>>
OrphanExits(e) ==
  /\ ~open /\ Running(e)
  /\ proc' = [proc EXCEPT ![e] = "free"]
  /\ UNCHANGED <<platform, handleVars, outputVars, stopVars, recovery, viewVars,
                 frameVars, historyVars>>

-----------------------------------------------------------------------------

Frame ==
  \/ DrainOne \/ DrainEnds
  \/ Observe
  \/ Settle
  \/ Watch \/ Relaunch

Clocks ==
  \/ RestartComesDue \/ DrainGraceElapses
  \/ DisconnectGraceElapses \/ StabilityElapses

Next ==
  \/ Start \/ Stop
  \/ Frame
  \/ ReaderDelivers \/ ReaderEnds
  \/ Clocks
  \/ Close \/ WindowDies
  \/ \E e \in Engines : EngineExits(e) \/ OrphanExits(e)

Spec == Init /\ [][Next]_vars

\* The window keeps drawing frames and its clocks go on; a pipe whose writer is
\* gone ends; a kill that was accepted takes effect, and so does the watchdog;
\* observing a quarantined process does not fail for ever.  Nothing obliges the
\* operator, an engine that runs, or its output.
Fairness ==
  /\ WF_vars(Frame)
  /\ WF_vars(RestartComesDue) /\ WF_vars(DrainGraceElapses)
  /\ WF_vars(DisconnectGraceElapses)
  /\ WF_vars(EngineGone /\ ReaderEnds)
  /\ SF_vars(Settle /\ ReleaseQuarantined)
  /\ \A e \in Engines : /\ WF_vars(proc[e] = "dying" /\ EngineExits(e))
                        /\ WF_vars(OrphanExits(e))

FairSpec == Spec /\ Fairness

-----------------------------------------------------------------------------
(* Properties.                                                             *)

TypeOK ==
  /\ platform \in Platforms
  /\ proc \in [Engines -> {"free", "alive", "dying"} \cup Codes]
  /\ {child, quarantined} \subseteq Engines \cup {NoEngine}
  /\ pendingExit \in Codes \cup {NoCode}
  /\ pendingFailure \in {"none", "draining", "overdue"}
  /\ readers \in 0..2
  /\ queue \in Seq(Messages) /\ Len(queue) <= QueueCapacity
  /\ disconnectedAt \in {"never", "lately", "long ago"}
  /\ stableSince \in {"never", "lately", "long ago"}
  /\ {open, receiver, requestedStop, fatalSeen, linkLive, drained, starved} \subseteq BOOLEAN
  /\ recovery \in [enabled : BOOLEAN, attempts : 0..MaxRestarts,
                   due : {"never", "later", "now"}, tier : Tiers]
  /\ phase \in Phases
  /\ step \in {"idle", "drain", "observe", "settle", "watch"}
  /\ left \in 0..FrameBudget
  /\ operator \in {"none", "start", "stop"}
  /\ launches \in Nat

\* No second engine is ever started beside one that may still run: not beside
\* a child whose kill failed, one that could not be observed, one that a failed
\* start left behind, or one whose exit is being written down.
OneEngine == Cardinality({e \in Engines : Running(e)}) <= 1

\* When the window offers Start, or says it is idle, there is no process behind
\* it, reaped or not, and no live link is shown.
NothingBehindStart ==
  open /\ (~IsRunning \/ phase = "Idle") =>
    /\ \A e \in Engines : proc[e] = "free"
    /\ ~linkLive

\* A stop that the window believes was accepted was accepted for the engine it
\* holds now: the latch never survives into the next engine, whose telemetry
\* it would silence.
StopLatchIsOurs ==
  child # NoEngine /\ requestedStop => proc[child] # "alive"

\* An engine that died of memory or of a native fault on Windows, and whose exit
\* was seen, is followed by light-memory engines until the operator starts anew.
StarvedGoesLight == open /\ starved => recovery.tier = "light"

\* The exit of an engine is reported once its output is read to the end, as a
\* stop only to an operator who asked for one, and never with a restart planned
\* for an operator who stopped.
EndIsTold ==
  [][pendingExit # NoCode /\ pendingExit' = NoCode /\ open' =>
       /\ queue = <<>> /\ readers = 0
       /\ phase' = "Idle" => operator = "stop" /\ pendingExit = "killed"
       /\ phase' = "Reconnecting" => operator = "start"]_vars

\* The supervisor keeps to the lease: it launches only while the operator wants
\* an engine, only when none runs, and only so often without proof of work.
Lease == INSTANCE EngineLease WITH
  alive <- {e \in Engines : Running(e)},
  wanted <- operator = "start",
  spent <- launches
LeaseSpec == Lease!Spec

\* Once the operator has stopped mining, and the engine is gone or its kill was
\* accepted, the window comes to offer Start again.
StopCompletes ==
  (operator = "stop" /\ (requestedStop \/ EngineGone)) ~> ~IsRunning

\* While recovery is on, an engine that is gone is replaced, or recovery ends
\* visibly: it is used up, stopped by the operator, or the start never worked.
Recovers ==
  (recovery.enabled /\ EngineGone)
    ~> (~EngineGone \/ ~recovery.enabled \/ ~IsRunning)

\* The engine does not outlive the window, however that ended.
NoOrphan == ~open ~> EngineGone

\* What the window holds and offers is what there is: its latches, its recovery
\* tier and its Start button belong to the process behind them, whatever calls
\* failed on the way.
HoldsWhatIs == TypeOK /\ OneEngine /\ NothingBehindStart /\ StopLatchIsOurs /\ StarvedGoesLight

\* Nothing hangs: neither a stop, nor a recovery, nor the engine of a window
\* that is gone.
ComesToAnEnd == StopCompletes /\ Recovers /\ NoOrphan

=============================================================================
