---- MODULE EngineSupervisorProofs ----
\* The window's supervision of the engine, for any number of processes that
\* could be engines, any queue, frame budget and restart budget, and on every
\* platform.
EXTENDS EngineSupervisor, FiniteSetTheorems, TLAPS

----
\* The inductive invariant.

\* While the window is open it holds every process that is not reaped, in its
\* slot or in quarantine; and there is never a second one.
OwnsAll == open => \A e \in Engines : proc[e] # "free" => e \in {child, quarantined}
AtMostOne == \A e, f \in Engines : proc[e] # "free" /\ proc[f] # "free" => e = f

\* The ends that poll_process has still to report exclude each other, and a
\* child.
OneHandle ==
  /\ child = NoEngine \/ quarantined = NoEngine
  /\ pendingExit # NoCode =>
       child = NoEngine /\ quarantined = NoEngine /\ pendingFailure = "none"
  /\ pendingFailure # "none" => child = NoEngine

\* Output is read, and a link shown, only of an engine that is not told yet.
Heard == receiver \/ linkLive => LiveStateOfChild

\* A frame that found the output at its end knows all of it.
TailRead ==
  /\ drained \/ ~receiver => queue = <<>> /\ readers = 0
  /\ step \in {"idle", "drain"} => ~drained
  /\ step # "idle" => open

\* A restart is planned only for an operator who wants one, when the child is
\* gone and nobody asked for its end; the attempts count the launches and the
\* one planned.
Planned ==
  /\ recovery.enabled => operator = "start"
  /\ recovery.enabled /\ recovery.due = "never" => launches = recovery.attempts
  /\ recovery.due # "never" =>
       /\ recovery.enabled /\ launches + 1 = recovery.attempts
       /\ ~requestedStop /\ ~LiveStateOfChild

IdleIsIdle == phase = "Idle" => ~IsRunning
Latched == requestedStop /\ LiveState => operator = "stop"

Handles == OwnsAll /\ AtMostOne /\ OneHandle /\ StopLatchIsOurs
Output == Heard /\ TailRead
Plans == Planned /\ IdleIsIdle /\ Latched /\ StarvedGoesLight

SupervisorInv == TypeOK /\ Handles /\ Output /\ Plans

----
\* Types.

Recoveries == [enabled : BOOLEAN, attempts : 0..MaxRestarts,
               due : {"never", "later", "now"}, tier : Tiers]
States == {"free", "alive", "dying"} \cup Codes

\* What the assumptions say of the constants, one fact at a time.
LEMMA Bounds ==
  /\ MaxRestarts \in Nat \ {0} /\ QueueCapacity \in Nat \ {0} /\ FrameBudget \in Nat \ {0}
  /\ NoEngine \notin Engines /\ NoCode \notin Codes
BY SupervisorAssumption, NoCodeAssumption

\* The types the steps of the supervisor need most.
LEMMA TypesAt ==
  ASSUME TypeOK
  PROVE  /\ proc \in [Engines -> States]
         /\ child \in Engines \cup {NoEngine} /\ quarantined \in Engines \cup {NoEngine}
         /\ open \in BOOLEAN /\ receiver \in BOOLEAN /\ requestedStop \in BOOLEAN
         /\ fatalSeen \in BOOLEAN /\ linkLive \in BOOLEAN /\ drained \in BOOLEAN
         /\ starved \in BOOLEAN /\ recovery \in Recoveries
BY DEF TypeOK, States, Recoveries

\* The types by the groups of variables.
ProcessTypes == platform \in Platforms /\ proc \in [Engines -> States]
HandleTypes ==
  /\ open \in BOOLEAN /\ child \in Engines \cup {NoEngine}
  /\ quarantined \in Engines \cup {NoEngine}
  /\ pendingExit \in Codes \cup {NoCode} /\ pendingFailure \in {"none", "draining", "overdue"}
OutputTypes ==
  /\ receiver \in BOOLEAN /\ readers \in 0..2
  /\ queue \in Seq(Messages) /\ Len(queue) <= QueueCapacity
  /\ disconnectedAt \in {"never", "lately", "long ago"}
StopTypes == requestedStop \in BOOLEAN /\ fatalSeen \in BOOLEAN
ViewTypes ==
  /\ phase \in Phases /\ linkLive \in BOOLEAN
  /\ stableSince \in {"never", "lately", "long ago"}
FrameTypes ==
  /\ step \in {"idle", "drain", "observe", "settle", "watch"}
  /\ left \in 0..FrameBudget /\ drained \in BOOLEAN
HistoryTypes ==
  operator \in {"none", "start", "stop"} /\ launches \in Nat /\ starved \in BOOLEAN
AllTypes ==
  /\ ProcessTypes /\ HandleTypes /\ OutputTypes /\ StopTypes /\ recovery \in Recoveries
  /\ ViewTypes /\ FrameTypes /\ HistoryTypes

\* The type invariant, split by what changes together.
LEMMA TypesGrouped == TypeOK <=> AllTypes
<1>1. TypeOK => AllTypes
  BY DEF TypeOK, AllTypes, ProcessTypes, HandleTypes, OutputTypes, StopTypes, ViewTypes,
     FrameTypes, HistoryTypes, States, Recoveries
<1>2. AllTypes => TypeOK
  BY DEF TypeOK, AllTypes, ProcessTypes, HandleTypes, OutputTypes, StopTypes, ViewTypes,
     FrameTypes, HistoryTypes, States, Recoveries
<1> QED BY <1>1, <1>2

\* The same of the next state.
LEMMA TypesGroupedNext == AllTypes' => TypeOK'
  BY TypesGrouped, PTL

\* What is left alone keeps its type.
LEMMA SameTypes ==
  ASSUME TypeOK
  PROVE  /\ UNCHANGED processVars => ProcessTypes'
         /\ UNCHANGED handleVars => HandleTypes'
         /\ UNCHANGED outputVars => OutputTypes'
         /\ UNCHANGED stopVars => StopTypes'
         /\ UNCHANGED viewVars => ViewTypes'
         /\ UNCHANGED frameVars => FrameTypes'
         /\ UNCHANGED historyVars => HistoryTypes'
<1>1. AllTypes
  BY TypesGrouped
<1>2. UNCHANGED processVars => ProcessTypes'
  BY <1>1 DEF AllTypes, ProcessTypes, processVars
<1>3. UNCHANGED handleVars => HandleTypes'
  BY <1>1 DEF AllTypes, HandleTypes, handleVars
<1>4. UNCHANGED outputVars => OutputTypes'
  BY <1>1 DEF AllTypes, OutputTypes, outputVars
<1>5. UNCHANGED stopVars => StopTypes'
  BY <1>1 DEF AllTypes, StopTypes, stopVars
<1>6. UNCHANGED viewVars => ViewTypes'
  BY <1>1 DEF AllTypes, ViewTypes, viewVars
<1>7. UNCHANGED frameVars => FrameTypes'
  BY <1>1 DEF AllTypes, FrameTypes, frameVars
<1>8. UNCHANGED historyVars => HistoryTypes'
  BY <1>1 DEF AllTypes, HistoryTypes, historyVars
<1> QED BY <1>2, <1>3, <1>4, <1>5, <1>6, <1>7, <1>8

\* What schedule_automatic_restart makes of a recovery state.
LEMMA ScheduledIs ==
  ASSUME NEW stop \in BOOLEAN, NEW r \in Recoveries
  PROVE  /\ Scheduled(stop, r) \in Recoveries
         /\ ScheduledPhase(stop, r) \in {"Reconnecting", "Error"}
         /\ ScheduledPhase(stop, r) = "Reconnecting" => r.enabled /\ ~stop
         /\ Scheduled(stop, r).enabled => r.enabled
         /\ \/ Scheduled(stop, r).due = r.due /\ Scheduled(stop, r).attempts = r.attempts
            \/ Scheduled(stop, r).due = "never" /\ ~Scheduled(stop, r).enabled
            \/ /\ Scheduled(stop, r).due = "later" /\ Scheduled(stop, r).attempts = r.attempts + 1
               /\ Scheduled(stop, r).enabled /\ r.enabled /\ ~stop
         /\ r.tier = "light" => Scheduled(stop, r).tier = "light"
<1>t. \A t \in Tiers : SingleAtLeast(t) \in Tiers /\ (t = "light" => SingleAtLeast(t) = "light")
  BY DEF SingleAtLeast, Tiers
<1>0. /\ r.enabled \in BOOLEAN /\ r.attempts \in 0..MaxRestarts
      /\ r.due \in {"never", "later", "now"} /\ r.tier \in Tiers
  BY DEF Recoveries
<1> DEFINE s == Scheduled(stop, r)
<1>1. CASE ~MaySchedule(stop, r)
  <2>1. s = r /\ ScheduledPhase(stop, r) = "Error"
    BY <1>1 DEF Scheduled, ScheduledPhase
  <2> QED BY <2>1
<1>2. CASE MaySchedule(stop, r) /\ Exhausted(r.attempts)
  <2>1. s = [r EXCEPT !.enabled = FALSE, !.due = "never", !.tier = SingleAtLeast(r.tier)]
        /\ ScheduledPhase(stop, r) = "Error"
    BY <1>2 DEF Scheduled, ScheduledPhase
  <2>2. s \in Recoveries /\ s.enabled = FALSE /\ s.due = "never" /\ s.tier = SingleAtLeast(r.tier)
    BY <1>0, <1>t, <2>1 DEF Recoveries
  <2> QED BY <1>0, <1>t, <2>1, <2>2
<1>3. CASE MaySchedule(stop, r) /\ ~Exhausted(r.attempts)
  <2>1. s = [r EXCEPT !.attempts = r.attempts + 1, !.due = "later", !.tier = SingleAtLeast(r.tier)]
        /\ ScheduledPhase(stop, r) = "Reconnecting" /\ r.enabled /\ ~stop
    BY <1>3 DEF Scheduled, ScheduledPhase, MaySchedule
  <2>2. r.attempts + 1 \in 0..MaxRestarts
    BY <1>0, <1>3, Bounds DEF Exhausted
  <2>3. s \in Recoveries /\ s.enabled = r.enabled /\ s.due = "later" /\ s.attempts = r.attempts + 1
        /\ s.tier = SingleAtLeast(r.tier)
    BY <1>0, <1>t, <2>1, <2>2 DEF Recoveries
  <2> QED BY <1>0, <1>t, <2>1, <2>3
<1> QED BY <1>1, <1>2, <1>3

\* ... and what the escalation does before it.
LEMMA EscalatedIs ==
  ASSUME NEW r \in Recoveries, NEW code
  PROVE  /\ Escalated(r, code) \in Recoveries
         /\ Escalated(r, code).enabled => r.enabled
         /\ Escalated(r, code).due = r.due /\ Escalated(r, code).attempts = r.attempts
         /\ r.tier = "light" \/ (platform = "windows" /\ code = "fault") =>
              Escalated(r, code).tier = "light"
<1>t. \A t \in Tiers : SingleAtLeast(t) \in Tiers /\ (t = "light" => SingleAtLeast(t) = "light")
  BY DEF SingleAtLeast, Tiers
<1>0. /\ r.enabled \in BOOLEAN /\ r.attempts \in 0..MaxRestarts
      /\ r.due \in {"never", "later", "now"} /\ r.tier \in Tiers /\ "light" \in Tiers
  BY DEF Recoveries, Tiers
<1> DEFINE s == Escalated(r, code)
<1>1. CASE Escalation(r, code) = "keep"
  <2>1. s = [r EXCEPT !.tier = SingleAtLeast(r.tier)]
    BY <1>1 DEF Escalated
  <2>2. platform = "windows" /\ code = "fault" => r.tier = "light"
    BY <1>1 DEF Escalation
  <2> QED BY <1>0, <1>t, <2>1, <2>2 DEF Recoveries
<1>2. CASE Escalation(r, code) = "light"
  <2>1. s = [r EXCEPT !.tier = "light"]
    BY <1>2 DEF Escalated
  <2> QED BY <1>0, <2>1 DEF Recoveries
<1>3. CASE Escalation(r, code) = "terminal"
  <2>1. s = [r EXCEPT !.enabled = FALSE]
    BY <1>3 DEF Escalated
  <2>2. ~(platform = "windows" /\ code = "fault")
    BY <1>3 DEF Escalation
  <2> QED BY <1>0, <2>1, <2>2 DEF Recoveries
<1>4. Escalation(r, code) \in {"keep", "light", "terminal"}
  BY DEF Escalation
<1> QED BY <1>1, <1>2, <1>3, <1>4

\* A supervisor that has started nothing satisfies the invariant.
LEMMA SupervisorStarts == Init => SupervisorInv
<1> SUFFICES ASSUME Init PROVE SupervisorInv
  OBVIOUS
<1>1. NoRecovery \in Recoveries /\ NoRecovery.enabled = FALSE /\ NoRecovery.due = "never"
  BY Bounds DEF NoRecovery, Recoveries, Tiers
<1>2. TypeOK
  <2>1. queue \in Seq(Messages) /\ Len(queue) <= QueueCapacity
    BY Bounds DEF Init
  <2>2. proc \in [Engines -> {"free", "alive", "dying"} \cup Codes]
    BY DEF Init
  <2>3. left \in 0..FrameBudget /\ readers \in 0..2 /\ launches \in Nat
    BY Bounds DEF Init
  <2>4. phase \in Phases /\ recovery \in Recoveries
    BY <1>1 DEF Init, Phases
  <2> QED BY <2>1, <2>2, <2>3, <2>4 DEF Init, TypeOK, Recoveries
<1>3. Handles
  BY DEF Init, Handles, OwnsAll, AtMostOne, OneHandle, StopLatchIsOurs
<1>4. Output
  BY DEF Init, Output, Heard, TailRead
<1>5. Plans
  BY <1>1 DEF Init, Plans, Planned, IdleIsIdle, Latched, StarvedGoesLight, IsRunning, LiveState
<1> QED BY <1>2, <1>3, <1>4, <1>5 DEF SupervisorInv

\* What terminate_and_reap_child may leave of a process.
LEMMA TerminateLeaves ==
  ASSUME NEW p \in States, NEW end \in TerminateAndReap(p)
  PROVE  /\ end.left \in States /\ (end.ok => end.left = "free")
         /\ p = "free" => end.left = "free"
         /\ end.left \in {"alive", "dying"} => p \in {"alive", "dying"}
         /\ p # "alive" => end.left # "alive"
BY DEF TerminateAndReap, States

\* The attempt to start an engine when nothing is held: the processes and
\* handles, and the rest.
NothingSpawned == UNCHANGED <<proc, child, quarantined>>
Spawned ==
  \E e \in Engines, s \in {"free", "alive", "dying"} :
    /\ proc' = [proc EXCEPT ![e] = s]
    /\ \/ s = "free" /\ child' = NoEngine /\ quarantined' = NoEngine
       \/ child' = NoEngine /\ quarantined' = e
       \/ child' = e /\ quarantined' = NoEngine
Attempted(automatic, r) ==
  /\ UNCHANGED <<platform, open, pendingExit>> /\ pendingFailure' = "none"
  /\ requestedStop' = FALSE \/ (requestedStop' = requestedStop /\ NothingSpawned)
  /\ fatalSeen' \in BOOLEAN /\ linkLive' \in BOOLEAN /\ (linkLive' => linkLive)
  /\ disconnectedAt' \in {"never", "lately", "long ago"}
  /\ stableSince' \in {"never", "lately", "long ago"}
  /\ \/ UNCHANGED <<receiver, readers, queue>> /\ child' = NoEngine
     \/ receiver' = TRUE /\ readers' = 2 /\ queue' = <<>> /\ child' # NoEngine
  /\ \/ recovery' = r /\ phase' \in {"Starting", "Error"}
     \/ /\ automatic /\ child' = NoEngine
        /\ \E stop \in {FALSE, requestedStop} :
             recovery' = Scheduled(stop, r) /\ phase' = ScheduledPhase(stop, r)

\* What an attempt to start an engine does: it spawns one, or nothing.
LEMMA StartIs ==
  ASSUME TypeOK, OwnsAll, open, ~LiveState,
         NEW automatic \in BOOLEAN, NEW r \in Recoveries, StartEngine(automatic, r)
  PROVE  /\ \A e \in Engines : proc[e] = "free"
         /\ child = NoEngine /\ quarantined = NoEngine /\ pendingExit = NoCode
         /\ NothingSpawned \/ Spawned
         /\ Attempted(automatic, r)
<1>0. /\ proc \in [Engines -> States] /\ child = NoEngine /\ quarantined = NoEngine
      /\ pendingExit = NoCode /\ pendingFailure = "none"
      /\ fatalSeen \in BOOLEAN /\ linkLive \in BOOLEAN
      /\ disconnectedAt \in {"never", "lately", "long ago"}
      /\ stableSince \in {"never", "lately", "long ago"}
  BY TypesAt DEF LiveState, TypeOK
<1>1. \A e \in Engines : proc[e] = "free"
  BY <1>0, Bounds DEF OwnsAll
<1>2. UNCHANGED <<platform, open, pendingExit>>
  BY DEF StartEngine
<1>s. CanSpawn => Fresh \in Engines
  BY DEF CanSpawn, Fresh
<1>3. CASE StartRefused(automatic, r)
  <2>1. /\ NothingSpawned /\ UNCHANGED <<requestedStop, fatalSeen, linkLive, stableSince,
                                         receiver, readers, queue, disconnectedAt, pendingFailure>>
        /\ recovery' = (IF automatic THEN Scheduled(requestedStop, r) ELSE r)
        /\ phase' = (IF automatic THEN ScheduledPhase(requestedStop, r) ELSE "Error")
    BY <1>3 DEF StartRefused, FailStart, NothingSpawned, outputVars, stopVars
  <2> QED BY <1>0, <1>1, <1>2, <2>1 DEF Attempted, NothingSpawned
<1>r. ASSUME ResetForStart
      PROVE  /\ requestedStop' = FALSE /\ fatalSeen' = FALSE /\ linkLive' = FALSE
             /\ stableSince' = "never" /\ disconnectedAt' = "never" /\ pendingFailure' = "none"
  BY <1>r DEF ResetForStart
<1>4. CASE SpawnFails(automatic, r)
  <2>1. /\ ResetForStart /\ NothingSpawned /\ UNCHANGED <<receiver, readers, queue>>
        /\ recovery' = (IF automatic THEN Scheduled(FALSE, r) ELSE r)
        /\ phase' = (IF automatic THEN ScheduledPhase(FALSE, r) ELSE "Error")
    BY <1>4 DEF SpawnFails, FailStart, NothingSpawned
  <2> QED BY <1>0, <1>1, <1>2, <1>r, <2>1 DEF Attempted, NothingSpawned
<1>5. CASE StartAbandoned(automatic, r)
  <2>1. /\ ResetForStart /\ CanSpawn /\ UNCHANGED <<child, receiver, readers, queue>>
        /\ recovery' = (IF automatic THEN Scheduled(FALSE, r) ELSE r)
        /\ phase' = (IF automatic THEN ScheduledPhase(FALSE, r) ELSE "Error")
    BY <1>5 DEF StartAbandoned, FailStart
  <2>2. PICK end \in TerminateAndReap("alive") :
             /\ proc' = [proc EXCEPT ![Fresh] = end.left]
             /\ quarantined' = IF end.ok THEN NoEngine ELSE Fresh
    BY <1>5 DEF StartAbandoned
  <2>3. end.left \in {"free", "alive", "dying"} /\ (end.ok => end.left = "free")
    BY DEF TerminateAndReap
  <2> DEFINE f == Fresh
  <2>4. f \in Engines
    BY <1>s, <2>1
  <2> HIDE DEF f
  <2>5. Spawned
    BY <1>0, <2>1, <2>2, <2>3, <2>4 DEF Spawned, f
  <2>6. Attempted(automatic, r)
    BY <1>0, <1>2, <1>r, <2>1 DEF Attempted
  <2> QED BY <1>0, <1>1, <2>5, <2>6
<1>6. CASE EngineStarts(r)
  <2>1. /\ ResetForStart /\ CanSpawn /\ proc' = [proc EXCEPT ![Fresh] = "alive"] /\ child' = Fresh
        /\ receiver' = TRUE /\ readers' = 2 /\ queue' = <<>> /\ phase' = "Starting"
        /\ recovery' = r /\ quarantined' = quarantined
    BY <1>6 DEF EngineStarts
  <2> DEFINE f == Fresh
  <2>2. f \in Engines
    BY <1>s, <2>1
  <2> HIDE DEF f
  <2>3. Spawned
    BY <1>0, <2>1, <2>2 DEF Spawned, f
  <2>4. child' # NoEngine
    BY <2>1, <2>2, Bounds DEF f
  <2>5. Attempted(automatic, r)
    BY <1>0, <1>2, <1>r, <2>1, <2>4 DEF Attempted
  <2> QED BY <1>0, <1>1, <2>3, <2>5
<1> QED BY <1>3, <1>4, <1>5, <1>6 DEF StartEngine

\* What a part of the invariant needs to stay.
LEMMA SameHandles ==
  ASSUME Handles,
         UNCHANGED <<open, proc, child, quarantined, pendingExit, pendingFailure, requestedStop>>
  PROVE  Handles'
BY DEF Handles, OwnsAll, AtMostOne, OneHandle, StopLatchIsOurs

\* A step that leaves the pipes and the queue alone keeps what is said of them.
LEMMA SameOutput ==
  ASSUME Output,
         UNCHANGED <<receiver, linkLive, child, pendingExit, pendingFailure, drained, queue,
                     readers, step, open>>
  PROVE  Output'
BY DEF Output, Heard, TailRead, LiveStateOfChild

\* A step that leaves the plan of recovery alone keeps what is said of it.
LEMMA SamePlans ==
  ASSUME Plans,
         UNCHANGED <<recovery, operator, launches, requestedStop, child, quarantined,
                     pendingExit, pendingFailure, phase, open, starved>>
  PROVE  Plans'
BY DEF Plans, Planned, IdleIsIdle, Latched, StarvedGoesLight, IsRunning, LiveState, LiveStateOfChild

\* The engine, its readers and the clocks.
LEMMA ProcessEnds ==
  ASSUME SupervisorInv, NEW e \in Engines, EngineExits(e) \/ OrphanExits(e)
  PROVE  SupervisorInv'
<1>t. TypeOK /\ proc \in [Engines -> States]
  BY TypesAt DEF SupervisorInv
<1>1. PICK c \in {"free"} \cup Codes :
          proc' = [proc EXCEPT ![e] = c] /\ (open => c \in Codes)
  <2>1. CASE EngineExits(e)
    <3>1. platform \in {"unix", "windows", "other"}
      BY <1>t, SupervisorAssumption DEF TypeOK
    <3>2. OwnCodes[platform] \subseteq Codes /\ "killed" \in Codes
      BY <3>1 DEF OwnCodes, Codes
    <3> QED BY <2>1, <3>2 DEF EngineExits
  <2>2. CASE OrphanExits(e)
    BY <2>2 DEF OrphanExits
  <2> QED BY <2>1, <2>2
<1>2. /\ UNCHANGED <<platform, handleVars, outputVars, stopVars, recovery, viewVars, frameVars,
                     historyVars>>
      /\ proc[e] \in {"alive", "dying"}
  BY DEF EngineExits, OrphanExits, Running
<1>3. TypeOK'
  <2>1. ProcessTypes'
    <3>1. proc' \in [Engines -> States]
      BY <1>t, <1>1 DEF States
    <3> QED BY <1>t, <1>2, <3>1 DEF ProcessTypes, TypeOK
  <2> QED BY <1>t, <1>2, <2>1, SameTypes, TypesGrouped, TypesGroupedNext DEF AllTypes
<1>4. \A f \in Engines : proc'[f] = IF f = e THEN c ELSE proc[f]
  BY <1>t, <1>1
<1>5. Handles'
  <2>1. OwnsAll' /\ AtMostOne' /\ OneHandle'
    BY <1>2, <1>4 DEF SupervisorInv, Handles, OwnsAll, AtMostOne, OneHandle, handleVars
  <2>2. StopLatchIsOurs'
    <3>1. c # "alive"
      BY DEF Codes
    <3> QED BY <1>2, <1>4, <1>t, <3>1, TypesAt
            DEF SupervisorInv, Handles, StopLatchIsOurs, handleVars, stopVars
  <2> QED BY <2>1, <2>2 DEF Handles
<1>6. Output'
  BY <1>2, SameOutput DEF SupervisorInv, handleVars, outputVars, viewVars, frameVars
<1>7. Plans'
  BY <1>2, SamePlans DEF SupervisorInv, handleVars, stopVars, viewVars, historyVars
<1> QED BY <1>3, <1>5, <1>6, <1>7 DEF SupervisorInv

\* The reader threads deliver into a queue with room, and end with their pipe.
LEMMA ReadersStep ==
  ASSUME SupervisorInv, ReaderDelivers \/ ReaderEnds
  PROVE  SupervisorInv'
<1>1. /\ UNCHANGED <<processVars, handleVars, receiver, disconnectedAt, stopVars, recovery,
                     viewVars, frameVars, historyVars>>
      /\ receiver /\ readers > 0
  BY DEF ReaderDelivers, ReaderEnds
<1>2. queue' \in Seq(Messages) /\ Len(queue') <= QueueCapacity /\ readers' \in 0..2
  <2>0. queue \in Seq(Messages) /\ Len(queue) <= QueueCapacity /\ readers \in 0..2
        /\ QueueCapacity \in Nat
    BY Bounds DEF SupervisorInv, TypeOK
  <2>1. CASE ReaderDelivers
    <3>1. PICK m \in Messages : queue' = Append(queue, m) /\ Len(queue) < QueueCapacity
      BY <2>1 DEF ReaderDelivers
    <3>2. Append(queue, m) \in Seq(Messages) /\ Len(Append(queue, m)) = Len(queue) + 1
      BY <2>0
    <3> QED BY <2>0, <2>1, <3>1, <3>2 DEF ReaderDelivers
  <2>2. CASE ReaderEnds
    BY <2>0, <2>2 DEF ReaderEnds
  <2> QED BY <2>1, <2>2
<1>3. TypeOK'
  <2>1. TypeOK
    BY DEF SupervisorInv
  <2>2. OutputTypes'
    BY <1>1, <1>2, <2>1 DEF TypeOK, OutputTypes
  <2> QED BY <1>1, <2>1, <2>2, SameTypes, TypesGrouped, TypesGroupedNext DEF AllTypes
<1>4. Handles'
  BY <1>1, SameHandles DEF SupervisorInv, processVars, handleVars, stopVars
<1>5. Output'
  BY <1>1 DEF SupervisorInv, Output, Heard, TailRead, LiveStateOfChild, handleVars, viewVars,
     frameVars
<1>6. Plans'
  BY <1>1, SamePlans DEF SupervisorInv, handleVars, stopVars, viewVars, historyVars
<1> QED BY <1>3, <1>4, <1>5, <1>6 DEF SupervisorInv

\* The backoff and the stability of an engine elapse.
LEMMA ClocksStep == ASSUME SupervisorInv, Clocks PROVE SupervisorInv'
<1>1. CASE RestartComesDue
  <2>1. /\ recovery' = [recovery EXCEPT !.due = "now"] /\ recovery.due = "later"
        /\ UNCHANGED <<processVars, handleVars, outputVars, stopVars, viewVars, frameVars,
                       historyVars>>
    BY <1>1 DEF RestartComesDue
  <2>2. recovery \in Recoveries
    BY TypesAt DEF SupervisorInv
  <2>3. /\ recovery' \in Recoveries /\ recovery'.due = "now"
        /\ recovery'.enabled = recovery.enabled /\ recovery'.attempts = recovery.attempts
        /\ recovery'.tier = recovery.tier
    BY <2>1, <2>2 DEF Recoveries
  <2>4. TypeOK'
    BY <2>1, <2>3, SameTypes, TypesGroupedNext DEF SupervisorInv, AllTypes
  <2>5. Handles' /\ Output'
    BY <2>1, SameHandles, SameOutput DEF SupervisorInv, processVars, handleVars, outputVars,
       stopVars, viewVars, frameVars
  <2>6. Plans'
    BY <2>1, <2>3 DEF SupervisorInv, Plans, Planned, IdleIsIdle, Latched, StarvedGoesLight,
       IsRunning, LiveState, LiveStateOfChild, handleVars, stopVars, viewVars, historyVars
  <2> QED BY <2>4, <2>5, <2>6 DEF SupervisorInv
<1>2. CASE DrainGraceElapses
  <2>1. /\ pendingFailure = "draining" /\ pendingFailure' = "overdue"
        /\ UNCHANGED <<processVars, open, child, quarantined, pendingExit, outputVars, stopVars,
                       recovery, viewVars, frameVars, historyVars>>
    BY <1>2 DEF DrainGraceElapses
  <2>2. TypeOK'
    <3>1. TypeOK /\ AllTypes
      BY TypesGrouped DEF SupervisorInv
    <3>2. HandleTypes'
      BY <2>1, <3>1 DEF AllTypes, HandleTypes
    <3> QED BY <2>1, <3>1, <3>2, SameTypes, TypesGroupedNext DEF AllTypes
  <2>3. Handles'
    BY <2>1 DEF SupervisorInv, Handles, OwnsAll, AtMostOne, OneHandle, StopLatchIsOurs,
       processVars, stopVars
  <2>4. Output'
    BY <2>1 DEF SupervisorInv, Output, Heard, TailRead, LiveStateOfChild, outputVars, viewVars,
       frameVars
  <2>5. Plans'
    BY <2>1 DEF SupervisorInv, Plans, Planned, IdleIsIdle, Latched, StarvedGoesLight,
       IsRunning, LiveState, LiveStateOfChild, stopVars, viewVars, historyVars
  <2> QED BY <2>2, <2>3, <2>4, <2>5 DEF SupervisorInv
<1>3. CASE DisconnectGraceElapses \/ StabilityElapses
  <2>1. /\ UNCHANGED <<processVars, handleVars, receiver, readers, queue, stopVars, recovery,
                       phase, linkLive, frameVars, historyVars>>
        /\ disconnectedAt' \in {disconnectedAt, "long ago"}
        /\ stableSince' \in {stableSince, "long ago"}
    BY <1>3 DEF DisconnectGraceElapses, StabilityElapses, outputVars, viewVars
  <2>2. TypeOK'
    <3>1. TypeOK /\ AllTypes
      BY TypesGrouped DEF SupervisorInv
    <3>2. OutputTypes' /\ ViewTypes'
      BY <2>1, <3>1 DEF AllTypes, OutputTypes, ViewTypes
    <3> QED BY <2>1, <3>1, <3>2, SameTypes, TypesGroupedNext DEF AllTypes
  <2>3. Handles' /\ Output' /\ Plans'
    BY <2>1, SameHandles, SameOutput, SamePlans DEF SupervisorInv, processVars, handleVars,
       stopVars, frameVars, historyVars
  <2> QED BY <2>2, <2>3 DEF SupervisorInv
<1> QED BY <1>1, <1>2, <1>3 DEF Clocks

\* What every attempt to start an engine keeps.
LEMMA AttemptKeeps ==
  ASSUME SupervisorInv, open, ~LiveState,
         NEW automatic \in BOOLEAN, NEW r \in Recoveries, StartEngine(automatic, r)
  PROVE  /\ ProcessTypes' /\ HandleTypes' /\ OutputTypes' /\ StopTypes' /\ ViewTypes'
         /\ recovery' \in Recoveries
         /\ Handles' /\ Heard' /\ (~receiver' => queue' = <<>> /\ readers' = 0)
         /\ phase' # "Idle" /\ (requestedStop' => ~LiveState') /\ open'
<1>0. TypeOK /\ AllTypes /\ Handles /\ OwnsAll /\ Heard /\ TailRead
  BY TypesGrouped DEF SupervisorInv, Handles, Output
<1>1. /\ \A e \in Engines : proc[e] = "free"
      /\ child = NoEngine /\ quarantined = NoEngine /\ pendingExit = NoCode
      /\ NothingSpawned \/ Spawned
      /\ Attempted(automatic, r)
  BY <1>0, StartIs
<1>2. proc \in [Engines -> States] /\ platform \in Platforms /\ open \in BOOLEAN
      /\ requestedStop \in BOOLEAN /\ OutputTypes /\ pendingExit \in Codes \cup {NoCode}
  BY <1>0 DEF AllTypes, ProcessTypes, StopTypes, HandleTypes
<1>3. ASSUME Spawned
      PROVE  /\ \E e \in Engines, s \in {"free", "alive", "dying"} :
                  /\ \A f \in Engines : proc'[f] = IF f = e THEN s ELSE "free"
                  /\ s # "free" => e \in {child', quarantined'}
             /\ child' = NoEngine \/ quarantined' = NoEngine
             /\ child' \in Engines \cup {NoEngine} /\ quarantined' \in Engines \cup {NoEngine}
             /\ proc' \in [Engines -> States]
  <2>1. PICK e \in Engines, s \in {"free", "alive", "dying"} :
              /\ proc' = [proc EXCEPT ![e] = s]
              /\ \/ s = "free" /\ child' = NoEngine /\ quarantined' = NoEngine
                 \/ child' = NoEngine /\ quarantined' = e
                 \/ child' = e /\ quarantined' = NoEngine
    BY <1>3 DEF Spawned
  <2>2. \A f \in Engines : proc'[f] = IF f = e THEN s ELSE "free"
    BY <1>1, <1>2, <2>1
  <2>3. proc' \in [Engines -> States]
    BY <1>2, <2>1 DEF States
  <2>4. s # "free" => e \in {child', quarantined'}
    BY <2>1
  <2>5. /\ child' = NoEngine \/ quarantined' = NoEngine
        /\ child' \in Engines \cup {NoEngine} /\ quarantined' \in Engines \cup {NoEngine}
    BY <2>1
  <2> QED BY <2>2, <2>3, <2>4, <2>5
<1>4. /\ open' = open /\ platform' = platform /\ pendingExit' = NoCode /\ pendingFailure' = "none"
      /\ requestedStop' = FALSE \/ (requestedStop' = requestedStop /\ NothingSpawned)
      /\ fatalSeen' \in BOOLEAN /\ linkLive' \in BOOLEAN /\ (linkLive' => linkLive)
  BY <1>1 DEF Attempted
<1>5. /\ disconnectedAt' \in {"never", "lately", "long ago"}
      /\ stableSince' \in {"never", "lately", "long ago"}
      /\ \/ UNCHANGED <<receiver, readers, queue>> /\ child' = NoEngine
         \/ receiver' = TRUE /\ readers' = 2 /\ queue' = <<>> /\ child' # NoEngine
  BY <1>1 DEF Attempted
<1>6. recovery' \in Recoveries /\ phase' \in {"Starting", "Error", "Reconnecting"}
  <2>1. CASE recovery' = r /\ phase' \in {"Starting", "Error"}
    BY <2>1
  <2>2. CASE \E stop \in {FALSE, requestedStop} :
               recovery' = Scheduled(stop, r) /\ phase' = ScheduledPhase(stop, r)
    <3>1. PICK stop \in BOOLEAN :
                recovery' = Scheduled(stop, r) /\ phase' = ScheduledPhase(stop, r)
      BY <1>2, <2>2
    <3> QED BY <3>1, ScheduledIs
  <2> QED BY <1>1, <2>1, <2>2 DEF Attempted
<1>7. ~receiver /\ ~linkLive /\ queue = <<>> /\ readers = 0
  <2>1. ~LiveStateOfChild
    BY DEF LiveState, LiveStateOfChild
  <2> QED BY <1>0, <2>1 DEF Heard, TailRead
<1>8. ProcessTypes' /\ HandleTypes' /\ StopTypes' /\ ViewTypes'
  <2>1. CASE NothingSpawned
    BY <1>1, <1>2, <1>4, <1>5, <1>6, <2>1
       DEF NothingSpawned, ProcessTypes, HandleTypes, StopTypes, ViewTypes, Phases
  <2>2. CASE Spawned
    BY <1>2, <1>3, <1>4, <1>5, <1>6, <2>2
       DEF ProcessTypes, HandleTypes, StopTypes, ViewTypes, Phases
  <2> QED BY <1>1, <2>1, <2>2
<1>9. OutputTypes'
  <2>1. <<>> \in Seq(Messages) /\ Len(<<>>) <= QueueCapacity
    BY Bounds
  <2>2. CASE UNCHANGED <<receiver, readers, queue>>
    BY <1>2, <1>5, <2>2 DEF OutputTypes
  <2>3. CASE receiver' = TRUE /\ readers' = 2 /\ queue' = <<>>
    <3>1. queue' \in Seq(Messages) /\ Len(queue') <= QueueCapacity
      BY <2>1, <2>3
    <3>2. receiver' \in BOOLEAN /\ readers' \in 0..2
      BY <2>3
    <3> QED BY <1>5, <3>1, <3>2 DEF OutputTypes
  <2> QED BY <1>5, <2>2, <2>3
<1>10. Handles'
  <2>1. CASE NothingSpawned
    BY <1>1, <1>4, <2>1
       DEF NothingSpawned, Handles, OwnsAll, AtMostOne, OneHandle, StopLatchIsOurs
  <2>2. CASE Spawned
    <3>1. OwnsAll' /\ AtMostOne' /\ OneHandle'
      BY <1>3, <1>4, <2>2 DEF OwnsAll, AtMostOne, OneHandle
    <3>2. requestedStop' => child' = NoEngine
      BY <1>1, <1>4 DEF NothingSpawned
    <3> QED BY <3>1, <3>2 DEF Handles, StopLatchIsOurs
  <2> QED BY <1>1, <2>1, <2>2
<1>11. Heard'
  BY <1>4, <1>5, <1>7 DEF Heard, LiveStateOfChild
<1>12. requestedStop' => ~LiveState'
  BY <1>1, <1>4 DEF NothingSpawned, LiveState
<1>13. ~receiver' => queue' = <<>> /\ readers' = 0
  BY <1>5, <1>7
<1> QED BY <1>4, <1>6, <1>8, <1>9, <1>10, <1>11, <1>12, <1>13

\* The operator's start keeps the invariant.
LEMMA StartKeeps == ASSUME SupervisorInv, Start PROVE SupervisorInv'
<1> DEFINE r == [NoRecovery EXCEPT !.enabled = TRUE]
<1>0. TypeOK /\ AllTypes /\ TailRead
  BY TypesGrouped DEF SupervisorInv, Output
<1>1. /\ r \in Recoveries /\ r.enabled = TRUE /\ r.attempts = 0 /\ r.due = "never"
  <2>1. ASSUME NEW b \in BOOLEAN
        PROVE  LET q == [NoRecovery EXCEPT !.enabled = b]
               IN  q \in Recoveries /\ q.enabled = b /\ q.attempts = 0 /\ q.due = "never"
    BY Bounds DEF NoRecovery, Recoveries, Tiers
  <2> QED BY <2>1, Zenon
<1>2. /\ open /\ step = "idle" /\ ~IsRunning /\ StartEngine(FALSE, r)
      /\ operator' = "start" /\ launches' = 0 /\ starved' = FALSE /\ UNCHANGED frameVars
  BY DEF Start
<1> HIDE DEF r
<1>3. ~LiveState
  BY <1>2 DEF IsRunning
<1>4. /\ ProcessTypes' /\ HandleTypes' /\ OutputTypes' /\ StopTypes' /\ ViewTypes'
      /\ recovery' \in Recoveries
      /\ Handles' /\ Heard' /\ (~receiver' => queue' = <<>> /\ readers' = 0)
      /\ phase' # "Idle" /\ (requestedStop' => ~LiveState') /\ open'
  BY <1>1, <1>2, <1>3, AttemptKeeps
<1>5. recovery' = r
  BY <1>0, <1>1, <1>2, <1>3, StartIs DEF Attempted, SupervisorInv, Handles
<1>6. TypeOK'
  <2>1. HistoryTypes' /\ FrameTypes'
    BY <1>0, <1>2, SameTypes DEF HistoryTypes
  <2> QED BY <1>4, <2>1, TypesGroupedNext DEF AllTypes
<1>7. Output'
  <2>1. step' = "idle" /\ drained' = FALSE
    BY <1>0, <1>2 DEF frameVars, TailRead, AllTypes, FrameTypes
  <2> QED BY <1>4, <2>1 DEF Output, TailRead
<1>8. Plans'
  BY <1>1, <1>2, <1>4, <1>5 DEF Plans, Planned, IdleIsIdle, Latched, StarvedGoesLight
<1> QED BY <1>4, <1>6, <1>7, <1>8 DEF SupervisorInv

\* A restart after the backoff keeps the invariant.
LEMMA RelaunchKeeps == ASSUME SupervisorInv, Relaunch PROVE SupervisorInv'
<1> DEFINE r == [recovery EXCEPT !.due = "never"]
<1>0. TypeOK /\ AllTypes /\ TailRead /\ Planned /\ StarvedGoesLight /\ recovery \in Recoveries
      /\ launches \in Nat
  BY TypesGrouped, TypesAt DEF SupervisorInv, Output, Plans, AllTypes, HistoryTypes
<1>1. /\ step = "watch" /\ recovery.due = "now" /\ ~LiveState /\ StartEngine(TRUE, r)
      /\ launches' = launches + 1 /\ step' = "idle" /\ drained' = FALSE
      /\ UNCHANGED <<left, operator, starved>>
  BY DEF Relaunch, Relaunches
<1>2. /\ r \in Recoveries /\ r.enabled = recovery.enabled /\ r.attempts = recovery.attempts
      /\ r.due = "never" /\ r.tier = recovery.tier
  BY <1>0 DEF Recoveries
<1> HIDE DEF r
<1>3. open /\ operator = "start" /\ recovery.enabled /\ launches + 1 = recovery.attempts
      /\ requestedStop = FALSE
  BY <1>0, <1>1 DEF TailRead, Planned, AllTypes, StopTypes
<1>4. /\ ProcessTypes' /\ HandleTypes' /\ OutputTypes' /\ StopTypes' /\ ViewTypes'
      /\ recovery' \in Recoveries
      /\ Handles' /\ Heard' /\ (~receiver' => queue' = <<>> /\ readers' = 0)
      /\ phase' # "Idle" /\ (requestedStop' => ~LiveState') /\ open'
  BY <1>1, <1>2, <1>3, AttemptKeeps
<1>5. Attempted(TRUE, r) /\ pendingExit = NoCode
  BY <1>0, <1>1, <1>2, <1>3, StartIs DEF SupervisorInv, Handles
<1>6. requestedStop' = FALSE /\ pendingExit' = NoCode /\ pendingFailure' = "none"
  BY <1>0, <1>3, <1>5 DEF Attempted, AllTypes, StopTypes
<1>7. /\ recovery'.enabled => recovery.enabled
      /\ recovery.tier = "light" => recovery'.tier = "light"
      /\ recovery'.due = "never" => ~recovery'.enabled \/ recovery'.attempts = recovery.attempts
      /\ recovery'.due # "never" => /\ recovery'.enabled /\ child' = NoEngine
                                    /\ recovery'.attempts = recovery.attempts + 1
  <2>1. CASE recovery' = r
    BY <1>2, <2>1
  <2>2. CASE child' = NoEngine /\ \E stop \in {FALSE, requestedStop} : recovery' = Scheduled(stop, r)
    <3>1. PICK stop \in BOOLEAN : recovery' = Scheduled(stop, r)
      BY <1>3, <2>2
    <3> QED BY <1>2, <2>2, <3>1, ScheduledIs
  <2> QED BY <1>5, <2>1, <2>2 DEF Attempted
<1>8. TypeOK'
  <2>1. HistoryTypes'
    BY <1>0, <1>1 DEF AllTypes, HistoryTypes
  <2>2. FrameTypes'
    BY <1>0, <1>1 DEF AllTypes, FrameTypes
  <2> QED BY <1>4, <2>1, <2>2, TypesGroupedNext DEF AllTypes
<1>9. Output'
  BY <1>1, <1>4 DEF Output, TailRead
<1>10. Planned'
  <2>1. recovery'.due = "never" /\ recovery'.enabled => launches' = recovery'.attempts
    BY <1>1, <1>3, <1>7
  <2>2. recovery'.due # "never" => launches' + 1 = recovery'.attempts /\ ~LiveStateOfChild'
    BY <1>1, <1>3, <1>6, <1>7 DEF LiveStateOfChild
  <2> QED BY <1>1, <1>3, <1>6, <1>7, <2>1, <2>2 DEF Planned
<1>11. Plans'
  BY <1>0, <1>1, <1>3, <1>4, <1>6, <1>7, <1>10 DEF Plans, IdleIsIdle, Latched, StarvedGoesLight
<1> QED BY <1>4, <1>8, <1>9, <1>11 DEF SupervisorInv

\* Cleaning up the process that is held, child or quarantined.
LEMMA CleanupKeeps ==
  ASSUME TypeOK, OwnsAll, AtMostOne, OneHandle, NEW e \in Engines, e \in {child, quarantined},
         Cleanup(e), child' = NoEngine, open' = open
  PROVE  /\ proc' \in [Engines -> States] /\ quarantined' \in {NoEngine, e}
         /\ OwnsAll' /\ AtMostOne'
         /\ \A f \in Engines : Running(f)' => Running(f)
<1>1. PICK end \in TerminateAndReap(proc[e]) :
            /\ proc' = [proc EXCEPT ![e] = end.left]
            /\ quarantined' = IF end.ok THEN NoEngine ELSE e
  BY DEF Cleanup
<1>t. proc \in [Engines -> States] /\ NoEngine \notin Engines
  BY TypesAt, Bounds
<1>2. /\ end.left \in States /\ (end.ok => end.left = "free")
      /\ proc[e] = "free" => end.left = "free"
      /\ end.left \in {"alive", "dying"} => proc[e] \in {"alive", "dying"}
  <2>1. \A p \in States : \A q \in TerminateAndReap(p) :
          /\ q.left \in States /\ (q.ok => q.left = "free")
          /\ p = "free" => q.left = "free"
          /\ q.left \in {"alive", "dying"} => p \in {"alive", "dying"}
    BY TerminateLeaves
  <2> QED BY <1>1, <1>t, <2>1
<1>3. \A f \in Engines : proc'[f] = IF f = e THEN end.left ELSE proc[f]
  BY <1>t, <1>1
<1>4. proc' \in [Engines -> States]
  BY <1>1, <1>2, <1>t
<1>5. AtMostOne'
  BY <1>2, <1>3 DEF AtMostOne
<1>6. OwnsAll'
  BY <1>1, <1>2, <1>3, <1>t DEF OwnsAll, OneHandle
<1>7. \A f \in Engines : Running(f)' => Running(f)
  BY <1>2, <1>3 DEF Running
<1> QED BY <1>1, <1>4, <1>5, <1>6, <1>7

\* A child that is looked at in vain.
LEMMA LoseSightKeeps ==
  ASSUME SupervisorInv, child # NoEngine, LoseSight
  PROVE  /\ ProcessTypes' /\ HandleTypes' /\ OutputTypes' /\ StopTypes' /\ ViewTypes'
         /\ Handles' /\ Heard' /\ requestedStop' = FALSE /\ phase' = "Error"
         /\ child' = NoEngine /\ pendingExit = NoCode /\ pendingExit' = NoCode /\ open' = open
         /\ pendingFailure' = "draining" /\ UNCHANGED <<receiver, queue, readers>>
         /\ \A f \in Engines : Running(f)' => Running(f)
<1>0. /\ TypeOK /\ AllTypes /\ Handles /\ OwnsAll /\ AtMostOne /\ OneHandle
      /\ child \in Engines /\ pendingExit = NoCode
  BY TypesGrouped, TypesAt DEF SupervisorInv, Handles, OneHandle
<1>1. /\ fatalSeen' = TRUE /\ requestedStop' = FALSE /\ linkLive' = FALSE /\ phase' = "Error"
      /\ Cleanup(child) /\ child' = NoEngine /\ pendingFailure' = "draining"
      /\ UNCHANGED <<platform, open, pendingExit, outputVars, stableSince>>
  BY DEF LoseSight
<1>2. \A e \in {child} :
        /\ proc' \in [Engines -> States] /\ quarantined' \in {NoEngine, e}
        /\ OwnsAll' /\ AtMostOne' /\ \A f \in Engines : Running(f)' => Running(f)
  BY <1>0, <1>1, CleanupKeeps
<1>3. ProcessTypes' /\ HandleTypes' /\ OutputTypes'
  <2>1. OutputTypes'
    BY <1>0, <1>1, SameTypes
  <2>2. HandleTypes'
    BY <1>0, <1>1, <1>2 DEF AllTypes, HandleTypes
  <2>3. ProcessTypes'
    BY <1>0, <1>1, <1>2 DEF AllTypes, ProcessTypes
  <2> QED BY <2>1, <2>2, <2>3
<1>4. StopTypes' /\ ViewTypes'
  BY <1>0, <1>1 DEF AllTypes, StopTypes, ViewTypes, Phases
<1>5. Handles'
  <2>1. OneHandle' /\ StopLatchIsOurs'
    BY <1>0, <1>1 DEF OneHandle, StopLatchIsOurs
  <2> QED BY <1>2, <2>1 DEF Handles
<1>6. Heard'
  BY <1>1 DEF Heard, LiveStateOfChild
<1> QED BY <1>0, <1>1, <1>2, <1>3, <1>4, <1>5, <1>6 DEF outputVars

\* A child whose exit status is taken.
LEMMA ExitTaken ==
  ASSUME SupervisorInv, child # NoEngine, proc[child] \in Codes, pendingExit' = proc[child],
         proc' = [proc EXCEPT ![child] = "free"], child' = NoEngine,
         UNCHANGED <<platform, open, quarantined, pendingFailure, requestedStop>>
  PROVE  /\ ProcessTypes' /\ HandleTypes' /\ Handles'
         /\ pendingExit' # NoCode /\ pendingFailure = "none"
         /\ \A f \in Engines : Running(f)' <=> Running(f)
<1>0. /\ TypeOK /\ AllTypes /\ Handles /\ OwnsAll /\ AtMostOne /\ OneHandle
      /\ child \in Engines /\ proc \in [Engines -> States] /\ NoCode \notin Codes
  BY TypesGrouped, TypesAt, Bounds DEF SupervisorInv, Handles
<1>1. \A f \in Engines : proc'[f] = IF f = child THEN "free" ELSE proc[f]
  BY <1>0
<1>2. quarantined = NoEngine /\ pendingFailure = "none"
  BY <1>0 DEF OneHandle
<1>3. ProcessTypes' /\ HandleTypes'
  BY <1>0 DEF AllTypes, ProcessTypes, HandleTypes, States
<1>4. OwnsAll' /\ AtMostOne'
  BY <1>0, <1>1 DEF OwnsAll, AtMostOne
<1>5. OneHandle' /\ StopLatchIsOurs'
  BY <1>0, <1>2 DEF OneHandle, StopLatchIsOurs
<1>6. \A f \in Engines : Running(f)' <=> Running(f)
  BY <1>1 DEF Running, Codes
<1> QED BY <1>0, <1>2, <1>3, <1>4, <1>5, <1>6 DEF Handles

\* A child whose kill is accepted or whose kill changes nothing.
LEMMA KillKeeps ==
  ASSUME SupervisorInv, child # NoEngine, NEW p \in {proc[child], "dying"},
         proc[child] # "alive" => p = proc[child],
         proc' = [proc EXCEPT ![child] = p], UNCHANGED <<platform, handleVars>>,
         requestedStop' => requestedStop \/ p # "alive"
  PROVE  /\ ProcessTypes' /\ HandleTypes' /\ Handles'
         /\ \A f \in Engines : Running(f)' <=> Running(f)
<1>0. /\ TypeOK /\ AllTypes /\ Handles /\ OwnsAll /\ AtMostOne /\ OneHandle
      /\ child \in Engines /\ proc \in [Engines -> States] /\ p \in States
  BY TypesGrouped, TypesAt DEF SupervisorInv, Handles, States
<1>1. \A f \in Engines : proc'[f] = IF f = child THEN p ELSE proc[f]
  BY <1>0
<1>2. ProcessTypes' /\ HandleTypes'
  <2>1. HandleTypes'
    BY <1>0, SameTypes
  <2> QED BY <1>0, <2>1 DEF AllTypes, ProcessTypes
<1>3. p # "free" => proc[child] # "free"
  OBVIOUS
<1>4. OwnsAll' /\ AtMostOne' /\ OneHandle'
  BY <1>0, <1>1, <1>3 DEF OwnsAll, AtMostOne, OneHandle, handleVars
<1>5. StopLatchIsOurs'
  BY <1>0, <1>1 DEF Handles, StopLatchIsOurs, handleVars
<1>6. \A f \in Engines : Running(f)' <=> Running(f)
  BY <1>1 DEF Running
<1> QED BY <1>2, <1>4, <1>5, <1>6 DEF Handles

\* A stop ends the plans; the rest is what it does to the process and the view.
LEMMA StopPlans ==
  ASSUME SupervisorInv, recovery' = CancelledRecovery, operator' = "stop", open' = open,
         starved' = starved, phase' = "Idle" => ~LiveState'
  PROVE  Plans' /\ recovery' \in Recoveries
<1>1. recovery \in Recoveries
  BY TypesAt DEF SupervisorInv
<1>2. /\ recovery' \in Recoveries /\ recovery'.enabled = FALSE /\ recovery'.due = "never"
      /\ recovery'.tier = recovery.tier
  <2>1. ASSUME NEW b \in BOOLEAN, NEW n \in 0..MaxRestarts,
               recovery' = [recovery EXCEPT !.enabled = b, !.due = "never", !.attempts = n]
        PROVE  /\ recovery' \in Recoveries /\ recovery'.enabled = b /\ recovery'.due = "never"
               /\ recovery'.tier = recovery.tier
    BY <1>1, <2>1 DEF Recoveries
  <2> DEFINE n == IF recovery.due = "never" THEN recovery.attempts ELSE 0
  <2>2. n \in 0..MaxRestarts
    BY <1>1, Bounds DEF Recoveries
  <2>3. recovery' = [recovery EXCEPT !.enabled = FALSE, !.due = "never", !.attempts = n]
    BY DEF CancelledRecovery
  <2> HIDE DEF n
  <2>4. FALSE \in BOOLEAN
    OBVIOUS
  <2> QED BY <2>1, <2>2, <2>3, <2>4, Zenon
<1> QED BY <1>2 DEF SupervisorInv, Plans, Planned, IdleIsIdle, Latched, StarvedGoesLight, IsRunning

\* The operator's stop keeps the invariant.
LEMMA StopKeeps == ASSUME SupervisorInv, Stop PROVE SupervisorInv'
<1>0. /\ TypeOK /\ AllTypes /\ Handles /\ Heard /\ TailRead /\ OneHandle /\ OwnsAll /\ AtMostOne
      /\ child \in Engines \cup {NoEngine} /\ quarantined \in Engines \cup {NoEngine}
  BY TypesGrouped, TypesAt DEF SupervisorInv, Handles, Output
<1>1. /\ open /\ step = "idle" /\ IsRunning
      /\ recovery' = CancelledRecovery /\ operator' = "stop"
      /\ UNCHANGED <<frameVars, launches, starved>>
  BY DEF Stop
<1>2. phase # "Idle"
  BY <1>1 DEF SupervisorInv, Plans, IdleIsIdle
<1>h. HistoryTypes' /\ FrameTypes'
  BY <1>0, <1>1, SameTypes DEF AllTypes, HistoryTypes
\* What is left to show of each way to stop.
<1>g. ASSUME ProcessTypes', HandleTypes', OutputTypes', StopTypes', ViewTypes', Handles', Heard',
             open' = open, UNCHANGED <<receiver, queue, readers>>, phase' = "Idle" => ~LiveState'
      PROVE  SupervisorInv'
  <2>1. Plans' /\ recovery' \in Recoveries
    BY <1>1, <1>g, StopPlans
  <2>2. TypeOK'
    BY <1>g, <1>h, <2>1, TypesGroupedNext DEF AllTypes
  <2>3. Output'
    BY <1>0, <1>1, <1>g DEF Output, TailRead, frameVars
  <2> QED BY <1>g, <2>1, <2>2, <2>3 DEF SupervisorInv
<1>3. CASE StopWithoutChild
  <2>1. /\ child = NoEngine
        /\ linkLive' = (linkLive /\ recovery.due = "never")
        /\ phase' = IF pendingExit # NoCode \/ pendingFailure # "none" THEN "Stopping"
                    ELSE IF quarantined' = NoEngine THEN "Idle" ELSE phase
        /\ UNCHANGED <<platform, open, child, pendingExit, pendingFailure, outputVars, stopVars,
                       stableSince>>
    BY <1>3 DEF StopWithoutChild
  <2>2. /\ proc' \in [Engines -> States] /\ quarantined' \in {NoEngine, quarantined}
        /\ OwnsAll' /\ AtMostOne'
    <3>1. CASE quarantined = NoEngine
      <4>1. UNCHANGED <<proc, quarantined>>
        BY <1>3, <3>1 DEF StopWithoutChild
      <4> QED BY <1>0, <2>1, <4>1, TypesAt DEF OwnsAll, AtMostOne
    <3>2. CASE quarantined # NoEngine
      <4>1. Cleanup(quarantined) /\ quarantined \in Engines
        BY <1>0, <1>3, <3>2 DEF StopWithoutChild
      <4>2. \A e \in {quarantined} :
              /\ proc' \in [Engines -> States] /\ quarantined' \in {NoEngine, e}
              /\ OwnsAll' /\ AtMostOne'
        BY <1>0, <2>1, <4>1, CleanupKeeps
      <4> QED BY <4>2
    <3> QED BY <3>1, <3>2
  <2>3. ProcessTypes'
    BY <1>0, <2>1, <2>2 DEF AllTypes, ProcessTypes
  <2>4. HandleTypes'
    BY <1>0, <2>1, <2>2 DEF AllTypes, HandleTypes
  <2>5. OutputTypes' /\ StopTypes'
    BY <1>0, <2>1, SameTypes
  <2>6. ViewTypes'
    BY <1>0, <2>1 DEF AllTypes, ViewTypes, Phases
  <2>7. Handles'
    <3>1. OneHandle' /\ StopLatchIsOurs'
      BY <1>0, <2>1, <2>2 DEF OneHandle, StopLatchIsOurs
    <3> QED BY <2>2, <3>1 DEF Handles
  <2>8. Heard'
    BY <1>0, <2>1 DEF Heard, LiveStateOfChild, outputVars
  <2>9. phase' = "Idle" => ~LiveState'
    BY <1>2, <2>1 DEF LiveState
  <2> QED BY <1>g, <2>1, <2>3, <2>4, <2>5, <2>6, <2>7, <2>8, <2>9 DEF outputVars
<1>4. CASE child # NoEngine /\ LoseSight
  <2>1. /\ ProcessTypes' /\ HandleTypes' /\ OutputTypes' /\ StopTypes' /\ ViewTypes'
        /\ Handles' /\ Heard' /\ phase' = "Error" /\ open' = open
        /\ UNCHANGED <<receiver, queue, readers>>
    BY <1>4, LoseSightKeeps
  <2> QED BY <1>g, <2>1
<1>5. CASE StopFindsExit
  <2>1. /\ child # NoEngine /\ proc[child] \in Codes /\ pendingExit' = proc[child]
        /\ proc' = [proc EXCEPT ![child] = "free"] /\ child' = NoEngine
        /\ UNCHANGED <<platform, open, quarantined, pendingFailure, outputVars, stopVars, viewVars>>
    BY <1>5 DEF StopFindsExit
  <2>2. ProcessTypes' /\ HandleTypes' /\ Handles' /\ pendingExit' # NoCode
    BY <2>1, ExitTaken DEF stopVars
  <2>3. OutputTypes' /\ StopTypes' /\ ViewTypes'
    BY <1>0, <2>1, SameTypes
  <2>4. Heard'
    BY <2>2 DEF Heard, LiveStateOfChild
  <2> QED BY <1>2, <1>g, <2>1, <2>2, <2>3, <2>4 DEF outputVars, viewVars
<1>6. CASE StopKills
  <2>1. /\ child # NoEngine /\ requestedStop' = TRUE /\ phase' = "Stopping" /\ linkLive' = FALSE
        /\ proc' = [proc EXCEPT ![child] = IF proc[child] = "alive" THEN "dying" ELSE proc[child]]
        /\ UNCHANGED <<platform, handleVars, outputVars, fatalSeen, stableSince>>
    BY <1>6 DEF StopKills
  <2>2. ProcessTypes' /\ HandleTypes' /\ Handles'
    <3> DEFINE q == IF proc[child] = "alive" THEN "dying" ELSE proc[child]
    <3>1. q \in {proc[child], "dying"} /\ q # "alive" /\ (proc[child] # "alive" => q = proc[child])
      OBVIOUS
    <3>2. proc' = [proc EXCEPT ![child] = q]
      BY <2>1
    <3> HIDE DEF q
    <3> QED BY <2>1, <3>1, <3>2, KillKeeps
  <2>3. OutputTypes' /\ StopTypes' /\ ViewTypes'
    <3>1. OutputTypes'
      BY <1>0, <2>1, SameTypes
    <3>2. StopTypes' /\ ViewTypes'
      BY <1>0, <2>1 DEF AllTypes, StopTypes, ViewTypes, Phases
    <3> QED BY <3>1, <3>2
  <2>4. Heard'
    BY <2>1 DEF Heard, LiveStateOfChild, handleVars
  <2> QED BY <1>g, <2>1, <2>2, <2>3, <2>4 DEF outputVars, handleVars
<1>7. CASE StopCannotKill
  <2>1. /\ child # NoEngine /\ fatalSeen' = TRUE /\ phase' = "Error" /\ linkLive' = FALSE
        /\ UNCHANGED <<processVars, handleVars, outputVars, requestedStop, stableSince>>
    BY <1>7 DEF StopCannotKill
  <2>2. ProcessTypes' /\ HandleTypes' /\ OutputTypes'
    BY <1>0, <2>1, SameTypes
  <2>3. Handles'
    BY <1>0, <2>1, SameHandles DEF processVars, handleVars
  <2>4. StopTypes' /\ ViewTypes'
    BY <1>0, <2>1 DEF AllTypes, StopTypes, ViewTypes, Phases
  <2>5. Heard'
    BY <2>1 DEF Heard, LiveStateOfChild, handleVars
  <2> QED BY <1>g, <2>1, <2>2, <2>3, <2>4, <2>5 DEF outputVars, handleVars
<1> QED BY <1>3, <1>4, <1>5, <1>6, <1>7 DEF Stop

\* What a message may change.
LEMMA ApplyIs ==
  ASSUME TypeOK, NEW m \in Messages, Apply(m)
  PROVE  /\ fatalSeen' \in BOOLEAN /\ ViewTypes' /\ recovery' \in Recoveries
         /\ phase' = "Idle" => phase = "Idle"
         /\ \/ launches' = launches /\ recovery' = recovery
            \/ /\ launches' = 0 /\ recovery'.attempts = 0
               /\ recovery'.enabled = recovery.enabled /\ recovery'.due = recovery.due
               /\ recovery'.tier = recovery.tier
<1>0. AllTypes /\ ViewTypes /\ recovery \in Recoveries /\ fatalSeen \in BOOLEAN
  BY TypesGrouped, TypesAt DEF AllTypes
<1>1. CASE Ignored(m)
  <2>1. UNCHANGED <<fatalSeen, recovery, viewVars, launches>>
    BY <1>1 DEF Apply
  <2> QED BY <1>0, <2>1, SameTypes DEF viewVars
<1>2. CASE ~Ignored(m) /\ m = "connecting"
  <2>1. /\ phase' \in {"Connecting", "Error"} /\ linkLive' = FALSE
        /\ UNCHANGED <<fatalSeen, recovery, stableSince, launches>>
    BY <1>2 DEF Apply
  <2> QED BY <1>0, <2>1 DEF ViewTypes, Phases
<1>3. CASE ~Ignored(m) /\ m = "job"
  <2>1. /\ phase' \in {"Mining", "Error"} /\ linkLive' = TRUE
        /\ UNCHANGED <<fatalSeen, recovery, stableSince, launches>>
    BY <1>3 DEF Apply
  <2> QED BY <1>0, <2>1 DEF ViewTypes, Phases
<1>4. CASE ~Ignored(m) /\ m = "session_error"
  <2>1. /\ phase' = "Reconnecting" /\ linkLive' = FALSE /\ stableSince' = "never"
        /\ UNCHANGED <<fatalSeen, recovery, launches>>
    BY <1>4 DEF Apply
  <2> QED BY <1>0, <2>1 DEF ViewTypes, Phases
<1>5. CASE ~Ignored(m) /\ m = "engine_fatal"
  <2>1. /\ fatalSeen' = TRUE
        /\ phase' = "Error" /\ linkLive' = FALSE /\ stableSince' = "never"
        /\ UNCHANGED <<recovery, launches>>
    BY <1>5 DEF Apply
  <2> QED BY <1>0, <2>1 DEF ViewTypes, Phases
<1>6. CASE ~Ignored(m) /\ m = "metrics"
  <2>1. /\ \/ /\ stableSince' = IF stableSince = "never" THEN "lately" ELSE stableSince
              /\ recovery' = IF BudgetRenewed THEN [recovery EXCEPT !.attempts = 0]
                                              ELSE recovery
              /\ launches' = IF BudgetRenewed THEN 0 ELSE launches
           \/ stableSince' = "never" /\ UNCHANGED <<recovery, launches>>
        /\ UNCHANGED <<fatalSeen, phase, linkLive>>
    BY <1>6 DEF Apply
  <2>2. ViewTypes'
    BY <1>0, <2>1 DEF ViewTypes
  <2>3. CASE ~BudgetRenewed
    BY <1>0, <2>1, <2>2, <2>3
  <2>4. CASE BudgetRenewed
    <3>1. \/ launches' = 0 /\ recovery' = [recovery EXCEPT !.attempts = 0]
          \/ UNCHANGED <<recovery, launches>>
      BY <2>1, <2>4
    <3>2. LET q == [recovery EXCEPT !.attempts = 0]
          IN  /\ q \in Recoveries /\ q.attempts = 0 /\ q.enabled = recovery.enabled
              /\ q.due = recovery.due /\ q.tier = recovery.tier
      BY <1>0, Bounds DEF Recoveries
    <3> QED BY <1>0, <2>1, <2>2, <3>1, <3>2
  <2> QED BY <2>3, <2>4
<1> QED BY <1>1, <1>2, <1>3, <1>4, <1>5, <1>6 DEF Messages

\* Reading one message of the queue.
LEMMA DrainOneKeeps == ASSUME SupervisorInv, DrainOne PROVE SupervisorInv'
<1>0. /\ TypeOK /\ AllTypes /\ Handles /\ Heard /\ TailRead /\ Plans /\ OutputTypes /\ FrameTypes
      /\ HistoryTypes /\ StopTypes
  BY TypesGrouped DEF SupervisorInv, Output, AllTypes
<1>1. /\ open /\ step \in {"idle", "drain"} /\ receiver /\ left > 0 /\ queue # <<>>
      /\ Apply(Head(queue)) /\ queue' = Tail(queue) /\ left' = left - 1 /\ step' = "drain"
      /\ UNCHANGED <<processVars, handleVars, receiver, readers, disconnectedAt,
                     requestedStop, drained, operator, starved>>
  BY DEF DrainOne
<1>2. /\ Head(queue) \in Messages /\ Tail(queue) \in Seq(Messages)
      /\ Len(Tail(queue)) <= QueueCapacity
  <2>1. queue \in Seq(Messages) /\ Len(queue) <= QueueCapacity /\ QueueCapacity \in Nat
    BY <1>0, Bounds DEF OutputTypes
  <2>2. Head(queue) \in Messages /\ Tail(queue) \in Seq(Messages)
        /\ Len(Tail(queue)) = Len(queue) - 1 /\ Len(queue) \in Nat
    BY <1>1, <2>1
  <2> QED BY <2>1, <2>2
<1>3. /\ fatalSeen' \in BOOLEAN /\ ViewTypes' /\ recovery' \in Recoveries
      /\ phase' = "Idle" => phase = "Idle"
      /\ \/ launches' = launches /\ recovery' = recovery
         \/ /\ launches' = 0 /\ recovery'.attempts = 0
            /\ recovery'.enabled = recovery.enabled /\ recovery'.due = recovery.due
            /\ recovery'.tier = recovery.tier
  BY <1>0, <1>1, <1>2, ApplyIs
<1>4. TypeOK'
  <2>1. ProcessTypes' /\ HandleTypes'
    BY <1>0, <1>1, SameTypes
  <2>2. OutputTypes'
    BY <1>0, <1>1, <1>2 DEF OutputTypes
  <2>3. StopTypes'
    BY <1>0, <1>1, <1>3 DEF StopTypes
  <2>4. FrameTypes'
    BY <1>0, <1>1, Bounds DEF FrameTypes
  <2>5. HistoryTypes'
    BY <1>0, <1>1, <1>3 DEF HistoryTypes
  <2> QED BY <1>3, <2>1, <2>2, <2>3, <2>4, <2>5, TypesGroupedNext DEF AllTypes
<1>5. Handles'
  BY <1>0, <1>1, SameHandles DEF processVars, handleVars
<1>6. LiveStateOfChild /\ (LiveStateOfChild' <=> LiveStateOfChild) /\ (LiveState' <=> LiveState)
  BY <1>0, <1>1 DEF Heard, LiveStateOfChild, LiveState, handleVars
<1>7. Output'
  BY <1>0, <1>1, <1>6 DEF Output, Heard, TailRead, handleVars
<1>8. Plans'
  <2>1. recovery.due = "never" /\ recovery'.due = "never"
    BY <1>0, <1>3, <1>6 DEF Plans, Planned
  <2>2. Planned'
    BY <1>0, <1>1, <1>3, <2>1 DEF Plans, Planned
  <2>3. IdleIsIdle'
    BY <1>0, <1>3, <1>6 DEF Plans, IdleIsIdle, IsRunning, LiveState, LiveStateOfChild
  <2>4. Latched' /\ StarvedGoesLight'
    BY <1>0, <1>1, <1>3, <1>6 DEF Plans, Latched, StarvedGoesLight, handleVars
  <2> QED BY <2>2, <2>3, <2>4 DEF Plans
<1> QED BY <1>4, <1>5, <1>7, <1>8 DEF SupervisorInv

\* The end of a frame's look at the queue keeps the invariant.
LEMMA DrainEndsKeeps == ASSUME SupervisorInv, DrainEnds PROVE SupervisorInv'
<1>0. TypeOK /\ AllTypes /\ Handles /\ Output /\ Plans /\ TailRead
  BY TypesGrouped DEF SupervisorInv, Output
<1>1. /\ open /\ step' = "observe" /\ left' = FrameBudget
      /\ drained' = (~receiver \/ (left > 0 /\ queue = <<>> /\ readers = 0))
      /\ UNCHANGED <<processVars, handleVars, outputVars, stopVars, recovery, viewVars,
                     historyVars>>
  BY DEF DrainEnds
<1>2. drained' \in BOOLEAN /\ (drained' => queue = <<>> /\ readers = 0)
  BY <1>0, <1>1 DEF TailRead
<1>3. TypeOK'
  <2>1. FrameTypes'
    BY <1>1, <1>2, Bounds DEF FrameTypes
  <2> QED BY <1>0, <1>1, <2>1, SameTypes, TypesGroupedNext DEF AllTypes
<1>4. Handles' /\ Plans'
  BY <1>0, <1>1, SameHandles, SamePlans DEF processVars, handleVars, stopVars, viewVars,
     historyVars
<1>5. Output'
  BY <1>0, <1>1, <1>2 DEF Output, Heard, TailRead, LiveStateOfChild, handleVars, outputVars,
     viewVars
<1> QED BY <1>3, <1>4, <1>5 DEF SupervisorInv

\* What a frame learns of the process keeps the invariant.
LEMMA ObserveKeeps == ASSUME SupervisorInv, Observe PROVE SupervisorInv'
<1>0. /\ TypeOK /\ AllTypes /\ Handles /\ OneHandle /\ Output /\ Heard /\ TailRead /\ Plans
      /\ FrameTypes
  BY TypesGrouped DEF SupervisorInv, Output, AllTypes, Handles
<1>1. /\ step = "observe" /\ step' = "settle" /\ UNCHANGED <<recovery, left, drained, historyVars>>
      /\ open
  BY <1>0 DEF Observe, TailRead
<1>2. FrameTypes' /\ HistoryTypes' /\ recovery' \in Recoveries
  <2>1. FrameTypes'
    BY <1>0, <1>1 DEF FrameTypes
  <2> QED BY <1>0, <1>1, <2>1, SameTypes DEF AllTypes
\* The child leaves its slot; what is left to show of it.
<1>g. ASSUME Observes, ProcessTypes', HandleTypes', OutputTypes', StopTypes', ViewTypes',
             Handles', Heard', open' = open, UNCHANGED <<receiver, queue, readers>>,
             requestedStop' => requestedStop, phase' = "Idle" => phase = "Idle"
      PROVE  SupervisorInv'
  <2>1. child # NoEngine /\ LiveStateOfChild /\ LiveState
    BY <1>g DEF Observes, LiveStateOfChild, LiveState
  <2>2. TypeOK'
    BY <1>2, <1>g, TypesGroupedNext DEF AllTypes
  <2>3. Output'
    BY <1>0, <1>1, <1>g DEF Output, TailRead
  <2>4. recovery.due = "never" /\ phase # "Idle"
    BY <1>0, <2>1 DEF Plans, Planned, IdleIsIdle, IsRunning
  <2>5. Plans'
    BY <1>0, <1>1, <1>g, <2>1, <2>4
       DEF Plans, Planned, IdleIsIdle, Latched, StarvedGoesLight, historyVars
  <2> QED BY <1>g, <2>2, <2>3, <2>5 DEF SupervisorInv
<1>3. CASE ObserveExit
  <2>1. /\ Observes /\ child # NoEngine /\ proc[child] \in Codes /\ pendingExit' = proc[child]
        /\ proc' = [proc EXCEPT ![child] = "free"] /\ child' = NoEngine /\ linkLive' = FALSE
        /\ UNCHANGED <<platform, open, quarantined, pendingFailure, outputVars, stopVars, phase,
                       stableSince>>
    BY <1>3 DEF ObserveExit, Observes
  <2>2. ProcessTypes' /\ HandleTypes' /\ Handles' /\ pendingExit' # NoCode
    BY <2>1, ExitTaken DEF stopVars
  <2>3. OutputTypes' /\ StopTypes'
    BY <1>0, <2>1, SameTypes
  <2>4. ViewTypes'
    BY <1>0, <2>1 DEF AllTypes, ViewTypes
  <2>5. Heard'
    BY <2>2 DEF Heard, LiveStateOfChild
  <2> QED BY <1>g, <2>1, <2>2, <2>3, <2>4, <2>5 DEF outputVars, stopVars
<1>4. CASE Observes /\ LoseSight
  <2>1. /\ ProcessTypes' /\ HandleTypes' /\ OutputTypes' /\ StopTypes' /\ ViewTypes'
        /\ Handles' /\ Heard' /\ phase' = "Error" /\ open' = open /\ requestedStop' = FALSE
        /\ UNCHANGED <<receiver, queue, readers>>
    BY <1>4, LoseSightKeeps DEF Observes
  <2> QED BY <1>4, <1>g, <2>1
<1>5. CASE ObserveNothing
  <2>1. UNCHANGED <<processVars, handleVars, outputVars, stopVars, viewVars>>
    BY <1>5 DEF ObserveNothing
  <2>2. TypeOK'
    BY <1>0, <1>2, <2>1, SameTypes, TypesGroupedNext DEF AllTypes
  <2>3. Handles' /\ Plans'
    BY <1>0, <1>1, <2>1, SameHandles, SamePlans DEF processVars, handleVars, stopVars, viewVars,
       historyVars
  <2>4. Output'
    BY <1>0, <1>1, <2>1 DEF Output, Heard, TailRead, LiveStateOfChild, handleVars, outputVars,
       viewVars
  <2> QED BY <2>2, <2>3, <2>4 DEF SupervisorInv
<1> QED BY <1>3, <1>4, <1>5 DEF Observe

\* A quarantined process that is found ended, or kept.
LEMMA ReleaseKeeps ==
  ASSUME SupervisorInv, ReleaseQuarantined \/ KeepQuarantined
  PROVE  /\ proc' \in [Engines -> States] /\ quarantined' \in {quarantined, NoEngine}
         /\ \A f \in Engines : /\ proc'[f] \in {proc[f], "free"}
                               /\ f = child => proc'[f] = proc[f]
                               /\ open /\ proc'[f] # "free" => f \in {child, quarantined'}
                               /\ Running(f)' <=> Running(f)
<1>0. /\ proc \in [Engines -> States] /\ OwnsAll /\ (child = NoEngine \/ quarantined = NoEngine)
      /\ quarantined \in Engines \cup {NoEngine} /\ NoEngine \notin Engines
  BY TypesAt, Bounds DEF SupervisorInv, Handles, OneHandle
<1>1. CASE ReleaseQuarantined
  <2>1. /\ quarantined # NoEngine /\ proc[quarantined] \in Codes /\ quarantined' = NoEngine
        /\ proc' = [proc EXCEPT ![quarantined] = "free"]
    BY <1>1 DEF ReleaseQuarantined
  <2>2. \A f \in Engines : proc'[f] = IF f = quarantined THEN "free" ELSE proc[f]
    BY <1>0, <2>1
  <2>3. \A f \in Engines : Running(f)' <=> Running(f)
    BY <2>1, <2>2 DEF Running, Codes
  <2>4. proc' \in [Engines -> States]
    BY <1>0, <2>1 DEF States
  <2> QED BY <1>0, <2>1, <2>2, <2>3, <2>4 DEF OwnsAll
<1>2. CASE KeepQuarantined
  BY <1>0, <1>2 DEF KeepQuarantined, Running, OwnsAll
<1> QED BY <1>1, <1>2

\* Writing down the end of an engine, or finding none to write down.
FinishesInto ==
  /\ open' = open /\ child' = child /\ requestedStop' = requestedStop /\ fatalSeen' = fatalSeen
  /\ pendingExit' \in {pendingExit, NoCode} /\ pendingFailure' \in {pendingFailure, "none"}
  /\ OutputTypes' /\ ViewTypes' /\ recovery' \in Recoveries /\ starved' \in BOOLEAN
  /\ receiver' \/ linkLive' => LiveStateOfChild'
  /\ drained \/ ~receiver' => queue' = <<>> /\ readers' = 0
  /\ recovery'.enabled => recovery.enabled
  /\ recovery.due # "never" => recovery' = recovery
  /\ recovery.due = "never" =>
       \/ recovery'.due = "never" /\ (~recovery'.enabled \/ recovery'.attempts = recovery.attempts)
       \/ /\ recovery'.due # "never" /\ recovery'.enabled
          /\ recovery'.attempts = recovery.attempts + 1
          /\ ~requestedStop /\ ~LiveStateOfChild'
  /\ phase' = "Idle" =>
       \/ phase = "Idle" /\ recovery' = recovery
       \/ child = NoEngine /\ quarantined = NoEngine /\ pendingExit' = NoCode
          /\ pendingFailure' = "none" /\ recovery'.due = "never"
  /\ starved' => recovery'.tier = "light"

\* How a frame settles a failure, an exit, or nothing, in one form.
LEMMA FinishIs ==
  ASSUME SupervisorInv, step = "settle", FinishFailure \/ FinishExit \/ NothingToFinish
  PROVE  FinishesInto
<1>0. /\ TypeOK /\ AllTypes /\ OneHandle /\ Heard /\ TailRead /\ Planned /\ IdleIsIdle
      /\ StarvedGoesLight /\ open /\ recovery \in Recoveries /\ requestedStop \in BOOLEAN
      /\ starved \in BOOLEAN /\ ViewTypes
  BY TypesGrouped, TypesAt DEF SupervisorInv, Handles, Output, Plans, TailRead, AllTypes
<1>c. ASSUME ClearEngine
      PROVE  /\ receiver' = FALSE /\ readers' = 0 /\ queue' = <<>> /\ linkLive' = FALSE
             /\ stableSince' = "never" /\ OutputTypes'
  <2>1. /\ receiver' = FALSE /\ readers' = 0 /\ queue' = <<>> /\ disconnectedAt' = "never"
        /\ linkLive' = FALSE /\ stableSince' = "never"
    BY <1>c DEF ClearEngine
  <2>2. <<>> \in Seq(Messages) /\ Len(<<>>) <= QueueCapacity
    BY Bounds
  <2>3. queue' \in Seq(Messages) /\ Len(queue') <= QueueCapacity
    BY <2>1, <2>2
  <2>4. receiver' \in BOOLEAN /\ readers' \in 0..2 /\ disconnectedAt' \in {"never", "lately", "long ago"}
    <3>1. receiver' \in BOOLEAN /\ disconnectedAt' \in {"never", "lately", "long ago"}
      BY <2>1, Zenon
    <3>2. readers' = 0 /\ 0 \in 0..2
      <4>1. readers' = 0
        BY <2>1, Zenon
      <4> QED BY <4>1
    <3> QED BY <3>1, <3>2, Zenon
  <2>5. OutputTypes'
    BY <2>3, <2>4 DEF OutputTypes
  <2> QED BY <2>1, <2>5, Zenon
<1>v. ASSUME ClearEngine, phase' \in {"Idle", "Reconnecting", "Error"} PROVE ViewTypes'
  BY <1>c, <1>v DEF ViewTypes, Phases
<1>1. CASE FinishFailure
  <2>1. /\ pendingFailure # "none" /\ ClearEngine /\ pendingFailure' = "none"
        /\ phase' = ScheduledPhase(requestedStop, recovery)
        /\ recovery' = Scheduled(requestedStop, recovery)
        /\ UNCHANGED <<open, child, pendingExit, stopVars, starved>>
    BY <1>1 DEF FinishFailure
  <2>2. child = NoEngine /\ pendingExit = NoCode /\ LiveStateOfChild
    BY <1>0, <2>1 DEF OneHandle, LiveStateOfChild
  <2>3. recovery.due = "never" /\ ~LiveStateOfChild'
    BY <1>0, <2>1, <2>2 DEF Planned, LiveStateOfChild
  <2>4. /\ recovery' \in Recoveries /\ phase' \in {"Reconnecting", "Error"}
        /\ recovery'.enabled => recovery.enabled
        /\ \/ recovery'.due = "never" /\ (~recovery'.enabled \/ recovery'.attempts = recovery.attempts)
           \/ /\ recovery'.due # "never" /\ recovery'.enabled
              /\ recovery'.attempts = recovery.attempts + 1 /\ ~requestedStop
        /\ recovery.tier = "light" => recovery'.tier = "light"
    BY <1>0, <2>1, <2>3, ScheduledIs
  <2>5. starved' => recovery'.tier = "light"
    BY <1>0, <2>1, <2>4 DEF StarvedGoesLight
  <2> QED BY <1>0, <1>c, <1>v, <2>1, <2>2, <2>3, <2>4, <2>5 DEF FinishesInto, stopVars
<1>2. CASE FinishExit
  <2>1. /\ pendingExit # NoCode /\ ClearEngine /\ pendingExit' = NoCode
        /\ UNCHANGED <<open, child, pendingFailure, stopVars>>
    BY <1>2 DEF FinishExit
  <2>2. /\ child = NoEngine /\ quarantined = NoEngine /\ pendingFailure = "none"
        /\ LiveStateOfChild
    BY <1>0, <2>1 DEF OneHandle, LiveStateOfChild
  <2>3. recovery.due = "never" /\ ~LiveStateOfChild'
    BY <1>0, <2>1, <2>2 DEF Planned, LiveStateOfChild
  <2>4. CASE StoppedAsAsked
    <3>1. phase' = "Idle" /\ UNCHANGED <<recovery, starved>>
      BY <1>2, <2>4 DEF FinishExit
    <3>2. starved' => recovery'.tier = "light"
      BY <1>0, <3>1 DEF StarvedGoesLight
    <3> QED BY <1>0, <1>c, <1>v, <2>1, <2>2, <2>3, <3>1, <3>2 DEF FinishesInto, stopVars
  <2>5. CASE ~StoppedAsAsked
    <3> DEFINE r == Escalated(recovery, pendingExit)
    <3>1. /\ phase' = ScheduledPhase(requestedStop, r) /\ recovery' = Scheduled(requestedStop, r)
          /\ starved' = (starved \/ (platform = "windows" /\ pendingExit = "fault"))
      BY <1>2, <2>5 DEF FinishExit
    <3>2. \A c \in {pendingExit} :
            /\ Escalated(recovery, c) \in Recoveries
            /\ Escalated(recovery, c).enabled => recovery.enabled
            /\ Escalated(recovery, c).due = recovery.due
            /\ Escalated(recovery, c).attempts = recovery.attempts
            /\ recovery.tier = "light" \/ (platform = "windows" /\ c = "fault") =>
                 Escalated(recovery, c).tier = "light"
      BY <1>0, EscalatedIs
    <3>3. /\ r \in Recoveries /\ (r.enabled => recovery.enabled) /\ r.due = "never"
          /\ r.attempts = recovery.attempts
          /\ recovery.tier = "light" \/ (platform = "windows" /\ pendingExit = "fault") =>
               r.tier = "light"
      BY <2>3, <3>2
    <3> HIDE DEF r
    <3>4. /\ recovery' \in Recoveries /\ phase' \in {"Reconnecting", "Error"}
          /\ recovery'.enabled => r.enabled
          /\ \/ recovery'.due = "never" /\ (~recovery'.enabled \/ recovery'.attempts = r.attempts)
             \/ /\ recovery'.due # "never" /\ recovery'.enabled
                /\ recovery'.attempts = r.attempts + 1 /\ ~requestedStop
          /\ r.tier = "light" => recovery'.tier = "light"
      BY <1>0, <3>1, <3>3, ScheduledIs
    <3>5. starved' \in BOOLEAN /\ (starved' => recovery'.tier = "light")
      BY <1>0, <3>1, <3>3, <3>4 DEF StarvedGoesLight
    <3> QED BY <1>0, <1>c, <1>v, <2>1, <2>2, <2>3, <3>3, <3>4, <3>5 DEF FinishesInto, stopVars
  <2> QED BY <2>4, <2>5
<1>3. CASE NothingToFinish
  <2>1. UNCHANGED <<open, child, pendingExit, pendingFailure, outputVars, stopVars, recovery,
                    viewVars, starved>>
    BY <1>3 DEF NothingToFinish
  <2>2. OutputTypes' /\ ViewTypes'
    BY <1>0, <2>1, SameTypes
  <2>3. LiveStateOfChild' <=> LiveStateOfChild
    BY <2>1 DEF LiveStateOfChild
  <2>4. receiver' \/ linkLive' => LiveStateOfChild'
    BY <1>0, <2>1, <2>3 DEF Heard, outputVars, viewVars
  <2>5. drained \/ ~receiver' => queue' = <<>> /\ readers' = 0
    BY <1>0, <2>1 DEF TailRead, outputVars
  <2>6. starved' => recovery'.tier = "light"
    BY <1>0, <2>1 DEF StarvedGoesLight
  <2> QED BY <1>0, <2>1, <2>2, <2>4, <2>5, <2>6 DEF FinishesInto, stopVars, viewVars
<1> QED BY <1>1, <1>2, <1>3

\* Settling an exit or a failure keeps the invariant.
LEMMA SettleKeeps == ASSUME SupervisorInv, Settle PROVE SupervisorInv'
<1>0. /\ TypeOK /\ AllTypes /\ Handles /\ OwnsAll /\ AtMostOne /\ OneHandle /\ StopLatchIsOurs
      /\ Plans /\ Planned /\ IdleIsIdle /\ Latched /\ FrameTypes /\ HistoryTypes /\ TailRead
  BY TypesGrouped DEF SupervisorInv, AllTypes, Handles, Plans, Output
<1>1. /\ step = "settle" /\ step' = "watch" /\ UNCHANGED <<platform, left, drained, operator, launches>>
      /\ FinishFailure \/ FinishExit \/ NothingToFinish
      /\ ReleaseQuarantined \/ KeepQuarantined
  BY DEF Settle
<1>2. FinishesInto
  BY <1>1, FinishIs
<1>3. /\ proc' \in [Engines -> States] /\ quarantined' \in {quarantined, NoEngine}
      /\ \A f \in Engines : /\ proc'[f] \in {proc[f], "free"}
                            /\ f = child => proc'[f] = proc[f]
                            /\ open /\ proc'[f] # "free" => f \in {child, quarantined'}
  BY <1>1, ReleaseKeeps
<1>4. /\ open' = open /\ child' = child /\ requestedStop' = requestedStop /\ fatalSeen' = fatalSeen
      /\ pendingExit' \in {pendingExit, NoCode} /\ pendingFailure' \in {pendingFailure, "none"}
      /\ OutputTypes' /\ ViewTypes' /\ recovery' \in Recoveries /\ starved' \in BOOLEAN
  BY <1>2 DEF FinishesInto
<1>5. TypeOK'
  <2>1. ProcessTypes'
    BY <1>0, <1>1, <1>3 DEF AllTypes, ProcessTypes
  <2>2. HandleTypes'
    BY <1>0, <1>3, <1>4 DEF AllTypes, HandleTypes
  <2>3. StopTypes'
    BY <1>0, <1>4 DEF AllTypes, StopTypes
  <2>4. FrameTypes'
    BY <1>0, <1>1 DEF FrameTypes
  <2>5. HistoryTypes'
    BY <1>0, <1>1, <1>4 DEF HistoryTypes
  <2> QED BY <1>4, <2>1, <2>2, <2>3, <2>4, <2>5, TypesGroupedNext DEF AllTypes
<1>6. Handles'
  <2>1. OwnsAll' /\ AtMostOne'
    BY <1>0, <1>3, <1>4 DEF OwnsAll, AtMostOne
  <2>2. OneHandle'
    BY <1>0, <1>3, <1>4 DEF OneHandle
  <2>3. StopLatchIsOurs'
    <3>1. child \in Engines \cup {NoEngine}
      BY <1>0, TypesAt
    <3> QED BY <1>0, <1>3, <1>4, <3>1 DEF StopLatchIsOurs
  <2> QED BY <2>1, <2>2, <2>3 DEF Handles
<1>7. Output'
  <2>1. Heard'
    BY <1>2 DEF FinishesInto, Heard
  <2>2. TailRead'
    BY <1>0, <1>1, <1>2 DEF FinishesInto, TailRead
  <2> QED BY <2>1, <2>2 DEF Output
<1>8. Plans'
  <2>1. LiveStateOfChild' => LiveStateOfChild
    BY <1>4 DEF LiveStateOfChild
  <2>2. LiveState' => LiveState
    BY <1>3, <1>4 DEF LiveState
  <2>3. recovery'.enabled => operator' = "start"
    BY <1>0, <1>1, <1>2 DEF FinishesInto, Planned
  <2>4. Planned'
    <3>1. CASE recovery.due # "never"
      <4>1. recovery' = recovery
        BY <1>2, <3>1 DEF FinishesInto
      <4> QED BY <1>0, <1>1, <1>4, <2>1, <2>3, <3>1, <4>1 DEF Planned
    <3>2. CASE recovery.due = "never"
      <4>1. \/ recovery'.due = "never" /\ (~recovery'.enabled \/ recovery'.attempts = recovery.attempts)
            \/ /\ recovery'.due # "never" /\ recovery'.enabled
               /\ recovery'.attempts = recovery.attempts + 1
               /\ ~requestedStop /\ ~LiveStateOfChild'
        BY <1>2, <3>2 DEF FinishesInto
      <4>2. recovery'.enabled => launches = recovery.attempts
        BY <1>0, <1>2, <3>2 DEF FinishesInto, Planned
      <4> QED BY <1>1, <1>4, <2>3, <4>1, <4>2 DEF Planned
    <3> QED BY <3>1, <3>2
  <2>5. IdleIsIdle'
    <3>1. ASSUME phase' = "Idle" PROVE ~LiveState' /\ recovery'.due = "never"
      <4>1. \/ phase = "Idle" /\ recovery' = recovery
            \/ child = NoEngine /\ quarantined = NoEngine /\ pendingExit' = NoCode
               /\ pendingFailure' = "none" /\ recovery'.due = "never"
        BY <1>2, <3>1 DEF FinishesInto
      <4>2. CASE phase = "Idle" /\ recovery' = recovery
        BY <1>0, <2>2, <4>2 DEF IdleIsIdle, IsRunning
      <4>3. CASE child = NoEngine /\ quarantined = NoEngine /\ pendingExit' = NoCode
                 /\ pendingFailure' = "none" /\ recovery'.due = "never"
        BY <1>3, <1>4, <4>3 DEF LiveState
      <4> QED BY <4>1, <4>2, <4>3
    <3> QED BY <3>1 DEF IdleIsIdle, IsRunning
  <2>6. Latched'
    BY <1>0, <1>1, <1>4, <2>2 DEF Latched
  <2>7. StarvedGoesLight'
    BY <1>2 DEF FinishesInto, StarvedGoesLight
  <2> QED BY <2>4, <2>5, <2>6, <2>7 DEF Plans
<1> QED BY <1>5, <1>6, <1>7, <1>8 DEF SupervisorInv

\* The last look of a frame keeps the invariant.
LEMMA WatchKeeps == ASSUME SupervisorInv, Watch PROVE SupervisorInv'
<1>0. /\ TypeOK /\ AllTypes /\ Handles /\ Heard /\ TailRead /\ Plans /\ OutputTypes /\ StopTypes
      /\ ViewTypes /\ FrameTypes /\ child \in Engines \cup {NoEngine}
  BY TypesGrouped, TypesAt DEF SupervisorInv, AllTypes, Output
<1>1. /\ step = "watch" /\ open /\ step' = "idle" /\ drained' = FALSE
      /\ (EndUnwatched \/ KeepWatch) /\ stableSince' \in {stableSince, "never"}
      /\ UNCHANGED <<handleVars, receiver, readers, queue, requestedStop, recovery, left,
                     historyVars>>
  BY <1>0 DEF Watch, TailRead
<1>2. stableSince' \in {"never", "lately", "long ago"}
  <2>1. stableSince' \in {stableSince, "never"}
    BY DEF Watch
  <2> QED BY <1>0, <2>1 DEF ViewTypes
<1>3. /\ ProcessTypes' /\ Handles' /\ fatalSeen' \in BOOLEAN /\ phase' \in Phases
      /\ linkLive' \in BOOLEAN /\ (linkLive' => linkLive)
      /\ phase' = "Idle" => phase = "Idle"
      /\ disconnectedAt' \in {"never", "lately", "long ago"}
  <2>1. CASE EndUnwatched
    <3>1. /\ MustEnd /\ fatalSeen' = TRUE /\ linkLive' = FALSE /\ phase' = "Error"
          /\ UNCHANGED <<platform, disconnectedAt>>
      BY <2>1 DEF EndUnwatched
    <3>2. PICK p \in {proc[child], IF proc[child] = "alive" THEN "dying" ELSE proc[child]} :
               proc' = [proc EXCEPT ![child] = p]
      BY <2>1 DEF EndUnwatched
    <3>3. p \in {proc[child], "dying"} /\ (proc[child] # "alive" => p = proc[child])
      BY <3>2
    <3>4. child # NoEngine /\ ~requestedStop
      BY <3>1 DEF MustEnd, Unwatched
    <3>5. \A q \in {p} : ProcessTypes' /\ Handles'
      BY <1>1, <3>1, <3>2, <3>3, <3>4, KillKeeps
    <3> QED BY <1>0, <3>1, <3>5 DEF Phases, OutputTypes
  <2>2. CASE KeepWatch
    <3>1. /\ UNCHANGED <<processVars, fatalSeen, phase, linkLive>>
          /\ disconnectedAt' \in {"lately", "never", disconnectedAt}
      BY <2>2 DEF KeepWatch
    <3>2. ProcessTypes' /\ Handles'
      BY <1>0, <1>1, <3>1, SameTypes, SameHandles DEF processVars, handleVars
    <3> QED BY <1>0, <3>1, <3>2 DEF StopTypes, ViewTypes, OutputTypes
  <2> QED BY <1>1, <2>1, <2>2
<1>4. TypeOK'
  <2>1. HandleTypes' /\ HistoryTypes'
    BY <1>0, <1>1, SameTypes
  <2>2. OutputTypes'
    BY <1>0, <1>1, <1>3 DEF OutputTypes
  <2>3. StopTypes' /\ ViewTypes'
    BY <1>0, <1>1, <1>2, <1>3 DEF StopTypes, ViewTypes
  <2>4. FrameTypes'
    BY <1>0, <1>1 DEF FrameTypes
  <2>5. recovery' \in Recoveries
    BY <1>0, <1>1 DEF AllTypes
  <2> QED BY <1>3, <2>1, <2>2, <2>3, <2>4, <2>5, TypesGroupedNext DEF AllTypes
<1>5. Output'
  <2>1. Heard'
    BY <1>0, <1>1, <1>3 DEF Heard, LiveStateOfChild, handleVars
  <2>2. TailRead'
    BY <1>0, <1>1 DEF TailRead
  <2> QED BY <2>1, <2>2 DEF Output
<1>6. Plans'
  <2>1. (LiveState' <=> LiveState) /\ (LiveStateOfChild' <=> LiveStateOfChild)
    BY <1>1 DEF LiveState, LiveStateOfChild, handleVars
  <2> QED BY <1>0, <1>1, <1>3, <2>1
          DEF Plans, Planned, IdleIsIdle, Latched, StarvedGoesLight, IsRunning, handleVars,
              historyVars
<1> QED BY <1>3, <1>4, <1>5, <1>6 DEF SupervisorInv

\* The end of the window: the processes are left as they are, or ended.
LEMMA GoneKeeps ==
  ASSUME SupervisorInv, WindowIsGone, proc' \in [Engines -> States],
         \A f \in Engines : proc[f] = "free" => proc'[f] = "free"
  PROVE  SupervisorInv'
<1>0. /\ TypeOK /\ AllTypes /\ AtMostOne /\ ProcessTypes /\ HistoryTypes
  BY TypesGrouped DEF SupervisorInv, Handles, AllTypes
<1>1. /\ open' = FALSE /\ child' = NoEngine /\ quarantined' = NoEngine
      /\ pendingExit' = NoCode /\ pendingFailure' = "none"
      /\ requestedStop' = FALSE /\ fatalSeen' = FALSE /\ recovery' = NoRecovery
  BY DEF WindowIsGone
<1>2. /\ phase' = "Idle" /\ linkLive' = FALSE /\ stableSince' = "never"
      /\ step' = "idle" /\ left' = FrameBudget /\ drained' = FALSE
      /\ operator' = "stop" /\ UNCHANGED <<platform, launches, starved>>
  BY DEF WindowIsGone
<1>3. receiver' = FALSE /\ readers' = 0 /\ queue' = <<>> /\ disconnectedAt' = "never"
  BY DEF WindowIsGone
<1>4. NoRecovery \in Recoveries /\ NoRecovery.enabled = FALSE /\ NoRecovery.due = "never"
  BY Bounds DEF NoRecovery, Recoveries, Tiers
<1>5. TypeOK'
  <2>1. ProcessTypes'
    BY <1>0, <1>2 DEF ProcessTypes, States
  <2>2. HandleTypes'
    BY <1>1 DEF HandleTypes
  <2>3. OutputTypes'
    <3>1. <<>> \in Seq(Messages) /\ Len(<<>>) <= QueueCapacity
      BY Bounds
    <3>2. queue' \in Seq(Messages) /\ Len(queue') <= QueueCapacity
      BY <1>3, <3>1
    <3>3. receiver' \in BOOLEAN /\ disconnectedAt' \in {"never", "lately", "long ago"}
      BY <1>3, Zenon
    <3>4. readers' \in 0..2
      <4>1. readers' = 0
        BY <1>3, Zenon
      <4> QED BY <4>1
    <3> QED BY <3>2, <3>3, <3>4 DEF OutputTypes
  <2>4. StopTypes' /\ ViewTypes'
    BY <1>1, <1>2 DEF StopTypes, ViewTypes, Phases
  <2>5. FrameTypes'
    <3>1. FrameBudget \in 0..FrameBudget
      BY Bounds
    <3>2. left' \in 0..FrameBudget
      BY <1>2, <3>1, Zenon
    <3>3. drained' \in BOOLEAN /\ step' \in {"idle", "drain", "observe", "settle", "watch"}
      BY <1>2, Zenon
    <3> QED BY <3>2, <3>3 DEF FrameTypes
  <2>6. HistoryTypes'
    BY <1>0, <1>2 DEF HistoryTypes
  <2> QED BY <1>1, <1>4, <2>1, <2>2, <2>3, <2>4, <2>5, <2>6, TypesGroupedNext DEF AllTypes
<1>6. Handles'
  BY <1>0, <1>1 DEF Handles, OwnsAll, AtMostOne, OneHandle, StopLatchIsOurs
<1>7. Output'
  <2>1. Heard'
    BY <1>2, <1>3 DEF Heard
  <2>2. TailRead'
    BY <1>2, <1>3 DEF TailRead
  <2> QED BY <2>1, <2>2 DEF Output
<1>8. Plans'
  BY <1>1, <1>2, <1>4
     DEF Plans, Planned, IdleIsIdle, Latched, StarvedGoesLight, IsRunning, LiveState
<1> QED BY <1>5, <1>6, <1>7, <1>8 DEF SupervisorInv

\* What the end of the window leaves of each process.
LEMMA DropLeaves ==
  ASSUME SupervisorInv, Close \/ WindowDies
  PROVE  /\ open /\ WindowIsGone /\ proc' \in [Engines -> States]
         /\ \A f \in Engines : /\ proc[f] = "free" => proc'[f] = "free"
                               /\ Running(f)' => Running(f)
<1>0. proc \in [Engines -> States]
  BY TypesAt DEF SupervisorInv
<1>1. CASE WindowDies
  BY <1>0, <1>1 DEF WindowDies, Running
<1>2. CASE Close
  <2>1. /\ open /\ WindowIsGone /\ proc' \in [Engines -> States]
        /\ \A f \in Engines : proc'[f] \in AfterDrop(f)
    BY <1>2 DEF Close, States
  <2>2. \A p \in States : \A q \in TerminateAndReap(p) :
          /\ p = "free" => q.left = "free"
          /\ q.left \in {"alive", "dying"} => p \in {"alive", "dying"}
    BY TerminateLeaves
  <2>3. ASSUME NEW f \in Engines
        PROVE  /\ proc[f] = "free" => proc'[f] = "free"
               /\ Running(f)' => Running(f)
    <3>1. proc[f] \in States
      BY <1>0
    <3>2. proc'[f] = proc[f] \/ \E q \in TerminateAndReap(proc[f]) : proc'[f] = q.left
      BY <2>1 DEF AfterDrop
    <3> QED BY <2>2, <3>1, <3>2 DEF Running
  <2> QED BY <2>1, <2>3
<1> QED BY <1>1, <1>2

\* Every step of the window, of an engine or of a clock keeps the invariant.
LEMMA SupervisorStep == SupervisorInv /\ [Next]_vars => SupervisorInv'
<1> SUFFICES ASSUME SupervisorInv, [Next]_vars PROVE SupervisorInv'
  OBVIOUS
<1>1. CASE Start \/ Stop
  BY <1>1, StartKeeps, StopKeeps
<1>2. CASE Frame
  BY <1>2, DrainOneKeeps, DrainEndsKeeps, ObserveKeeps, SettleKeeps, WatchKeeps, RelaunchKeeps
     DEF Frame
<1>3. CASE ReaderDelivers \/ ReaderEnds
  BY <1>3, ReadersStep
<1>4. CASE Clocks
  BY <1>4, ClocksStep
<1>5. CASE Close \/ WindowDies
  BY <1>5, DropLeaves, GoneKeeps
<1>6. CASE \E e \in Engines : EngineExits(e) \/ OrphanExits(e)
  BY <1>6, ProcessEnds
<1>7. CASE UNCHANGED vars
  <2>1. TypeOK /\ AllTypes
    BY TypesGrouped DEF SupervisorInv
  <2>2. TypeOK'
    BY <1>7, <2>1, SameTypes, TypesGroupedNext DEF AllTypes, vars
  <2>3. Handles' /\ Output' /\ Plans'
    BY <1>7, SameHandles, SameOutput, SamePlans
       DEF SupervisorInv, vars, processVars, handleVars, outputVars, stopVars, viewVars,
           frameVars, historyVars
  <2> QED BY <2>2, <2>3 DEF SupervisorInv
<1> QED BY <1>1, <1>2, <1>3, <1>4, <1>5, <1>6, <1>7 DEF Next

\* The invariant of the supervisor always holds.
LEMMA SupervisorAlways == Spec => []SupervisorInv
BY SupervisorStarts, SupervisorStep, PTL DEF Spec

----
\* What the window holds and offers.

\* Of processes that are at most one, at most one runs.
LEMMA OneRuns ==
  ASSUME AtMostOne
  PROVE  /\ OneEngine
         /\ \A e \in Engines : Running(e) => {f \in Engines : Running(f)} = {e}
<1> DEFINE R == {f \in Engines : Running(f)}
<1>1. \A e, f \in R : e = f
  BY DEF AtMostOne, Running
<1>2. \A e \in Engines : Running(e) => R = {e}
  BY <1>1
<1>3. Cardinality(R) <= 1
  <2>1. CASE R = {}
    BY <2>1, FS_EmptySet
  <2>2. CASE R # {}
    <3>1. PICK e \in R : TRUE
      BY <2>2
    <3>2. R = {e}
      BY <1>1, <3>1
    <3>3. Cardinality({e}) = 1
      BY FS_Singleton
    <3> QED BY <3>2, <3>3
  <2> QED BY <2>1, <2>2
<1> QED BY <1>2, <1>3 DEF OneEngine

\* Whatever calls failed on the way, and however the messages of the engine and
\* the clicks of the operator fell between the steps of a frame: there is never a
\* second engine; a window that offers Start or says it is idle has no process,
\* not even one it could not end, and shows no link; a stop that it believes
\* accepted is of the process it holds; and an engine that starved keeps the
\* window at light memory.
THEOREM SupervisorHolds == Spec => []HoldsWhatIs
<1>1. SupervisorInv => HoldsWhatIs
  <2> SUFFICES ASSUME SupervisorInv PROVE HoldsWhatIs
    OBVIOUS
  <2>0. /\ TypeOK /\ OwnsAll /\ AtMostOne /\ Heard /\ IdleIsIdle
        /\ StopLatchIsOurs /\ StarvedGoesLight /\ NoEngine \notin Engines
    BY Bounds DEF SupervisorInv, Handles, Output, Plans
  <2>1. OneEngine
    BY <2>0, OneRuns
  <2>2. NothingBehindStart
    <3> SUFFICES ASSUME open, ~IsRunning \/ phase = "Idle"
                 PROVE  (\A e \in Engines : proc[e] = "free") /\ ~linkLive
      BY DEF NothingBehindStart
    <3>1. ~LiveState /\ ~LiveStateOfChild /\ child = NoEngine /\ quarantined = NoEngine
      BY <2>0 DEF IdleIsIdle, IsRunning, LiveState, LiveStateOfChild
    <3> QED BY <2>0, <3>1 DEF OwnsAll, Heard
  <2> QED BY <2>0, <2>1, <2>2 DEF HoldsWhatIs
<1> QED BY <1>1, SupervisorAlways, PTL

\* An exit is told to the operator when every line the engine wrote before it is
\* read, as a stop only to an operator who stopped an engine that was killed, and
\* with a restart planned only for an operator who still wants one.
THEOREM ExitIsTold == Spec => EndIsTold
<1> DEFINE Told == /\ queue = <<>> /\ readers = 0
                   /\ phase' = "Idle" => operator = "stop" /\ pendingExit = "killed"
                   /\ phase' = "Reconnecting" => operator = "start"
<1>1. SupervisorInv /\ [Next]_vars => (pendingExit # NoCode /\ pendingExit' = NoCode /\ open' => Told)
  <2> SUFFICES ASSUME SupervisorInv, [Next]_vars, pendingExit # NoCode, pendingExit' = NoCode, open'
               PROVE  Told
    OBVIOUS
  <2>0. /\ TypeOK /\ OneHandle /\ Handles /\ TailRead /\ Planned /\ Latched
        /\ requestedStop \in BOOLEAN /\ recovery \in Recoveries
    BY TypesAt DEF SupervisorInv, Handles, Output, Plans
  <2>1. child = NoEngine /\ LiveState /\ LiveStateOfChild
    BY <2>0 DEF OneHandle, LiveState, LiveStateOfChild
  <2>2. FinishExit /\ Settle
    <3>1. CASE Start \/ Stop
      <4>1. ~Start
        BY <2>1 DEF Start, IsRunning
      <4>2. Stop => pendingExit' = pendingExit
        BY <2>1 DEF Stop, StopWithoutChild, StopFindsExit, StopKills, StopCannotKill
      <4> QED BY <3>1, <4>1, <4>2
    <3>2. CASE DrainOne \/ DrainEnds \/ Watch \/ Relaunch
      <4>1. ~Relaunch
        BY <2>1 DEF Relaunch, Relaunches
      <4> QED BY <3>2, <4>1 DEF DrainOne, DrainEnds, Watch, handleVars
    <3>3. CASE Observe
      BY <2>1, <3>3 DEF Observe, ObserveExit, ObserveNothing, Observes, handleVars
    <3>4. CASE Settle
      BY <3>4 DEF Settle, FinishFailure, NothingToFinish
    <3>5. CASE ReaderDelivers \/ ReaderEnds
      BY <3>5 DEF ReaderDelivers, ReaderEnds, handleVars
    <3>6. CASE Clocks
      BY <3>6 DEF Clocks, RestartComesDue, DrainGraceElapses, DisconnectGraceElapses,
         StabilityElapses, handleVars
    <3>7. CASE Close \/ WindowDies
      BY <3>7 DEF Close, WindowDies, WindowIsGone
    <3>8. CASE \E e \in Engines : EngineExits(e) \/ OrphanExits(e)
      BY <3>8 DEF EngineExits, OrphanExits, handleVars
    <3>9. CASE UNCHANGED vars
      BY <3>9 DEF vars, handleVars
    <3> QED BY <3>1, <3>2, <3>3, <3>4, <3>5, <3>6, <3>7, <3>8, <3>9 DEF Next, Frame
  <2>3. drained /\ queue = <<>> /\ readers = 0
    BY <2>0, <2>2 DEF FinishExit, TailRead
  <2>4. CASE StoppedAsAsked
    <3>1. phase' = "Idle"
      BY <2>2, <2>4 DEF FinishExit
    <3>2. requestedStop /\ pendingExit = "killed"
      BY <2>4 DEF StoppedAsAsked, MatchesRequestedStop
    <3>3. operator = "stop"
      BY <2>0, <2>1, <3>2 DEF Latched
    <3> QED BY <2>3, <3>1, <3>2, <3>3
  <2>5. CASE ~StoppedAsAsked
    <3> DEFINE r == Escalated(recovery, pendingExit)
    <3>1. phase' = ScheduledPhase(requestedStop, r)
      BY <2>2, <2>5 DEF FinishExit
    <3>2. \A c \in {pendingExit} : /\ Escalated(recovery, c) \in Recoveries
                                   /\ Escalated(recovery, c).enabled => recovery.enabled
      BY <2>0, EscalatedIs
    <3>3. r \in Recoveries /\ (r.enabled => recovery.enabled)
      BY <3>2
    <3> HIDE DEF r
    <3>4. phase' \in {"Reconnecting", "Error"} /\ (phase' = "Reconnecting" => r.enabled)
      BY <2>0, <3>1, <3>3, ScheduledIs
    <3>5. recovery.enabled => operator = "start"
      BY <2>0 DEF Planned
    <3> QED BY <2>3, <3>3, <3>4, <3>5
  <2> QED BY <2>4, <2>5
<1>2. SupervisorInv /\ [Next]_vars =>
        [pendingExit # NoCode /\ pendingExit' = NoCode /\ open' => Told]_vars
  BY <1>1
<1> QED BY <1>2, SupervisorAlways, PTL DEF Spec, EndIsTold

----
\* The supervisor implements the lease.

Alive == {e \in Engines : Running(e)}
Wanted == operator = "start"
LeaseStutters == Alive' = Alive /\ Wanted' = Wanted /\ launches' = launches

\* The steps of the lease, over the state of the supervisor.
LEMMA LeaseSteps ==
  /\ Lease!Init <=> Alive = {} /\ Wanted = FALSE /\ launches = 0
  /\ Lease!Give <=> /\ Alive = {} /\ Wanted' = TRUE /\ launches' = 0
                    /\ Alive' = {} \/ \E e \in Engines : Alive' = {e}
  /\ Lease!Revoke <=> Wanted' = FALSE /\ Alive' \in SUBSET Alive /\ launches' = launches
  /\ Lease!Replace <=> /\ Wanted /\ Alive = {} /\ launches < MaxRestarts
                       /\ Alive' = {} \/ \E e \in Engines : Alive' = {e}
                       /\ launches' = launches + 1 /\ Wanted' = Wanted
  /\ Lease!Renew <=> launches' = 0 /\ Alive' = Alive /\ Wanted' = Wanted
  /\ \A e : Lease!End(e) <=>
       e \in Alive /\ Alive' = Alive \ {e} /\ Wanted' = Wanted /\ launches' = launches
  /\ LeaseStutters => UNCHANGED Lease!vars
<1>1. Lease!Init <=> Alive = {} /\ Wanted = FALSE /\ launches = 0
  BY DEF Lease!Init, Alive, Wanted
<1>2. Lease!Give <=> /\ Alive = {} /\ Wanted' = TRUE /\ launches' = 0
                     /\ Alive' = {} \/ \E e \in Engines : Alive' = {e}
  BY Zenon DEF Lease!Give, Alive, Wanted
<1>3. Lease!Revoke <=> Wanted' = FALSE /\ Alive' \in SUBSET Alive /\ launches' = launches
  BY Zenon DEF Lease!Revoke, Alive, Wanted
<1>4. Lease!Replace <=> /\ Wanted /\ Alive = {} /\ launches < MaxRestarts
                        /\ Alive' = {} \/ \E e \in Engines : Alive' = {e}
                        /\ launches' = launches + 1 /\ Wanted' = Wanted
  BY Zenon DEF Lease!Replace, Alive, Wanted
<1>5. Lease!Renew <=> launches' = 0 /\ Alive' = Alive /\ Wanted' = Wanted
  BY Zenon DEF Lease!Renew, Alive, Wanted
<1>6. \A e : Lease!End(e) <=>
        e \in Alive /\ Alive' = Alive \ {e} /\ Wanted' = Wanted /\ launches' = launches
  BY Zenon DEF Lease!End, Alive, Wanted
<1>7. LeaseStutters => UNCHANGED Lease!vars
  BY Zenon DEF Lease!vars, LeaseStutters, Alive, Wanted
<1> QED BY <1>1, <1>2, <1>3, <1>4, <1>5, <1>6, <1>7

\* What a step of the lease shows in the processes.
LEMMA AliveIs ==
  /\ (\A e \in Engines : Running(e)' <=> Running(e)) => Alive' = Alive
  /\ (\A e \in Engines : Running(e)' => Running(e)) => Alive' \in SUBSET Alive
  /\ (\A e \in Engines : proc[e] = "free") => Alive = {}
<1>1. (\A e \in Engines : Running(e)' <=> Running(e)) => Alive' = Alive
  BY DEF Alive
<1>2. (\A e \in Engines : Running(e)' => Running(e)) => Alive' \in SUBSET Alive
  BY DEF Alive
<1>3. (\A e \in Engines : proc[e] = "free") => Alive = {}
  BY DEF Alive, Running
<1> QED BY <1>1, <1>2, <1>3

\* An attempt to start finds nothing alive and leaves at most one engine.
LEMMA StartFindsNone ==
  ASSUME SupervisorInv, open, ~LiveState,
         NEW automatic \in BOOLEAN, NEW r \in Recoveries, StartEngine(automatic, r)
  PROVE  Alive = {} /\ (Alive' = {} \/ \E e \in Engines : Alive' = {e})
<1>0. TypeOK /\ OwnsAll /\ proc \in [Engines -> States]
  BY TypesAt DEF SupervisorInv, Handles
<1>1. (\A e \in Engines : proc[e] = "free") /\ (NothingSpawned \/ Spawned)
  BY <1>0, StartIs
<1>2. Alive = {}
  BY <1>1, AliveIs
<1>3. CASE NothingSpawned
  BY <1>1, <1>2, <1>3 DEF NothingSpawned, Alive, Running
<1>4. CASE Spawned
  <2>1. PICK e \in Engines, s \in {"free", "alive", "dying"} : proc' = [proc EXCEPT ![e] = s]
    BY <1>4 DEF Spawned
  <2>2. \A f \in Engines : proc'[f] = IF f = e THEN s ELSE "free"
    BY <1>0, <1>1, <2>1
  <2>3. CASE s = "free"
    <3>1. Alive' = {}
      BY <2>2, <2>3 DEF Alive, Running
    <3> QED BY <1>2, <3>1
  <2>4. CASE s # "free"
    <3>1. \A f \in Engines : Running(f)' <=> f = e
      BY <2>2, <2>4 DEF Running
    <3>2. Alive' = {e}
      BY <3>1 DEF Alive
    <3> QED BY <1>2, <3>2
  <2> QED BY <2>3, <2>4
<1> QED BY <1>1, <1>2, <1>3, <1>4

\* A stop, of whatever kind, starts nothing.
LEMMA StopStartsNone == ASSUME SupervisorInv, Stop PROVE \A e \in Engines : Running(e)' => Running(e)
<1>0. /\ TypeOK /\ OwnsAll /\ AtMostOne /\ OneHandle /\ open
      /\ child \in Engines \cup {NoEngine} /\ quarantined \in Engines \cup {NoEngine}
      /\ proc \in [Engines -> States]
  BY TypesAt DEF SupervisorInv, Handles, Stop
<1>1. CASE StopWithoutChild
  <2>1. child = NoEngine /\ child' = child /\ open' = open
    BY <1>1 DEF StopWithoutChild
  <2>2. CASE quarantined = NoEngine
    BY <1>1, <2>2 DEF StopWithoutChild, Running
  <2>3. CASE quarantined # NoEngine
    <3>1. Cleanup(quarantined) /\ quarantined \in Engines
      BY <1>0, <1>1, <2>3 DEF StopWithoutChild
    <3>2. \A q \in {quarantined} : \A e \in Engines : Running(e)' => Running(e)
      BY <1>0, <2>1, <3>1, CleanupKeeps
    <3> QED BY <3>2
  <2> QED BY <2>2, <2>3
<1>2. CASE child # NoEngine /\ LoseSight
  BY <1>2, LoseSightKeeps
<1>3. CASE StopFindsExit
  <2>1. child \in Engines /\ proc' = [proc EXCEPT ![child] = "free"]
    BY <1>0, <1>3 DEF StopFindsExit
  <2>2. \A e \in Engines : proc'[e] = IF e = child THEN "free" ELSE proc[e]
    BY <1>0, <2>1
  <2> QED BY <2>2 DEF Running
<1>4. CASE StopKills
  <2>1. /\ child \in Engines
        /\ proc' = [proc EXCEPT ![child] = IF proc[child] = "alive" THEN "dying" ELSE proc[child]]
    BY <1>0, <1>4 DEF StopKills
  <2>2. \A e \in Engines :
          proc'[e] = IF e = child THEN (IF proc[child] = "alive" THEN "dying" ELSE proc[child])
                     ELSE proc[e]
    BY <1>0, <2>1
  <2> QED BY <2>2 DEF Running
<1>5. CASE StopCannotKill
  BY <1>5 DEF StopCannotKill, processVars, Running
<1> QED BY <1>1, <1>2, <1>3, <1>4, <1>5 DEF Stop

\* Looking at the child starts nothing; at most it ends the one engine there is.
LEMMA ObserveEnds ==
  ASSUME SupervisorInv, Observe
  PROVE  LeaseStutters \/ \E e \in Engines : Lease!End(e)
<1>0. /\ AtMostOne /\ proc \in [Engines -> States]
      /\ child \in Engines \cup {NoEngine}
  BY TypesAt DEF SupervisorInv, Handles
<1>1. Wanted' = Wanted /\ launches' = launches
  BY DEF Observe, historyVars, Wanted
<1>2. CASE ObserveExit
  <2>1. /\ child # NoEngine /\ proc[child] \in Codes /\ pendingExit' = proc[child]
        /\ proc' = [proc EXCEPT ![child] = "free"] /\ child' = NoEngine
        /\ UNCHANGED <<platform, open, quarantined, pendingFailure, requestedStop>>
    BY <1>2 DEF ObserveExit, Observes, stopVars
  <2>2. \A e \in Engines : Running(e)' <=> Running(e)
    BY <2>1, ExitTaken
  <2> QED BY <1>1, <2>2, AliveIs DEF LeaseStutters
<1>3. CASE Observes /\ LoseSight
  <2>1. \A f \in Engines : Running(f)' => Running(f)
    BY <1>3, LoseSightKeeps DEF Observes
  <2>2. CASE \A f \in Engines : Running(f)' <=> Running(f)
    BY <1>1, <2>2, AliveIs DEF LeaseStutters
  <2>3. CASE \E f \in Engines : Running(f) /\ ~Running(f)'
    <3>1. PICK e \in Engines : Running(e) /\ ~Running(e)'
      BY <2>3
    <3>2. Alive = {e}
      BY <1>0, <3>1, OneRuns DEF Alive
    <3>3. Alive' = {}
      <4>1. \A f \in Engines : Running(f)' => f = e
        BY <1>0, <2>1, <3>1 DEF AtMostOne, Running
      <4> QED BY <3>1, <4>1 DEF Alive
    <3>4. Lease!End(e)
      BY <1>1, <3>2, <3>3, LeaseSteps
    <3> QED BY <3>4
  <2> QED BY <2>1, <2>2, <2>3
<1>4. CASE ObserveNothing
  <2>1. \A e \in Engines : Running(e)' <=> Running(e)
    BY <1>4 DEF ObserveNothing, processVars, Running
  <2> QED BY <1>1, <2>1, AliveIs DEF LeaseStutters
<1> QED BY <1>2, <1>3, <1>4 DEF Observe

\* Every step of the supervisor is a step of the lease, or leaves it alone.
LEMMA LeaseStep ==
  ASSUME SupervisorInv, [Next]_vars
  PROVE  Lease!Next \/ UNCHANGED Lease!vars
<1>0. /\ TypeOK /\ Handles /\ AtMostOne /\ TailRead /\ Planned
      /\ proc \in [Engines -> States] /\ recovery \in Recoveries
  BY TypesAt DEF SupervisorInv, Handles, Output, Plans
<1>s. ASSUME LeaseStutters PROVE Lease!Next \/ UNCHANGED Lease!vars
  BY <1>s, LeaseSteps
<1>e. ASSUME NEW e \in Engines, Lease!End(e) PROVE Lease!Next \/ UNCHANGED Lease!vars
  BY <1>e, Zenon DEF Lease!Next
<1>1. CASE Start
  <2>1. /\ open /\ ~LiveState /\ StartEngine(FALSE, [NoRecovery EXCEPT !.enabled = TRUE])
        /\ operator' = "start" /\ launches' = 0
    BY <1>1 DEF Start, IsRunning
  <2> DEFINE r == [NoRecovery EXCEPT !.enabled = TRUE]
  <2>2. r \in Recoveries
    <3>1. ASSUME NEW b \in BOOLEAN PROVE [NoRecovery EXCEPT !.enabled = b] \in Recoveries
      BY Bounds DEF NoRecovery, Recoveries, Tiers
    <3> QED BY <3>1, Zenon
  <2> HIDE DEF r
  <2>3. StartEngine(FALSE, r)
    BY <2>1 DEF r
  <2>4. Alive = {} /\ (Alive' = {} \/ \E e \in Engines : Alive' = {e})
    BY <2>1, <2>2, <2>3, StartFindsNone
  <2>5. Lease!Give
    BY <2>1, <2>4, LeaseSteps DEF Wanted
  <2> QED BY <2>5, Zenon DEF Lease!Next
<1>2. CASE Stop
  <2>1. Alive' \in SUBSET Alive
    BY <1>2, StopStartsNone, AliveIs
  <2>2. operator' = "stop" /\ launches' = launches
    BY <1>2 DEF Stop
  <2>3. Lease!Revoke
    BY <2>1, <2>2, LeaseSteps DEF Wanted
  <2> QED BY <2>3, Zenon DEF Lease!Next
<1>3. CASE DrainOne
  <2>1. /\ queue # <<>> /\ Apply(Head(queue)) /\ UNCHANGED <<processVars, operator>>
    BY <1>3 DEF DrainOne
  <2>2. Head(queue) \in Messages
    <3>1. queue \in Seq(Messages)
      BY <1>0 DEF TypeOK
    <3> QED BY <2>1, <3>1
  <2>3. launches' = launches \/ launches' = 0
    BY <1>0, <2>1, <2>2, ApplyIs
  <2>4. Alive' = Alive /\ Wanted' = Wanted
    BY <2>1 DEF Alive, Running, Wanted, processVars
  <2>5. LeaseStutters \/ Lease!Renew
    BY <2>3, <2>4, LeaseSteps DEF LeaseStutters
  <2> QED BY <1>s, <2>5, Zenon DEF Lease!Next
<1>4. CASE DrainEnds
  <2>1. LeaseStutters
    BY <1>4 DEF DrainEnds, processVars, historyVars, LeaseStutters, Alive, Running, Wanted
  <2> QED BY <1>s, <2>1
<1>5. CASE Observe
  BY <1>5, <1>s, <1>e, ObserveEnds
<1>6. CASE Settle
  <2>1. UNCHANGED <<operator, launches>> /\ (ReleaseQuarantined \/ KeepQuarantined)
    BY <1>6 DEF Settle
  <2>2. Alive' = Alive
    BY <2>1, ReleaseKeeps, AliveIs
  <2>3. LeaseStutters
    BY <2>1, <2>2 DEF LeaseStutters, Wanted
  <2> QED BY <1>s, <2>3
<1>7. CASE Watch
  <2>1. /\ UNCHANGED handleVars /\ requestedStop' = requestedStop /\ UNCHANGED historyVars
        /\ (EndUnwatched \/ KeepWatch)
    BY <1>7 DEF Watch
  <2>2. Alive' = Alive
    <3>1. CASE EndUnwatched
      <4>1. MustEnd /\ platform' = platform
        BY <3>1 DEF EndUnwatched
      <4>2. PICK p \in {proc[child], IF proc[child] = "alive" THEN "dying" ELSE proc[child]} :
                 proc' = [proc EXCEPT ![child] = p]
        BY <3>1 DEF EndUnwatched
      <4>3. p \in {proc[child], "dying"} /\ (proc[child] # "alive" => p = proc[child])
        BY <4>2
      <4>4. child # NoEngine /\ ~requestedStop
        BY <4>1 DEF MustEnd, Unwatched
      <4>5. \A q \in {p} : \A e \in Engines : Running(e)' <=> Running(e)
        BY <2>1, <4>1, <4>2, <4>3, <4>4, KillKeeps
      <4> QED BY <4>5, AliveIs
    <3>2. CASE KeepWatch
      BY <3>2 DEF KeepWatch, processVars, Alive, Running
    <3> QED BY <2>1, <3>1, <3>2
  <2>3. LeaseStutters
    BY <2>1, <2>2 DEF LeaseStutters, Wanted, historyVars
  <2> QED BY <1>s, <2>3
<1>8. CASE Relaunch
  <2> DEFINE r == [recovery EXCEPT !.due = "never"]
  <2>1. /\ step = "watch" /\ recovery.due = "now" /\ ~LiveState /\ StartEngine(TRUE, r)
        /\ launches' = launches + 1 /\ operator' = operator
    BY <1>8 DEF Relaunch, Relaunches
  <2>2. r \in Recoveries
    BY <1>0 DEF Recoveries
  <2> HIDE DEF r
  <2>3. open /\ operator = "start" /\ launches + 1 = recovery.attempts
    BY <1>0, <2>1 DEF TailRead, Planned
  <2>4. launches < MaxRestarts
    <3>1. recovery.attempts \in 0..MaxRestarts /\ launches \in Nat
      BY <1>0 DEF Recoveries, TypeOK
    <3> QED BY <2>3, <3>1, Bounds
  <2>5. Alive = {} /\ (Alive' = {} \/ \E e \in Engines : Alive' = {e})
    BY <2>1, <2>2, <2>3, StartFindsNone
  <2>6. Lease!Replace
    BY <2>1, <2>3, <2>4, <2>5, LeaseSteps DEF Wanted
  <2> QED BY <2>6, Zenon DEF Lease!Next
<1>9. CASE ReaderDelivers \/ ReaderEnds
  <2>1. LeaseStutters
    BY <1>9 DEF ReaderDelivers, ReaderEnds, processVars, historyVars, LeaseStutters, Alive, Running,
       Wanted
  <2> QED BY <1>s, <2>1
<1>10. CASE Clocks
  <2>1. UNCHANGED <<processVars, historyVars>>
    BY <1>10 DEF Clocks, RestartComesDue, DrainGraceElapses, DisconnectGraceElapses,
       StabilityElapses
  <2>2. LeaseStutters
    BY <2>1 DEF processVars, historyVars, LeaseStutters, Alive, Running, Wanted
  <2> QED BY <1>s, <2>2
<1>11. CASE Close \/ WindowDies
  <2>1. WindowIsGone /\ \A f \in Engines : Running(f)' => Running(f)
    BY <1>11, DropLeaves
  <2>2. Alive' \in SUBSET Alive
    BY <2>1, AliveIs
  <2>3. operator' = "stop" /\ launches' = launches
    BY <2>1 DEF WindowIsGone
  <2>4. Lease!Revoke
    BY <2>2, <2>3, LeaseSteps DEF Wanted
  <2> QED BY <2>4, Zenon DEF Lease!Next
<1>12. CASE \E e \in Engines : EngineExits(e) \/ OrphanExits(e)
  <2>1. PICK e \in Engines : EngineExits(e) \/ OrphanExits(e)
    BY <1>12
  <2>2. UNCHANGED historyVars /\ Running(e)
    BY <2>1 DEF EngineExits, OrphanExits
  <2>3. PICK c : proc' = [proc EXCEPT ![e] = c] /\ c \notin {"alive", "dying"}
    <3>1. CASE EngineExits(e)
      <4>1. platform \in {"unix", "windows", "other"}
        BY <1>0, SupervisorAssumption DEF TypeOK
      <4>2. OwnCodes[platform] \subseteq Codes /\ "killed" \in Codes
        BY <4>1 DEF OwnCodes, Codes
      <4>3. PICK c \in Codes : proc' = [proc EXCEPT ![e] = c]
        BY <3>1, <4>2 DEF EngineExits
      <4> QED BY <4>3 DEF Codes
    <3>2. CASE OrphanExits(e)
      <4>1. proc' = [proc EXCEPT ![e] = "free"]
        BY <3>2 DEF OrphanExits
      <4>2. "free" \notin {"alive", "dying"}
        OBVIOUS
      <4> QED BY <4>1, <4>2, Zenon
    <3> QED BY <2>1, <3>1, <3>2
  <2>4. \A f \in Engines : Running(f)' <=> Running(f) /\ f # e
    BY <1>0, <2>3 DEF Running
  <2>5. e \in Alive /\ Alive' = Alive \ {e}
    BY <2>2, <2>4 DEF Alive
  <2>6. Lease!End(e)
    BY <2>2, <2>5, LeaseSteps DEF Wanted, historyVars
  <2> QED BY <1>e, <2>6
<1>13. CASE UNCHANGED vars
  <2>1. LeaseStutters
    BY <1>13 DEF vars, processVars, historyVars, LeaseStutters, Alive, Running, Wanted
  <2> QED BY <1>s, <2>1
<1> QED BY <1>1, <1>2, <1>3, <1>4, <1>5, <1>6, <1>7, <1>8, <1>9, <1>10, <1>11, <1>12, <1>13
        DEF Next, Frame

\* Everything the supervisor does, at every platform and with every failing call,
\* is a step of the lease: an engine is given by the operator's Start, replaced
\* only when none runs, while the operator wants one and the budget lasts, and
\* taken back by Stop and by the end of the window.
THEOREM SupervisorImplementsLease == Spec => LeaseSpec
<1>1. Init => Lease!Init
  <2> SUFFICES ASSUME Init PROVE Lease!Init
    OBVIOUS
  <2>1. Alive = {} /\ Wanted = FALSE /\ launches = 0
    BY DEF Init, Alive, Running, Wanted
  <2> QED BY <2>1, LeaseSteps
<1>2. SupervisorInv /\ [Next]_vars => [Lease!Next]_Lease!vars
  BY LeaseStep
<1> QED BY <1>1, <1>2, SupervisorAlways, PTL DEF Spec, LeaseSpec, Lease!Spec

====
