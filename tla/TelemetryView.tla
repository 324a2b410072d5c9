--------------------------- MODULE TelemetryView ---------------------------
(***************************************************************************)
(* What the dashboard shows of the engine (apply_telemetry in gui.rs), and *)
(* the threads of the engine that tell it (main.rs): the session installs  *)
(* and loses jobs, workers prepare, fail, hash and submit, the reporter    *)
(* samples the shared state every few seconds.  They write events into one *)
(* pipe, each when it has the lock of stdout, so an event may have been    *)
(* composed before another that was written first.  The events of a job    *)
(* are written under the lock of the slot, and so are never out of order.  *)
(*                                                                         *)
(* The pipe, the thread that reads it and the queue of the window are one  *)
(* bounded FIFO here.  How the window supervises the process, stops it and *)
(* then ignores its events is in EngineSupervisor.                         *)
(*                                                                         *)
(* Some definitions follow a variant of themselves that holds a plausible  *)
(* mistake (TooLongJoblessOnce before TooLongJobless).  No action uses a   *)
(* variant: PROJECT.json says which property refutes it.                   *)
(***************************************************************************)
EXTENDS Naturals, Sequences, FiniteSets

CONSTANTS
  Session,      \* the thread of the session
  Ids,          \* job or template identifiers, which may come again
  Nothing,      \* no job, no height
  Scopes        \* the engines considered

\* A scope is a kind of session (an open pool discloses the network's target with
\* its jobs, as a node does), the workers, the heights of jobs, the length of
\* the pipe, and bounds on how often a session begins, a job is installed, a block
\* flow is told, a hash is made at each height, a share is submitted, and a worker
\* prepares anew or fails.
Bounds == {"pipe", "sessions", "installs", "flows", "hashes", "shares", "troubles"}
ASSUME TelemetryAssumption ==
  /\ Nothing \notin Nat \cup Ids \cup [height : Nat, tag : Nat]
  /\ \A s \in Scopes :
       /\ DOMAIN s = {"mode", "workers", "heights"} \cup Bounds
       /\ s.mode \in {"direct", "pool", "open pool"}
       /\ IsFiniteSet(s.heights) /\ s.heights \subseteq Nat
       /\ IsFiniteSet(s.workers) /\ Session \notin s.workers
       /\ \A b \in Bounds : s[b] \in Nat

VARIABLES
  scope,        \* the engine considered, fixed
  session,      \* where the thread of the session is
  sessions,     \* how many sessions it has begun
  flows,        \* how many block flows have been told
  slot,         \* State.job
  installing,   \* the job install_job has been called with
  installs,
  round,        \* State.round
  done,         \* history: hashes made for jobs of each height
  interval,     \* State.interval_hashes is not 0
  counts,       \* State.submitted, accepted, rejected
  held,         \* the job a worker hashes
  mind,         \* what a worker has told of itself
  pc, seen,     \* a thread's way through a submission, the counters it has read
  report,       \* the sample the reporter is composing
  troubles,     \* how often workers prepared again or failed
  pipe,
  view          \* the fields of MinerApp that telemetry writes

sessionVars == <<scope, session, sessions, flows>>
workVars    == <<slot, installing, installs>>
roundVars   == <<round, done, interval>>
workerVars  == <<held, mind, troubles>>
shareVars   == <<counts, pc, seen>>
vars == <<sessionVars, workVars, roundVars, workerVars, shareVars, report, pipe, view>>

Workers == scope.workers
Heights == scope.heights
Direct  == scope.mode = "direct"
Disclosed == scope.mode # "pool"  \* the job's block target

\* n is the number of the installation: two jobs of the same identifier are
\* different values of Arc<Job>.
Jobs == [id : Ids, height : Heights, n : 1..scope.installs]

NoCounts == [submitted |-> 0, accepted |-> 0, rejected |-> 0]
NoRound  == [height |-> Nothing, hashes |-> 0]
Asleep   == [step |-> "asleep", rate |-> FALSE, round |-> NoRound,
             height |-> Nothing, counts |-> NoCounts]

NewView ==
  [phase |-> "Starting", fatal |-> FALSE, link |-> FALSE,
   job |-> Nothing, height |-> Nothing, observed |-> FALSE, jobless |-> 0,
   round |-> 0, counts |-> NoCounts,
   ready |-> {}, errors |-> {}, canRestore |-> FALSE, stable |-> FALSE,
   tip |-> Nothing, trend |-> <<>>]

Init ==
  /\ scope \in Scopes
  /\ session = "starting" /\ sessions = 0 /\ flows = 0
  /\ slot = Nothing /\ installing = Nothing /\ installs = 0
  /\ round = NoRound /\ done = [h \in Heights |-> 0] /\ interval = FALSE
  /\ counts = NoCounts
  /\ held = [w \in Workers |-> Nothing] /\ mind = [w \in Workers |-> "unready"]
  /\ pc = [t \in Workers \cup {Session} |-> "idle"]
  /\ seen = [t \in Workers \cup {Session} |-> NoCounts]
  /\ report = Asleep
  /\ troubles = 0
  /\ pipe = <<>>
  /\ view = NewView

\* emit: the pipe takes the event, or its writer waits.
Emit(m) == Len(pipe) < scope.pipe /\ pipe' = Append(pipe, m)

-----------------------------------------------------------------------------
(* The session.                                                            *)

\* A worker or the reporter cannot be started: the engine ends.
StartFails ==
  /\ session = "starting"
  /\ Emit([kind |-> "engine_fatal"])
  /\ session' = "ended"
  /\ UNCHANGED <<scope, sessions, flows, workVars, roundVars, workerVars, shareVars,
                 report, view>>

Connecting ==
  /\ session \in {"starting", "offline"} /\ sessions < scope.sessions
  /\ Emit([kind |-> "connecting"])
  /\ session' = "connecting" /\ sessions' = sessions + 1 /\ UNCHANGED flows
  /\ UNCHANGED <<scope, workVars, roundVars, workerVars, shareVars, report, view>>

Connected ==
  /\ session = "connecting"
  /\ Emit([kind |-> IF Direct THEN "node_connected" ELSE "pool_connected"])
  /\ session' = "up"
  /\ UNCHANGED <<scope, sessions, flows, workVars, roundVars, workerVars, shareVars,
                 report, view>>

\* install_job: the statistics of the round first ...
BeginInstall ==
  /\ session = "up" /\ pc[Session] = "idle"
  /\ installing = Nothing /\ installs < scope.installs
  /\ \E id \in Ids, h \in Heights :
       /\ installing' = [id |-> id, height |-> h, n |-> installs + 1]
       /\ round' = IF round.height = h THEN round ELSE [height |-> h, hashes |-> 0]
  /\ installs' = installs + 1
  /\ UNCHANGED <<sessionVars, slot, done, interval, workerVars, shareVars, report,
                 pipe, view>>

\* ... then the slot and, under its lock, the event.
PublishJob ==
  /\ installing # Nothing
  /\ slot' = installing
  /\ Emit([kind |-> "job", job |-> installing])
  /\ installing' = Nothing
  /\ UNCHANGED <<sessionVars, installs, roundVars, workerVars, shareVars, report, view>>

\* The block flow of a node session, with a backlog.  The session it is of is
\* its tag.
BlockFlow ==
  /\ Direct /\ session = "up" /\ installing = Nothing /\ flows < scope.flows
  /\ \E h \in Heights : Emit([kind |-> "block_flow", tip |-> h, tag |-> sessions])
  /\ flows' = flows + 1
  /\ UNCHANGED <<scope, session, sessions, workVars, roundVars, workerVars, shareVars,
                 report, view>>

\* A session that fails, connected or not, gives up its job in silence ...
SessionFails ==
  /\ session \in {"connecting", "up"} /\ installing = Nothing /\ pc[Session] = "idle"
  /\ slot' = Nothing
  /\ session' = "failed"
  /\ UNCHANGED <<scope, sessions, flows, installing, installs, roundVars, workerVars,
                 shareVars, report, pipe, view>>

\* ... and is told of afterwards.
SessionError ==
  /\ session = "failed"
  /\ Emit([kind |-> "session_error"])
  /\ session' = "offline"
  /\ UNCHANGED <<scope, sessions, flows, workVars, roundVars, workerVars, shareVars,
                 report, view>>

\* A share or block is counted as accepted or rejected by the thread that has
\* the answer, which is about to tell so.
Answered(t, c) ==
  /\ counts' = [counts EXCEPT ![c] = @ + 1]
  /\ pc' = [pc EXCEPT ![t] = "answered"]
  /\ seen' = [seen EXCEPT ![t] = counts']
  /\ UNCHANGED <<sessionVars, workVars, roundVars, workerVars, report, pipe, view>>

\* A pool answers a share (handle_message).
PoolAnswers ==
  /\ ~Direct /\ session = "up" /\ installing = Nothing /\ pc[Session] = "idle"
  /\ counts.accepted + counts.rejected < counts.submitted
  /\ \E c \in {"accepted", "rejected"} : Answered(Session, c)

-----------------------------------------------------------------------------
(* The workers.                                                            *)

Take(w) ==
  /\ pc[w] = "idle" /\ held[w] # slot
  /\ held' = [held EXCEPT ![w] = slot]
  /\ UNCHANGED <<sessionVars, workVars, roundVars, mind, troubles, shareVars, report,
                 pipe, view>>

Works(w) == pc[w] = "idle" /\ held[w] # Nothing

\* `mind` after an event of the worker; a worker that is still to recover says
\* nothing of being unready.
Tells(w, m, state) ==
  /\ Emit([kind |-> m, worker |-> w])
  /\ mind' = [mind EXCEPT ![w] = state]
  /\ UNCHANGED <<sessionVars, workVars, roundVars, held, shareVars, report, view>>

Prepares(w) ==
  /\ Works(w) /\ mind[w] # "recovered" /\ troubles < scope.troubles
  /\ Tells(w, "worker_initializing", IF mind[w] = "ready" THEN "unready" ELSE mind[w])
  /\ troubles' = troubles + 1

\* A sealing error, which is reported at most every 30 seconds.
Fails(w) ==
  /\ Works(w) /\ mind[w] # "recovered" /\ troubles < scope.troubles
  /\ Tells(w, "worker_error", "failing")
  /\ troubles' = troubles + 1

\* A panic; the worker begins anew, with no memory of an error.
Panics(w) ==
  /\ Works(w) /\ troubles < scope.troubles
  /\ Tells(w, "worker_error", "panicked")
  /\ troubles' = troubles + 1

\* The first hash after an error, and the first with an engine.
Recovers(w) ==
  /\ Works(w) /\ mind[w] = "failing"
  /\ Tells(w, "worker_recovered", "recovered")
  /\ UNCHANGED troubles

IsReady(w) ==
  /\ Works(w) /\ mind[w] \in {"unready", "panicked", "recovered"}
  /\ Tells(w, "worker_ready", "ready")
  /\ UNCHANGED troubles

\* The end of a batch: interval_hashes, then record_round_hashes.
Credits(w) == Disclosed /\ round.height = held[w].height

Hashes(w) ==
  /\ Works(w) /\ mind[w] = "ready" /\ done[held[w].height] < scope.hashes
  /\ interval' = TRUE
  /\ done' = [done EXCEPT ![held[w].height] = @ + 1]
  /\ round' = IF Credits(w) THEN [round EXCEPT !.hashes = @ + 1] ELSE round
  /\ UNCHANGED <<sessionVars, workVars, workerVars, shareVars, report, pipe, view>>

\* A nonce that meets the target is submitted; a pool answers the session.
Submits(w) ==
  /\ Works(w) /\ mind[w] = "ready" /\ counts.submitted < scope.shares
  /\ counts' = [counts EXCEPT !.submitted = @ + 1]
  /\ pc' = [pc EXCEPT ![w] = IF Direct THEN "waiting" ELSE "idle"]
  /\ UNCHANGED <<sessionVars, workVars, roundVars, workerVars, seen, report, pipe, view>>

NodeRejects(w) ==
  /\ pc[w] = "waiting"
  /\ counts' = [counts EXCEPT !.rejected = @ + 1]
  /\ pc' = [pc EXCEPT ![w] = "idle"]
  /\ UNCHANGED <<sessionVars, workVars, roundVars, workerVars, seen, report, pipe, view>>

NodeAccepts(w) == pc[w] = "waiting" /\ Answered(w, "accepted")

\* A share event reads the counters one after the other, while other threads
\* count on: each is shown as it was at some moment since the answer.
Between(low, high) ==
  {c \in [DOMAIN low -> 0..scope.shares] :
     \A k \in DOMAIN low : low[k] <= c[k] /\ c[k] <= high[k]}

TellsShare(t) ==
  /\ pc[t] = "answered"
  /\ \E c \in Between(seen[t], counts) : Emit([kind |-> "share", counts |-> c])
  /\ pc' = [pc EXCEPT ![t] = IF t = Session THEN "idle" ELSE "clearing"]
  /\ seen' = [seen EXCEPT ![t] = NoCounts]
  /\ UNCHANGED <<sessionVars, workVars, roundVars, workerVars, counts, report, view>>

\* clear_job_if_current, after an accepted block: slot and event under one lock.
IsCurrent(w) == slot # Nothing /\ slot = held[w]

ClearsJob(w) ==
  /\ pc[w] = "clearing" /\ IsCurrent(w)
  /\ slot' = Nothing
  /\ Emit([kind |-> "job_cleared", job |-> held[w]])
  /\ pc' = [pc EXCEPT ![w] = "idle"]
  /\ UNCHANGED <<sessionVars, installing, installs, roundVars, workerVars, counts,
                 seen, report, view>>

ClearsNothing(w) ==
  /\ pc[w] = "clearing" /\ ~IsCurrent(w)
  /\ pc' = [pc EXCEPT ![w] = "idle"]
  /\ UNCHANGED <<sessionVars, workVars, roundVars, workerVars, counts, seen, report,
                 pipe, view>>

-----------------------------------------------------------------------------
(* The reporter: interval and round, then slot and counters, then the event. *)

SampleRound ==
  /\ report.step = "asleep" /\ session \notin {"starting", "ended"}
  /\ report' = [Asleep EXCEPT !.step = "round", !.rate = interval, !.round = round]
  /\ interval' = FALSE
  /\ UNCHANGED <<sessionVars, workVars, round, done, workerVars, shareVars, pipe, view>>

SampleSlot ==
  /\ report.step = "round"
  /\ report' = [report EXCEPT !.step = "slot", !.counts = counts,
                  !.height = IF slot = Nothing THEN Nothing ELSE slot.height]
  /\ UNCHANGED <<sessionVars, workVars, roundVars, workerVars, shareVars, pipe, view>>

EmitMetrics ==
  /\ report.step = "slot"
  /\ Emit([kind |-> "metrics", rate |-> report.rate, height |-> report.height,
           round |-> report.round, counts |-> report.counts])
  /\ report' = Asleep
  /\ UNCHANGED <<sessionVars, workVars, roundVars, workerVars, shareVars, view>>

-----------------------------------------------------------------------------
(* The view: what an event m makes of view v.                              *)

ClearActiveWork(v) ==
  [v EXCEPT !.job = Nothing, !.height = Nothing, !.observed = FALSE, !.jobless = 0,
            !.round = 0, !.stable = FALSE]

UnreadyButStable(v, w) == [v EXCEPT !.ready = @ \ {w}]
MarkWorkerUnready(v, w) == [v EXCEPT !.ready = @ \ {w}, !.stable = FALSE]

MarkReadyOnly(v, w) == [v EXCEPT !.ready = @ \cup {w}]
MarkWorkerReady(v, w) ==
  LET errors == v.errors \ {w}
      restores == w \in v.errors /\ errors = {} /\ v.canRestore /\ v.phase = "Error"
  IN  [v EXCEPT !.ready = @ \cup {w}, !.errors = errors,
                !.phase = IF restores THEN "Mining" ELSE @,
                !.canRestore = @ /\ errors # {}]

EnterMiningOnce(v) ==
  [v EXCEPT !.phase = IF v.errors = {} THEN "Mining" ELSE "Error"]
EnterMiningPhase(v) ==
  [v EXCEPT !.phase = IF v.errors = {} THEN "Mining" ELSE "Error",
            !.canRestore = v.errors # {}]

EnterConnectionPhase(v, phase) ==
  [v EXCEPT !.phase = IF v.errors = {} THEN phase ELSE "Error", !.canRestore = FALSE]

OnWorkerError(v, w) ==
  [MarkWorkerUnready(v, w) EXCEPT
     !.canRestore = IF v.errors = {} THEN v.phase = "Mining" ELSE @,
     !.errors = @ \cup {w}, !.phase = "Error"]

OnFatal(v) ==
  [ClearActiveWork(v) EXCEPT !.fatal = TRUE, !.link = FALSE, !.canRestore = FALSE,
     !.phase = "Error", !.ready = {}]

OnJob(v, job) ==
  [EnterMiningPhase(v) EXCEPT !.link = TRUE,
     !.round = IF v.height = job.height THEN @ ELSE 0,
     !.height = job.height, !.job = job.id, !.observed = FALSE, !.jobless = 0]

OnJobCleared(v, job) ==
  IF v.job = job.id /\ v.height = job.height
    THEN ClearActiveWork(v)  \* and a block found is announced
    ELSE v

OnBlockFlow(v, m) ==
  [v EXCEPT !.tip = IF v.tip = Nothing \/ m.tip > v.tip.height
                      THEN [height |-> m.tip, tag |-> m.tag] ELSE @,
            !.trend = Append(@, m.tag)]

\* One jobless sample may be older than the job it follows.
TooLongJoblessOnce(v) == TRUE
TooLongJoblessLate(v) == v.observed \/ v.jobless >= 2
TooLongJobless(v) == v.observed \/ v.jobless + 1 >= 2

FollowSlotOnly(v, height) ==
  IF v.job # Nothing /\ height = v.height THEN [v EXCEPT !.observed = TRUE] ELSE v
FollowSlot(v, height) ==
  IF v.job = Nothing THEN v
  ELSE IF height = Nothing
    THEN IF TooLongJobless(v) THEN ClearActiveWork(v) ELSE [v EXCEPT !.jobless = @ + 1]
  ELSE IF height = v.height THEN [v EXCEPT !.observed = TRUE, !.jobless = 0]
  ELSE v

AnyRound(v, m) == m.height = v.height
RoundIsOfJob(v, m) == m.round.height = m.height /\ m.height = v.height

ProvenStable(v, m) == m.rate /\ v.link /\ v.errors = {} /\ v.ready = Workers

CountsWithoutRejected(v, m) == [m.counts EXCEPT !.rejected = v.counts.rejected]
CountsShown(v, m) == m.counts

OnMetrics(v, m) ==
  LET sampled  == [v EXCEPT !.counts = CountsShown(v, m),
                            !.height = IF @ = Nothing THEN m.height ELSE @]
      followed == FollowSlot(sampled, m.height)
  IN  [followed EXCEPT
         !.round = IF RoundIsOfJob(followed, m) THEN m.round.hashes ELSE @,
         !.stable = ProvenStable(followed, m)]

OnSessionErrorKeepingFlow(v) ==
  [ClearActiveWork(v) EXCEPT !.link = FALSE, !.canRestore = FALSE,
     !.phase = "Reconnecting"]
OnSessionError(v) ==
  [ClearActiveWork(v) EXCEPT !.link = FALSE, !.canRestore = FALSE,
     !.phase = "Reconnecting", !.tip = Nothing, !.trend = <<>>]

Apply(v, m) ==
  IF v.fatal THEN v ELSE
  CASE m.kind = "connecting" ->
         [EnterConnectionPhase(v, "Connecting") EXCEPT !.link = FALSE]
    [] m.kind = "pool_connected" -> EnterConnectionPhase(v, "Authenticating")
    [] m.kind = "node_connected" -> [EnterMiningPhase(v) EXCEPT !.link = TRUE]
    [] m.kind = "worker_initializing" -> MarkWorkerUnready(v, m.worker)
    [] m.kind \in {"worker_ready", "worker_recovered"} -> MarkWorkerReady(v, m.worker)
    [] m.kind = "worker_error" -> OnWorkerError(v, m.worker)
    [] m.kind = "engine_fatal" -> OnFatal(v)
    [] m.kind = "job" -> OnJob(v, m.job)
    [] m.kind = "job_cleared" -> OnJobCleared(v, m.job)
    [] m.kind = "block_flow" -> OnBlockFlow(v, m)
    [] m.kind = "metrics" -> OnMetrics(v, m)
    [] m.kind = "share" -> [v EXCEPT !.counts = m.counts]
    [] m.kind = "session_error" -> OnSessionError(v)

\* drain_process_messages.
Show ==
  /\ pipe # <<>>
  /\ view' = Apply(view, Head(pipe))
  /\ pipe' = Tail(pipe)
  /\ UNCHANGED <<sessionVars, workVars, roundVars, workerVars, shareVars, report>>

\* The last metrics grow old, which the next frame sees (telemetry_is_fresh).
GoStale ==
  /\ view.stable
  /\ view' = [view EXCEPT !.stable = FALSE]
  /\ UNCHANGED <<sessionVars, workVars, roundVars, workerVars, shareVars, report, pipe>>

-----------------------------------------------------------------------------

SessionStep ==
  \/ StartFails \/ Connecting \/ Connected
  \/ BeginInstall \/ PublishJob \/ BlockFlow
  \/ SessionFails \/ SessionError \/ PoolAnswers

WorkerStep(w) ==
  \/ Take(w)
  \/ Prepares(w) \/ Fails(w) \/ Panics(w) \/ Recovers(w) \/ IsReady(w)
  \/ Hashes(w)
  \/ Submits(w) \/ NodeRejects(w) \/ NodeAccepts(w)
  \/ ClearsJob(w) \/ ClearsNothing(w)

Report == SampleRound \/ SampleSlot \/ EmitMetrics

Next ==
  \/ SessionStep
  \/ \E w \in Workers : WorkerStep(w)
  \/ \E t \in Workers \cup {Session} : TellsShare(t)
  \/ Report
  \/ Show \/ GoStale

Spec == Init /\ [][Next]_vars

\* The reporter goes on and frames are drawn.  Nothing is asked of the session,
\* whose node or pool may be silent, or of the workers.
FairSpec == Spec /\ WF_vars(Report) /\ WF_vars(Show)

-----------------------------------------------------------------------------
(* Properties.                                                             *)

Minds == {"unready", "ready", "failing", "panicked", "recovered"}
RoundType == [height : Heights \cup {Nothing}, hashes : Nat]
CountsType == [submitted : Nat, accepted : Nat, rejected : Nat]

TypeOK ==
  /\ scope \in Scopes
  /\ session \in {"starting", "offline", "connecting", "up", "failed", "ended"}
  /\ sessions \in 0..scope.sessions /\ installs \in 0..scope.installs
  /\ troubles \in 0..scope.troubles
  /\ flows \in 0..scope.flows /\ interval \in BOOLEAN
  /\ {slot, installing} \subseteq Jobs \cup {Nothing}
  /\ held \in [Workers -> Jobs \cup {Nothing}]
  /\ round \in RoundType /\ counts \in CountsType
  /\ done \in [Heights -> 0..scope.hashes]
  /\ mind \in [Workers -> Minds]
  /\ pc \in [Workers \cup {Session} -> {"idle", "waiting", "answered", "clearing"}]
  /\ seen \in [Workers \cup {Session} -> CountsType]
  /\ report \in [step : {"asleep", "round", "slot"}, rate : BOOLEAN,
                 round : RoundType, height : Heights \cup {Nothing}, counts : CountsType]
  /\ Len(pipe) <= scope.pipe
  /\ view.jobless \in 0..1
  /\ view.job \in Ids \cup {Nothing} /\ view.height \in Heights \cup {Nothing}
  /\ view.ready \subseteq Workers /\ view.errors \subseteq Workers

InPipe(kind) == {i \in 1..Len(pipe) : pipe[i].kind = kind}

\* Once its event has been read, the job in the slot is the job shown, with its
\* height, until the slot loses it: no sample that was composed earlier and
\* written later erases it.
LiveWorkKept ==
  slot # Nothing /\ ~view.fatal
    /\ (\A i \in InPipe("job") : pipe[i].job # slot) =>
    view.job = slot.id /\ view.height = slot.height

\* The end of a job by an accepted block always finds that job on display, and
\* so is always told as a block found.
FoundIsShown ==
  pipe # <<>> /\ Head(pipe).kind = "job_cleared" /\ ~view.fatal =>
    view.job = Head(pipe).job.id /\ view.height = Head(pipe).job.height

\* When nothing is under way, the workers shown as ready and as failed are those
\* that are, whatever panics, errors, preparations and sessions came between.
WorkersShown ==
  pipe = <<>> /\ ~view.fatal =>
    /\ view.ready = {w \in Workers : mind[w] \in {"ready", "recovered"}}
    /\ view.errors = {w \in Workers : mind[w] \in {"failing", "panicked"}}

\* With a live link the phase is Mining or Error by the state of the workers: no
\* error hides behind Mining, and Error does not outlast the last error.
PhaseTellsHealth ==
  view.link => view.phase = IF view.errors = {} THEN "Mining" ELSE "Error"

\* The period that gives the restart budget back runs only over a live link and
\* with every worker ready.
StableMeansHashing ==
  view.stable =>
    view.link /\ view.errors = {} /\ view.ready = Workers

\* The hashes shown beside a height were made for jobs of that height, and so
\* were those of the engine's round, when batches end after their job did and
\* samples are taken while a job is installed.
RoundHonest ==
  /\ round.height # Nothing => round.hashes <= done[round.height]
  /\ view.round > 0 => view.height # Nothing /\ view.round <= done[view.height]

\* The trend of the backlog and the clock of the tip never bridge two sessions.
NothingBridgesSessions ==
  \A i \in 1..Len(view.trend) : view.tip # Nothing /\ view.trend[i] = view.tip.tag

\* Work that is gone does not stay on display, though the session that lost it
\* may say nothing.
DeadWorkCleared ==
  (slot = Nothing /\ view.job # Nothing)
    ~> (slot # Nothing \/ view.job = Nothing \/ view.fatal)

\* However share events and samples overtake each other, the counters shown come
\* to be the engine's.
CountersCatchUp == <>[](view.fatal \/ view.counts = counts)

\* The job, the found block, the hashes and the trend on display are those of the
\* work and the session they stand beside, and what is said of the workers'
\* health agrees with the workers, whatever was composed before and written after.
DashboardTrue ==
  /\ TypeOK
  /\ LiveWorkKept /\ FoundIsShown /\ RoundHonest /\ NothingBridgesSessions
  /\ WorkersShown /\ PhaseTellsHealth /\ StableMeansHashing

\* The dashboard catches up with an engine that goes on or falls silent.
CatchesUp == DeadWorkCleared /\ CountersCatchUp

=============================================================================
