------------------------ MODULE TelemetryViewProofs ------------------------
(***************************************************************************)
(* The dashboard, for any number of workers, any heights, any pipe, and    *)
(* any number of sessions, jobs, hashes, shares and troubles: what it      *)
(* shows is true of the engine (DashboardTrue).                            *)
(*                                                                         *)
(* What is shown depends on what is still in the pipe, so the invariant    *)
(* says what the view will be when the first n events have been read.      *)
(* Three forms of it do:                                                   *)
(*   - a switch that some events turn on and some turn off (Latch): the    *)
(*     link, and for each worker whether it is ready and whether it has    *)
(*     failed.  Read to the end, the switches of a worker are its own      *)
(*     state; the link is off wherever a session begins;                   *)
(*   - a job that stays on display from its own event on (Stays), where    *)
(*     the one sample that was composed before the job was installed is    *)
(*     the first that follows it, and so cannot take it off;               *)
(*   - the tag of a block flow, the same for all that no session_error     *)
(*     divides (FlowsKnown).                                               *)
(* Each is kept when an event is written, by what the writer knows of the  *)
(* state (Moves), and when the first is read, by what it makes of the view *)
(* (ShownAs).  An engine that could not start has told of nothing else     *)
(* (Unborn).                                                               *)
(***************************************************************************)
EXTENDS TelemetryView, SequenceTheorems, TLAPS

----
\* A switch that some events turn on and some turn off, as it will be after the
\* first n events of p.
Latch(on, off, now, p, n) ==
  \/ \E i \in 1..n : p[i] \in on /\ \A j \in (i + 1)..n : p[j] \notin off
  \/ now /\ \A j \in 1..n : p[j] \notin off

\* Before any event a switch is as it is now ...
LEMMA LatchZero ==
  ASSUME NEW on, NEW off, NEW now, NEW p
  PROVE  Latch(on, off, now, p, 0) <=> now
BY DEF Latch

\* ... and the last event that turns it decides.
LEMMA LatchNext ==
  ASSUME NEW on, NEW off, NEW now, NEW p, NEW n \in Nat
  PROVE  Latch(on, off, now, p, n + 1)
           <=> p[n + 1] \in on \/ (Latch(on, off, now, p, n) /\ p[n + 1] \notin off)
<1>1. ASSUME Latch(on, off, now, p, n + 1), p[n + 1] \notin on
      PROVE  Latch(on, off, now, p, n) /\ p[n + 1] \notin off
  <2>1. CASE \E i \in 1..(n + 1) : p[i] \in on /\ \A j \in (i + 1)..(n + 1) : p[j] \notin off
    <3>1. PICK i \in 1..(n + 1) : p[i] \in on /\ \A j \in (i + 1)..(n + 1) : p[j] \notin off
      BY <2>1
    <3>2. i \in 1..n
      BY <1>1, <3>1
    <3>3. n + 1 \in (i + 1)..(n + 1) /\ (i + 1)..n \subseteq (i + 1)..(n + 1)
      BY <3>2
    <3> QED BY <3>1, <3>2, <3>3 DEF Latch
  <2>2. CASE now /\ \A j \in 1..(n + 1) : p[j] \notin off
    <3>1. n + 1 \in 1..(n + 1) /\ 1..n \subseteq 1..(n + 1)
      OBVIOUS
    <3> QED BY <2>2, <3>1 DEF Latch
  <2> QED BY <1>1, <2>1, <2>2 DEF Latch
<1>2. ASSUME p[n + 1] \in on PROVE Latch(on, off, now, p, n + 1)
  <2>1. n + 1 \in 1..(n + 1) /\ (n + 1 + 1)..(n + 1) = {}
    OBVIOUS
  <2> QED BY <1>2, <2>1 DEF Latch
<1>3. ASSUME Latch(on, off, now, p, n), p[n + 1] \notin off
      PROVE  Latch(on, off, now, p, n + 1)
  <2>1. CASE \E i \in 1..n : p[i] \in on /\ \A j \in (i + 1)..n : p[j] \notin off
    <3>1. PICK i \in 1..n : p[i] \in on /\ \A j \in (i + 1)..n : p[j] \notin off
      BY <2>1
    <3>2. \A j \in (i + 1)..(n + 1) : j \in (i + 1)..n \/ j = n + 1
      OBVIOUS
    <3>3. i \in 1..(n + 1)
      OBVIOUS
    <3> QED BY <1>3, <3>1, <3>2, <3>3 DEF Latch
  <2>2. CASE now /\ \A j \in 1..n : p[j] \notin off
    <3>1. \A j \in 1..(n + 1) : j \in 1..n \/ j = n + 1
      OBVIOUS
    <3> QED BY <1>3, <2>2, <3>1 DEF Latch
  <2> QED BY <1>3, <2>1, <2>2 DEF Latch
<1> QED BY <1>1, <1>2, <1>3

\* A switch depends on the events it has met alone ...
LEMMA LatchSame ==
  ASSUME NEW on, NEW off, NEW now, NEW p, NEW q, NEW n \in Nat,
         \A i \in 1..n : q[i] = p[i]
  PROVE  Latch(on, off, now, q, n) <=> Latch(on, off, now, p, n)
<1>1. \A i \in 1..n : (i + 1)..n \subseteq 1..n
  OBVIOUS
<1> QED BY <1>1 DEF Latch

\* ... and the one that is as the first event leaves it has the rest to meet.
LEMMA LatchShift ==
  ASSUME NEW on, NEW off, NEW now, NEW then, NEW p, NEW q, NEW n \in Nat,
         \A i \in 1..n : q[i] = p[i + 1],
         then <=> p[1] \in on \/ (now /\ p[1] \notin off)
  PROVE  Latch(on, off, then, q, n) <=> Latch(on, off, now, p, n + 1)
<1>1. ASSUME Latch(on, off, then, q, n) PROVE Latch(on, off, now, p, n + 1)
  <2>1. CASE \E i \in 1..n : q[i] \in on /\ \A j \in (i + 1)..n : q[j] \notin off
    <3>1. PICK i \in 1..n : q[i] \in on /\ \A j \in (i + 1)..n : q[j] \notin off
      BY <2>1
    <3>2. ASSUME NEW j \in (i + 1 + 1)..(n + 1) PROVE p[j] \notin off
      <4>1. j - 1 \in (i + 1)..n /\ j - 1 \in 1..n /\ (j - 1) + 1 = j
        OBVIOUS
      <4> QED BY <3>1, <4>1
    <3>3. i + 1 \in 1..(n + 1) /\ p[i + 1] \in on
      BY <3>1
    <3> QED BY <3>2, <3>3 DEF Latch
  <2>2. CASE then /\ \A j \in 1..n : q[j] \notin off
    <3>1. ASSUME NEW j \in 2..(n + 1) PROVE p[j] \notin off
      <4>1. j - 1 \in 1..n /\ (j - 1) + 1 = j
        OBVIOUS
      <4> QED BY <2>2, <4>1
    <3>2. CASE p[1] \in on
      <4>1. 1 \in 1..(n + 1) /\ (1 + 1)..(n + 1) = 2..(n + 1)
        OBVIOUS
      <4> QED BY <3>1, <3>2, <4>1 DEF Latch
    <3>3. CASE now /\ p[1] \notin off
      <4>1. \A j \in 1..(n + 1) : j = 1 \/ j \in 2..(n + 1)
        OBVIOUS
      <4> QED BY <3>1, <3>3, <4>1 DEF Latch
    <3> QED BY <2>2, <3>2, <3>3
  <2> QED BY <1>1, <2>1, <2>2 DEF Latch
<1>2. ASSUME Latch(on, off, now, p, n + 1) PROVE Latch(on, off, then, q, n)
  <2>1. ASSUME NEW i \in 1..(n + 1), p[i] \in on,
               \A j \in (i + 1)..(n + 1) : p[j] \notin off
        PROVE  Latch(on, off, then, q, n)
    <3>1. CASE i = 1
      <4>1. ASSUME NEW j \in 1..n PROVE q[j] \notin off
        <5>1. j + 1 \in (i + 1)..(n + 1)
          BY <3>1
        <5> QED BY <2>1, <5>1
      <4> QED BY <2>1, <3>1, <4>1 DEF Latch
    <3>2. CASE i # 1
      <4>1. i - 1 \in 1..n /\ (i - 1) + 1 = i
        BY <3>2
      <4>2. ASSUME NEW j \in ((i - 1) + 1)..n PROVE q[j] \notin off
        <5>1. j + 1 \in (i + 1)..(n + 1) /\ j \in 1..n
          BY <4>1
        <5> QED BY <2>1, <5>1
      <4>3. q[i - 1] \in on
        BY <2>1, <4>1
      <4> QED BY <4>1, <4>2, <4>3 DEF Latch
    <3> QED BY <3>1, <3>2
  <2>2. ASSUME now, \A j \in 1..(n + 1) : p[j] \notin off
        PROVE  Latch(on, off, then, q, n)
    <3>1. 1 \in 1..(n + 1) /\ \A j \in 1..n : j + 1 \in 1..(n + 1)
      OBVIOUS
    <3> QED BY <2>2, <3>1 DEF Latch
  <2> QED BY <1>2, <2>1, <2>2 DEF Latch
<1> QED BY <1>1, <1>2

----
\* The inductive invariant: types.

AnyCounts == [{"submitted", "accepted", "rejected"} -> Nat]
WorkerKinds == {"worker_initializing", "worker_error", "worker_recovered", "worker_ready"}
SessionKinds == {"connecting", "pool_connected", "node_connected", "session_error",
                 "engine_fatal"}
Events ==
  [kind : SessionKinds]
    \cup [kind : {"job", "job_cleared"}, job : Jobs]
    \cup [kind : WorkerKinds, worker : Workers]
    \cup [kind : {"block_flow"}, tip : Heights, tag : Nat]
    \cup [kind : {"share"}, counts : AnyCounts]
    \cup [kind : {"metrics"}, rate : BOOLEAN, height : Heights \cup {Nothing},
          round : RoundType, counts : CountsType]

Phases == {"Starting", "Connecting", "Authenticating", "Mining", "Reconnecting", "Error"}
Tips == [height : Heights, tag : Nat]
ViewType ==
  [phase : Phases, fatal : BOOLEAN, link : BOOLEAN,
   job : Ids \cup {Nothing}, height : Heights \cup {Nothing}, observed : BOOLEAN,
   jobless : 0..1, round : Nat, counts : AnyCounts,
   ready : SUBSET Workers, errors : SUBSET Workers, canRestore : BOOLEAN,
   stable : BOOLEAN, tip : Tips \cup {Nothing}, trend : Seq(Nat)]

\* The types by the groups of variables.
SessionTypes ==
  /\ session \in {"starting", "offline", "connecting", "up", "failed", "ended"}
  /\ sessions \in 0..scope.sessions /\ flows \in 0..scope.flows
WorkTypes == {slot, installing} \subseteq Jobs \cup {Nothing} /\ installs \in 0..scope.installs
RoundTypes ==
  round \in RoundType /\ done \in [Heights -> 0..scope.hashes] /\ interval \in BOOLEAN
WorkerTypes ==
  /\ held \in [Workers -> Jobs \cup {Nothing}] /\ mind \in [Workers -> Minds]
  /\ troubles \in 0..scope.troubles
ShareTypes ==
  /\ counts \in CountsType
  /\ pc \in [Workers \cup {Session} -> {"idle", "waiting", "answered", "clearing"}]
  /\ seen \in [Workers \cup {Session} -> CountsType]
ReportTypes ==
  report \in [step : {"asleep", "round", "slot"}, rate : BOOLEAN,
              round : RoundType, height : Heights \cup {Nothing}, counts : CountsType]
PipeTypes == pipe \in Seq(Events) /\ Len(pipe) <= scope.pipe
Typed ==
  /\ scope \in Scopes /\ SessionTypes /\ WorkTypes /\ RoundTypes /\ WorkerTypes
  /\ ShareTypes /\ ReportTypes /\ PipeTypes /\ view \in ViewType

\* What the assumption says of the engine considered.
LEMMA ScopeBounds ==
  ASSUME scope \in Scopes
  PROVE  /\ Heights \subseteq Nat /\ Nothing \notin Nat \cup Ids \cup Tips /\ Session \notin Workers
         /\ scope.pipe \in Nat /\ scope.sessions \in Nat /\ scope.installs \in Nat
         /\ scope.flows \in Nat /\ scope.hashes \in Nat /\ scope.shares \in Nat
         /\ scope.troubles \in Nat
<1>1. /\ Heights \subseteq Nat /\ Session \notin Workers
      /\ \A b \in Bounds : scope[b] \in Nat
  BY TelemetryAssumption DEF Heights, Workers
<1>2. Nothing \notin Tips
  <2>1. Tips \subseteq [height : Nat, tag : Nat]
    BY <1>1 DEF Tips
  <2> QED BY <2>1, TelemetryAssumption
<1> QED BY <1>1, <1>2, TelemetryAssumption DEF Bounds

\* Counters are what a share event can carry.
LEMMA CountsAreAny == CountsType \subseteq AnyCounts
BY DEF CountsType, AnyCounts

\* The types here are at least those the runs check.
LEMMA TypedIsTypeOK == Typed => TypeOK
<1> SUFFICES ASSUME Typed PROVE TypeOK
  OBVIOUS
<1>1. /\ view.jobless \in 0..1
      /\ view.job \in Ids \cup {Nothing} /\ view.height \in Heights \cup {Nothing}
      /\ view.ready \subseteq Workers /\ view.errors \subseteq Workers
  BY DEF Typed, ViewType
<1> QED BY <1>1 DEF Typed, TypeOK, SessionTypes, WorkTypes, RoundTypes, WorkerTypes,
        ShareTypes, ReportTypes, PipeTypes

\* What the sets of types are made of does not change.
LEMMA SameSets ==
  ASSUME scope' = scope
  PROVE  /\ Workers' = Workers /\ Heights' = Heights /\ Jobs' = Jobs /\ RoundType' = RoundType
         /\ Events' = Events /\ Tips' = Tips /\ ViewType' = ViewType
         /\ Direct' = Direct /\ Disclosed' = Disclosed
<1>1. Workers' = Workers /\ Heights' = Heights /\ Direct' = Direct /\ Disclosed' = Disclosed
  BY DEF Workers, Heights, Direct, Disclosed
<1>2. Jobs' = Jobs /\ RoundType' = RoundType /\ Tips' = Tips
  BY <1>1 DEF Jobs, RoundType, Tips
<1>3. Events' = Events
  BY <1>1, <1>2 DEF Events, WorkerKinds, SessionKinds, AnyCounts, CountsType
<1>4. ViewType' = ViewType
  BY <1>1, <1>2 DEF ViewType, Phases, AnyCounts
<1> QED BY <1>1, <1>2, <1>3, <1>4

\* An event has the fields of its kind.
LEMMA EventFields ==
  ASSUME NEW m \in Events
  PROVE  /\ m.kind \in SessionKinds \cup WorkerKinds
                         \cup {"job", "job_cleared", "block_flow", "share", "metrics"}
         /\ m.kind \in {"job", "job_cleared"} => m.job \in Jobs
         /\ m.kind \in WorkerKinds => m.worker \in Workers
         /\ m.kind = "block_flow" => m.tip \in Heights /\ m.tag \in Nat
         /\ m.kind = "share" => m.counts \in AnyCounts
         /\ m.kind = "metrics" =>
              /\ m.rate \in BOOLEAN /\ m.height \in Heights \cup {Nothing}
              /\ m.round \in RoundType /\ m.counts \in CountsType
BY DEF Events, SessionKinds, WorkerKinds

\* Events that can be written.
LEMMA EventsMade ==
  /\ \A k \in SessionKinds : [kind |-> k] \in Events
  /\ \A j \in Jobs : [kind |-> "job", job |-> j] \in Events
                       /\ [kind |-> "job_cleared", job |-> j] \in Events
  /\ \A k \in WorkerKinds, w \in Workers : [kind |-> k, worker |-> w] \in Events
  /\ \A h \in Heights, n \in Nat : [kind |-> "block_flow", tip |-> h, tag |-> n] \in Events
  /\ \A c \in AnyCounts : [kind |-> "share", counts |-> c] \in Events
  /\ \A r \in BOOLEAN, h \in Heights \cup {Nothing}, n \in RoundType, c \in CountsType :
       [kind |-> "metrics", rate |-> r, height |-> h, round |-> n, counts |-> c] \in Events
BY DEF Events

----
\* Who changes what.

\* What the steps of the session leave alone ...
LEMMA Frames ==
  /\ StartFails =>
       UNCHANGED <<scope, workVars, roundVars, workerVars, shareVars, report, view>>
  /\ Connecting =>
       UNCHANGED <<scope, workVars, roundVars, workerVars, shareVars, report, view>>
  /\ Connected =>
       UNCHANGED <<scope, workVars, roundVars, workerVars, shareVars, report, view>>
  /\ BeginInstall =>
       UNCHANGED <<sessionVars, slot, done, workerVars, shareVars, report, pipe, view>>
  /\ PublishJob =>
       UNCHANGED <<sessionVars, roundVars, workerVars, shareVars, report, view>>
  /\ BlockFlow =>
       UNCHANGED <<scope, session, sessions, workVars, roundVars, workerVars, shareVars,
                   report, view>>
  /\ SessionFails =>
       UNCHANGED <<scope, sessions, flows, installing, installs, roundVars, workerVars,
                   shareVars, report, pipe, view>>
  /\ SessionError =>
       UNCHANGED <<scope, workVars, roundVars, workerVars, shareVars, report, view>>
  /\ PoolAnswers =>
       UNCHANGED <<sessionVars, workVars, roundVars, workerVars, report, pipe, view>>
<1> USE DEF sessionVars, workVars, roundVars, workerVars, shareVars
<1>1. StartFails =>
       UNCHANGED <<scope, workVars, roundVars, workerVars, shareVars, report, view>>
  BY DEF StartFails
<1>2. Connecting =>
       UNCHANGED <<scope, workVars, roundVars, workerVars, shareVars, report, view>>
  BY DEF Connecting
<1>3. Connected =>
       UNCHANGED <<scope, workVars, roundVars, workerVars, shareVars, report, view>>
  BY DEF Connected
<1>4. BeginInstall =>
       UNCHANGED <<sessionVars, slot, done, workerVars, shareVars, report, pipe, view>>
  BY DEF BeginInstall
<1>5. PublishJob =>
       UNCHANGED <<sessionVars, roundVars, workerVars, shareVars, report, view>>
  BY DEF PublishJob
<1>6. BlockFlow =>
       UNCHANGED <<scope, session, sessions, workVars, roundVars, workerVars, shareVars,
                   report, view>>
  BY DEF BlockFlow
<1>7. SessionFails =>
       UNCHANGED <<scope, sessions, flows, installing, installs, roundVars, workerVars,
                   shareVars, report, pipe, view>>
  BY DEF SessionFails
<1>8. SessionError =>
       UNCHANGED <<scope, workVars, roundVars, workerVars, shareVars, report, view>>
  BY DEF SessionError
<1>9. PoolAnswers =>
       UNCHANGED <<sessionVars, workVars, roundVars, workerVars, report, pipe, view>>
  BY DEF PoolAnswers, Answered
<1> HIDE DEF sessionVars, workVars, roundVars, workerVars, shareVars
<1> QED BY <1>1, <1>2, <1>3, <1>4, <1>5, <1>6, <1>7, <1>8, <1>9

\* A worker tells of itself with an event of one kind.
Told(w, m, state) ==
  /\ Works(w) /\ Tells(w, m, state)
  /\ \/ m = "worker_initializing" /\ mind[w] # "recovered"
          /\ state = IF mind[w] = "ready" THEN "unready" ELSE mind[w]
     \/ m = "worker_error" /\ state \in {"failing", "panicked"}
     \/ m = "worker_recovered" /\ state = "recovered"
     \/ m = "worker_ready" /\ state = "ready"
  /\ \/ troubles < scope.troubles /\ troubles' = troubles + 1
     \/ UNCHANGED troubles

\* A step about shares that no event tells of, or a worker that takes a job.
Counting == UNCHANGED <<sessionVars, workVars, roundVars, mind, troubles, report, pipe, view>>

\* ... those of a worker ...
LEMMA WorkerFrames ==
  ASSUME NEW w \in Workers
  PROVE  /\ Prepares(w) \/ Fails(w) \/ Panics(w) \/ Recovers(w) \/ IsReady(w) =>
              \E m \in WorkerKinds, s \in Minds \cup {mind[w]} : Told(w, m, s)
         /\ Take(w) => Counting
         /\ Submits(w) \/ NodeRejects(w) \/ NodeAccepts(w) \/ ClearsNothing(w) =>
              Counting /\ UNCHANGED held
         /\ Hashes(w) => UNCHANGED <<sessionVars, workVars, workerVars, shareVars, report,
                                     pipe, view>>
         /\ ClearsJob(w) => UNCHANGED <<sessionVars, installing, installs, roundVars,
                                        workerVars, report, view>>
<1>1. Prepares(w) => Told(w, "worker_initializing", IF mind[w] = "ready" THEN "unready" ELSE mind[w])
  BY DEF Prepares, Told
<1>2. Fails(w) => Told(w, "worker_error", "failing")
  BY DEF Fails, Told
<1>3. Panics(w) => Told(w, "worker_error", "panicked")
  BY DEF Panics, Told
<1>4. Recovers(w) => Told(w, "worker_recovered", "recovered")
  BY DEF Recovers, Told
<1>5. IsReady(w) => Told(w, "worker_ready", "ready")
  BY DEF IsReady, Told
<1>6. /\ (IF mind[w] = "ready" THEN "unready" ELSE mind[w]) \in Minds \cup {mind[w]}
      /\ {"failing", "panicked", "recovered", "ready"} \subseteq Minds \cup {mind[w]}
      /\ WorkerKinds = {"worker_initializing", "worker_error", "worker_recovered", "worker_ready"}
  BY DEF Minds, WorkerKinds
<1>7. Take(w) => Counting
  BY DEF Take, Counting
<1>8. Submits(w) \/ NodeRejects(w) \/ NodeAccepts(w) \/ ClearsNothing(w) =>
        Counting /\ UNCHANGED held
  BY DEF Submits, NodeRejects, NodeAccepts, Answered, ClearsNothing, Counting, workerVars
<1>9. Hashes(w) => UNCHANGED <<sessionVars, workVars, workerVars, shareVars, report, pipe, view>>
  BY DEF Hashes
<1>10. ClearsJob(w) => UNCHANGED <<sessionVars, installing, installs, roundVars, workerVars,
                                   report, view>>
  BY DEF ClearsJob
<1> QED BY <1>1, <1>2, <1>3, <1>4, <1>5, <1>6, <1>7, <1>8, <1>9, <1>10

\* ... and those of a share event, of the reporter and of the window.
LEMMA OtherFrames ==
  /\ \A t \in Workers \cup {Session} : TellsShare(t) =>
       UNCHANGED <<sessionVars, workVars, roundVars, workerVars, counts, report, view>>
  /\ SampleRound =>
       UNCHANGED <<sessionVars, workVars, round, done, workerVars, shareVars, pipe, view>>
  /\ SampleSlot =>
       UNCHANGED <<sessionVars, workVars, roundVars, workerVars, shareVars, pipe, view>>
  /\ EmitMetrics =>
       UNCHANGED <<sessionVars, workVars, roundVars, workerVars, shareVars, view>>
  /\ Show =>
       UNCHANGED <<sessionVars, workVars, roundVars, workerVars, shareVars, report>>
  /\ GoStale =>
       UNCHANGED <<sessionVars, workVars, roundVars, workerVars, shareVars, report, pipe>>
<1>1. \A t \in Workers \cup {Session} : TellsShare(t) =>
        UNCHANGED <<sessionVars, workVars, roundVars, workerVars, counts, report, view>>
  BY DEF TellsShare
<1>2. SampleRound =>
       UNCHANGED <<sessionVars, workVars, round, done, workerVars, shareVars, pipe, view>>
  BY DEF SampleRound
<1>3. SampleSlot =>
       UNCHANGED <<sessionVars, workVars, roundVars, workerVars, shareVars, pipe, view>>
  BY DEF SampleSlot
<1>4. EmitMetrics =>
       UNCHANGED <<sessionVars, workVars, roundVars, workerVars, shareVars, view>>
  BY DEF EmitMetrics
<1>5. Show =>
       UNCHANGED <<sessionVars, workVars, roundVars, workerVars, shareVars, report>>
  BY DEF Show
<1>6. GoStale =>
       UNCHANGED <<sessionVars, workVars, roundVars, workerVars, shareVars, report, pipe>>
  BY DEF GoStale
<1> QED BY <1>1, <1>2, <1>3, <1>4, <1>5, <1>6

\* The steps that change a group of variables.
SessionMoves ==
  StartFails \/ Connecting \/ Connected \/ BlockFlow \/ SessionFails \/ SessionError
WorkMoves == BeginInstall \/ PublishJob \/ SessionFails \/ \E w \in Workers : ClearsJob(w)
RoundMoves == BeginInstall \/ SampleRound \/ \E w \in Workers : Hashes(w)
WorkerMoves ==
  \E w \in Workers : Take(w) \/ \E m \in WorkerKinds, s \in Minds \cup {mind[w]} : Told(w, m, s)
ShareMoves ==
  \/ PoolAnswers
  \/ \E w \in Workers : \/ Submits(w) \/ NodeRejects(w) \/ NodeAccepts(w)
                        \/ ClearsJob(w) \/ ClearsNothing(w)
  \/ \E t \in Workers \cup {Session} : TellsShare(t)
Writes ==
  \/ StartFails \/ Connecting \/ Connected \/ PublishJob \/ BlockFlow \/ SessionError
  \/ \E w \in Workers : \/ ClearsJob(w)
                        \/ \E m \in WorkerKinds, s \in Minds \cup {mind[w]} : Told(w, m, s)
  \/ \E t \in Workers \cup {Session} : TellsShare(t)
  \/ EmitMetrics

\* Each group of variables is changed by the steps named for it alone.
LEMMA Changers ==
  ASSUME [Next]_vars
  PROVE  /\ scope' = scope
         /\ UNCHANGED sessionVars \/ SessionMoves
         /\ UNCHANGED workVars \/ WorkMoves
         /\ UNCHANGED roundVars \/ RoundMoves
         /\ UNCHANGED workerVars \/ WorkerMoves
         /\ UNCHANGED shareVars \/ ShareMoves
         /\ UNCHANGED report \/ Report
         /\ UNCHANGED pipe \/ Writes \/ Show
         /\ UNCHANGED view \/ Show \/ GoStale
<1> DEFINE All ==
         /\ scope' = scope
         /\ UNCHANGED sessionVars \/ SessionMoves
         /\ UNCHANGED workVars \/ WorkMoves
         /\ UNCHANGED roundVars \/ RoundMoves
         /\ UNCHANGED workerVars \/ WorkerMoves
         /\ UNCHANGED shareVars \/ ShareMoves
         /\ UNCHANGED report \/ Report
         /\ UNCHANGED pipe \/ Writes \/ Show
         /\ UNCHANGED view \/ Show \/ GoStale
<1> SUFFICES All
  OBVIOUS
<1>1. CASE UNCHANGED vars
  BY <1>1 DEF vars, sessionVars
<1>2. CASE StartFails \/ Connecting \/ Connected
  BY <1>2, Frames DEF SessionMoves, Writes
<1>3. CASE BeginInstall
  BY <1>3, Frames DEF WorkMoves, RoundMoves, sessionVars
<1>4. CASE PublishJob
  BY <1>4, Frames DEF WorkMoves, Writes, sessionVars
<1>5. CASE BlockFlow \/ SessionError
  BY <1>5, Frames DEF SessionMoves, Writes
<1>6. CASE SessionFails
  BY <1>6, Frames DEF SessionMoves, WorkMoves
<1>7. CASE PoolAnswers
  BY <1>7, Frames DEF ShareMoves, sessionVars
<1>8. ASSUME NEW w \in Workers, WorkerStep(w) PROVE All
  <2>1. CASE Take(w)
    BY <2>1, WorkerFrames DEF Take, WorkerMoves, sessionVars
  <2>2. CASE Prepares(w) \/ Fails(w) \/ Panics(w) \/ Recovers(w) \/ IsReady(w)
    <3>1. PICK m \in WorkerKinds, s \in Minds \cup {mind[w]} : Told(w, m, s)
      BY <2>2, WorkerFrames
    <3>2. UNCHANGED <<sessionVars, workVars, roundVars, shareVars, report, view>>
      BY <3>1 DEF Told, Tells
    <3>3. WorkerMoves /\ Writes
      BY <3>1 DEF WorkerMoves, Writes
    <3> QED BY <3>2, <3>3 DEF sessionVars
  <2>3. CASE Hashes(w)
    BY <2>3, WorkerFrames DEF RoundMoves, sessionVars
  <2>4. CASE Submits(w) \/ NodeRejects(w) \/ NodeAccepts(w) \/ ClearsNothing(w)
    BY <2>4, WorkerFrames DEF Counting, ShareMoves, sessionVars, workerVars
  <2>5. CASE ClearsJob(w)
    BY <2>5, WorkerFrames DEF WorkMoves, ShareMoves, Writes, sessionVars
  <2> QED BY <1>8, <2>1, <2>2, <2>3, <2>4, <2>5 DEF WorkerStep
<1>9. ASSUME NEW t \in Workers \cup {Session}, TellsShare(t) PROVE All
  BY <1>9, OtherFrames DEF ShareMoves, Writes, sessionVars
<1>10. CASE SampleRound
  BY <1>10, OtherFrames DEF RoundMoves, Report, sessionVars
<1>11. CASE SampleSlot \/ EmitMetrics
  BY <1>11, OtherFrames DEF Report, Writes, sessionVars
<1>12. CASE Show \/ GoStale
  BY <1>12, OtherFrames DEF sessionVars
<1> HIDE DEF All
<1>13. SessionStep => All
  BY <1>2, <1>3, <1>4, <1>5, <1>6, <1>7 DEF SessionStep
<1>14. Report => All
  BY <1>10, <1>11 DEF Report
<1> QED BY <1>1, <1>8, <1>9, <1>12, <1>13, <1>14 DEF Next

----
\* Types are preserved, group by group.

\* The types of each group are kept by the steps that change it.
LEMMA SessionTypesKept ==
  ASSUME Typed, [Next]_vars
  PROVE  SessionTypes'
<1> USE DEF SessionTypes
<1>1. scope \in Scopes /\ SessionTypes /\ scope' = scope
  BY Changers DEF Typed
<1>2. scope.sessions \in Nat /\ scope.flows \in Nat
  BY <1>1, ScopeBounds
<1>3. CASE UNCHANGED sessionVars
  BY <1>1, <1>3 DEF sessionVars
<1>4. CASE StartFails \/ Connected \/ SessionFails \/ SessionError
  BY <1>1, <1>4 DEF StartFails, Connected, SessionFails, SessionError
<1>5. CASE Connecting
  BY <1>1, <1>2, <1>5 DEF Connecting
<1>6. CASE BlockFlow
  BY <1>1, <1>2, <1>6 DEF BlockFlow
<1> QED BY <1>3, <1>4, <1>5, <1>6, Changers DEF SessionMoves

\* Every step keeps the types of the jobs.
LEMMA WorkTypesKept ==
  ASSUME Typed, [Next]_vars
  PROVE  WorkTypes'
<1> USE DEF WorkTypes
<1>1. scope \in Scopes /\ WorkTypes /\ scope' = scope /\ Jobs' = Jobs
  BY Changers, SameSets DEF Typed
<1>2. scope.installs \in Nat
  BY <1>1, ScopeBounds
<1>3. CASE UNCHANGED workVars
  BY <1>1, <1>3 DEF workVars
<1>4. CASE BeginInstall
  <2>1. installs' = installs + 1 /\ installs < scope.installs /\ slot' = slot
    BY <1>4 DEF BeginInstall
  <2>2. PICK id \in Ids, h \in Heights : installing' = [id |-> id, height |-> h, n |-> installs + 1]
    BY <1>4 DEF BeginInstall
  <2>3. installs + 1 \in 1..scope.installs
    BY <1>1, <1>2, <2>1
  <2>4. installing' \in Jobs
    BY <2>2, <2>3 DEF Jobs
  <2> QED BY <1>1, <1>2, <2>1, <2>3, <2>4
<1>5. CASE PublishJob
  BY <1>1, <1>5 DEF PublishJob
<1>6. CASE SessionFails
  BY <1>1, <1>6 DEF SessionFails
<1>7. CASE \E w \in Workers : ClearsJob(w)
  BY <1>1, <1>7 DEF ClearsJob
<1> QED BY <1>3, <1>4, <1>5, <1>6, <1>7, Changers DEF WorkMoves

\* A worker that works has a job.
LEMMA HeldJob ==
  ASSUME Typed, NEW w \in Workers, Works(w)
  PROVE  held[w] \in Jobs /\ held[w].height \in Heights
<1>1. held[w] \in Jobs
  BY DEF Typed, WorkerTypes, Works
<1> QED BY <1>1 DEF Jobs

\* Every step keeps the types of the round.
LEMMA RoundTypesKept ==
  ASSUME Typed, [Next]_vars
  PROVE  RoundTypes'
<1> USE DEF RoundTypes
<1>1. /\ scope \in Scopes /\ RoundTypes /\ scope' = scope
      /\ Heights' = Heights /\ RoundType' = RoundType
  BY Changers, SameSets DEF Typed
<1>2. scope.hashes \in Nat
  BY <1>1, ScopeBounds
<1>3. CASE UNCHANGED roundVars
  BY <1>1, <1>3 DEF roundVars
<1>4. CASE BeginInstall
  <2>1. UNCHANGED <<done, interval>>
    BY <1>4 DEF BeginInstall
  <2>2. PICK h \in Heights :
          round' = IF round.height = h THEN round ELSE [height |-> h, hashes |-> 0]
    BY <1>4 DEF BeginInstall
  <2>3. [height |-> h, hashes |-> 0] \in RoundType
    BY DEF RoundType
  <2> QED BY <1>1, <2>1, <2>2, <2>3
<1>5. CASE SampleRound
  BY <1>1, <1>5 DEF SampleRound
<1>6. ASSUME NEW w \in Workers, Hashes(w) PROVE RoundTypes'
  <2>1. held[w].height \in Heights
    BY <1>6, HeldJob DEF Hashes
  <2>2. /\ done[held[w].height] < scope.hashes /\ interval' \in BOOLEAN
        /\ done' = [done EXCEPT ![held[w].height] = @ + 1]
        /\ round' = round \/ round' = [round EXCEPT !.hashes = @ + 1]
    BY <1>6 DEF Hashes
  <2>3. done' \in [Heights -> 0..scope.hashes]
    BY <1>1, <1>2, <2>1, <2>2
  <2>4. [round EXCEPT !.hashes = @ + 1] \in RoundType
    BY <1>1 DEF RoundType
  <2> QED BY <1>1, <2>2, <2>3, <2>4
<1> QED BY <1>3, <1>4, <1>5, <1>6, Changers DEF RoundMoves

\* Every step keeps the types of the workers.
LEMMA WorkerTypesKept ==
  ASSUME Typed, [Next]_vars
  PROVE  WorkerTypes'
<1> USE DEF WorkerTypes
<1>1. /\ scope \in Scopes /\ WorkerTypes /\ WorkTypes /\ scope' = scope
      /\ Workers' = Workers /\ Jobs' = Jobs
  BY Changers, SameSets DEF Typed
<1>2. scope.troubles \in Nat
  BY <1>1, ScopeBounds
<1>3. CASE UNCHANGED workerVars
  BY <1>1, <1>3 DEF workerVars
<1>4. ASSUME NEW w \in Workers, Take(w) PROVE WorkerTypes'
  <2>1. slot \in Jobs \cup {Nothing}
    BY <1>1 DEF WorkTypes
  <2> QED BY <1>1, <1>4, <2>1 DEF Take
<1>5. ASSUME NEW w \in Workers, NEW m \in WorkerKinds, NEW s \in Minds \cup {mind[w]},
             Told(w, m, s)
      PROVE  WorkerTypes'
  <2>1. mind' = [mind EXCEPT ![w] = s] /\ held' = held
    BY <1>5 DEF Told, Tells
  <2>2. mind' \in [Workers -> Minds]
    BY <1>1, <2>1
  <2>3. troubles' \in 0..scope.troubles
    BY <1>1, <1>2, <1>5 DEF Told
  <2> QED BY <1>1, <2>1, <2>2, <2>3
<1> QED BY <1>3, <1>4, <1>5, Changers DEF WorkerMoves

\* Every step keeps the types of the shares.
LEMMA ShareTypesKept ==
  ASSUME Typed, [Next]_vars
  PROVE  ShareTypes'
<1> USE DEF ShareTypes
<1>1. ShareTypes /\ scope' = scope /\ Workers' = Workers
  BY Changers, SameSets DEF Typed
<1>2. ASSUME NEW c \in {"submitted", "accepted", "rejected"}
      PROVE  [counts EXCEPT ![c] = @ + 1] \in CountsType
  <2>1. [counts EXCEPT !.submitted = @ + 1] \in CountsType
    BY <1>1 DEF CountsType
  <2>2. [counts EXCEPT !.accepted = @ + 1] \in CountsType
    BY <1>1 DEF CountsType
  <2>3. [counts EXCEPT !.rejected = @ + 1] \in CountsType
    BY <1>1 DEF CountsType
  <2> QED BY <2>1, <2>2, <2>3
<1>3. CASE UNCHANGED shareVars
  BY <1>1, <1>3 DEF shareVars
<1>4. ASSUME NEW t \in Workers \cup {Session}, NEW c \in {"accepted", "rejected"}, Answered(t, c)
      PROVE  ShareTypes'
  <2>1. counts' \in CountsType
    BY <1>2, <1>4 DEF Answered
  <2> QED BY <1>1, <1>4, <2>1 DEF Answered
<1>5. CASE PoolAnswers
  BY <1>4, <1>5 DEF PoolAnswers
<1>6. ASSUME NEW w \in Workers, Submits(w) PROVE ShareTypes'
  <2>1. counts' \in CountsType
    BY <1>2, <1>6 DEF Submits
  <2> QED BY <1>1, <1>6, <2>1 DEF Submits
<1>7. ASSUME NEW w \in Workers, NodeRejects(w) PROVE ShareTypes'
  <2>1. counts' \in CountsType
    BY <1>2, <1>7 DEF NodeRejects
  <2> QED BY <1>1, <1>7, <2>1 DEF NodeRejects
<1>8. ASSUME NEW w \in Workers, NodeAccepts(w) PROVE ShareTypes'
  BY <1>4, <1>8 DEF NodeAccepts
<1>9. ASSUME NEW w \in Workers, ClearsJob(w) \/ ClearsNothing(w) PROVE ShareTypes'
  BY <1>1, <1>9 DEF ClearsJob, ClearsNothing
<1>10. ASSUME NEW t \in Workers \cup {Session}, TellsShare(t) PROVE ShareTypes'
  <2>1. NoCounts \in CountsType
    BY DEF NoCounts, CountsType
  <2> QED BY <1>1, <1>10, <2>1 DEF TellsShare
<1> QED BY <1>3, <1>5, <1>6, <1>7, <1>8, <1>9, <1>10, Changers DEF ShareMoves

\* Every step keeps the types of the reports.
LEMMA ReportTypesKept ==
  ASSUME Typed, [Next]_vars
  PROVE  ReportTypes'
<1> USE DEF ReportTypes
<1>1. /\ ReportTypes /\ RoundTypes /\ ShareTypes /\ WorkTypes
      /\ scope' = scope /\ Heights' = Heights /\ RoundType' = RoundType
  BY Changers, SameSets DEF Typed
<1>2. Asleep \in [step : {"asleep", "round", "slot"}, rate : BOOLEAN, round : RoundType,
                  height : Heights \cup {Nothing}, counts : CountsType]
  BY DEF Asleep, NoRound, NoCounts, RoundType, CountsType
<1>3. CASE UNCHANGED report
  BY <1>1, <1>3
<1>4. CASE SampleRound
  BY <1>1, <1>2, <1>4 DEF SampleRound, RoundTypes
<1>5. CASE SampleSlot
  <2>1. (IF slot = Nothing THEN Nothing ELSE slot.height) \in Heights \cup {Nothing}
    BY <1>1 DEF WorkTypes, Jobs
  <2> QED BY <1>1, <1>5, <2>1 DEF SampleSlot, ShareTypes
<1>6. CASE EmitMetrics
  BY <1>1, <1>2, <1>6 DEF EmitMetrics
<1> QED BY <1>3, <1>4, <1>5, <1>6, Changers DEF Report

----
\* What an event makes of the view, kind by kind.

\* An event of each kind, apart from the others.
LEMMA ApplyIs ==
  ASSUME NEW v, NEW m, ~v.fatal
  PROVE  /\ m.kind = "connecting" =>
              Apply(v, m) = [EnterConnectionPhase(v, "Connecting") EXCEPT !.link = FALSE]
         /\ m.kind = "pool_connected" =>
              Apply(v, m) = EnterConnectionPhase(v, "Authenticating")
         /\ m.kind = "node_connected" =>
              Apply(v, m) = [EnterMiningPhase(v) EXCEPT !.link = TRUE]
         /\ m.kind = "worker_initializing" => Apply(v, m) = MarkWorkerUnready(v, m.worker)
         /\ m.kind \in {"worker_ready", "worker_recovered"} =>
              Apply(v, m) = MarkWorkerReady(v, m.worker)
         /\ m.kind = "worker_error" => Apply(v, m) = OnWorkerError(v, m.worker)
         /\ m.kind = "engine_fatal" => Apply(v, m) = OnFatal(v)
         /\ m.kind = "job" => Apply(v, m) = OnJob(v, m.job)
         /\ m.kind = "job_cleared" => Apply(v, m) = OnJobCleared(v, m.job)
         /\ m.kind = "block_flow" => Apply(v, m) = OnBlockFlow(v, m)
         /\ m.kind = "metrics" => Apply(v, m) = OnMetrics(v, m)
         /\ m.kind = "share" => Apply(v, m) = [v EXCEPT !.counts = m.counts]
         /\ m.kind = "session_error" => Apply(v, m) = OnSessionError(v)
BY DEF Apply

\* A view that is no longer stable.
LEMMA GoneStale ==
  ASSUME NEW v \in ViewType, NEW u, u = [v EXCEPT !.stable = FALSE]
  PROVE  u \in ViewType /\ u.fatal = v.fatal /\ u.link = v.link
BY DEF ViewType

\* The fields of each result.
SameWork(u, v) ==
  u.job = v.job /\ u.height = v.height /\ u.observed = v.observed /\ u.jobless = v.jobless
NoWork(u) == u.job = Nothing /\ u.height = Nothing /\ u.observed = FALSE /\ u.jobless = 0
SameCrew(u, v) == u.ready = v.ready /\ u.errors = v.errors
SameFlow(u, v) == u.tip = v.tip /\ u.trend = v.trend
SamePhase(u, v) == u.phase = v.phase /\ u.canRestore = v.canRestore
SameLink(u, v) == u.link = v.link /\ u.fatal = v.fatal

Phased(v, phase, b) == [v EXCEPT !.phase = phase, !.canRestore = b]
\* A view with some of its fields set, for each group of fields.
LEMMA PhasedFields ==
  ASSUME NEW v \in ViewType, NEW phase \in Phases, NEW b \in BOOLEAN
  PROVE  /\ Phased(v, phase, b) \in ViewType
         /\ Phased(v, phase, b).phase = phase /\ Phased(v, phase, b).canRestore = b
         /\ SameWork(Phased(v, phase, b), v) /\ SameCrew(Phased(v, phase, b), v)
         /\ SameFlow(Phased(v, phase, b), v) /\ SameLink(Phased(v, phase, b), v)
         /\ Phased(v, phase, b).stable = v.stable /\ Phased(v, phase, b).round = v.round
BY DEF Phased, ViewType, SameWork, SameCrew, SameFlow, SameLink

Linked(v, b) == [v EXCEPT !.link = b]
\* Setting the link changes nothing else on the dashboard.
LEMMA LinkedFields ==
  ASSUME NEW v \in ViewType, NEW b \in BOOLEAN
  PROVE  /\ Linked(v, b) \in ViewType
         /\ Linked(v, b).link = b /\ Linked(v, b).fatal = v.fatal
         /\ SameWork(Linked(v, b), v) /\ SameCrew(Linked(v, b), v)
         /\ SameFlow(Linked(v, b), v) /\ SamePhase(Linked(v, b), v)
         /\ Linked(v, b).stable = v.stable /\ Linked(v, b).round = v.round
BY DEF Linked, ViewType, SameWork, SameCrew, SameFlow, SamePhase

Worked(v, job, height, b, n) ==
  [v EXCEPT !.job = job, !.height = height, !.observed = b, !.jobless = n]
\* Setting the work changes nothing else on the dashboard.
LEMMA WorkedFields ==
  ASSUME NEW v \in ViewType, NEW job \in Ids \cup {Nothing}, NEW height \in Heights \cup {Nothing},
         NEW b \in BOOLEAN, NEW n \in 0..1
  PROVE  /\ Worked(v, job, height, b, n) \in ViewType
         /\ Worked(v, job, height, b, n).job = job /\ Worked(v, job, height, b, n).height = height
         /\ Worked(v, job, height, b, n).observed = b /\ Worked(v, job, height, b, n).jobless = n
         /\ SameCrew(Worked(v, job, height, b, n), v) /\ SameFlow(Worked(v, job, height, b, n), v)
         /\ SamePhase(Worked(v, job, height, b, n), v)
         /\ SameLink(Worked(v, job, height, b, n), v)
         /\ Worked(v, job, height, b, n).stable = v.stable
         /\ Worked(v, job, height, b, n).round = v.round
BY DEF Worked, ViewType, SameLink, SameCrew, SameFlow, SamePhase

Rounded(v, n, b) == [v EXCEPT !.round = n, !.stable = b]
\* Setting the round changes nothing else on the dashboard.
LEMMA RoundedFields ==
  ASSUME NEW v \in ViewType, NEW n \in Nat, NEW b \in BOOLEAN
  PROVE  /\ Rounded(v, n, b) \in ViewType
         /\ Rounded(v, n, b).round = n /\ Rounded(v, n, b).stable = b
         /\ SameWork(Rounded(v, n, b), v) /\ SameCrew(Rounded(v, n, b), v)
         /\ SameFlow(Rounded(v, n, b), v) /\ SamePhase(Rounded(v, n, b), v)
         /\ SameLink(Rounded(v, n, b), v)
BY DEF Rounded, ViewType, SameWork, SameLink, SameCrew, SameFlow, SamePhase

Crewed(v, ready, errors) == [v EXCEPT !.ready = ready, !.errors = errors]
\* Setting the workers changes nothing else on the dashboard.
LEMMA CrewedFields ==
  ASSUME NEW v \in ViewType, NEW ready \in SUBSET Workers, NEW errors \in SUBSET Workers
  PROVE  /\ Crewed(v, ready, errors) \in ViewType
         /\ Crewed(v, ready, errors).ready = ready /\ Crewed(v, ready, errors).errors = errors
         /\ SameWork(Crewed(v, ready, errors), v) /\ SameFlow(Crewed(v, ready, errors), v)
         /\ SamePhase(Crewed(v, ready, errors), v) /\ SameLink(Crewed(v, ready, errors), v)
         /\ Crewed(v, ready, errors).stable = v.stable
         /\ Crewed(v, ready, errors).round = v.round
BY DEF Crewed, ViewType, SameWork, SameLink, SameFlow, SamePhase

Flowed(v, tip, trend) == [v EXCEPT !.tip = tip, !.trend = trend]
\* Setting the tip and the trend changes nothing else on the dashboard.
LEMMA FlowedFields ==
  ASSUME NEW v \in ViewType, NEW tip \in Tips \cup {Nothing}, NEW trend \in Seq(Nat)
  PROVE  /\ Flowed(v, tip, trend) \in ViewType
         /\ Flowed(v, tip, trend).tip = tip /\ Flowed(v, tip, trend).trend = trend
         /\ SameWork(Flowed(v, tip, trend), v) /\ SameCrew(Flowed(v, tip, trend), v)
         /\ SamePhase(Flowed(v, tip, trend), v) /\ SameLink(Flowed(v, tip, trend), v)
         /\ Flowed(v, tip, trend).stable = v.stable /\ Flowed(v, tip, trend).round = v.round
BY DEF Flowed, ViewType, SameWork, SameLink, SameCrew, SamePhase

Counted(v, c) == [v EXCEPT !.counts = c]
\* Setting the counters changes nothing else on the dashboard.
LEMMA CountedFields ==
  ASSUME NEW v \in ViewType, NEW c \in AnyCounts
  PROVE  /\ Counted(v, c) \in ViewType
         /\ SameWork(Counted(v, c), v) /\ SameCrew(Counted(v, c), v)
         /\ SameFlow(Counted(v, c), v) /\ SamePhase(Counted(v, c), v)
         /\ SameLink(Counted(v, c), v)
         /\ Counted(v, c).stable = v.stable /\ Counted(v, c).round = v.round
BY DEF Counted, ViewType, SameWork, SameLink, SameCrew, SameFlow, SamePhase

\* Each result is made by setting such groups of fields.
LEMMA ResultsByGroups ==
  ASSUME NEW v \in ViewType
  PROVE  /\ ClearActiveWork(v) = Rounded(Worked(v, Nothing, Nothing, FALSE, 0), 0, FALSE)
         /\ \A phase : EnterConnectionPhase(v, phase) =
              Phased(v, IF v.errors = {} THEN phase ELSE "Error", FALSE)
         /\ EnterMiningPhase(v) =
              Phased(v, IF v.errors = {} THEN "Mining" ELSE "Error", v.errors # {})
<1>1. ClearActiveWork(v) = Rounded(Worked(v, Nothing, Nothing, FALSE, 0), 0, FALSE)
  BY DEF ClearActiveWork, Rounded, Worked, ViewType
<1>2. \A phase : EnterConnectionPhase(v, phase) =
        Phased(v, IF v.errors = {} THEN phase ELSE "Error", FALSE)
  BY Zenon DEF EnterConnectionPhase, Phased
<1>3. EnterMiningPhase(v) =
        Phased(v, IF v.errors = {} THEN "Mining" ELSE "Error", v.errors # {})
  BY Zenon DEF EnterMiningPhase, Phased
<1> QED BY <1>1, <1>2, <1>3

\* The operators of the model, in terms of those views.
LEMMA CrewResults ==
  ASSUME NEW v \in ViewType, NEW w \in Workers
  PROVE  /\ MarkWorkerUnready(v, w) = Rounded(Crewed(v, v.ready \ {w}, v.errors), v.round, FALSE)
         /\ MarkWorkerReady(v, w) =
              Phased(Crewed(v, v.ready \cup {w}, v.errors \ {w}),
                     IF w \in v.errors /\ v.errors \ {w} = {} /\ v.canRestore /\ v.phase = "Error"
                       THEN "Mining" ELSE v.phase,
                     v.canRestore /\ v.errors \ {w} # {})
         /\ OnWorkerError(v, w) =
              Phased(Crewed(MarkWorkerUnready(v, w), v.ready \ {w}, v.errors \cup {w}), "Error",
                     IF v.errors = {} THEN v.phase = "Mining" ELSE v.canRestore)
<1>1. MarkWorkerUnready(v, w) = Rounded(Crewed(v, v.ready \ {w}, v.errors), v.round, FALSE)
  BY DEF MarkWorkerUnready, Rounded, Crewed, ViewType
<1>2. MarkWorkerReady(v, w) =
        Phased(Crewed(v, v.ready \cup {w}, v.errors \ {w}),
               IF w \in v.errors /\ v.errors \ {w} = {} /\ v.canRestore /\ v.phase = "Error"
                 THEN "Mining" ELSE v.phase,
               v.canRestore /\ v.errors \ {w} # {})
  BY DEF MarkWorkerReady, Phased, Crewed, ViewType
<1>3. OnWorkerError(v, w) =
        Phased(Crewed(MarkWorkerUnready(v, w), v.ready \ {w}, v.errors \cup {w}), "Error",
               IF v.errors = {} THEN v.phase = "Mining" ELSE v.canRestore)
  BY DEF OnWorkerError, MarkWorkerUnready, Phased, Crewed, ViewType
<1> QED BY <1>1, <1>2, <1>3

\* Entering the mining phase changes the phase only.
LEMMA MiningFields ==
  ASSUME NEW v \in ViewType
  PROVE  /\ EnterMiningPhase(v) \in ViewType
         /\ EnterMiningPhase(v).phase = IF v.errors = {} THEN "Mining" ELSE "Error"
         /\ EnterMiningPhase(v).canRestore = (v.errors # {})
         /\ SameWork(EnterMiningPhase(v), v) /\ SameCrew(EnterMiningPhase(v), v)
         /\ SameFlow(EnterMiningPhase(v), v) /\ SameLink(EnterMiningPhase(v), v)
         /\ EnterMiningPhase(v).stable = v.stable /\ EnterMiningPhase(v).round = v.round
<1> DEFINE to == IF v.errors = {} THEN "Mining" ELSE "Error"
           b == v.errors # {}
           u == Phased(v, to, b)
           Made(x) == /\ Phased(v, to, x) \in ViewType
                      /\ Phased(v, to, x).phase = to /\ Phased(v, to, x).canRestore = x
                      /\ SameWork(Phased(v, to, x), v) /\ SameCrew(Phased(v, to, x), v)
                      /\ SameFlow(Phased(v, to, x), v) /\ SameLink(Phased(v, to, x), v)
                      /\ Phased(v, to, x).stable = v.stable
                      /\ Phased(v, to, x).round = v.round
<1>1. to \in Phases
  BY DEF Phases
<1>2. EnterMiningPhase(v) = u
  BY ResultsByGroups
<1> HIDE DEF to, b
<1>3. Made(b)
  <2>1. ASSUME NEW x \in BOOLEAN PROVE Made(x)
    BY <1>1, PhasedFields
  <2>2. b \in BOOLEAN
    BY DEF b
  <2> HIDE DEF Made
  <2> QED BY <2>1, <2>2
<1>4. /\ EnterMiningPhase(v) \in ViewType
      /\ EnterMiningPhase(v).phase = to /\ EnterMiningPhase(v).canRestore = b
      /\ SameWork(EnterMiningPhase(v), v) /\ SameCrew(EnterMiningPhase(v), v)
      /\ SameFlow(EnterMiningPhase(v), v) /\ SameLink(EnterMiningPhase(v), v)
      /\ EnterMiningPhase(v).stable = v.stable /\ EnterMiningPhase(v).round = v.round
  BY <1>2, <1>3
<1> QED BY Zenon, <1>4 DEF to, b

\* Entering a phase of the connection changes the phase only.
LEMMA ConnectionFields ==
  ASSUME NEW v \in ViewType, NEW phase \in Phases
  PROVE  /\ EnterConnectionPhase(v, phase) \in ViewType
         /\ SameWork(EnterConnectionPhase(v, phase), v)
         /\ SameCrew(EnterConnectionPhase(v, phase), v)
         /\ SameFlow(EnterConnectionPhase(v, phase), v)
         /\ SameLink(EnterConnectionPhase(v, phase), v)
         /\ EnterConnectionPhase(v, phase).stable = v.stable
         /\ EnterConnectionPhase(v, phase).round = v.round
<1> DEFINE to == IF v.errors = {} THEN phase ELSE "Error"
           u == Phased(v, to, FALSE)
<1>1. to \in Phases
  BY DEF Phases
<1>2. EnterConnectionPhase(v, phase) = u
  BY ResultsByGroups
<1> HIDE DEF to
<1>3. /\ u \in ViewType
      /\ SameWork(u, v) /\ SameCrew(u, v) /\ SameFlow(u, v) /\ SameLink(u, v)
      /\ u.stable = v.stable /\ u.round = v.round
  BY Zenon, <1>1, PhasedFields
<1> HIDE DEF u
<1> QED BY Zenon, <1>2, <1>3

\* Clearing the active work leaves no work, no round and no stable rate.
LEMMA ClearedFields ==
  ASSUME NEW v \in ViewType
  PROVE  /\ ClearActiveWork(v) \in ViewType /\ NoWork(ClearActiveWork(v))
         /\ ClearActiveWork(v).round = 0 /\ ClearActiveWork(v).stable = FALSE
         /\ SameCrew(ClearActiveWork(v), v) /\ SameFlow(ClearActiveWork(v), v)
         /\ SamePhase(ClearActiveWork(v), v) /\ SameLink(ClearActiveWork(v), v)
<1> DEFINE t == Worked(v, Nothing, Nothing, FALSE, 0)
           u == Rounded(t, 0, FALSE)
<1>1. ClearActiveWork(v) = u
  BY ResultsByGroups
<1>2. /\ 0 \in 0..1 /\ 0 \in Nat /\ FALSE \in BOOLEAN
      /\ Nothing \in Ids \cup {Nothing} /\ Nothing \in Heights \cup {Nothing}
  OBVIOUS
<1> DEFINE Made(b) == LET s == Worked(v, Nothing, Nothing, b, 0) IN
                 /\ s \in ViewType /\ s.job = Nothing /\ s.height = Nothing
                 /\ s.observed = b /\ s.jobless = 0
                 /\ SameCrew(s, v) /\ SameFlow(s, v) /\ SamePhase(s, v) /\ SameLink(s, v)
<1>6. \A b \in BOOLEAN : Made(b)
  BY <1>2, WorkedFields
<1>3. /\ t \in ViewType /\ NoWork(t) /\ SameCrew(t, v) /\ SameFlow(t, v)
      /\ SamePhase(t, v) /\ SameLink(t, v)
  <2>1. Made(FALSE)
    BY Zenon, <1>2, <1>6
  <2> QED BY Zenon, <2>1 DEF NoWork
<1> HIDE DEF t
<1>4. /\ u \in ViewType /\ SameWork(u, t) /\ SameCrew(u, t) /\ SameFlow(u, t)
      /\ SamePhase(u, t) /\ SameLink(u, t) /\ u.round = 0 /\ u.stable = FALSE
  BY Zenon, <1>2, <1>3, RoundedFields
<1> HIDE DEF u
<1>5. NoWork(u) /\ SameCrew(u, v) /\ SameFlow(u, v) /\ SamePhase(u, v) /\ SameLink(u, v)
  BY Zenon, <1>3, <1>4 DEF NoWork, SameWork, SameCrew, SameFlow, SamePhase, SameLink
<1> QED BY Zenon, <1>1, <1>4, <1>5

\* The handlers of job, session_error, block_flow and metrics, as such changes.
LEMMA WorkResults ==
  ASSUME NEW v \in ViewType
  PROVE  /\ \A job : OnJob(v, job) =
              Worked(Rounded(Linked(EnterMiningPhase(v), TRUE),
                             IF v.height = job.height THEN v.round ELSE 0, v.stable),
                     job.id, job.height, FALSE, 0)
         /\ OnSessionError(v) =
              Flowed(Phased(Linked(ClearActiveWork(v), FALSE), "Reconnecting", FALSE),
                     Nothing, <<>>)
         /\ \A m : OnBlockFlow(v, m) =
              Flowed(v, IF v.tip = Nothing \/ m.tip > v.tip.height
                          THEN [height |-> m.tip, tag |-> m.tag] ELSE v.tip,
                     Append(v.trend, m.tag))
         /\ \A m : OnMetrics(v, m) =
              LET f == FollowSlot([Counted(v, m.counts) EXCEPT !.height =
                                     IF v.height = Nothing THEN m.height ELSE v.height],
                                  m.height)
              IN  Rounded(f, IF RoundIsOfJob(f, m) THEN m.round.hashes ELSE f.round,
                          ProvenStable(f, m))
<1>1. \A job : OnJob(v, job) =
        Worked(Rounded(Linked(EnterMiningPhase(v), TRUE),
                       IF v.height = job.height THEN v.round ELSE 0, v.stable),
               job.id, job.height, FALSE, 0)
  <2> DEFINE e == EnterMiningPhase(v)
  <2>1. e \in ViewType /\ e.round = v.round /\ e.stable = v.stable
    BY MiningFields
  <2> HIDE DEF e
  <2>2. ASSUME NEW job
        PROVE  [e EXCEPT !.link = TRUE, !.round = IF v.height = job.height THEN @ ELSE 0,
                  !.height = job.height, !.job = job.id, !.observed = FALSE, !.jobless = 0]
                = Worked(Rounded(Linked(e, TRUE), IF v.height = job.height THEN v.round ELSE 0,
                                 v.stable), job.id, job.height, FALSE, 0)
    <3> DEFINE x == IF v.height = job.height THEN v.round ELSE 0
               h == job.height
               j == job.id
    <3>1. x = IF v.height = job.height THEN e.round ELSE 0
      BY <2>1
    <3> HIDE DEF x, h, j
    <3>2. [e EXCEPT !.link = TRUE, !.round = x, !.height = h, !.job = j,
                    !.observed = FALSE, !.jobless = 0]
            = Worked(Rounded(Linked(e, TRUE), x, v.stable), j, h, FALSE, 0)
      BY <2>1 DEF Worked, Rounded, Linked, ViewType
    <3> QED BY Zenon, <3>1, <3>2 DEF x, h, j
  <2> QED BY Zenon, <2>2 DEF e, OnJob
<1>2. OnSessionError(v) =
        Flowed(Phased(Linked(ClearActiveWork(v), FALSE), "Reconnecting", FALSE), Nothing, <<>>)
  BY DEF OnSessionError, Flowed, Phased, Linked, ClearActiveWork, ViewType
<1>3. \A m : OnBlockFlow(v, m) =
        Flowed(v, IF v.tip = Nothing \/ m.tip > v.tip.height
                    THEN [height |-> m.tip, tag |-> m.tag] ELSE v.tip,
               Append(v.trend, m.tag))
  BY DEF OnBlockFlow, Flowed, ViewType
<1>4. ASSUME NEW m
      PROVE  OnMetrics(v, m) =
              LET f == FollowSlot([Counted(v, m.counts) EXCEPT !.height =
                                     IF v.height = Nothing THEN m.height ELSE v.height],
                                  m.height)
              IN  Rounded(f, IF RoundIsOfJob(f, m) THEN m.round.hashes ELSE f.round,
                          ProvenStable(f, m))
  <2> DEFINE s == [v EXCEPT !.counts = CountsShown(v, m),
                            !.height = IF @ = Nothing THEN m.height ELSE @]
             u == [Counted(v, m.counts) EXCEPT !.height =
                     IF v.height = Nothing THEN m.height ELSE v.height]
  <2>1. s = u
    BY DEF CountsShown, Counted, ViewType
  <2>2. OnMetrics(v, m) =
          LET f == FollowSlot(s, m.height)
          IN  Rounded(f, IF RoundIsOfJob(f, m) THEN m.round.hashes ELSE f.round,
                      ProvenStable(f, m))
    BY Zenon DEF OnMetrics, Rounded
  <2> HIDE DEF s, u
  <2>3. OnMetrics(v, m) =
          LET f == FollowSlot(u, m.height)
          IN  Rounded(f, IF RoundIsOfJob(f, m) THEN m.round.hashes ELSE f.round,
                      ProvenStable(f, m))
    BY <2>1, <2>2
  <2> QED BY Zenon, <2>3 DEF u
<1> QED BY <1>1, <1>2, <1>3, <1>4

\* The fields after each event.
LEMMA AfterConnecting ==
  ASSUME NEW v \in ViewType, NEW u, u = [EnterConnectionPhase(v, "Connecting") EXCEPT !.link = FALSE]
  PROVE  /\ u \in ViewType /\ SameWork(u, v) /\ SameCrew(u, v) /\ SameFlow(u, v)
         /\ u.link = FALSE /\ u.fatal = v.fatal /\ u.stable = v.stable /\ u.round = v.round
<1> DEFINE e == EnterConnectionPhase(v, "Connecting")
<1>1. /\ e \in ViewType /\ SameWork(e, v) /\ SameCrew(e, v) /\ SameFlow(e, v)
      /\ SameLink(e, v) /\ e.stable = v.stable /\ e.round = v.round
  BY ConnectionFields DEF Phases
<1>2. u = Linked(e, FALSE)
  BY Zenon DEF Linked
<1> HIDE DEF e
<1>3. /\ u \in ViewType /\ u.link = FALSE /\ u.fatal = e.fatal
      /\ SameWork(u, e) /\ SameCrew(u, e) /\ SameFlow(u, e)
      /\ u.stable = e.stable /\ u.round = e.round
  <2> DEFINE Made(b) == LET s == Linked(e, b) IN
               /\ s \in ViewType /\ s.link = b /\ s.fatal = e.fatal
               /\ SameWork(s, e) /\ SameCrew(s, e) /\ SameFlow(s, e)
               /\ s.stable = e.stable /\ s.round = e.round
  <2>1. \A b \in BOOLEAN : Made(b)
    BY <1>1, LinkedFields
  <2>2. Made(FALSE)
    BY Zenon, <2>1
  <2> QED BY <1>2, <2>2
<1> QED BY <1>1, <1>3 DEF SameWork, SameCrew, SameFlow, SameLink

\* What each kind of event makes of the view.
LEMMA AfterNodeConnected ==
  ASSUME NEW v \in ViewType, NEW u, u = [EnterMiningPhase(v) EXCEPT !.link = TRUE]
  PROVE  /\ u \in ViewType /\ SameWork(u, v) /\ SameCrew(u, v) /\ SameFlow(u, v)
         /\ u.phase = IF v.errors = {} THEN "Mining" ELSE "Error"
         /\ u.canRestore = (v.errors # {})
         /\ u.link = TRUE /\ u.fatal = v.fatal /\ u.stable = v.stable /\ u.round = v.round
<1> DEFINE e == EnterMiningPhase(v)
<1>1. /\ e \in ViewType /\ SameWork(e, v) /\ SameCrew(e, v) /\ SameFlow(e, v)
      /\ e.phase = IF v.errors = {} THEN "Mining" ELSE "Error"
      /\ e.canRestore = (v.errors # {})
      /\ SameLink(e, v) /\ e.stable = v.stable /\ e.round = v.round
  BY Zenon, MiningFields
<1>2. u = Linked(e, TRUE)
  BY Zenon DEF Linked
<1> HIDE DEF e
<1>3. /\ u \in ViewType /\ u.link = TRUE /\ u.fatal = e.fatal
      /\ SameWork(u, e) /\ SameCrew(u, e) /\ SameFlow(u, e) /\ SamePhase(u, e)
      /\ u.stable = e.stable /\ u.round = e.round
  <2> DEFINE Made(b) == LET s == Linked(e, b) IN
               /\ s \in ViewType /\ s.link = b /\ s.fatal = e.fatal
               /\ SameWork(s, e) /\ SameCrew(s, e) /\ SameFlow(s, e) /\ SamePhase(s, e)
               /\ s.stable = e.stable /\ s.round = e.round
  <2>1. \A b \in BOOLEAN : Made(b)
    BY <1>1, LinkedFields
  <2>2. Made(TRUE)
    BY Zenon, <2>1
  <2> QED BY <1>2, <2>2
<1>4. u.phase = e.phase /\ u.canRestore = e.canRestore
  BY <1>3 DEF SamePhase
<1>5. u.canRestore = (v.errors # {})
  BY Zenon, <1>1, <1>4
<1>6. u.phase = IF v.errors = {} THEN "Mining" ELSE "Error"
  BY Zenon, <1>1, <1>4
<1>7. SameWork(u, v) /\ SameCrew(u, v) /\ SameFlow(u, v) /\ u.fatal = v.fatal
      /\ u.stable = v.stable /\ u.round = v.round
  BY <1>1, <1>3 DEF SameWork, SameCrew, SameFlow, SameLink
<1> QED BY <1>3, <1>5, <1>6, <1>7

Unreadied(u, v, w) ==
  /\ u \in ViewType /\ SameWork(u, v) /\ SameFlow(u, v) /\ SamePhase(u, v)
  /\ SameLink(u, v) /\ u.stable = FALSE /\ u.round = v.round
  /\ u.ready = v.ready \ {w} /\ u.errors = v.errors

\* After worker_initializing the worker is not ready.
LEMMA AfterInitializing ==
  ASSUME NEW v \in ViewType, NEW w \in Workers
  PROVE  Unreadied(MarkWorkerUnready(v, w), v, w)
<1> DEFINE u == MarkWorkerUnready(v, w)
           c == Crewed(v, v.ready \ {w}, v.errors)
<1>1. v.ready \in SUBSET Workers /\ v.errors \in SUBSET Workers /\ v.round \in Nat
  BY DEF ViewType
<1>2. /\ c \in ViewType /\ c.ready = v.ready \ {w} /\ c.errors = v.errors
      /\ SameWork(c, v) /\ SameFlow(c, v) /\ SamePhase(c, v) /\ SameLink(c, v)
  <2>1. v.ready \ {w} \in SUBSET Workers
    BY <1>1
  <2> QED BY <1>1, <2>1, CrewedFields
<1>3. u = Rounded(c, v.round, FALSE)
  BY CrewResults
<1> HIDE DEF c, u
<1>4. /\ u \in ViewType /\ u.round = v.round /\ u.stable = FALSE
      /\ SameWork(u, c) /\ SameCrew(u, c) /\ SameFlow(u, c) /\ SamePhase(u, c) /\ SameLink(u, c)
  <2> DEFINE Made(b) == LET s == Rounded(c, v.round, b) IN
               /\ s \in ViewType /\ s.round = v.round /\ s.stable = b
               /\ SameWork(s, c) /\ SameCrew(s, c) /\ SameFlow(s, c) /\ SamePhase(s, c)
               /\ SameLink(s, c)
  <2>1. \A b \in BOOLEAN : Made(b)
    BY <1>1, <1>2, RoundedFields
  <2>2. Made(FALSE)
    BY Zenon, <2>1
  <2> QED BY <1>3, <2>2
<1>5. Unreadied(u, v, w)
  BY <1>2, <1>4 DEF Unreadied, SameWork, SameCrew, SameFlow, SamePhase, SameLink
<1> QED BY <1>5 DEF u

\* After worker_ready the worker is ready and has no error.
LEMMA AfterReady ==
  ASSUME NEW v \in ViewType, NEW w \in Workers, NEW u, u = MarkWorkerReady(v, w)
  PROVE  /\ u \in ViewType /\ SameWork(u, v) /\ SameFlow(u, v)
         /\ SameLink(u, v) /\ u.stable = v.stable /\ u.round = v.round
         /\ u.ready = v.ready \cup {w} /\ u.errors = v.errors \ {w}
         /\ u.phase = IF w \in v.errors /\ v.errors \ {w} = {} /\ v.canRestore /\ v.phase = "Error"
                        THEN "Mining" ELSE v.phase
         /\ u.canRestore = (v.canRestore /\ v.errors \ {w} # {})
<1> DEFINE c == Crewed(v, v.ready \cup {w}, v.errors \ {w})
           to == IF w \in v.errors /\ v.errors \ {w} = {} /\ v.canRestore /\ v.phase = "Error"
                   THEN "Mining" ELSE v.phase
           b == v.canRestore /\ v.errors \ {w} # {}
<1>1. v.ready \cup {w} \in SUBSET Workers /\ v.errors \ {w} \in SUBSET Workers /\ v.phase \in Phases
  BY DEF ViewType
<1>2. /\ c \in ViewType /\ c.ready = v.ready \cup {w} /\ c.errors = v.errors \ {w}
      /\ SameWork(c, v) /\ SameFlow(c, v) /\ SameLink(c, v)
      /\ c.stable = v.stable /\ c.round = v.round
  BY <1>1, CrewedFields
<1>3. to \in Phases /\ b \in BOOLEAN
  BY <1>1 DEF Phases
<1>4. u = Phased(c, to, b)
  BY Zenon, CrewResults
<1> HIDE DEF c, to, b
<1> DEFINE Made(x) == LET s == Phased(c, to, x) IN
             /\ s \in ViewType /\ s.phase = to /\ s.canRestore = x
             /\ SameWork(s, c) /\ SameCrew(s, c) /\ SameFlow(s, c) /\ SameLink(s, c)
             /\ s.stable = c.stable /\ s.round = c.round
<1>5. Made(b)
  <2>1. \A x \in BOOLEAN : Made(x)
    BY <1>2, <1>3, PhasedFields
  <2> HIDE DEF Made
  <2> QED BY <1>3, <2>1
<1>6. /\ u \in ViewType /\ u.phase = to /\ u.canRestore = b
      /\ SameWork(u, v) /\ SameFlow(u, v) /\ SameLink(u, v)
      /\ u.ready = v.ready \cup {w} /\ u.errors = v.errors \ {w}
      /\ u.stable = v.stable /\ u.round = v.round
  BY <1>2, <1>4, <1>5 DEF SameWork, SameCrew, SameFlow, SameLink
<1> QED BY Zenon, <1>6 DEF to, b

\* After worker_error the worker has an error, and the phase shows it.
LEMMA AfterError ==
  ASSUME NEW v \in ViewType, NEW w \in Workers, NEW u, u = OnWorkerError(v, w)
  PROVE  /\ u \in ViewType /\ SameWork(u, v) /\ SameFlow(u, v)
         /\ SameLink(u, v) /\ u.stable = FALSE /\ u.round = v.round
         /\ u.ready = v.ready \ {w} /\ u.errors = v.errors \cup {w}
         /\ u.phase = "Error"
         /\ u.canRestore = IF v.errors = {} THEN v.phase = "Mining" ELSE v.canRestore
<1> DEFINE e == MarkWorkerUnready(v, w)
           c == Crewed(e, v.ready \ {w}, v.errors \cup {w})
           b == IF v.errors = {} THEN v.phase = "Mining" ELSE v.canRestore
<1>1. v.ready \ {w} \in SUBSET Workers /\ v.errors \cup {w} \in SUBSET Workers
      /\ v.canRestore \in BOOLEAN /\ "Error" \in Phases
  BY DEF ViewType, Phases
<1>2. /\ e \in ViewType /\ SameWork(e, v) /\ SameFlow(e, v) /\ SameLink(e, v)
      /\ e.stable = FALSE /\ e.round = v.round
  <2>1. Unreadied(e, v, w)
    BY AfterInitializing
  <2> HIDE DEF e
  <2> QED BY <2>1 DEF Unreadied
<1> HIDE DEF e
<1>3. /\ c \in ViewType /\ c.ready = v.ready \ {w} /\ c.errors = v.errors \cup {w}
      /\ SameWork(c, e) /\ SameFlow(c, e) /\ SameLink(c, e)
      /\ c.stable = e.stable /\ c.round = e.round
  BY <1>1, <1>2, CrewedFields
<1>4. b \in BOOLEAN
  BY <1>1
<1>5. u = Phased(c, "Error", b)
  BY Zenon, CrewResults DEF e
<1> HIDE DEF c, b
<1> DEFINE Made(x) == LET s == Phased(c, "Error", x) IN
             /\ s \in ViewType /\ s.phase = "Error" /\ s.canRestore = x
             /\ SameWork(s, c) /\ SameCrew(s, c) /\ SameFlow(s, c) /\ SameLink(s, c)
             /\ s.stable = c.stable /\ s.round = c.round
<1>6. Made(b)
  <2>1. \A x \in BOOLEAN : Made(x)
    BY <1>1, <1>3, PhasedFields
  <2> HIDE DEF Made
  <2> QED BY <1>4, <2>1
<1>7. /\ u \in ViewType /\ u.phase = "Error" /\ u.canRestore = b
      /\ SameWork(u, v) /\ SameFlow(u, v) /\ SameLink(u, v)
      /\ u.ready = v.ready \ {w} /\ u.errors = v.errors \cup {w}
      /\ u.stable = FALSE /\ u.round = v.round
  BY <1>2, <1>3, <1>5, <1>6 DEF SameWork, SameCrew, SameFlow, SameLink
<1> QED BY Zenon, <1>7 DEF b

Employed(u, v, job) ==
  /\ u \in ViewType /\ SameCrew(u, v) /\ SameFlow(u, v)
  /\ u.phase = IF v.errors = {} THEN "Mining" ELSE "Error"
  /\ u.canRestore = (v.errors # {})
  /\ u.link = TRUE /\ u.fatal = v.fatal /\ u.stable = v.stable
  /\ u.round = IF v.height = job.height THEN v.round ELSE 0
  /\ u.job = job.id /\ u.height = job.height /\ u.observed = FALSE /\ u.jobless = 0

\* After job the dashboard shows the job.
LEMMA AfterJob ==
  ASSUME NEW v \in ViewType, NEW job \in Jobs
  PROVE  Employed(OnJob(v, job), v, job)
<1> DEFINE u == OnJob(v, job)
<1> DEFINE e == [EnterMiningPhase(v) EXCEPT !.link = TRUE]
           n == IF v.height = job.height THEN v.round ELSE 0
           c == Rounded(e, n, v.stable)
<1>1. /\ e \in ViewType /\ SameCrew(e, v) /\ SameFlow(e, v)
      /\ e.phase = IF v.errors = {} THEN "Mining" ELSE "Error"
      /\ e.canRestore = (v.errors # {})
      /\ e.link = TRUE /\ e.fatal = v.fatal
  BY Zenon, AfterNodeConnected
<1>2. n \in Nat /\ v.stable \in BOOLEAN /\ job.id \in Ids \cup {Nothing}
      /\ job.height \in Heights \cup {Nothing} /\ 0 \in 0..1
  BY DEF ViewType, Jobs
<1>3. u = Worked(c, job.id, job.height, FALSE, 0)
  BY Zenon, WorkResults DEF Linked
<1> HIDE DEF e, n, u
<1> DEFINE Kept(x) == SameCrew(x, e) /\ SameFlow(x, e) /\ SamePhase(x, e) /\ SameLink(x, e)
<1>4. c \in ViewType /\ c.round = n /\ c.stable = v.stable /\ Kept(c)
  BY <1>1, <1>2, RoundedFields
<1> DEFINE id == job.id
           h == job.height
<1> HIDE DEF c
<1> DEFINE Made(b) == LET s == Worked(c, id, h, b, 0) IN
             /\ s \in ViewType /\ s.job = id /\ s.height = h
             /\ s.observed = b /\ s.jobless = 0
             /\ SameCrew(s, c) /\ SameFlow(s, c) /\ SamePhase(s, c) /\ SameLink(s, c)
             /\ s.stable = c.stable /\ s.round = c.round
<1>5. Made(FALSE)
  <2>1. id \in Ids \cup {Nothing} /\ h \in Heights \cup {Nothing} /\ 0 \in 0..1
    BY <1>2
  <2> HIDE DEF id, h
  <2>2. \A b \in BOOLEAN : Made(b)
    BY <1>4, <2>1, WorkedFields
  <2> QED BY Zenon, <2>2
<1>6. /\ u \in ViewType /\ u.job = job.id /\ u.height = job.height
      /\ u.observed = FALSE /\ u.jobless = 0
      /\ u.stable = v.stable /\ u.round = n /\ Kept(u)
  BY <1>3, <1>4, <1>5 DEF SameCrew, SameFlow, SamePhase, SameLink
<1>7. u.phase = e.phase /\ u.canRestore = e.canRestore
  BY <1>6 DEF SamePhase
<1>8. u.phase = IF v.errors = {} THEN "Mining" ELSE "Error"
  BY Zenon, <1>1, <1>7
<1>9. u.canRestore = (v.errors # {})
  BY Zenon, <1>1, <1>7
<1>10. SameCrew(u, v) /\ SameFlow(u, v) /\ u.link = TRUE /\ u.fatal = v.fatal
  BY <1>1, <1>6 DEF SameCrew, SameFlow, SameLink
<1>11. u.round = IF v.height = job.height THEN v.round ELSE 0
  BY <1>6 DEF n
<1>12. Employed(u, v, job)
  BY Zenon, <1>6, <1>8, <1>9, <1>10, <1>11 DEF Employed
<1> QED BY Zenon, <1>12 DEF u

\* After block_flow the tip is the higher of the two, and the trend is longer.
LEMMA AfterFlow ==
  ASSUME NEW v \in ViewType, NEW m, m.tip \in Heights, m.tag \in Nat, NEW u, u = OnBlockFlow(v, m)
  PROVE  /\ u \in ViewType /\ SameWork(u, v) /\ SameCrew(u, v) /\ SamePhase(u, v)
         /\ SameLink(u, v) /\ u.stable = v.stable /\ u.round = v.round
         /\ u.trend = Append(v.trend, m.tag)
         /\ u.tip = IF v.tip = Nothing \/ m.tip > v.tip.height
                      THEN [height |-> m.tip, tag |-> m.tag] ELSE v.tip
<1> DEFINE t == IF v.tip = Nothing \/ m.tip > v.tip.height
                  THEN [height |-> m.tip, tag |-> m.tag] ELSE v.tip
           l == Append(v.trend, m.tag)
<1>1. t \in Tips \cup {Nothing} /\ l \in Seq(Nat)
  BY DEF ViewType, Tips
<1>2. u = Flowed(v, t, l)
  BY WorkResults
<1> HIDE DEF t, l
<1>3. /\ u \in ViewType /\ SameWork(u, v) /\ SameCrew(u, v) /\ SamePhase(u, v)
      /\ SameLink(u, v) /\ u.stable = v.stable /\ u.round = v.round
      /\ u.trend = l /\ u.tip = t
  BY <1>1, <1>2, FlowedFields
<1> QED BY <1>3 DEF t, l

\* After session_error no work, link, tip or trend is left.
LEMMA AfterSessionError ==
  ASSUME NEW v \in ViewType, NEW u, u = OnSessionError(v)
  PROVE  /\ u \in ViewType /\ NoWork(u) /\ SameCrew(u, v)
         /\ u.link = FALSE /\ u.fatal = v.fatal /\ u.stable = FALSE /\ u.round = 0
         /\ u.tip = Nothing /\ u.trend = <<>>
<1> DEFINE c == ClearActiveWork(v)
           e == Linked(c, FALSE)
           p == Phased(e, "Reconnecting", FALSE)
<1>1. u = Flowed(p, Nothing, <<>>)
  BY Zenon, WorkResults
<1>2. /\ c \in ViewType /\ NoWork(c) /\ c.round = 0 /\ c.stable = FALSE
      /\ SameCrew(c, v) /\ SameLink(c, v)
  BY Zenon, ClearedFields
<1> HIDE DEF c
<1>3. /\ e \in ViewType /\ SameWork(e, c) /\ SameCrew(e, c) /\ e.fatal = c.fatal
      /\ e.link = FALSE /\ e.stable = c.stable /\ e.round = c.round
  <2> DEFINE Made(b) == LET s == Linked(c, b) IN
               /\ s \in ViewType /\ SameWork(s, c) /\ SameCrew(s, c) /\ s.fatal = c.fatal
               /\ s.link = b /\ s.stable = c.stable /\ s.round = c.round
  <2>1. \A b \in BOOLEAN : Made(b)
    BY <1>2, LinkedFields
  <2> QED BY Zenon, <2>1
<1> HIDE DEF e
<1>4. /\ p \in ViewType /\ SameWork(p, e) /\ SameCrew(p, e) /\ SameLink(p, e)
      /\ p.stable = e.stable /\ p.round = e.round
  <2> DEFINE Made(b) == LET s == Phased(e, "Reconnecting", b) IN
               /\ s \in ViewType /\ SameWork(s, e) /\ SameCrew(s, e) /\ SameLink(s, e)
               /\ s.stable = e.stable /\ s.round = e.round
  <2>1. \A b \in BOOLEAN : Made(b)
    BY <1>3, PhasedFields DEF Phases
  <2> QED BY Zenon, <2>1
<1> HIDE DEF p
<1> DEFINE l == <<>>
<1>5. Nothing \in Tips \cup {Nothing} /\ l \in Seq(Nat) /\ u = Flowed(p, Nothing, l)
  BY <1>1
<1> HIDE DEF l
<1>6. /\ u \in ViewType /\ SameWork(u, p) /\ SameCrew(u, p) /\ SameLink(u, p)
      /\ u.stable = p.stable /\ u.round = p.round /\ u.tip = Nothing /\ u.trend = l
  BY <1>4, <1>5, FlowedFields
<1>7. NoWork(u) /\ SameCrew(u, v) /\ u.link = FALSE /\ u.fatal = v.fatal /\ u.stable = FALSE
      /\ u.round = 0
  BY <1>2, <1>3, <1>4, <1>6 DEF NoWork, SameWork, SameCrew, SameLink
<1> QED BY <1>6, <1>7 DEF l

\* After fatal_error the dashboard is well typed.
LEMMA AfterFatal ==
  ASSUME NEW v \in ViewType
  PROVE  OnFatal(v) \in ViewType
<1>1. ClearActiveWork(v) \in ViewType
  BY Zenon, ClearedFields
<1>2. ASSUME NEW c \in ViewType, NEW b \in BOOLEAN, NEW d \in BOOLEAN
      PROVE  [c EXCEPT !.fatal = b, !.link = d, !.canRestore = d, !.phase = "Error", !.ready = {}]
               \in ViewType
  <2> DEFINE x == [c EXCEPT !.fatal = b, !.link = d]
             y == [c EXCEPT !.fatal = b, !.link = d, !.canRestore = d]
  <2>1. x \in ViewType
    BY DEF ViewType
  <2>2. y = [x EXCEPT !.canRestore = d]
    BY DEF ViewType
  <2> HIDE DEF x
  <2>3. y \in ViewType
    BY <2>1, <2>2 DEF ViewType
  <2>4. [c EXCEPT !.fatal = b, !.link = d, !.canRestore = d, !.phase = "Error", !.ready = {}]
          = [y EXCEPT !.phase = "Error", !.ready = {}]
    BY DEF ViewType
  <2> HIDE DEF y
  <2>5. [y EXCEPT !.phase = "Error", !.ready = {}] \in ViewType
    BY <2>3 DEF ViewType, Phases
  <2> QED BY <2>4, <2>5
<1>3. TRUE \in BOOLEAN /\ FALSE \in BOOLEAN
  OBVIOUS
<1> QED BY Zenon, <1>1, <1>2, <1>3 DEF OnFatal

\* Nothing but the work, and what depends on it, differs.
Beside(u, v) == SameCrew(u, v) /\ SameFlow(u, v) /\ SamePhase(u, v) /\ SameLink(u, v)

Sampled(v, b, n) == [v EXCEPT !.observed = b, !.jobless = n]
KeptWork(u, v) ==
  /\ u \in ViewType /\ Beside(u, v)
  /\ u.job = v.job /\ u.height = v.height /\ u.round = v.round
\* Counting a sample without a job keeps the work.
LEMMA SampledFields ==
  ASSUME NEW v \in ViewType, NEW b \in BOOLEAN, NEW n \in 0..1
  PROVE  KeptWork(Sampled(v, b, n), v)
BY DEF KeptWork, Sampled, ViewType, Beside, SameCrew, SameFlow, SamePhase, SameLink

Risen(v, h) == [v EXCEPT !.height = h]
\* Setting the height changes nothing else on the dashboard.
LEMMA RisenFields ==
  ASSUME NEW v \in ViewType, NEW h \in Heights \cup {Nothing}
  PROVE  /\ Risen(v, h) \in ViewType /\ Beside(Risen(v, h), v)
         /\ Risen(v, h).height = h /\ Risen(v, h).job = v.job /\ Risen(v, h).round = v.round
         /\ Risen(v, h).observed = v.observed /\ Risen(v, h).jobless = v.jobless
BY DEF Risen, ViewType, Beside, SameCrew, SameFlow, SamePhase, SameLink

\* After job_cleared the work is gone, if the event was about it.
LEMMA AfterCleared ==
  ASSUME NEW v \in ViewType, NEW job, NEW u, u = OnJobCleared(v, job)
  PROVE  /\ u \in ViewType /\ Beside(u, v)
         /\ \/ u = v
            \/ NoWork(u) /\ u.round = 0 /\ u.stable = FALSE
<1>1. u = v \/ u = ClearActiveWork(v)
  BY DEF OnJobCleared
<1>2. CASE u = v
  BY <1>2 DEF Beside, SameCrew, SameFlow, SamePhase, SameLink
<1>3. CASE u = ClearActiveWork(v)
  BY Zenon, <1>3, ClearedFields DEF Beside
<1> QED BY <1>1, <1>2, <1>3

\* Following the slot keeps the work, or clears it when two samples had none.
LEMMA AfterFollow ==
  ASSUME NEW v \in ViewType, NEW h, NEW u, u = FollowSlot(v, h)
  PROVE  /\ u \in ViewType /\ Beside(u, v)
         /\ \/ u.job = v.job /\ u.height = v.height /\ u.round = v.round
            \/ /\ NoWork(u) /\ u.round = 0
               /\ h = Nothing /\ (v.observed \/ v.jobless = 1)
<1>1. v.jobless \in 0..1
  BY DEF ViewType
<1>2. CASE v.job = Nothing
  BY <1>2 DEF FollowSlot, Beside, SameCrew, SameFlow, SamePhase, SameLink
<1>3. CASE v.job # Nothing /\ h = Nothing /\ TooLongJobless(v)
  <2>1. u = ClearActiveWork(v)
    BY <1>3 DEF FollowSlot
  <2>2. u \in ViewType /\ Beside(u, v) /\ NoWork(u) /\ u.round = 0
    BY Zenon, <2>1, ClearedFields DEF Beside
  <2>3. v.observed \/ v.jobless = 1
    BY <1>1, <1>3 DEF TooLongJobless
  <2> QED BY <1>3, <2>2, <2>3
<1>4. CASE v.job # Nothing /\ h = Nothing /\ ~TooLongJobless(v)
  <2>1. v.jobless = 0 /\ u = [v EXCEPT !.jobless = v.jobless + 1]
    BY <1>1, <1>4 DEF FollowSlot, TooLongJobless
  <2>2. KeptWork([v EXCEPT !.jobless = 1], v)
    BY DEF KeptWork, ViewType, Beside, SameCrew, SameFlow, SamePhase, SameLink
  <2>3. u = [v EXCEPT !.jobless = 1]
    BY <2>1
  <2> QED BY Zenon, <2>2, <2>3 DEF KeptWork
<1>5. CASE v.job # Nothing /\ h # Nothing /\ h = v.height
  <2>1. u = Sampled(v, TRUE, 0)
    BY Zenon, <1>5 DEF FollowSlot, Sampled
  <2>2. \A b \in BOOLEAN : KeptWork(Sampled(v, b, 0), v)
    BY SampledFields
  <2>3. KeptWork(u, v)
    BY Zenon, <2>1, <2>2
  <2> QED BY Zenon, <2>3 DEF KeptWork
<1>6. CASE v.job # Nothing /\ h # Nothing /\ h # v.height
  BY <1>6 DEF FollowSlot, Beside, SameCrew, SameFlow, SamePhase, SameLink
<1> QED BY <1>2, <1>3, <1>4, <1>5, <1>6

\* After metrics: when the rate is stable, the work kept, and whose round is shown.
LEMMA AfterMetrics ==
  ASSUME NEW v \in ViewType, NEW m, m.counts \in CountsType, m.round \in RoundType,
         m.height \in Heights \cup {Nothing}, m.rate \in BOOLEAN, NEW u, u = OnMetrics(v, m)
  PROVE  /\ u \in ViewType /\ Beside(u, v)
         /\ u.stable => v.link /\ v.errors = {} /\ v.ready = Workers
         /\ v.height # Nothing =>
              \/ u.job = v.job /\ u.height = v.height
              \/ m.height = Nothing /\ (v.observed \/ v.jobless = 1)
         /\ \/ u.round = m.round.hashes /\ m.round.height = m.height /\ m.height = u.height
            \/ u.round = v.round /\ (v.height # Nothing => u.height = v.height)
            \/ u.round = 0
<1> DEFINE c == Counted(v, m.counts)
           h == IF v.height = Nothing THEN m.height ELSE v.height
           s == Risen(c, h)
           f == FollowSlot(s, m.height)
           n == IF RoundIsOfJob(f, m) THEN m.round.hashes ELSE f.round
           b == ProvenStable(f, m)
<1>1. u = Rounded(f, n, b)
  BY Zenon, WorkResults DEF Risen
<1>2. c \in ViewType /\ Beside(c, v) /\ c.round = v.round
  <2>1. m.counts \in AnyCounts
    BY CountsAreAny
  <2> QED BY <2>1, CountedFields DEF Beside
<1>3. h \in Heights \cup {Nothing}
  BY DEF ViewType
<1>12. SameWork(c, v)
  <2>1. m.counts \in AnyCounts
    BY CountsAreAny
  <2> QED BY <2>1, CountedFields
<1> HIDE DEF c, h
<1>4. /\ s \in ViewType /\ Beside(s, c) /\ s.round = c.round
      /\ s.job = v.job /\ s.height = h /\ s.observed = v.observed /\ s.jobless = v.jobless
  BY <1>2, <1>3, <1>12, RisenFields DEF SameWork
<1> HIDE DEF s
<1>5. /\ f \in ViewType /\ Beside(f, s)
      /\ \/ f.job = s.job /\ f.height = s.height /\ f.round = s.round
         \/ /\ NoWork(f) /\ f.round = 0
            /\ m.height = Nothing /\ (s.observed \/ s.jobless = 1)
  BY Zenon, <1>4, AfterFollow
<1> HIDE DEF f
<1>6. n \in Nat /\ b \in BOOLEAN
  <2>1. f.round \in Nat /\ m.round.hashes \in Nat
    BY <1>5 DEF ViewType, RoundType
  <2>2. n \in Nat
    BY <2>1
  <2>3. b \in BOOLEAN
    BY DEF ProvenStable
  <2> QED BY <2>2, <2>3
<1> HIDE DEF n, b
<1>7. /\ u \in ViewType /\ u.round = n /\ u.stable = b /\ SameWork(u, f) /\ Beside(u, f)
  BY <1>1, <1>5, <1>6, RoundedFields DEF Beside
<1>8. Beside(u, v) /\ Beside(f, v)
  BY <1>2, <1>4, <1>5, <1>7 DEF Beside, SameCrew, SameFlow, SamePhase, SameLink
<1>9. u.stable => v.link /\ v.errors = {} /\ v.ready = Workers
  <2>1. b => f.link /\ f.errors = {} /\ f.ready = Workers
    BY DEF b, ProvenStable
  <2>2. f.link = v.link /\ f.errors = v.errors /\ f.ready = v.ready
    BY <1>8 DEF Beside, SameCrew, SameLink
  <2> QED BY <1>7, <2>1, <2>2
<1>10. v.height # Nothing =>
         \/ u.job = v.job /\ u.height = v.height
         \/ m.height = Nothing /\ (v.observed \/ v.jobless = 1)
  <2>1. v.height # Nothing => h = v.height
    BY DEF h
  <2> QED BY <1>4, <1>5, <1>7, <2>1 DEF SameWork
<1>11. \/ u.round = m.round.hashes /\ m.round.height = m.height /\ m.height = u.height
       \/ u.round = v.round /\ (v.height # Nothing => u.height = v.height)
       \/ u.round = 0
  <2>1. CASE RoundIsOfJob(f, m)
    BY <1>7, <2>1 DEF n, RoundIsOfJob, SameWork
  <2>2. CASE ~RoundIsOfJob(f, m)
    <3>1. u.round = f.round
      BY <1>7, <2>2 DEF n
    <3>2. v.height # Nothing => h = v.height
      BY DEF h
    <3> QED BY <1>2, <1>4, <1>5, <1>7, <3>1, <3>2 DEF SameWork
  <2> QED BY <2>1, <2>2
<1> QED BY <1>7, <1>8, <1>9, <1>10, <1>11

\* The crew of a view, its link and its phase agree.
HealthOf(v) ==
  /\ v.link => v.phase = IF v.errors = {} THEN "Mining" ELSE "Error"
  /\ v.stable => v.link /\ v.errors = {} /\ v.ready = Workers
  /\ v.link /\ v.errors # {} => v.canRestore

\* What one event does, all kinds together.
About(m, w, K) == m.kind \in K /\ m.worker = w
TurnsReady(m, w) == About(m, w, {"worker_ready", "worker_recovered"})
TurnsUnready(m, w) == About(m, w, {"worker_initializing", "worker_error"})
Fatal(m) == m.kind = "engine_fatal"

ShownAs(u, v, m) ==
  /\ u \in ViewType /\ u.fatal = v.fatal
  /\ u.link <=> m.kind \in {"node_connected", "job"}
                  \/ (v.link /\ m.kind \notin {"connecting", "session_error"})
  /\ \A w \in Workers :
       /\ w \in u.ready <=> TurnsReady(m, w) \/ (w \in v.ready /\ ~TurnsUnready(m, w))
       /\ w \in u.errors <=> About(m, w, {"worker_error"})
                               \/ (w \in v.errors /\ ~TurnsReady(m, w))
  /\ m.kind \notin {"job", "job_cleared", "metrics", "session_error"} => SameWork(u, v)
  /\ m.kind \notin {"block_flow", "session_error"} => SameFlow(u, v)
  /\ m.kind = "session_error" => u.tip = Nothing /\ u.trend = <<>>
  /\ \/ u.round = 0
     \/ u.round = v.round /\ (v.height # Nothing => u.height = v.height)
     \/ m.kind = "metrics" /\ u.round = m.round.hashes /\ m.round.height = u.height
  /\ HealthOf(v) /\ (m.kind \in {"connecting", "pool_connected"} => ~v.link) => HealthOf(u)

\* One more of those results under a name.
Fed(u, v) ==
  /\ u \in ViewType /\ SameWork(u, v) /\ SameCrew(u, v) /\ SamePhase(u, v)
  /\ SameLink(u, v) /\ u.stable = v.stable /\ u.round = v.round

\* What they make of it, under a name that can be cited for an event's fields.
LEMMA NamedResults ==
  ASSUME NEW v \in ViewType
  PROVE  /\ \A w \in Workers : Unreadied(MarkWorkerUnready(v, w), v, w)
         /\ \A job \in Jobs : Employed(OnJob(v, job), v, job)
         /\ \A m : m.tip \in Heights /\ m.tag \in Nat => Fed(OnBlockFlow(v, m), v)
<1>1. ASSUME NEW w \in Workers PROVE Unreadied(MarkWorkerUnready(v, w), v, w)
  BY AfterInitializing
<1>2. ASSUME NEW job \in Jobs PROVE Employed(OnJob(v, job), v, job)
  BY AfterJob
<1>3. ASSUME NEW m, m.tip \in Heights, m.tag \in Nat PROVE Fed(OnBlockFlow(v, m), v)
  <2> DEFINE u == OnBlockFlow(v, m)
  <2>1. u = OnBlockFlow(v, m)
    OBVIOUS
  <2> HIDE DEF u
  <2>2. Fed(u, v)
    BY <1>3, <2>1, AfterFlow DEF Fed
  <2> QED BY <2>1, <2>2
<1> QED BY <1>1, <1>2, <1>3

\* One event of any kind.
LEMMA Shown ==
  ASSUME NEW v \in ViewType, ~v.fatal, NEW m \in Events, ~Fatal(m), NEW u, u = Apply(v, m)
  PROVE  ShownAs(u, v, m)
<1> USE DEF SessionKinds, WorkerKinds
<1>1. CASE m.kind = "connecting"
  <2>1. /\ u \in ViewType /\ SameWork(u, v) /\ SameCrew(u, v) /\ SameFlow(u, v)
        /\ u.link = FALSE /\ u.fatal = v.fatal /\ u.stable = v.stable /\ u.round = v.round
    <3>1. u = [EnterConnectionPhase(v, "Connecting") EXCEPT !.link = FALSE]
      BY <1>1, ApplyIs
    <3> QED BY Zenon, <3>1, AfterConnecting
  <2>2. ~v.link => (HealthOf(v) => HealthOf(u))
    BY <2>1 DEF HealthOf, SameCrew
  <2> QED BY <1>1, <2>1, <2>2
          DEF ShownAs, TurnsReady, TurnsUnready, About, SameCrew, SameWork
<1>2. CASE m.kind = "pool_connected"
  <2>1. /\ u \in ViewType /\ SameWork(u, v) /\ SameCrew(u, v) /\ SameFlow(u, v)
        /\ SameLink(u, v) /\ u.stable = v.stable /\ u.round = v.round
    <3>1. "Authenticating" \in Phases /\ u = EnterConnectionPhase(v, "Authenticating")
      BY <1>2, ApplyIs DEF Phases
    <3> QED BY <3>1, ConnectionFields
  <2>2. ~v.link => (HealthOf(v) => HealthOf(u))
    BY <2>1 DEF HealthOf, SameCrew, SameLink
  <2> QED BY <1>2, <2>1, <2>2
          DEF ShownAs, TurnsReady, TurnsUnready, About, SameCrew, SameWork, SameLink
<1>3. CASE m.kind = "node_connected"
  <2>1. /\ u \in ViewType /\ SameWork(u, v) /\ SameCrew(u, v) /\ SameFlow(u, v)
        /\ u.phase = IF v.errors = {} THEN "Mining" ELSE "Error"
        /\ u.canRestore = (v.errors # {})
        /\ u.link = TRUE /\ u.fatal = v.fatal /\ u.stable = v.stable /\ u.round = v.round
    <3>1. u = [EnterMiningPhase(v) EXCEPT !.link = TRUE]
      BY <1>3, ApplyIs
    <3> QED BY <3>1, AfterNodeConnected
  <2>2. HealthOf(v) => HealthOf(u)
    BY <2>1 DEF HealthOf, SameCrew
  <2> QED BY <1>3, <2>1, <2>2
          DEF ShownAs, TurnsReady, TurnsUnready, About, SameCrew, SameWork
<1>4. CASE m.kind = "worker_initializing"
  <2>1. /\ u \in ViewType /\ SameWork(u, v) /\ SameFlow(u, v) /\ SamePhase(u, v)
        /\ SameLink(u, v) /\ u.stable = FALSE /\ u.round = v.round
        /\ u.ready = v.ready \ {m.worker} /\ u.errors = v.errors
    <3>1. m.worker \in Workers /\ u = MarkWorkerUnready(v, m.worker)
      BY <1>4, EventFields, ApplyIs
    <3>2. Unreadied(u, v, m.worker)
      BY <3>1, NamedResults
    <3> QED BY Zenon, <3>2 DEF Unreadied
  <2>2. HealthOf(v) => HealthOf(u)
    BY <2>1 DEF HealthOf, SamePhase, SameLink
  <2> QED BY <1>4, <2>1, <2>2
          DEF ShownAs, TurnsReady, TurnsUnready, About, SameLink, SameWork
<1>5. CASE m.kind \in {"worker_ready", "worker_recovered"}
  <2> DEFINE w == m.worker
  <2>1. /\ u \in ViewType /\ SameWork(u, v) /\ SameFlow(u, v)
        /\ SameLink(u, v) /\ u.stable = v.stable /\ u.round = v.round
        /\ u.ready = v.ready \cup {w} /\ u.errors = v.errors \ {w}
        /\ u.phase = IF w \in v.errors /\ v.errors \ {w} = {} /\ v.canRestore /\ v.phase = "Error"
                       THEN "Mining" ELSE v.phase
        /\ u.canRestore = (v.canRestore /\ v.errors \ {w} # {})
    <3>1. m.worker \in Workers /\ u = MarkWorkerReady(v, m.worker)
      BY <1>5, EventFields, ApplyIs
    <3> QED BY <3>1, AfterReady
  <2>2. w \in Workers
    BY <1>5, EventFields
  <2>3. ASSUME HealthOf(v) PROVE HealthOf(u)
    <3>1. u.stable => u.link /\ u.errors = {} /\ u.ready = Workers
      BY <2>1, <2>2, <2>3 DEF HealthOf, SameLink
    <3>2. CASE v.link /\ v.errors \ {w} = {} /\ w \in v.errors
      <4>1. v.canRestore /\ v.phase = "Error"
        BY <2>3, <3>2 DEF HealthOf
      <4>2. u.phase = "Mining" /\ u.errors = {}
        BY <2>1, <3>2, <4>1
      <4> QED BY <3>1, <4>2 DEF HealthOf
    <3>3. CASE v.link /\ v.errors \ {w} # {}
      <4>1. v.canRestore /\ v.phase = "Error"
        BY <2>3, <3>3 DEF HealthOf
      <4>2. u.phase = "Error" /\ u.errors # {} /\ u.canRestore
        BY <2>1, <3>3, <4>1
      <4> QED BY <3>1, <4>2 DEF HealthOf
    <3>4. CASE v.link /\ v.errors = {}
      <4>1. u.phase = "Mining" /\ u.errors = {}
        BY <2>1, <2>3, <3>4 DEF HealthOf
      <4> QED BY <3>1, <4>1 DEF HealthOf
    <3>5. CASE ~v.link
      BY <2>1, <3>1, <3>5 DEF HealthOf, SameLink
    <3> QED BY <3>2, <3>3, <3>4, <3>5
  <2> QED BY <1>5, <2>1, <2>3
          DEF ShownAs, TurnsReady, TurnsUnready, About, SameLink, SameWork
<1>6. CASE m.kind = "worker_error"
  <2> DEFINE w == m.worker
  <2>1. /\ u \in ViewType /\ SameWork(u, v) /\ SameFlow(u, v)
        /\ SameLink(u, v) /\ u.stable = FALSE /\ u.round = v.round
        /\ u.ready = v.ready \ {w} /\ u.errors = v.errors \cup {w}
        /\ u.phase = "Error"
        /\ u.canRestore = IF v.errors = {} THEN v.phase = "Mining" ELSE v.canRestore
    <3>1. m.worker \in Workers /\ u = OnWorkerError(v, m.worker)
      BY <1>6, EventFields, ApplyIs
    <3> QED BY <3>1, AfterError
  <2>2. HealthOf(v) => HealthOf(u)
    BY <2>1 DEF HealthOf, SameLink
  <2> QED BY <1>6, <2>1, <2>2
          DEF ShownAs, TurnsReady, TurnsUnready, About, SameLink, SameWork
<1>7. CASE m.kind = "job"
  <2>1. /\ u \in ViewType /\ SameCrew(u, v) /\ SameFlow(u, v)
        /\ u.phase = IF v.errors = {} THEN "Mining" ELSE "Error"
        /\ u.canRestore = (v.errors # {})
        /\ u.link = TRUE /\ u.fatal = v.fatal /\ u.stable = v.stable
        /\ u.round = IF v.height = m.job.height THEN v.round ELSE 0
        /\ u.height = m.job.height
    <3>1. m.job \in Jobs /\ u = OnJob(v, m.job)
      BY <1>7, EventFields, ApplyIs
    <3>2. Employed(u, v, m.job)
      BY <3>1, NamedResults
    <3> QED BY Zenon, <3>2 DEF Employed
  <2>2. HealthOf(v) => HealthOf(u)
    BY <2>1 DEF HealthOf, SameCrew
  <2> QED BY <1>7, <2>1, <2>2
          DEF ShownAs, TurnsReady, TurnsUnready, About, SameCrew
<1>8. CASE m.kind = "job_cleared"
  <2>1. /\ u \in ViewType /\ Beside(u, v)
        /\ u = v \/ (NoWork(u) /\ u.round = 0 /\ u.stable = FALSE)
    <3>1. u = OnJobCleared(v, m.job)
      BY <1>8, ApplyIs
    <3> QED BY <3>1, AfterCleared
  <2>2. HealthOf(v) => HealthOf(u)
    BY <2>1 DEF HealthOf, Beside, SameCrew, SamePhase, SameLink
  <2> QED BY <1>8, <2>1, <2>2
          DEF ShownAs, TurnsReady, TurnsUnready, About, Beside, SameCrew, SameLink
<1>9. CASE m.kind = "block_flow"
  <2>1. /\ u \in ViewType /\ SameWork(u, v) /\ SameCrew(u, v) /\ SamePhase(u, v)
        /\ SameLink(u, v) /\ u.stable = v.stable /\ u.round = v.round
    <3>1. m.tip \in Heights /\ m.tag \in Nat /\ u = OnBlockFlow(v, m)
      BY <1>9, EventFields, ApplyIs
    <3> QED BY <3>1, NamedResults DEF Fed
  <2>2. HealthOf(v) => HealthOf(u)
    BY <2>1 DEF HealthOf, SameCrew, SamePhase, SameLink
  <2> QED BY <1>9, <2>1, <2>2
          DEF ShownAs, TurnsReady, TurnsUnready, About, SameCrew, SameLink, SameWork
<1>10. CASE m.kind = "metrics"
  <2>1. /\ u \in ViewType /\ Beside(u, v)
        /\ u.stable => v.link /\ v.errors = {} /\ v.ready = Workers
        /\ \/ u.round = m.round.hashes /\ m.round.height = m.height /\ m.height = u.height
           \/ u.round = v.round /\ (v.height # Nothing => u.height = v.height)
           \/ u.round = 0
    <3>1. /\ m.counts \in CountsType /\ m.round \in RoundType
          /\ m.height \in Heights \cup {Nothing} /\ m.rate \in BOOLEAN
          /\ u = OnMetrics(v, m)
      BY <1>10, EventFields, ApplyIs
    <3> QED BY <3>1, AfterMetrics
  <2>2. HealthOf(v) => HealthOf(u)
    BY <2>1 DEF HealthOf, Beside, SameCrew, SamePhase, SameLink
  <2> QED BY <1>10, <2>1, <2>2
          DEF ShownAs, TurnsReady, TurnsUnready, About, Beside, SameCrew, SameLink
<1>11. CASE m.kind = "share"
  <2>1. /\ u \in ViewType /\ SameWork(u, v) /\ Beside(u, v)
        /\ u.stable = v.stable /\ u.round = v.round
    <3>1. m.counts \in AnyCounts /\ u = Counted(v, m.counts)
      BY <1>11, EventFields, ApplyIs DEF Counted
    <3> QED BY <3>1, CountedFields DEF Beside
  <2>2. HealthOf(v) => HealthOf(u)
    BY <2>1 DEF HealthOf, Beside, SameCrew, SamePhase, SameLink
  <2> QED BY <1>11, <2>1, <2>2
          DEF ShownAs, TurnsReady, TurnsUnready, About, Beside, SameCrew, SameLink, SameWork
<1>12. CASE m.kind = "session_error"
  <2>1. /\ u \in ViewType /\ NoWork(u) /\ SameCrew(u, v)
        /\ u.link = FALSE /\ u.fatal = v.fatal /\ u.stable = FALSE /\ u.round = 0
        /\ u.tip = Nothing /\ u.trend = <<>>
    <3>1. u = OnSessionError(v)
      BY <1>12, ApplyIs
    <3> QED BY <3>1, AfterSessionError
  <2>2. HealthOf(u)
    BY <2>1 DEF HealthOf
  <2> QED BY <1>12, <2>1, <2>2
          DEF ShownAs, TurnsReady, TurnsUnready, About, SameCrew
<1> QED BY <1>1, <1>2, <1>3, <1>4, <1>5, <1>6, <1>7, <1>8, <1>9, <1>10, <1>11, <1>12,
           EventFields DEF Fatal

----
\* What each step writes.

Wrote(m) ==
  /\ m \in Events /\ Len(pipe) < scope.pipe /\ pipe' = Append(pipe, m)
  /\ view' = view /\ scope' = scope

\* The event of each step of the session ...
LEMMA SessionWrites ==
  ASSUME Typed
  PROVE  /\ StartFails => Wrote([kind |-> "engine_fatal"])
         /\ Connecting => Wrote([kind |-> "connecting"])
         /\ Connected => Wrote([kind |-> IF Direct THEN "node_connected" ELSE "pool_connected"])
         /\ PublishJob => Wrote([kind |-> "job", job |-> installing]) /\ installing \in Jobs
         /\ BlockFlow => \E h \in Heights :
                           Wrote([kind |-> "block_flow", tip |-> h, tag |-> sessions])
         /\ SessionError => Wrote([kind |-> "session_error"])
<1> DEFINE connected == IF Direct THEN "node_connected" ELSE "pool_connected"
<1>1. {"engine_fatal", "connecting", "session_error", connected} \subseteq SessionKinds
  BY DEF SessionKinds
<1> HIDE DEF connected
<1>2. StartFails => Wrote([kind |-> "engine_fatal"])
  BY <1>1, Frames, EventsMade DEF StartFails, Emit, Wrote
<1>3. Connecting => Wrote([kind |-> "connecting"])
  BY <1>1, Frames, EventsMade DEF Connecting, Emit, Wrote
<1>4. Connected => Wrote([kind |-> connected])
  <2>1. Connected => Emit([kind |-> connected])
    BY DEF Connected, connected
  <2> QED BY <1>1, <2>1, Frames, EventsMade DEF Emit, Wrote
<1>5. PublishJob => Wrote([kind |-> "job", job |-> installing]) /\ installing \in Jobs
  <2>1. PublishJob => installing \in Jobs
    BY DEF PublishJob, Typed, WorkTypes
  <2> QED BY <2>1, Frames, EventsMade DEF PublishJob, Emit, Wrote, sessionVars
<1>6. BlockFlow => \E h \in Heights :
        Wrote([kind |-> "block_flow", tip |-> h, tag |-> sessions])
  <2> SUFFICES ASSUME BlockFlow
               PROVE  \E h \in Heights : Wrote([kind |-> "block_flow", tip |-> h, tag |-> sessions])
    OBVIOUS
  <2>1. PICK h \in Heights : Emit([kind |-> "block_flow", tip |-> h, tag |-> sessions])
    BY DEF BlockFlow
  <2>2. sessions \in Nat
    <3>1. scope.sessions \in Nat
      BY ScopeBounds DEF Typed
    <3> QED BY <3>1 DEF Typed, SessionTypes
  <2>3. [kind |-> "block_flow", tip |-> h, tag |-> sessions] \in Events
    BY <2>2, EventsMade
  <2>4. view' = view /\ scope' = scope
    BY Frames
  <2> QED BY <2>1, <2>3, <2>4 DEF Emit, Wrote
<1>7. SessionError => Wrote([kind |-> "session_error"])
  BY <1>1, Frames, EventsMade DEF SessionError, Emit, Wrote
<1> QED BY <1>2, <1>3, <1>4, <1>5, <1>6, <1>7 DEF connected

\* ... and of the workers, the shares and the reporter.
LEMMA OtherWrites ==
  ASSUME Typed
  PROVE  /\ \A w \in Workers, m \in WorkerKinds : \A s : Told(w, m, s) =>
              Wrote([kind |-> m, worker |-> w])
         /\ \A t \in Workers \cup {Session} : TellsShare(t) =>
              \E c \in AnyCounts : Wrote([kind |-> "share", counts |-> c])
         /\ \A w \in Workers : ClearsJob(w) =>
              slot \in Jobs /\ Wrote([kind |-> "job_cleared", job |-> slot])
         /\ EmitMetrics =>
              Wrote([kind |-> "metrics", rate |-> report.rate, height |-> report.height,
                     round |-> report.round, counts |-> report.counts])
<1>1. ASSUME NEW w \in Workers, NEW m \in WorkerKinds, NEW s, Told(w, m, s)
      PROVE  Wrote([kind |-> m, worker |-> w])
  BY <1>1, EventsMade DEF Told, Tells, Emit, Wrote, sessionVars
<1>2. ASSUME NEW t \in Workers \cup {Session}, TellsShare(t)
      PROVE  \E c \in AnyCounts : Wrote([kind |-> "share", counts |-> c])
  <2>1. PICK c \in Between(seen[t], counts) : Emit([kind |-> "share", counts |-> c])
    BY <1>2 DEF TellsShare
  <2>2. c \in AnyCounts
    <3>1. DOMAIN seen[t] = {"submitted", "accepted", "rejected"}
      BY DEF Typed, ShareTypes, CountsType
    <3>2. scope.shares \in Nat
      BY ScopeBounds DEF Typed
    <3>3. c \in [{"submitted", "accepted", "rejected"} -> 0..scope.shares]
      BY <2>1, <3>1 DEF Between
    <3> QED BY <3>2, <3>3 DEF AnyCounts
  <2>3. view' = view /\ scope' = scope
    BY <1>2, OtherFrames DEF sessionVars
  <2>4. [kind |-> "share", counts |-> c] \in Events
    BY <2>2, EventsMade
  <2> QED BY <2>1, <2>2, <2>3, <2>4 DEF Emit, Wrote
<1>3. ASSUME NEW w \in Workers, ClearsJob(w)
      PROVE  slot \in Jobs /\ Wrote([kind |-> "job_cleared", job |-> slot])
  <2>1. slot = held[w] /\ slot \in Jobs
    BY <1>3 DEF ClearsJob, IsCurrent, Typed, WorkTypes
  <2>2. view' = view /\ scope' = scope
    BY <1>3, WorkerFrames DEF sessionVars
  <2> QED BY <1>3, <2>1, <2>2, EventsMade DEF ClearsJob, Emit, Wrote
<1>4. EmitMetrics =>
        Wrote([kind |-> "metrics", rate |-> report.rate, height |-> report.height,
               round |-> report.round, counts |-> report.counts])
  <2> SUFFICES ASSUME EmitMetrics
               PROVE  Wrote([kind |-> "metrics", rate |-> report.rate, height |-> report.height,
                             round |-> report.round, counts |-> report.counts])
    OBVIOUS
  <2>1. /\ report.rate \in BOOLEAN /\ report.height \in Heights \cup {Nothing}
        /\ report.round \in RoundType /\ report.counts \in CountsType
    BY DEF Typed, ReportTypes
  <2>2. view' = view /\ scope' = scope
    BY OtherFrames DEF sessionVars
  <2>3. [kind |-> "metrics", rate |-> report.rate, height |-> report.height,
         round |-> report.round, counts |-> report.counts] \in Events
    BY Zenon, <2>1, EventsMade
  <2> QED BY <2>2, <2>3 DEF EmitMetrics, Emit, Wrote
<1> QED BY <1>1, <1>2, <1>3, <1>4

\* In short:
LEMMA WritesAnEvent ==
  ASSUME Typed, Writes
  PROVE  \E m \in Events : Wrote(m)
<1>1. CASE StartFails \/ Connecting \/ Connected \/ PublishJob \/ BlockFlow \/ SessionError
  <2>1. ASSUME NEW m, Wrote(m) PROVE \E e \in Events : Wrote(e)
    BY <2>1 DEF Wrote
  <2> QED BY <1>1, <2>1, SessionWrites
<1>2. CASE \/ \E w \in Workers :
                \/ ClearsJob(w)
                \/ \E m \in WorkerKinds, s \in Minds \cup {mind[w]} : Told(w, m, s)
           \/ \E t \in Workers \cup {Session} : TellsShare(t)
           \/ EmitMetrics
  <2>1. ASSUME NEW m, Wrote(m) PROVE \E e \in Events : Wrote(e)
    BY <2>1 DEF Wrote
  <2> QED BY <1>2, <2>1, OtherWrites
<1> QED BY <1>1, <1>2 DEF Writes

\* The pipe read.
Read(m) ==
  /\ pipe # <<>> /\ m = pipe[1] /\ m \in Events
  /\ pipe' = Tail(pipe) /\ view' = Apply(view, m) /\ scope' = scope

\* The window reads the first event.
LEMMA ShowReads ==
  ASSUME Typed, Show
  PROVE  Read(pipe[1])
<1>1. pipe # <<>> /\ pipe \in Seq(Events) /\ Head(pipe) = pipe[1]
  BY DEF Show, Typed, PipeTypes
<1>2. pipe[1] \in Events
  BY <1>1
<1>3. scope' = scope
  BY OtherFrames DEF sessionVars
<1> QED BY <1>1, <1>2, <1>3 DEF Show, Read

\* The pipe before and after.
LEMMA PipeAfter ==
  ASSUME pipe \in Seq(Events), NEW m
  PROVE  /\ Wrote(m) => /\ Len(pipe') = Len(pipe) + 1 /\ pipe'[Len(pipe) + 1] = m
                        /\ \A i \in 1..Len(pipe) : pipe'[i] = pipe[i]
                        /\ pipe' \in Seq(Events)
         /\ Read(m) => /\ Len(pipe) \in Nat \ {0} /\ Len(pipe') = Len(pipe) - 1
                       /\ \A i \in 1..Len(pipe') : pipe'[i] = pipe[i + 1]
                       /\ pipe' \in Seq(Events)
<1>1. ASSUME Wrote(m)
      PROVE  /\ Len(pipe') = Len(pipe) + 1 /\ pipe'[Len(pipe) + 1] = m
             /\ \A i \in 1..Len(pipe) : pipe'[i] = pipe[i]
             /\ pipe' \in Seq(Events)
  <2>1. pipe' = Append(pipe, m) /\ m \in Events
    BY <1>1 DEF Wrote
  <2> QED BY <2>1, AppendProperties
<1>2. ASSUME Read(m)
      PROVE  /\ Len(pipe) \in Nat \ {0} /\ Len(pipe') = Len(pipe) - 1
             /\ \A i \in 1..Len(pipe') : pipe'[i] = pipe[i + 1]
             /\ pipe' \in Seq(Events)
  <2>1. pipe' = Tail(pipe) /\ pipe # <<>>
    BY <1>2 DEF Read
  <2> QED BY <2>1, HeadTailProperties
<1> QED BY <1>1, <1>2

\* The types are kept.
LEMMA TypedKept ==
  ASSUME Typed, [Next]_vars
  PROVE  Typed'
<1>1. scope' = scope /\ scope' \in Scopes /\ Events' = Events /\ ViewType' = ViewType
  BY Changers, SameSets DEF Typed
<1>2. PipeTypes'
  <2>1. pipe \in Seq(Events) /\ Len(pipe) <= scope.pipe /\ scope.pipe \in Nat
    BY ScopeBounds DEF Typed, PipeTypes
  <2>2. CASE UNCHANGED pipe
    BY <1>1, <2>1, <2>2 DEF PipeTypes
  <2>3. CASE Writes
    <3>1. PICK m \in Events : Wrote(m)
      BY <2>3, WritesAnEvent
    <3>2. Len(pipe) < scope.pipe
      BY <3>1 DEF Wrote
    <3>3. Len(pipe') = Len(pipe) + 1 /\ pipe' \in Seq(Events)
      BY <2>1, <3>1, PipeAfter
    <3>4. Len(pipe) \in Nat
      BY <2>1
    <3> QED BY <1>1, <2>1, <3>2, <3>3, <3>4 DEF PipeTypes
  <2>4. CASE Show
    <3>1. Len(pipe') = Len(pipe) - 1 /\ pipe' \in Seq(Events) /\ Len(pipe) \in Nat
      BY <2>1, <2>4, ShowReads, PipeAfter
    <3> QED BY <1>1, <2>1, <3>1 DEF PipeTypes
  <2> QED BY <2>2, <2>3, <2>4, Changers
<1>3. view' \in ViewType
  <2>1. view \in ViewType
    BY DEF Typed
  <2>2. CASE UNCHANGED view
    BY <2>1, <2>2
  <2>3. CASE Show
    <3> DEFINE m == pipe[1]
    <3>1. m \in Events /\ view' = Apply(view, m)
      BY <2>3, ShowReads DEF Read
    <3> HIDE DEF m
    <3>2. CASE view.fatal
      BY <2>1, <3>1, <3>2 DEF Apply
    <3>3. CASE ~view.fatal /\ Fatal(m)
      <4>1. view' = OnFatal(view)
        BY <3>1, <3>3, ApplyIs DEF Fatal
      <4> QED BY <2>1, <4>1, AfterFatal
    <3>4. CASE ~view.fatal /\ ~Fatal(m)
      BY <2>1, <3>1, <3>4, Shown DEF ShownAs
    <3> QED BY <3>2, <3>3, <3>4
  <2>4. CASE GoStale
    BY <2>1, <2>4, GoneStale DEF GoStale
  <2> QED BY <2>2, <2>3, <2>4, Changers
<1> QED BY <1>1, <1>2, <1>3, SessionTypesKept, WorkTypesKept, RoundTypesKept, WorkerTypesKept,
           ShareTypesKept, ReportTypesKept DEF Typed

----
\* Before its first connection, and when it could not start, an engine has done
\* nothing.

Quiet ==
  /\ slot = Nothing /\ installing = Nothing /\ counts = NoCounts /\ round = NoRound
  /\ \A w \in Workers : held[w] = Nothing /\ mind[w] = "unready"
  /\ \A t \in Workers \cup {Session} : pc[t] = "idle"
  /\ report = Asleep
Unborn ==
  /\ session \in {"starting", "ended"} => Quiet
  /\ session = "starting" => pipe = <<>> /\ view = NewView
  /\ session = "ended" =>
       \/ pipe = <<[kind |-> "engine_fatal"]>> /\ view = NewView
       \/ pipe = <<>> /\ view = OnFatal(NewView)

\* The view before any event, and after the one of an engine that did not start.
LEMMA NewViewIs ==
  /\ ~NewView.stable /\ ~NewView.fatal /\ ~NewView.link
  /\ NewView.job = Nothing /\ NewView.height = Nothing /\ NewView.round = 0
  /\ NewView.ready = {} /\ NewView.errors = {} /\ NewView.tip = Nothing
  /\ NewView.trend = <<>> /\ NewView \in ViewType
<1>1. NoCounts \in AnyCounts
  BY CountsAreAny DEF NoCounts, CountsType
<1>2. /\ ~NewView.stable /\ ~NewView.fatal /\ ~NewView.link
      /\ NewView.job = Nothing /\ NewView.height = Nothing /\ NewView.round = 0
      /\ NewView.ready = {} /\ NewView.errors = {} /\ NewView.tip = Nothing
      /\ NewView.trend = <<>>
  BY DEF NewView
<1>3. NewView \in ViewType
  BY <1>1 DEF NewView, ViewType, Phases
<1> QED BY <1>2, <1>3

\* What a new dashboard shows after a fatal error.
LEMMA DeadViewIs ==
  LET d == OnFatal(NewView) IN
  ~d.stable /\ d.fatal /\ ~d.link /\ d.round = 0 /\ d.trend = <<>>
BY DEF OnFatal, ClearActiveWork, NewView

\* Such an engine connects, fails to start, or is shown as ended.
LEMMA QuietSteps ==
  ASSUME Typed, Unborn, session \in {"starting", "ended"}, [Next]_vars
  PROVE  \/ UNCHANGED vars
         \/ session = "starting" /\ (StartFails \/ Connecting)
         \/ session = "ended" /\ Show
<1>1. Quiet /\ ~view.stable /\ (session = "starting" => pipe = <<>>)
  BY NewViewIs, DeadViewIs DEF Unborn
<1>2. CASE SessionStep
  BY <1>1, <1>2 DEF SessionStep, StartFails, Connected, BeginInstall, PublishJob, BlockFlow,
     SessionFails, SessionError, PoolAnswers, Connecting, Quiet
<1>3. ASSUME NEW w \in Workers, WorkerStep(w) PROVE FALSE
  <2>1. held[w] = Nothing /\ pc[w] = "idle" /\ slot = Nothing
    BY <1>1 DEF Quiet
  <2>2. ~Works(w)
    BY <2>1 DEF Works
  <2> QED BY <1>3, <2>1, <2>2 DEF WorkerStep, Take, Prepares, Fails, Panics, Recovers, IsReady,
          Hashes, Submits, NodeRejects, NodeAccepts, ClearsJob, ClearsNothing
<1>4. ASSUME NEW t \in Workers \cup {Session}, TellsShare(t) PROVE FALSE
  BY <1>1, <1>4 DEF TellsShare, Quiet
<1>5. ~Report
  BY <1>1 DEF Report, SampleRound, SampleSlot, EmitMetrics, Quiet, Asleep
<1>6. Show => session = "ended"
  BY <1>1 DEF Show
<1>7. ~GoStale
  BY <1>1 DEF GoStale
<1> QED BY <1>2, <1>3, <1>4, <1>5, <1>6, <1>7 DEF Next

\* It has still done nothing.
LEMMA QuietKept ==
  ASSUME Quiet, UNCHANGED <<scope, workVars, roundVars, workerVars, shareVars, report>>
  PROVE  Quiet'
<1>1. Workers' = Workers
  BY SameSets
<1> QED BY <1>1 DEF Quiet, workVars, roundVars, workerVars, shareVars

\* It is kept.
LEMMA UnbornKept ==
  ASSUME Typed, Unborn, [Next]_vars
  PROVE  Unborn'
<1>1. CASE session \in {"starting", "ended"} /\ UNCHANGED vars
  <2>1. Quiet'
    BY <1>1, QuietKept DEF Unborn, vars, sessionVars
  <2> QED BY <1>1, <2>1 DEF Unborn, vars, sessionVars, NewView, OnFatal, ClearActiveWork
<1>2. CASE session = "starting" /\ StartFails
  <2>1. Quiet'
    BY <1>2, QuietKept, Frames DEF Unborn
  <2>2. pipe' = <<[kind |-> "engine_fatal"]>>
    BY <1>2 DEF StartFails, Emit, Unborn
  <2>3. session' = "ended" /\ view' = view /\ view = NewView
    BY <1>2, Frames DEF StartFails, Unborn
  <2> QED BY <2>1, <2>2, <2>3 DEF Unborn, NewView
<1>3. CASE session = "starting" /\ Connecting
  BY <1>3 DEF Unborn, Connecting
<1>4. CASE session = "ended" /\ Show
  <2>1. Quiet' /\ session' = session
    BY <1>4, QuietKept, OtherFrames DEF Unborn, sessionVars
  <2>2. pipe = <<[kind |-> "engine_fatal"]>> /\ view = NewView
    BY <1>4 DEF Unborn, Show
  <2>3. pipe' = <<>>
    BY <1>4, <2>2 DEF Show
  <2>4. Head(pipe) = [kind |-> "engine_fatal"] /\ view' = Apply(view, Head(pipe))
    BY <1>4, <2>2 DEF Show
  <2>5. view' = OnFatal(NewView)
    BY <2>2, <2>4, NewViewIs, ApplyIs
  <2> QED BY <1>4, <2>1, <2>3, <2>5 DEF Unborn, NewView, OnFatal, ClearActiveWork
<1>5. CASE session \notin {"starting", "ended"}
  <2>1. session' \notin {"starting", "ended"}
    BY <1>5, Changers DEF SessionMoves, sessionVars, StartFails, Connecting, Connected, BlockFlow,
       SessionFails, SessionError
  <2> QED BY <2>1 DEF Unborn
<1> QED BY <1>1, <1>2, <1>3, <1>4, <1>5, QuietSteps

\* An engine that is not at its end goes on unless it fails to start, and what it
\* has told of is no end.
Lives == ~view.fatal /\ \A i \in 1..Len(pipe) : ~Fatal(pipe[i])
Owned == slot # Nothing \/ installing # Nothing => session = "up"

\* An engine ends when it cannot start, and for good.
LEMMA StaysAlive ==
  ASSUME Typed, Unborn, [Next]_vars
  PROVE  /\ session = "ended" => session' = "ended"
         /\ session # "ended" /\ session' = "ended" => StartFails
<1>1. session = "ended" => session' = "ended"
  BY QuietSteps, OtherFrames DEF vars, sessionVars
<1>2. session # "ended" /\ session' = "ended" => StartFails
  BY Changers DEF SessionMoves, sessionVars, StartFails, Connecting, Connected, BlockFlow,
     SessionFails, SessionError
<1> QED BY <1>1, <1>2

\* A job is installed by a session that is up, and given up with it.
LEMMA OwnedKept ==
  ASSUME Typed, Owned, [Next]_vars
  PROVE  Owned'
<1>1. CASE UNCHANGED <<sessionVars, workVars>>
  BY <1>1 DEF Owned, sessionVars, workVars
<1>2. CASE StartFails \/ Connecting \/ Connected \/ SessionError
  <2>1. slot = Nothing /\ installing = Nothing
    BY <1>2 DEF Owned, StartFails, Connecting, Connected, SessionError
  <2>2. UNCHANGED workVars
    BY <1>2, Frames
  <2> QED BY <2>1, <2>2 DEF Owned, workVars
<1>3. CASE BeginInstall
  BY <1>3 DEF Owned, BeginInstall, sessionVars
<1>4. CASE PublishJob
  BY <1>4, Frames DEF Owned, PublishJob, sessionVars
<1>5. CASE BlockFlow
  BY <1>5 DEF Owned, BlockFlow, workVars
<1>6. CASE SessionFails
  BY <1>6 DEF Owned, SessionFails
<1>7. ASSUME NEW w \in Workers, ClearsJob(w) PROVE Owned'
  BY <1>7, WorkerFrames DEF Owned, ClearsJob, sessionVars
<1> QED BY <1>1, <1>2, <1>3, <1>4, <1>5, <1>6, <1>7, Changers DEF SessionMoves, WorkMoves

----
\* A step of a live engine is silent, writes an event, or is the window that reads
\* one.  What a write has to do with the state it tells of:

Unlinked == {"starting", "offline", "connecting"}
Good(s) == s \in {"ready", "recovered"}
Bad(s) == s \in {"failing", "panicked"}

LinkMove(m) ==
  /\ ~Fatal(m)
  /\ m.kind \in {"connecting", "pool_connected"} => session \in Unlinked
  /\ session' \in Unlinked =>
       \/ m.kind \in {"connecting", "session_error"}
       \/ session' = session /\ m.kind \notin {"node_connected", "job"}
FlowMove(m) ==
  /\ m.kind = "block_flow" => session = "up" /\ m.tag = sessions
  /\ session \in {"up", "failed"} /\ m.kind # "session_error" =>
       session' \in {"up", "failed"} /\ sessions' = sessions
SlotMove(m) ==
  /\ m.kind = "job" => slot' = m.job
  /\ m.kind = "job_cleared" => slot # Nothing /\ m.job = slot /\ slot' = Nothing
  /\ m.kind \notin {"job", "job_cleared"} => slot' = slot
  /\ m.kind = "session_error" => slot = Nothing
  /\ slot # Nothing => slot \in Jobs
ReportMove(m) ==
  /\ m.kind # "metrics" => report' = report
  /\ m.kind = "metrics" =>
       /\ report.step = "slot" /\ report' = Asleep
       /\ m.round = report.round /\ m.height = report.height
MindMove(m) ==
  \A w \in Workers :
    /\ Good(mind'[w]) <=> TurnsReady(m, w) \/ (Good(mind[w]) /\ ~TurnsUnready(m, w))
    /\ Bad(mind'[w]) <=> About(m, w, {"worker_error"}) \/ (Bad(mind[w]) /\ ~TurnsReady(m, w))
Moves(m) ==
  /\ Wrote(m) /\ LinkMove(m) /\ FlowMove(m) /\ SlotMove(m) /\ ReportMove(m) /\ MindMove(m)
  /\ UNCHANGED roundVars

Silent ==
  /\ pipe' = pipe /\ (view' = view \/ GoStale)
  /\ session' \in {session, "failed"} /\ sessions' = sessions /\ mind' = mind
  /\ slot' \in {slot, Nothing}
  /\ \/ report' = report
     \/ report'.step # "slot"
     \/ slot' = slot /\ (slot # Nothing => report'.height = slot.height)

\* An event that is not of a worker says nothing of one.
LEMMA OthersMind ==
  ASSUME NEW m, m.kind \notin WorkerKinds, mind' = mind
  PROVE  MindMove(m)
BY DEF MindMove, TurnsReady, TurnsUnready, About, WorkerKinds

\* The events of the session ...
LEMMA SessionMovesIt ==
  ASSUME Typed, Owned
  PROVE  Connecting \/ Connected \/ PublishJob \/ BlockFlow \/ SessionError =>
           \E m \in Events : Moves(m)
<1> USE DEF sessionVars, workVars, workerVars
<1>1. ASSUME NEW m, Wrote(m), m.kind \notin WorkerKinds, LinkMove(m), FlowMove(m), SlotMove(m),
             m.kind # "metrics", report' = report, mind' = mind, UNCHANGED roundVars
      PROVE  \E e \in Events : Moves(e)
  <2>1. m \in Events /\ Moves(m)
    BY <1>1, OthersMind DEF Moves, ReportMove, Wrote
  <2> QED BY <2>1
<1>2. slot # Nothing => slot \in Jobs
  BY DEF Typed, WorkTypes
<1>3. ASSUME Connecting PROVE \E m \in Events : Moves(m)
  <2> DEFINE m == [kind |-> "connecting"]
  <2>1. m.kind = "connecting"
    OBVIOUS
  <2>2. Wrote(m)
    BY <1>3, SessionWrites
  <2> HIDE DEF m
  <2>3. /\ session \in {"starting", "offline"} /\ session' = "connecting"
        /\ slot' = slot /\ report' = report /\ mind' = mind /\ UNCHANGED roundVars
    BY <1>3, Frames DEF Connecting
  <2>4. LinkMove(m) /\ FlowMove(m) /\ SlotMove(m)
    BY <1>2, <2>1, <2>3 DEF LinkMove, FlowMove, SlotMove, Fatal, Unlinked
  <2> QED BY <1>1, <2>1, <2>2, <2>3, <2>4 DEF WorkerKinds
<1>4. ASSUME Connected PROVE \E m \in Events : Moves(m)
  <2> DEFINE m == [kind |-> IF Direct THEN "node_connected" ELSE "pool_connected"]
  <2>1. m.kind \in {"node_connected", "pool_connected"}
    OBVIOUS
  <2>2. Wrote(m)
    BY <1>4, SessionWrites
  <2> HIDE DEF m
  <2>3. /\ session = "connecting" /\ session' = "up"
        /\ slot' = slot /\ report' = report /\ mind' = mind /\ UNCHANGED roundVars
    BY <1>4, Frames DEF Connected
  <2>4. LinkMove(m) /\ FlowMove(m) /\ SlotMove(m)
    BY <1>2, <2>1, <2>3 DEF LinkMove, FlowMove, SlotMove, Fatal, Unlinked
  <2> QED BY <1>1, <2>1, <2>2, <2>3, <2>4 DEF WorkerKinds
<1>5. ASSUME PublishJob PROVE \E m \in Events : Moves(m)
  <2> DEFINE m == [kind |-> "job", job |-> installing]
  <2>1. m.kind = "job" /\ m.job = installing
    OBVIOUS
  <2>2. Wrote(m)
    BY <1>5, SessionWrites
  <2> HIDE DEF m
  <2>3. /\ session = "up" /\ session' = session /\ sessions' = sessions
        /\ slot' = installing /\ report' = report /\ mind' = mind /\ UNCHANGED roundVars
    BY <1>5, Frames DEF PublishJob, Owned
  <2>4. LinkMove(m) /\ FlowMove(m) /\ SlotMove(m)
    BY <1>2, <2>1, <2>3 DEF LinkMove, FlowMove, SlotMove, Fatal, Unlinked
  <2> QED BY <1>1, <2>1, <2>2, <2>3, <2>4 DEF WorkerKinds
<1>6. ASSUME BlockFlow PROVE \E m \in Events : Moves(m)
  <2>1. PICK h \in Heights : Wrote([kind |-> "block_flow", tip |-> h, tag |-> sessions])
    BY <1>6, SessionWrites
  <2> DEFINE m == [kind |-> "block_flow", tip |-> h, tag |-> sessions]
  <2>2. m.kind = "block_flow" /\ m.tag = sessions /\ Wrote(m)
    BY <2>1
  <2> HIDE DEF m
  <2>3. /\ session = "up" /\ session' = session /\ sessions' = sessions
        /\ slot' = slot /\ report' = report /\ mind' = mind /\ UNCHANGED roundVars
    BY <1>6, Frames DEF BlockFlow
  <2>4. LinkMove(m) /\ FlowMove(m) /\ SlotMove(m)
    BY <1>2, <2>2, <2>3 DEF LinkMove, FlowMove, SlotMove, Fatal, Unlinked
  <2> QED BY <1>1, <2>2, <2>3, <2>4 DEF WorkerKinds
<1>7. ASSUME SessionError PROVE \E m \in Events : Moves(m)
  <2> DEFINE m == [kind |-> "session_error"]
  <2>1. m.kind = "session_error"
    OBVIOUS
  <2>2. Wrote(m)
    BY <1>7, SessionWrites
  <2> HIDE DEF m
  <2>3. /\ session = "failed" /\ slot = Nothing
        /\ slot' = slot /\ report' = report /\ mind' = mind /\ UNCHANGED roundVars
    BY <1>7, Frames DEF SessionError, Owned
  <2>4. LinkMove(m) /\ FlowMove(m) /\ SlotMove(m)
    BY <1>2, <2>1, <2>3 DEF LinkMove, FlowMove, SlotMove, Fatal, Unlinked
  <2> QED BY <1>1, <2>1, <2>2, <2>3, <2>4 DEF WorkerKinds
<1> QED BY <1>3, <1>4, <1>5, <1>6, <1>7

\* ... and of the other threads are written so.
LEMMA OthersMoveIt ==
  ASSUME Typed, Owned
  PROVE  /\ \A w \in Workers, k \in WorkerKinds : \A s : Told(w, k, s) => \E m \in Events : Moves(m)
         /\ \A w \in Workers : ClearsJob(w) => \E m \in Events : Moves(m)
         /\ \A t \in Workers \cup {Session} : TellsShare(t) => \E m \in Events : Moves(m)
         /\ EmitMetrics => \E m \in Events : Moves(m)
<1> USE DEF sessionVars, workVars, workerVars
<1>1. ASSUME NEW m, Wrote(m), SlotMove(m), ReportMove(m), MindMove(m), UNCHANGED roundVars,
             m.kind \notin {"connecting", "pool_connected", "node_connected", "job",
                            "engine_fatal", "block_flow", "session_error"},
             session' = session, sessions' = sessions
      PROVE  \E e \in Events : Moves(e)
  <2>1. LinkMove(m) /\ FlowMove(m)
    BY <1>1 DEF LinkMove, FlowMove, Fatal
  <2>2. m \in Events /\ Moves(m)
    BY <1>1, <2>1 DEF Moves, Wrote
  <2> QED BY <2>2
<1>2. slot # Nothing => slot \in Jobs
  BY DEF Typed, WorkTypes
<1>3. ASSUME NEW w \in Workers, NEW k \in WorkerKinds, NEW s, Told(w, k, s)
      PROVE  \E m \in Events : Moves(m)
  <2> DEFINE m == [kind |-> k, worker |-> w]
  <2>1. m.kind = k /\ m.worker = w /\ Wrote(m)
    BY <1>3, OtherWrites
  <2> HIDE DEF m
  <2>2. /\ session' = session /\ sessions' = sessions /\ slot' = slot /\ report' = report
        /\ UNCHANGED roundVars
    BY <1>3 DEF Told, Tells
  <2>3. k \notin {"connecting", "pool_connected", "node_connected", "job", "job_cleared",
                  "metrics", "engine_fatal", "block_flow", "session_error"}
    BY DEF WorkerKinds
  <2>4. SlotMove(m) /\ ReportMove(m)
    BY <1>2, <2>1, <2>2, <2>3 DEF SlotMove, ReportMove
  <2>5. MindMove(m)
    <3>1. mind' = [mind EXCEPT ![w] = s] /\ mind \in [Workers -> Minds]
      BY <1>3 DEF Told, Tells, Typed, WorkerTypes
    <3>2. ASSUME NEW x \in Workers, x # w
          PROVE  mind'[x] = mind[x] /\ ~TurnsReady(m, x) /\ ~TurnsUnready(m, x)
                   /\ ~About(m, x, {"worker_error"})
      BY <2>1, <3>1, <3>2 DEF TurnsReady, TurnsUnready, About
    <3>3. /\ Good(mind'[w]) <=> TurnsReady(m, w) \/ (Good(mind[w]) /\ ~TurnsUnready(m, w))
          /\ Bad(mind'[w]) <=> About(m, w, {"worker_error"}) \/ (Bad(mind[w]) /\ ~TurnsReady(m, w))
      <4>1. mind'[w] = s
        BY <3>1
      <4> QED BY <1>3, <2>1, <4>1 DEF Told, Good, Bad, TurnsReady, TurnsUnready, About
    <3> QED BY <3>2, <3>3 DEF MindMove
  <2> QED BY <1>1, <2>1, <2>2, <2>3, <2>4, <2>5
<1>4. ASSUME NEW w \in Workers, ClearsJob(w) PROVE \E m \in Events : Moves(m)
  <2> DEFINE m == [kind |-> "job_cleared", job |-> slot]
  <2>1. m.kind = "job_cleared" /\ m.job = slot /\ Wrote(m)
    BY <1>4, OtherWrites
  <2> HIDE DEF m
  <2>2. /\ session' = session /\ sessions' = sessions /\ report' = report
        /\ slot # Nothing /\ slot' = Nothing
        /\ mind' = mind /\ UNCHANGED roundVars
    BY <1>4, WorkerFrames DEF ClearsJob, IsCurrent
  <2>3. SlotMove(m) /\ ReportMove(m) /\ MindMove(m)
    BY <1>2, <2>1, <2>2, OthersMind DEF SlotMove, ReportMove, WorkerKinds
  <2> QED BY <1>1, <2>1, <2>2, <2>3
<1>5. ASSUME NEW t \in Workers \cup {Session}, TellsShare(t) PROVE \E m \in Events : Moves(m)
  <2>1. PICK c \in AnyCounts : Wrote([kind |-> "share", counts |-> c])
    BY <1>5, OtherWrites
  <2> DEFINE m == [kind |-> "share", counts |-> c]
  <2>2. m.kind = "share" /\ Wrote(m)
    BY <2>1
  <2> HIDE DEF m
  <2>3. /\ session' = session /\ sessions' = sessions /\ slot' = slot /\ report' = report
        /\ mind' = mind /\ UNCHANGED roundVars
    BY <1>5, OtherFrames
  <2>4. SlotMove(m) /\ ReportMove(m) /\ MindMove(m)
    BY <1>2, <2>2, <2>3, OthersMind DEF SlotMove, ReportMove, WorkerKinds
  <2> QED BY <1>1, <2>2, <2>3, <2>4
<1>6. ASSUME EmitMetrics PROVE \E m \in Events : Moves(m)
  <2> DEFINE m == [kind |-> "metrics", rate |-> report.rate, height |-> report.height,
                   round |-> report.round, counts |-> report.counts]
  <2>1. m.kind = "metrics" /\ m.round = report.round /\ m.height = report.height
    OBVIOUS
  <2>2. Wrote(m)
    BY <1>6, OtherWrites
  <2> HIDE DEF m
  <2>3. /\ session' = session /\ sessions' = sessions /\ slot' = slot
        /\ report.step = "slot" /\ report' = Asleep
        /\ mind' = mind /\ UNCHANGED roundVars
    BY <1>6, OtherFrames DEF EmitMetrics
  <2>4. SlotMove(m) /\ ReportMove(m) /\ MindMove(m)
    BY <1>2, <2>1, <2>3, OthersMind DEF SlotMove, ReportMove, WorkerKinds
  <2> QED BY <1>1, <2>1, <2>2, <2>3, <2>4
<1> QED BY <1>3, <1>4, <1>5, <1>6

\* An engine that has connected or not, and has not ended.
Live == session # "ended" /\ Lives
Shows(m) ==
  /\ Read(m) /\ ~Fatal(m) /\ ShownAs(view', view, m)
  /\ UNCHANGED <<sessionVars, workVars, roundVars, workerVars, shareVars, report>>

\* A step of a live engine is one of the three.
LEMMA LiveSteps ==
  ASSUME Typed, Unborn, Owned, Live, [Next]_vars, session' # "ended"
  PROVE  Silent \/ (\E m \in Events : Moves(m)) \/ (\E m \in Events : Shows(m))
<1>1. ~StartFails
  BY DEF StartFails
<1>2. CASE Writes
  BY <1>1, <1>2, SessionMovesIt, OthersMoveIt DEF Writes
<1>3. CASE Show
  <2> DEFINE m == pipe[1]
  <2>1. Read(m)
    BY <1>3, ShowReads
  <2>2. ~Fatal(m) /\ m \in Events
    <3>1. 1 \in 1..Len(pipe)
      <4>1. Len(pipe) \in Nat \ {0}
        BY <2>1, PipeAfter DEF Typed, PipeTypes
      <4> QED BY <4>1
    <3> QED BY <2>1, <3>1 DEF Live, Lives, Read
  <2> HIDE DEF m
  <2>3. ShownAs(view', view, m)
    BY <2>1, <2>2, Shown DEF Read, Typed, Live, Lives
  <2> QED BY <1>3, <2>1, <2>2, <2>3, OtherFrames DEF Shows
<1>4. CASE UNCHANGED pipe /\ ~Writes /\ ~Show
  <2>1. view' = view \/ GoStale
    BY <1>4, Changers
  <2>2. session' \in {session, "failed"} /\ sessions' = sessions
    <3>1. CASE UNCHANGED sessionVars
      BY <3>1 DEF sessionVars
    <3>2. CASE SessionMoves
      BY <1>4, <3>2 DEF SessionMoves, Writes, SessionFails
    <3> QED BY <3>1, <3>2, Changers
  <2>3. mind' = mind
    <3>1. CASE UNCHANGED workerVars
      BY <3>1 DEF workerVars
    <3>2. CASE WorkerMoves
      BY <1>4, <3>2 DEF WorkerMoves, Writes, Take
    <3> QED BY <3>1, <3>2, Changers
  <2>4. slot' \in {slot, Nothing}
    <3>1. CASE UNCHANGED workVars
      BY <3>1 DEF workVars
    <3>2. CASE WorkMoves
      BY <1>4, <3>2 DEF WorkMoves, Writes, SessionFails, BeginInstall
    <3> QED BY <3>1, <3>2, Changers
  <2>5. \/ report' = report
        \/ report'.step # "slot"
        \/ slot' = slot /\ (slot # Nothing => report'.height = slot.height)
    <3>1. CASE SampleRound
      <4>1. report'.step = "round"
        BY <3>1 DEF SampleRound, Asleep
      <4> QED BY <4>1
    <3>2. CASE SampleSlot
      <4>1. report'.height = IF slot = Nothing THEN Nothing ELSE slot.height
        BY <3>2 DEF SampleSlot, Typed, ReportTypes
      <4>2. slot' = slot
        BY <3>2, OtherFrames DEF workVars
      <4> QED BY <4>1, <4>2
    <3> QED BY <1>4, <3>1, <3>2, Changers DEF Report, Writes
  <2> QED BY <1>4, <2>1, <2>2, <2>3, <2>4, <2>5 DEF Silent
<1> QED BY <1>2, <1>3, <1>4, Changers

\* A live engine stays so, or fails to start.
LEMMA LivesKept ==
  ASSUME Typed, Unborn, Owned, Live, [Next]_vars, session' # "ended"
  PROVE  Live'
<1>1. pipe \in Seq(Events) /\ Len(pipe) \in Nat
  BY DEF Typed, PipeTypes
<1>2. CASE Silent
  <2>1. view'.fatal = view.fatal
    <3>1. GoStale => view'.fatal = view.fatal
      BY GoneStale DEF GoStale, Typed
    <3> QED BY <1>2, <3>1 DEF Silent
  <2> QED BY <1>2, <2>1 DEF Silent, Live, Lives
<1>3. ASSUME NEW m \in Events, Moves(m) PROVE Lives'
  <2>1. view' = view /\ ~Fatal(m) /\ Wrote(m)
    BY <1>3 DEF Moves, Wrote, LinkMove
  <2>2. \A i \in 1..Len(pipe') : i \in 1..Len(pipe) \/ (i = Len(pipe) + 1 /\ pipe'[i] = m)
    BY <1>1, <2>1, PipeAfter
  <2>3. \A i \in 1..Len(pipe) : pipe'[i] = pipe[i]
    BY <1>1, <2>1, PipeAfter
  <2>4. \A i \in 1..Len(pipe') : ~Fatal(pipe'[i])
    BY <2>1, <2>2, <2>3 DEF Live, Lives
  <2> QED BY <2>1, <2>4 DEF Live, Lives, Fatal
<1>4. ASSUME NEW m \in Events, Shows(m) PROVE Lives'
  <2>1. view'.fatal = view.fatal /\ Read(m)
    BY <1>4 DEF Shows, ShownAs
  <2>2. \A i \in 1..Len(pipe') : i + 1 \in 1..Len(pipe) /\ pipe'[i] = pipe[i + 1]
    BY <1>1, <2>1, PipeAfter
  <2>3. \A i \in 1..Len(pipe') : ~Fatal(pipe'[i])
    BY <2>2 DEF Live, Lives
  <2> QED BY <2>1, <2>3 DEF Live, Lives, Fatal
<1>5. Lives' => Live'
  BY DEF Live
<1> QED BY <1>2, <1>3, <1>4, <1>5, LiveSteps DEF Live

\* A switch when an event is written, and when one is read.
LEMMA LatchWritten ==
  ASSUME pipe \in Seq(Events), NEW m, Wrote(m), NEW on, NEW off, NEW now
  PROVE  /\ \A n \in 0..Len(pipe) : Latch(on, off, now, pipe', n) <=> Latch(on, off, now, pipe, n)
         /\ Latch(on, off, now, pipe', Len(pipe'))
              <=> m \in on \/ (Latch(on, off, now, pipe, Len(pipe)) /\ m \notin off)
<1> DEFINE p == pipe
           q == pipe'
           l == Len(pipe)
<1>1. l \in Nat /\ Len(q) = l + 1 /\ q[l + 1] = m /\ \A i \in 1..l : q[i] = p[i]
  BY PipeAfter
<1> HIDE DEF p, q, l
<1>2. ASSUME NEW n \in 0..l PROVE Latch(on, off, now, q, n) <=> Latch(on, off, now, p, n)
  <2>1. n \in Nat /\ \A i \in 1..n : q[i] = p[i]
    BY <1>1
  <2> QED BY <2>1, LatchSame
<1>3. Latch(on, off, now, q, l + 1) <=> q[l + 1] \in on \/ (Latch(on, off, now, q, l) /\ q[l + 1] \notin off)
  BY <1>1, LatchNext
<1>4. l \in 0..l
  BY <1>1
<1>5. Latch(on, off, now, q, l + 1) <=> m \in on \/ (Latch(on, off, now, p, l) /\ m \notin off)
  BY <1>1, <1>2, <1>3, <1>4
<1> QED BY <1>1, <1>2, <1>5 DEF p, q, l

\* Reading an event moves it from the pipe to the switch, which will be what it would have been.
LEMMA LatchRead ==
  ASSUME pipe \in Seq(Events), NEW m, Read(m), NEW on, NEW off, NEW now, NEW then,
         then <=> m \in on \/ (now /\ m \notin off)
  PROVE  /\ Len(pipe') \in Nat /\ Len(pipe) = Len(pipe') + 1
         /\ \A n \in 0..Len(pipe') :
              Latch(on, off, then, pipe', n) <=> Latch(on, off, now, pipe, n + 1)
<1> DEFINE p == pipe
           q == pipe'
           l == Len(pipe')
<1>1. l \in Nat /\ Len(p) = l + 1 /\ (\A i \in 1..l : q[i] = p[i + 1]) /\ p[1] = m
  BY PipeAfter DEF Read
<1> HIDE DEF p, q, l
<1>2. ASSUME NEW n \in 0..l PROVE Latch(on, off, then, q, n) <=> Latch(on, off, now, p, n + 1)
  <2>1. n \in Nat /\ (\A i \in 1..n : q[i] = p[i + 1]) /\ (then <=> p[1] \in on \/ (now /\ p[1] \notin off))
    BY <1>1
  <2> QED BY <2>1, LatchShift
<1> QED BY <1>1, <1>2 DEF p, q, l

----
\* The link: whether it will be shown live when the next n events have been read.
\* A session begins and connects only where none is, so no event of a session that
\* is not yet connected is read over a live link.
Connects == {m \in Events : m.kind \in {"node_connected", "job"}}
Disconnects == {m \in Events : m.kind \in {"connecting", "session_error"}}
Up(n) == Latch(Connects, Disconnects, view.link, pipe, n)
LinkKnown ==
  /\ session \in Unlinked => ~Up(Len(pipe))
  /\ \A i \in 1..Len(pipe) : pipe[i].kind \in {"connecting", "pool_connected"} => ~Up(i - 1)

\* The link stays known.
LEMMA LinkKept ==
  ASSUME Typed, Unborn, Owned, Live, [Next]_vars, session' # "ended", LinkKnown
  PROVE  LinkKnown'
<1>1. pipe \in Seq(Events) /\ Len(pipe) \in Nat
  BY DEF Typed, PipeTypes
<1>2. Connects' = Connects /\ Disconnects' = Disconnects
  BY Changers, SameSets DEF Connects, Disconnects
<1>3. \A n : Up(n)' <=> Latch(Connects, Disconnects, view'.link, pipe', n)
  BY <1>2 DEF Up
<1>4. CASE Silent
  <2>1. view'.link = view.link
    <3>1. GoStale => view'.link = view.link
      BY GoneStale DEF GoStale, Typed
    <3> QED BY <1>4, <3>1 DEF Silent
  <2>2. pipe' = pipe /\ (session' \in Unlinked => session' = session)
    BY <1>4 DEF Silent, Unlinked
  <2>3. \A n : Up(n)' <=> Up(n)
    BY <1>3, <2>1, <2>2 DEF Up
  <2> QED BY <2>2, <2>3 DEF LinkKnown
<1>5. ASSUME NEW m \in Events, Moves(m) PROVE LinkKnown'
  <2>1. Wrote(m) /\ LinkMove(m) /\ view' = view
    BY <1>5 DEF Moves, Wrote
  <2>2. m \in Connects <=> m.kind \in {"node_connected", "job"}
    BY DEF Connects
  <2>3. m \in Disconnects <=> m.kind \in {"connecting", "session_error"}
    BY DEF Disconnects
  <2>4. \A n \in 0..Len(pipe) : Up(n)' <=> Up(n)
    BY <1>1, <1>3, <2>1, LatchWritten DEF Up
  <2>6. Latch(Connects, Disconnects, view.link, pipe', Len(pipe'))
          <=> m \in Connects \/ (Up(Len(pipe)) /\ m \notin Disconnects)
    BY <1>1, <2>1, LatchWritten DEF Up
  <2>7. session' \in Unlinked => ~Latch(Connects, Disconnects, view'.link, pipe', Len(pipe'))
    BY <2>1, <2>2, <2>3, <2>6 DEF LinkMove, LinkKnown
  <2>8. ASSUME NEW i \in 1..Len(pipe'), pipe'[i].kind \in {"connecting", "pool_connected"}
        PROVE  ~Latch(Connects, Disconnects, view'.link, pipe', i - 1)
    <3>1. /\ i - 1 \in 0..Len(pipe)
          /\ \/ i \in 1..Len(pipe) /\ pipe'[i] = pipe[i]
             \/ i - 1 = Len(pipe) /\ pipe'[i] = m
      BY <1>1, <2>1, PipeAfter
    <3>2. ~Up(i - 1)
      BY <2>1, <2>8, <3>1 DEF LinkMove, LinkKnown
    <3> QED BY <1>3, <2>4, <3>1, <3>2
  <2> QED BY <1>2, <2>7, <2>8 DEF LinkKnown, Up
<1>6. ASSUME NEW m \in Events, Shows(m) PROVE LinkKnown'
  <2>1. /\ Read(m) /\ session' = session
        /\ view'.link <=> m \in Connects \/ (view.link /\ m \notin Disconnects)
    BY <1>6 DEF Shows, ShownAs, sessionVars, Connects, Disconnects
  <2>2. /\ Len(pipe') \in Nat /\ Len(pipe) = Len(pipe') + 1
        /\ \A n \in 0..Len(pipe') :
             Latch(Connects, Disconnects, view'.link, pipe', n) <=> Up(n + 1)
    BY <1>1, <2>1, LatchRead DEF Up
  <2>3. session' \in Unlinked => ~Latch(Connects, Disconnects, view'.link, pipe', Len(pipe'))
    <3>1. Len(pipe') \in 0..Len(pipe')
      BY <2>2
    <3> QED BY <2>1, <2>2, <3>1 DEF LinkKnown
  <2>4. ASSUME NEW i \in 1..Len(pipe'), pipe'[i].kind \in {"connecting", "pool_connected"}
        PROVE  ~Latch(Connects, Disconnects, view'.link, pipe', i - 1)
    <3>1. pipe'[i] = pipe[i + 1] /\ i + 1 \in 1..Len(pipe) /\ i - 1 \in 0..Len(pipe')
            /\ (i + 1) - 1 = (i - 1) + 1
      BY <1>1, <2>1, <2>2, PipeAfter
    <3>2. ~Up((i - 1) + 1)
      BY <2>4, <3>1 DEF LinkKnown
    <3> QED BY <2>2, <3>1, <3>2
  <2> QED BY <1>2, <2>3, <2>4 DEF LinkKnown, Up
<1> QED BY <1>4, <1>5, <1>6, LiveSteps

----
\* Health: the phase, the flag that lets it return to Mining, and stability agree
\* with the link and the workers shown, whichever event comes.
Healthy == HealthOf(view)

\* Health is kept.
LEMMA HealthKept ==
  ASSUME Typed, Unborn, Owned, Live, [Next]_vars, session' # "ended", LinkKnown, Healthy
  PROVE  Healthy'
<1>1. pipe \in Seq(Events) /\ Len(pipe) \in Nat /\ view \in ViewType
  BY DEF Typed, PipeTypes
<1>2. Workers' = Workers
  BY Changers, SameSets
<1>3. Healthy' <=> HealthOf(view')
  BY <1>2 DEF Healthy, HealthOf
<1>4. CASE view' = view
  BY <1>3, <1>4 DEF Healthy
<1>5. CASE GoStale
  <2>1. view' = [view EXCEPT !.stable = FALSE]
    BY <1>5 DEF GoStale
  <2>2. /\ view'.link = view.link /\ view'.errors = view.errors /\ view'.phase = view.phase
        /\ view'.canRestore = view.canRestore /\ view'.stable = FALSE
    BY <1>1, <2>1 DEF ViewType
  <2> QED BY <1>3, <2>2 DEF Healthy, HealthOf
<1>6. ASSUME NEW m \in Events, Shows(m) PROVE Healthy'
  <2>1. Read(m) /\ ShownAs(view', view, m)
    BY <1>6 DEF Shows
  <2>2. m = pipe[1] /\ 1 \in 1..Len(pipe)
    BY <1>1, <2>1, PipeAfter DEF Read
  <2>3. m.kind \in {"connecting", "pool_connected"} => ~view.link
    BY <2>2, LatchZero DEF LinkKnown, Up
  <2>4. HealthOf(view')
    BY <2>1, <2>3 DEF ShownAs, Healthy
  <2> QED BY <1>3, <2>4
<1> QED BY <1>4, <1>5, <1>6, LiveSteps DEF Silent, Moves, Wrote

----
\* The workers: who will be shown ready, and who failed, when the pipe has been
\* read, is who is.
ReadyOn(w) == {m \in Events : TurnsReady(m, w)}
ReadyOff(w) == {m \in Events : TurnsUnready(m, w)}
FailedOn(w) == {m \in Events : About(m, w, {"worker_error"})}
WillBeReady(w) == Latch(ReadyOn(w), ReadyOff(w), w \in view.ready, pipe, Len(pipe))
WillBeFailed(w) == Latch(FailedOn(w), ReadyOn(w), w \in view.errors, pipe, Len(pipe))
MindsKnown ==
  \A w \in Workers : /\ WillBeReady(w) <=> Good(mind[w])
                     /\ WillBeFailed(w) <=> Bad(mind[w])

\* The workers stay known.
LEMMA MindsKept ==
  ASSUME Typed, Unborn, Owned, Live, [Next]_vars, session' # "ended", MindsKnown
  PROVE  MindsKnown'
<1>1. pipe \in Seq(Events) /\ Len(pipe) \in Nat /\ view \in ViewType
  BY DEF Typed, PipeTypes
<1>2. Workers' = Workers /\ Events' = Events
  BY Changers, SameSets
<1> SUFFICES ASSUME NEW w \in Workers
             PROVE  /\ WillBeReady(w)' <=> Good(mind'[w])
                    /\ WillBeFailed(w)' <=> Bad(mind'[w])
  BY <1>2 DEF MindsKnown, Good, Bad
<1> DEFINE Rdy == ReadyOn(w)
           Not == ReadyOff(w)
           Bust == FailedOn(w)
<1>3. /\ WillBeReady(w)' <=> Latch(Rdy, Not, w \in view'.ready, pipe', Len(pipe'))
      /\ WillBeFailed(w)' <=> Latch(Bust, Rdy, w \in view'.errors, pipe', Len(pipe'))
  <2>1. ReadyOn(w)' = Rdy /\ ReadyOff(w)' = Not /\ FailedOn(w)' = Bust
    BY <1>2 DEF ReadyOn, ReadyOff, FailedOn, TurnsReady, TurnsUnready, About
  <2> QED BY <2>1 DEF WillBeReady, WillBeFailed
<1>4. /\ WillBeReady(w) <=> Latch(Rdy, Not, w \in view.ready, pipe, Len(pipe))
      /\ WillBeFailed(w) <=> Latch(Bust, Rdy, w \in view.errors, pipe, Len(pipe))
  BY DEF WillBeReady, WillBeFailed
<1>5. /\ WillBeReady(w) <=> Good(mind[w])
      /\ WillBeFailed(w) <=> Bad(mind[w])
  BY DEF MindsKnown
<1>6. \A m \in Events : /\ m \in Rdy <=> TurnsReady(m, w)
                        /\ m \in Not <=> TurnsUnready(m, w)
                        /\ m \in Bust <=> About(m, w, {"worker_error"})
  BY DEF ReadyOn, ReadyOff, FailedOn
<1> HIDE DEF Rdy, Not, Bust
<1>7. CASE Silent
  <2>1. view'.ready = view.ready /\ view'.errors = view.errors
    BY <1>1, <1>7 DEF Silent, GoStale, ViewType
  <2>2. pipe' = pipe /\ mind' = mind
    BY <1>7 DEF Silent
  <2> QED BY <1>3, <1>4, <1>5, <2>1, <2>2
<1>8. ASSUME NEW m \in Events, Moves(m)
      PROVE  /\ WillBeReady(w)' <=> Good(mind'[w])
             /\ WillBeFailed(w)' <=> Bad(mind'[w])
  <2>1. Wrote(m) /\ MindMove(m) /\ view' = view
    BY <1>8 DEF Moves, Wrote
  <2>2. Latch(Rdy, Not, w \in view.ready, pipe', Len(pipe'))
          <=> m \in Rdy \/ (WillBeReady(w) /\ m \notin Not)
    BY <1>1, <1>4, <2>1, LatchWritten
  <2>3. Latch(Bust, Rdy, w \in view.errors, pipe', Len(pipe'))
          <=> m \in Bust \/ (WillBeFailed(w) /\ m \notin Rdy)
    BY <1>1, <1>4, <2>1, LatchWritten
  <2> QED BY <1>3, <1>5, <1>6, <2>1, <2>2, <2>3 DEF MindMove
<1>9. ASSUME NEW m \in Events, Shows(m)
      PROVE  /\ WillBeReady(w)' <=> Good(mind'[w])
             /\ WillBeFailed(w)' <=> Bad(mind'[w])
  <2>1. Read(m) /\ ShownAs(view', view, m) /\ mind' = mind
    BY <1>9 DEF Shows, workerVars
  <2>2. w \in view'.ready <=> m \in Rdy \/ (w \in view.ready /\ m \notin Not)
    BY <1>6, <2>1 DEF ShownAs
  <2>3. w \in view'.errors <=> m \in Bust \/ (w \in view.errors /\ m \notin Rdy)
    BY <1>6, <2>1 DEF ShownAs
  <2>4. Len(pipe') \in 0..Len(pipe') /\ Len(pipe) = Len(pipe') + 1
    BY <1>1, <2>1, PipeAfter
  <2>5. Latch(Rdy, Not, w \in view'.ready, pipe', Len(pipe')) <=> WillBeReady(w)
    <3> DEFINE now == w \in view.ready
               then == w \in view'.ready
    <3>1. then <=> m \in Rdy \/ (now /\ m \notin Not)
      BY <2>2
    <3> HIDE DEF now, then
    <3>2. Latch(Rdy, Not, then, pipe', Len(pipe')) <=> Latch(Rdy, Not, now, pipe, Len(pipe') + 1)
      BY <1>1, <2>1, <2>4, <3>1, LatchRead
    <3> QED BY <1>4, <2>4, <3>2 DEF now, then
  <2>6. Latch(Bust, Rdy, w \in view'.errors, pipe', Len(pipe')) <=> WillBeFailed(w)
    <3> DEFINE now == w \in view.errors
               then == w \in view'.errors
    <3>1. then <=> m \in Bust \/ (now /\ m \notin Rdy)
      BY <2>3
    <3> HIDE DEF now, then
    <3>2. Latch(Bust, Rdy, then, pipe', Len(pipe')) <=> Latch(Bust, Rdy, now, pipe, Len(pipe') + 1)
      BY <1>1, <2>1, <2>4, <3>1, LatchRead
    <3> QED BY <1>4, <2>4, <3>2 DEF now, then
  <2> QED BY <1>3, <1>5, <2>1, <2>5, <2>6
<1> QED BY <1>7, <1>8, <1>9, LiveSteps

----
\* The rounds: every sample, composed or written or shown, is of hashes made.
MadeOf(d, r) == IF r.height = Nothing THEN r.hashes = 0 ELSE r.hashes <= d[r.height]
Made(r) == MadeOf(done, r)
RoundsMade ==
  /\ Made(round) /\ Made(report.round)
  /\ \A i \in 1..Len(pipe) : pipe[i].kind = "metrics" => Made(pipe[i].round)
  /\ view.round > 0 => view.height # Nothing /\ view.round <= done[view.height]

\* Hashes only grow, and a round begins with none.
LEMMA HashesAreMade ==
  ASSUME Typed, [Next]_vars
  PROVE  /\ \A h \in Heights : done[h] \in Nat /\ done'[h] \in Nat /\ done[h] <= done'[h]
         /\ \A r \in RoundType : Made(r) => MadeOf(done', r)
         /\ Made(round) => MadeOf(done', round')
<1>1. Heights' = Heights /\ Nothing \notin Heights /\ scope' = scope
  BY ScopeBounds, Changers, SameSets DEF Typed
<1>2. /\ done \in [Heights -> Nat] /\ done' \in [Heights -> Nat]
      /\ round \in RoundType /\ round' \in RoundType
  <2>1. Typed'
    BY TypedKept
  <2>2. scope.hashes \in Nat
    BY ScopeBounds DEF Typed
  <2> QED BY <1>1, <2>1, <2>2 DEF Typed, RoundTypes, RoundType
<1>3. \/ done' = done /\ (round' = round \/ round'.hashes = 0)
      \/ \E h \in Heights : /\ done' = [done EXCEPT ![h] = @ + 1]
                            /\ \/ round' = round
                               \/ round.height = h /\ round' = [round EXCEPT !.hashes = @ + 1]
  <2>1. CASE UNCHANGED roundVars
    BY <2>1 DEF roundVars
  <2>2. CASE BeginInstall
    <3>1. done' = done
      BY <2>2, Frames
    <3>2. PICK h \in Heights : round' = IF round.height = h THEN round ELSE [height |-> h, hashes |-> 0]
      BY <2>2 DEF BeginInstall
    <3> QED BY <3>1, <3>2
  <2>3. CASE SampleRound
    BY <2>3, OtherFrames
  <2>4. ASSUME NEW w \in Workers, Hashes(w)
        PROVE  \E h \in Heights : /\ done' = [done EXCEPT ![h] = @ + 1]
                                  /\ \/ round' = round
                                     \/ round.height = h /\ round' = [round EXCEPT !.hashes = @ + 1]
    <3> DEFINE h == held[w].height
    <3>1. h \in Heights
      BY <2>4 DEF Hashes, Works, Typed, WorkerTypes, Jobs
    <3>2. /\ done' = [done EXCEPT ![h] = @ + 1]
          /\ round' = IF Credits(w) THEN [round EXCEPT !.hashes = @ + 1] ELSE round
          /\ Credits(w) => round.height = h
      BY <2>4 DEF Hashes, Credits
    <3> HIDE DEF h
    <3> QED BY <3>1, <3>2
  <2> QED BY <2>1, <2>2, <2>3, <2>4, Changers DEF RoundMoves
<1>4. \A h \in Heights : done[h] \in Nat /\ done'[h] \in Nat /\ done[h] <= done'[h]
  BY <1>2, <1>3
<1>5. ASSUME NEW r \in RoundType, Made(r) PROVE MadeOf(done', r)
  <2>1. r.height \in Heights \cup {Nothing} /\ r.hashes \in Nat
    BY DEF RoundType
  <2> QED BY <1>4, <1>5, <2>1 DEF Made, MadeOf
<1>6. ASSUME Made(round) PROVE MadeOf(done', round')
  <2>1. CASE round' = round
    BY <1>2, <1>5, <1>6, <2>1 DEF Made, MadeOf
  <2>2. CASE round'.hashes = 0
    <3>1. round'.height \in Heights \cup {Nothing}
      BY <1>1, <1>2 DEF RoundType
    <3> QED BY <1>4, <2>2, <3>1 DEF Made, MadeOf
  <2>3. ASSUME NEW h \in Heights, done' = [done EXCEPT ![h] = @ + 1], round.height = h,
               round' = [round EXCEPT !.hashes = @ + 1]
        PROVE  MadeOf(done', round')
    <3>1. round'.height = h /\ round'.hashes = round.hashes + 1 /\ round.hashes \in Nat
      BY <1>2, <2>3 DEF RoundType
    <3>2. h # Nothing /\ done'[h] = done[h] + 1 /\ done[h] \in Nat
      BY <1>1, <1>2, <2>3
    <3> QED BY <1>6, <2>3, <3>1, <3>2 DEF Made, MadeOf
  <2> QED BY <1>3, <2>1, <2>2, <2>3
<1> QED BY <1>4, <1>5, <1>6

\* Samples stay those of hashes made.
LEMMA RoundsKept ==
  ASSUME Typed, Unborn, Owned, Live, [Next]_vars, session' # "ended", RoundsMade
  PROVE  RoundsMade'
<1>1. /\ pipe \in Seq(Events) /\ Len(pipe) \in Nat /\ view \in ViewType
      /\ report.round \in RoundType /\ Nothing \notin Heights
  BY ScopeBounds DEF Typed, PipeTypes, ReportTypes
<1>2. \A r \in RoundType : Made(r) => MadeOf(done', r)
  BY HashesAreMade
<1>3. MadeOf(done', round')
  BY HashesAreMade DEF RoundsMade
<1>4. MadeOf(done', report'.round)
  <2>1. report'.round = report.round \/ report'.round = round' \/ report'.round = NoRound
    <3>1. SampleRound => report'.round = round'
      BY DEF SampleRound, Asleep
    <3>2. SampleSlot => report'.round = report.round
      BY DEF SampleSlot, Typed, ReportTypes
    <3>3. EmitMetrics => report'.round = NoRound
      BY DEF EmitMetrics, Asleep
    <3> QED BY <3>1, <3>2, <3>3, Changers DEF Report
  <2>2. MadeOf(done', NoRound)
    BY DEF MadeOf, NoRound
  <2> QED BY <1>1, <1>2, <1>3, <2>1, <2>2 DEF RoundsMade
<1>5. ASSUME NEW i \in 1..Len(pipe), pipe[i].kind = "metrics"
      PROVE  MadeOf(done', pipe[i].round) /\ Made(pipe[i].round)
  <2>1. pipe[i] \in Events
    BY <1>1
  <2>2. pipe[i].round \in RoundType
    BY <1>5, <2>1, EventFields
  <2> QED BY <1>2, <1>5, <2>2 DEF RoundsMade
<1>6. view.round > 0 => view.height # Nothing /\ view.round <= done'[view.height]
  <2>1. view.height # Nothing => view.height \in Heights
    BY <1>1 DEF ViewType
  <2>2. view.round \in Nat
    BY <1>1 DEF ViewType
  <2> QED BY <2>1, <2>2, HashesAreMade DEF RoundsMade
<1>7. CASE Silent
  <2>1. view'.round = view.round /\ view'.height = view.height
    BY <1>1, <1>7 DEF Silent, GoStale, ViewType
  <2>2. pipe' = pipe
    BY <1>7 DEF Silent
  <2>3. \A i \in 1..Len(pipe') : pipe'[i].kind = "metrics" => MadeOf(done', pipe'[i].round)
    BY <1>5, <2>2
  <2> QED BY <1>3, <1>4, <1>6, <2>1, <2>3 DEF RoundsMade, Made
<1>8. ASSUME NEW m \in Events, Moves(m) PROVE RoundsMade'
  <2>1. Wrote(m) /\ ReportMove(m) /\ view' = view
    BY <1>8 DEF Moves, Wrote
  <2>2. m.kind = "metrics" => MadeOf(done', m.round)
    BY <1>1, <1>2, <2>1 DEF ReportMove, RoundsMade
  <2>3. ASSUME NEW i \in 1..Len(pipe'), pipe'[i].kind = "metrics"
        PROVE  MadeOf(done', pipe'[i].round)
    <3>1. \/ i \in 1..Len(pipe) /\ pipe'[i] = pipe[i]
          \/ pipe'[i] = m
      BY <1>1, <2>1, PipeAfter
    <3> QED BY <1>5, <2>2, <2>3, <3>1
  <2> QED BY <1>3, <1>4, <1>6, <2>1, <2>3 DEF RoundsMade, Made
<1>9. ASSUME NEW m \in Events, Shows(m) PROVE RoundsMade'
  <2>1. Read(m) /\ ShownAs(view', view, m)
    BY <1>9 DEF Shows
  <2>2. m = pipe[1] /\ 1 \in 1..Len(pipe)
    BY <1>1, <2>1, PipeAfter DEF Read
  <2>3. ASSUME NEW i \in 1..Len(pipe'), pipe'[i].kind = "metrics"
        PROVE  MadeOf(done', pipe'[i].round)
    <3>1. i + 1 \in 1..Len(pipe) /\ pipe'[i] = pipe[i + 1]
      BY <1>1, <2>1, PipeAfter
    <3> QED BY <1>5, <2>3, <3>1
  <2>4. ASSUME view'.round > 0
        PROVE  view'.height # Nothing /\ view'.round <= done'[view'.height]
    <3>1. CASE view'.round = view.round /\ (view.height # Nothing => view'.height = view.height)
      BY <1>6, <2>4, <3>1
    <3>2. CASE m.kind = "metrics" /\ view'.round = m.round.hashes /\ m.round.height = view'.height
      <4>1. MadeOf(done', m.round)
        BY <1>5, <2>2, <3>2
      <4> QED BY <2>4, <3>2, <4>1 DEF MadeOf
    <3> QED BY <2>1, <2>4, <3>1, <3>2 DEF ShownAs
  <2> QED BY <1>3, <1>4, <2>3, <2>4 DEF RoundsMade, Made
<1> QED BY <1>7, <1>8, <1>9, LiveSteps

----
\* The block flows: the tip shown and the flows that are still to be read are told
\* of one session, up to the next session_error.  The tip shown counts as the flow
\* before the first event of the pipe.
TagAt(p, v, i, t) ==
  IF i = 0 THEN v.tip # Nothing /\ v.tip.tag = t
           ELSE p[i].kind = "block_flow" /\ p[i].tag = t
Unbroken(p, i, j) == \A k \in (i + 1)..j : p[k].kind # "session_error"
FlowsKnown ==
  /\ NothingBridgesSessions
  /\ \A i \in 0..Len(pipe), t \in Nat : TagAt(pipe, view, i, t) /\ Unbroken(pipe, i, Len(pipe)) =>
       session \in {"up", "failed"} /\ t = sessions
  /\ \A i \in 0..Len(pipe), j \in 0..Len(pipe), t \in Nat, s \in Nat :
       i < j /\ TagAt(pipe, view, i, t) /\ TagAt(pipe, view, j, s) /\ Unbroken(pipe, i, j) => t = s

\* The tip that an event leaves is the one before it or its own.
LEMMA TipShown ==
  ASSUME NEW v \in ViewType, ~v.fatal, NEW m \in Events, ~Fatal(m), NEW u, u = Apply(v, m)
  PROVE  /\ m.kind = "block_flow" =>
              /\ m.tag \in Nat /\ u.trend = Append(v.trend, m.tag) /\ u.tip \in Tips
              /\ u.tip.tag = m.tag \/ (v.tip # Nothing /\ u.tip = v.tip)
         /\ m.kind = "session_error" => u.tip = Nothing /\ u.trend = <<>>
         /\ m.kind \notin {"block_flow", "session_error"} => SameFlow(u, v)
<1>1. ShownAs(u, v, m)
  BY Shown
<1>2. ASSUME m.kind = "block_flow"
      PROVE  /\ m.tag \in Nat /\ u.trend = Append(v.trend, m.tag) /\ u.tip \in Tips
             /\ u.tip.tag = m.tag \/ (v.tip # Nothing /\ u.tip = v.tip)
  <2>1. m.tip \in Heights /\ m.tag \in Nat /\ u = OnBlockFlow(v, m)
    BY <1>2, EventFields, ApplyIs
  <2>2. /\ u.trend = Append(v.trend, m.tag)
        /\ u.tip = IF v.tip = Nothing \/ m.tip > v.tip.height
                     THEN [height |-> m.tip, tag |-> m.tag] ELSE v.tip
    BY <2>1, AfterFlow
  <2>3. v.tip \in Tips \cup {Nothing} /\ [height |-> m.tip, tag |-> m.tag] \in Tips
    BY <2>1 DEF ViewType, Tips
  <2> QED BY <2>1, <2>2, <2>3
<1> QED BY <1>1, <1>2 DEF ShownAs

\* The flows stay of one session.
LEMMA FlowsKept ==
  ASSUME Typed, Unborn, Owned, Live, [Next]_vars, session' # "ended", FlowsKnown
  PROVE  FlowsKnown'
<1>1. /\ pipe \in Seq(Events) /\ Len(pipe) \in Nat /\ view \in ViewType /\ sessions \in Nat
  BY ScopeBounds DEF Typed, PipeTypes, SessionTypes
<1>2. CASE Silent
  <2>1. view'.tip = view.tip /\ view'.trend = view.trend
    BY <1>1, <1>2 DEF Silent, GoStale, ViewType
  <2>2. /\ pipe' = pipe /\ sessions' = sessions
        /\ session \in {"up", "failed"} => session' \in {"up", "failed"}
    BY <1>2 DEF Silent
  <2>3. \A i, t : TagAt(pipe', view', i, t) <=> TagAt(pipe, view, i, t)
    BY <2>1, <2>2 DEF TagAt
  <2>4. NothingBridgesSessions'
    BY <2>1 DEF FlowsKnown, NothingBridgesSessions
  <2> QED BY <2>2, <2>3, <2>4 DEF FlowsKnown
<1>3. ASSUME NEW m \in Events, Moves(m) PROVE FlowsKnown'
  <2> DEFINE n == Len(pipe)
  <2>1. Wrote(m) /\ FlowMove(m) /\ view' = view
    BY <1>3 DEF Moves, Wrote
  <2>2. /\ Len(pipe') = n + 1 /\ pipe'[n + 1] = m /\ n \in Nat
        /\ \A i \in 1..n : pipe'[i] = pipe[i]
    BY <1>1, <2>1, PipeAfter
  <2>3. \A i \in 0..n : \A t : TagAt(pipe', view', i, t) <=> TagAt(pipe, view, i, t)
    BY <2>1, <2>2 DEF TagAt
  <2>4. \A t : TagAt(pipe', view', n + 1, t) <=> m.kind = "block_flow" /\ m.tag = t
    BY <2>2 DEF TagAt
  <2>5. \A i \in 0..n, j \in 0..n : Unbroken(pipe', i, j) <=> Unbroken(pipe, i, j)
    BY <2>2 DEF Unbroken
  <2>6. \A i \in 0..n : Unbroken(pipe', i, n + 1) =>
          Unbroken(pipe, i, n) /\ m.kind # "session_error"
    <3>1. \A i \in 0..n : n + 1 \in (i + 1)..(n + 1) /\ (i + 1)..n \subseteq (i + 1)..(n + 1)
                            /\ (i + 1)..n \subseteq 1..n
      BY <2>2
    <3> QED BY <2>2, <3>1 DEF Unbroken
  <2>7. NothingBridgesSessions'
    BY <2>1 DEF FlowsKnown, NothingBridgesSessions
  <2>8. ASSUME NEW i \in 0..(n + 1), NEW t \in Nat, TagAt(pipe', view', i, t),
               Unbroken(pipe', i, n + 1)
        PROVE  session' \in {"up", "failed"} /\ t = sessions'
    <3>1. CASE i \in 0..n
      <4>1. session \in {"up", "failed"} /\ t = sessions /\ m.kind # "session_error"
        BY <2>3, <2>6, <2>8, <3>1 DEF FlowsKnown
      <4> QED BY <2>1, <4>1 DEF FlowMove
    <3>2. CASE i = n + 1
      <4>1. m.kind = "block_flow" /\ m.tag = t
        BY <2>4, <2>8, <3>2
      <4> QED BY <2>1, <4>1 DEF FlowMove
    <3> QED BY <2>2, <3>1, <3>2
  <2>9. ASSUME NEW i \in 0..(n + 1), NEW j \in 0..(n + 1), NEW t \in Nat, NEW s \in Nat, i < j,
               TagAt(pipe', view', i, t), TagAt(pipe', view', j, s), Unbroken(pipe', i, j)
        PROVE  t = s
    <3>1. i \in 0..n
      BY <2>2, <2>9
    <3>2. CASE j \in 0..n
      BY <2>3, <2>5, <2>9, <3>1, <3>2 DEF FlowsKnown
    <3>3. CASE j = n + 1
      <4>1. m.kind = "block_flow" /\ m.tag = s
        BY <2>4, <2>9, <3>3
      <4>2. t = sessions
        BY <2>3, <2>6, <2>9, <3>1, <3>3 DEF FlowsKnown
      <4> QED BY <2>1, <4>1, <4>2 DEF FlowMove
    <3> QED BY <2>2, <3>2, <3>3
  <2> QED BY <2>2, <2>7, <2>8, <2>9 DEF FlowsKnown
<1>4. ASSUME NEW m \in Events, Shows(m) PROVE FlowsKnown'
  <2> DEFINE n == Len(pipe')
  <2>1. Read(m) /\ ~Fatal(m) /\ session' = session /\ sessions' = sessions
    BY <1>4 DEF Shows, sessionVars
  <2>2. /\ n \in Nat /\ Len(pipe) = n + 1 /\ pipe[1] = m /\ view' = Apply(view, m)
        /\ \A i \in 1..n : pipe'[i] = pipe[i + 1]
    BY <1>1, <2>1, PipeAfter DEF Read
  <2>3. /\ m.kind = "block_flow" =>
             /\ m.tag \in Nat /\ view'.trend = Append(view.trend, m.tag) /\ view'.tip \in Tips
             /\ view'.tip.tag = m.tag \/ (view.tip # Nothing /\ view'.tip = view.tip)
        /\ m.kind = "session_error" => view'.tip = Nothing /\ view'.trend = <<>>
        /\ m.kind \notin {"block_flow", "session_error"} => SameFlow(view', view)
    BY <1>1, <2>1, <2>2, TipShown DEF Live, Lives
  <2>4. \A i \in 1..n : \A t : TagAt(pipe', view', i, t) <=> TagAt(pipe, view, i + 1, t)
    BY <2>2 DEF TagAt
  <2>5. \A t : TagAt(pipe', view', 0, t) =>
                 \/ TagAt(pipe, view, 1, t)
                 \/ TagAt(pipe, view, 0, t) /\ m.kind # "session_error"
    BY <2>2, <2>3 DEF TagAt, SameFlow
  <2>6. \A i \in 0..n, j \in 0..n : Unbroken(pipe', i, j) => Unbroken(pipe, i + 1, j + 1)
    <3>1. ASSUME NEW i \in 0..n, NEW j \in 0..n, Unbroken(pipe', i, j), NEW k \in (i + 1 + 1)..(j + 1)
          PROVE  pipe[k].kind # "session_error"
      <4>1. k - 1 \in (i + 1)..j /\ k - 1 \in 1..n /\ (k - 1) + 1 = k
        BY <2>2, <3>1
      <4> QED BY <2>2, <3>1, <4>1 DEF Unbroken
    <3> QED BY <3>1 DEF Unbroken
  <2>7. \A j \in 0..n : Unbroken(pipe, 1, j + 1) /\ m.kind # "session_error" =>
                          Unbroken(pipe, 0, j + 1)
    <3>1. \A j \in 0..n : \A k \in (0 + 1)..(j + 1) : k = 1 \/ k \in (1 + 1)..(j + 1)
      BY <2>2
    <3> QED BY <2>2, <3>1 DEF Unbroken
  \* The flow of the view comes from one of the pipe, or was there already.
  <2>8. ASSUME NEW i \in 0..n, NEW t \in Nat, TagAt(pipe', view', i, t), NEW j \in 0..n,
               Unbroken(pipe', i, j)
        PROVE  \E h \in 0..(n + 1) : /\ h <= i + 1 /\ TagAt(pipe, view, h, t)
                                     /\ Unbroken(pipe, h, j + 1)
    <3>1. CASE i # 0
      BY <2>2, <2>4, <2>6, <2>8, <3>1
    <3>2. CASE i = 0
      <4>1. Unbroken(pipe, 1, j + 1)
        BY <2>2, <2>6, <2>8, <3>2
      <4>2. TagAt(pipe, view, 1, t) \/ (TagAt(pipe, view, 0, t) /\ m.kind # "session_error")
        BY <2>5, <2>8, <3>2
      <4> QED BY <2>2, <2>7, <3>2, <4>1, <4>2
    <3> QED BY <3>1, <3>2
  <2>9. ASSUME NEW i \in 0..n, NEW t \in Nat, TagAt(pipe', view', i, t), Unbroken(pipe', i, n)
        PROVE  session' \in {"up", "failed"} /\ t = sessions'
    BY <2>1, <2>2, <2>8, <2>9 DEF FlowsKnown
  <2>10. ASSUME NEW i \in 0..n, NEW j \in 0..n, NEW t \in Nat, NEW s \in Nat, i < j,
                TagAt(pipe', view', i, t), TagAt(pipe', view', j, s), Unbroken(pipe', i, j)
         PROVE  t = s
    <3>1. PICK h \in 0..(n + 1) : /\ h <= i + 1 /\ TagAt(pipe, view, h, t)
                                  /\ Unbroken(pipe, h, j + 1)
      BY <2>8, <2>10
    <3>2. TagAt(pipe, view, j + 1, s) /\ h < j + 1 /\ j + 1 \in 0..(n + 1)
      BY <2>2, <2>4, <2>10, <3>1
    <3> QED BY <2>2, <3>1, <3>2 DEF FlowsKnown
  <2>11. NothingBridgesSessions'
    <3>1. CASE m.kind = "block_flow"
      <4>1. view.tip \in Tips \cup {Nothing} /\ Nothing \notin Tips /\ view.trend \in Seq(Nat)
        BY <1>1, ScopeBounds DEF ViewType, Typed
      <4>2. view.tip # Nothing => view.tip.tag = m.tag
        <5>1. view.tip # Nothing => TagAt(pipe, view, 0, view.tip.tag) /\ view.tip.tag \in Nat
          BY <4>1 DEF TagAt, Tips
        <5>2. TagAt(pipe, view, 1, m.tag) /\ Unbroken(pipe, 0, 1) /\ m.tag \in Nat
          BY <2>2, <2>3, <3>1 DEF TagAt, Unbroken
        <5> QED BY <2>2, <5>1, <5>2 DEF FlowsKnown
      <4>3. view'.tip # Nothing /\ view'.tip.tag = m.tag
        BY <2>3, <3>1, <4>1, <4>2
      <4>4. \A i \in 1..Len(view.trend) : view.trend[i] = m.tag
        BY <4>2 DEF FlowsKnown, NothingBridgesSessions
      <4>5. \A i \in 1..Len(view'.trend) : view'.trend[i] = m.tag
        <5> DEFINE q == view.trend
                   r == view'.trend
                   e == m.tag
        <5>1. q \in Seq(Nat) /\ e \in Nat /\ r = Append(q, e) /\ \A i \in 1..Len(q) : q[i] = e
          BY <2>3, <3>1, <4>1, <4>4
        <5> HIDE DEF q, r, e
        <5>2. \A i \in 1..Len(r) : r[i] = e
          BY <5>1
        <5> QED BY <5>2 DEF q, r, e
      <4> QED BY <4>3, <4>5 DEF NothingBridgesSessions
    <3>2. CASE m.kind = "session_error"
      <4>1. Len(view'.trend) = 0
        BY <2>3, <3>2
      <4> QED BY <4>1 DEF NothingBridgesSessions
    <3>3. CASE m.kind \notin {"block_flow", "session_error"}
      BY <2>3, <3>3 DEF FlowsKnown, NothingBridgesSessions, SameFlow
    <3> QED BY <3>1, <3>2, <3>3
  <2> QED BY <2>9, <2>10, <2>11 DEF FlowsKnown
<1> QED BY <1>2, <1>3, <1>4, LiveSteps

----
\* The job on display.  A job stays there through the next n events of the pipe p,
\* once one of them has shown it: none of them ends it, and a sample of another
\* height among them is the first since the job was shown.
Publishes(m, J) == m.kind = "job" /\ m.job = J
Past(p, J, i, n) == \A k \in i..n : ~Publishes(p[k], J)
NoSampleOf(p, J, i, n) == \A k \in 1..i : Past(p, J, k, n) => p[k].kind # "metrics"
Unsampled(v) == ~v.observed /\ v.jobless = 0
Undisturbed(p, v, J, i, n) == NoSampleOf(p, J, i, n) /\ (Past(p, J, 1, n) => Unsampled(v))
OnDisplay(v, J) == v.job = J.id /\ v.height = J.height
Ending == {"job", "job_cleared", "session_error"}
Stays(p, v, J, n) ==
  /\ Past(p, J, 1, n) => OnDisplay(v, J)
  /\ \A i \in 1..n : Past(p, J, i, n) =>
       /\ p[i].kind \notin Ending
       /\ p[i].kind = "metrics" /\ p[i].height # J.height => Undisturbed(p, v, J, i - 1, n)

\* The job of the slot stays through the whole pipe, though the reporter may be
\* about to write a sample of another height, and a job that is cleared stays until
\* then.
Displayed ==
  /\ \A i \in 1..Len(pipe) :
       pipe[i].kind = "job_cleared" => Stays(pipe, view, pipe[i].job, i - 1)
  /\ slot # Nothing =>
       /\ Stays(pipe, view, slot, Len(pipe))
       /\ report.step = "slot" /\ report.height # slot.height =>
            Undisturbed(pipe, view, slot, Len(pipe), Len(pipe))

\* The events that come after do not matter, nor does what is shown beside the job.
LEMMA StaysSame ==
  ASSUME NEW p, NEW q, NEW n \in Nat, \A i \in 1..n : q[i] = p[i],
         NEW u, NEW v, SameWork(u, v), NEW J
  PROVE  /\ Stays(p, v, J, n) => Stays(q, u, J, n)
         /\ \A i \in 0..n : Undisturbed(p, v, J, i, n) => Undisturbed(q, u, J, i, n)
<1>1. \A i \in Nat \ {0} : Past(q, J, i, n) <=> Past(p, J, i, n)
  <2>1. \A i \in Nat \ {0} : i..n \subseteq 1..n
    OBVIOUS
  <2> QED BY <2>1 DEF Past
<1>2. (OnDisplay(v, J) => OnDisplay(u, J)) /\ (Unsampled(v) => Unsampled(u))
  BY DEF OnDisplay, Unsampled, SameWork
<1>3. ASSUME NEW i \in 0..n, Undisturbed(p, v, J, i, n) PROVE Undisturbed(q, u, J, i, n)
  BY <1>1, <1>2, <1>3 DEF Undisturbed, NoSampleOf
<1>4. ASSUME Stays(p, v, J, n) PROVE Stays(q, u, J, n)
  <2>1. ASSUME NEW i \in 1..n, Past(q, J, i, n)
        PROVE  /\ q[i].kind \notin Ending
               /\ q[i].kind = "metrics" /\ q[i].height # J.height =>
                    Undisturbed(q, u, J, i - 1, n)
    <3>1. Past(p, J, i, n) /\ q[i] = p[i] /\ i - 1 \in 0..n
      BY <1>1, <2>1
    <3> QED BY <1>3, <1>4, <3>1 DEF Stays
  <2> QED BY <1>1, <1>2, <1>4, <2>1 DEF Stays
<1> QED BY <1>3, <1>4

\* An event is written after the others.
LEMMA StaysWritten ==
  ASSUME NEW p, NEW q, NEW n \in Nat, \A i \in 1..n : q[i] = p[i],
         NEW v, NEW J, NEW m, m = q[n + 1]
  PROVE  /\ Publishes(m, J) => Stays(q, v, J, n + 1) /\ Undisturbed(q, v, J, n + 1, n + 1)
         /\ m.kind \notin Ending /\ Stays(p, v, J, n)
              /\ (m.kind = "metrics" /\ m.height # J.height => Undisturbed(p, v, J, n, n)) =>
              Stays(q, v, J, n + 1)
         /\ m.kind \notin Ending \cup {"metrics"} /\ Undisturbed(p, v, J, n, n) =>
              Undisturbed(q, v, J, n + 1, n + 1)
<1>1. ASSUME Publishes(m, J)
      PROVE  Stays(q, v, J, n + 1) /\ Undisturbed(q, v, J, n + 1, n + 1)
  <2>1. \A i \in 1..(n + 1) : ~Past(q, J, i, n + 1)
    <3>1. \A i \in 1..(n + 1) : n + 1 \in i..(n + 1)
      OBVIOUS
    <3> QED BY <1>1, <3>1 DEF Past
  <2>2. 1 \in 1..(n + 1)
    OBVIOUS
  <2> QED BY <2>1, <2>2 DEF Stays, Undisturbed, NoSampleOf
<1>2. ASSUME m.kind \notin Ending
      PROVE  \A i \in 1..(n + 1) : Past(q, J, i, n + 1) => Past(p, J, i, n)
  <2>1. \A i \in 1..(n + 1) : i..n \subseteq i..(n + 1) /\ i..n \subseteq 1..n
    OBVIOUS
  <2> QED BY <2>1 DEF Past
<1>3. ASSUME m.kind \notin Ending, NEW i \in 0..n, Undisturbed(p, v, J, i, n)
      PROVE  Undisturbed(q, v, J, i, n + 1)
  <2>1. \A k \in 1..i : k \in 1..(n + 1) /\ q[k] = p[k]
    OBVIOUS
  <2>2. 1 \in 1..(n + 1)
    OBVIOUS
  <2> QED BY <1>2, <1>3, <2>1, <2>2 DEF Undisturbed, NoSampleOf
<1>4. ASSUME m.kind \notin Ending, Stays(p, v, J, n),
             m.kind = "metrics" /\ m.height # J.height => Undisturbed(p, v, J, n, n)
      PROVE  Stays(q, v, J, n + 1)
  <2>1. ASSUME NEW i \in 1..(n + 1), Past(q, J, i, n + 1)
        PROVE  /\ q[i].kind \notin Ending
               /\ q[i].kind = "metrics" /\ q[i].height # J.height =>
                    Undisturbed(q, v, J, i - 1, n + 1)
    <3>1. CASE i \in 1..n
      <4>1. Past(p, J, i, n) /\ q[i] = p[i] /\ i - 1 \in 0..n
        BY <1>2, <1>4, <2>1, <3>1
      <4> QED BY <1>3, <1>4, <3>1, <4>1 DEF Stays
    <3>2. CASE i = n + 1
      <4>1. i - 1 = n /\ n \in 0..n
        BY <3>2
      <4> QED BY <1>3, <1>4, <3>2, <4>1
    <3> QED BY <3>1, <3>2
  <2>2. 1 \in 1..(n + 1)
    OBVIOUS
  <2> QED BY <1>2, <1>4, <2>1, <2>2 DEF Stays
<1>5. ASSUME m.kind \notin Ending \cup {"metrics"}, Undisturbed(p, v, J, n, n)
      PROVE  Undisturbed(q, v, J, n + 1, n + 1)
  <2>1. Undisturbed(q, v, J, n, n + 1)
    <3>1. n \in 0..n
      OBVIOUS
    <3> QED BY <1>3, <1>5, <3>1
  <2>2. \A k \in 1..(n + 1) : k \in 1..n \/ k = n + 1
    OBVIOUS
  <2> QED BY <1>5, <2>1, <2>2 DEF Undisturbed, NoSampleOf
<1> QED BY <1>1, <1>4, <1>5

\* What one event makes of a job on display.
LEMMA EventOnJob ==
  ASSUME NEW v \in ViewType, ~v.fatal, NEW m \in Events, ~Fatal(m), NEW u, u = Apply(v, m),
         NEW J \in Jobs, Nothing \notin Heights
  PROVE  /\ Publishes(m, J) => OnDisplay(u, J) /\ Unsampled(u)
         /\ OnDisplay(v, J) /\ m.kind \notin Ending
              /\ (m.kind = "metrics" /\ m.height # J.height => Unsampled(v)) => OnDisplay(u, J)
         /\ m.kind \notin Ending \cup {"metrics"} => SameWork(u, v)
<1>1. ShownAs(u, v, m)
  BY Shown
<1>2. m.kind \notin Ending \cup {"metrics"} => SameWork(u, v)
  BY <1>1 DEF ShownAs, Ending
<1>3. ASSUME Publishes(m, J) PROVE OnDisplay(u, J) /\ Unsampled(u)
  <2>1. u = OnJob(v, J)
    BY <1>3, ApplyIs DEF Publishes
  <2>2. Employed(u, v, J)
    BY <2>1, NamedResults
  <2> QED BY <2>2 DEF Employed, OnDisplay, Unsampled
<1>4. ASSUME OnDisplay(v, J), m.kind \notin Ending,
             m.kind = "metrics" /\ m.height # J.height => Unsampled(v)
      PROVE  OnDisplay(u, J)
  <2>1. CASE m.kind # "metrics"
    BY <1>2, <1>4, <2>1 DEF SameWork, OnDisplay
  <2>2. CASE m.kind = "metrics"
    <3>1. /\ m.counts \in CountsType /\ m.round \in RoundType
          /\ m.height \in Heights \cup {Nothing} /\ m.rate \in BOOLEAN
          /\ u = OnMetrics(v, m)
      BY <2>2, EventFields, ApplyIs
    <3>2. v.height # Nothing =>
            \/ u.job = v.job /\ u.height = v.height
            \/ m.height = Nothing /\ (v.observed \/ v.jobless = 1)
      BY <3>1, AfterMetrics
    <3>3. J.height \in Heights
      BY DEF Jobs
    <3> QED BY <1>4, <2>2, <3>2, <3>3 DEF OnDisplay, Unsampled
  <2> QED BY <2>1, <2>2
<1> QED BY <1>2, <1>3, <1>4

\* The first event is read.
LEMMA StaysRead ==
  ASSUME NEW p, NEW q, NEW n \in Nat, \A i \in 1..n : q[i] = p[i + 1],
         NEW v \in ViewType, ~v.fatal, NEW m \in Events, ~Fatal(m), m = p[1],
         NEW u, u = Apply(v, m), NEW J \in Jobs, Nothing \notin Heights,
         Stays(p, v, J, n + 1)
  PROVE  /\ Stays(q, u, J, n)
         /\ \A i \in 0..n : Undisturbed(p, v, J, i + 1, n + 1) => Undisturbed(q, u, J, i, n)
<1>1. ASSUME NEW i \in 1..(n + 1), Past(q, J, i, n) PROVE Past(p, J, i + 1, n + 1)
  <2>1. \A k \in (i + 1)..(n + 1) : k - 1 \in i..n /\ k - 1 \in 1..n /\ (k - 1) + 1 = k
    OBVIOUS
  <2> QED BY <1>1, <2>1 DEF Past
<1>2. /\ Publishes(m, J) => OnDisplay(u, J) /\ Unsampled(u)
      /\ OnDisplay(v, J) /\ m.kind \notin Ending
              /\ (m.kind = "metrics" /\ m.height # J.height => Unsampled(v)) => OnDisplay(u, J)
      /\ m.kind \notin Ending \cup {"metrics"} => SameWork(u, v)
  BY EventOnJob
<1>3. ASSUME Past(q, J, 1, n), ~Publishes(m, J) PROVE Past(p, J, 1, n + 1)
  <2>1. Past(p, J, 1 + 1, n + 1)
    BY <1>1, <1>3
  <2>2. \A k \in 1..(n + 1) : k = 1 \/ k \in (1 + 1)..(n + 1)
    OBVIOUS
  <2> QED BY <1>3, <2>1, <2>2 DEF Past
<1>4. 1 \in 1..(n + 1)
  OBVIOUS
<1>5. Past(q, J, 1, n) => OnDisplay(u, J)
  <2> SUFFICES ASSUME Past(q, J, 1, n), ~Publishes(m, J) PROVE OnDisplay(u, J)
    BY <1>2
  <2>1. Past(p, J, 1, n + 1)
    BY <1>3
  <2>2. /\ OnDisplay(v, J) /\ m.kind \notin Ending
        /\ m.kind = "metrics" /\ m.height # J.height => Undisturbed(p, v, J, 1 - 1, n + 1)
    BY <1>4, <2>1 DEF Stays
  <2> QED BY <1>2, <2>1, <2>2 DEF Undisturbed
<1>6. ASSUME NEW i \in 0..n, Undisturbed(p, v, J, i + 1, n + 1)
      PROVE  Undisturbed(q, u, J, i, n)
  <2>1. ASSUME NEW k \in 1..i, Past(q, J, k, n) PROVE q[k].kind # "metrics"
    <3>1. k + 1 \in 1..(i + 1) /\ k \in 1..n /\ k \in 1..(n + 1)
      OBVIOUS
    <3> QED BY <1>1, <1>6, <2>1, <3>1 DEF Undisturbed, NoSampleOf
  <2>2. ASSUME Past(q, J, 1, n), ~Publishes(m, J) PROVE Unsampled(u)
    <3>1. Past(p, J, 1, n + 1) /\ 1 \in 1..(i + 1)
      BY <1>3, <2>2
    <3>2. Unsampled(v) /\ m.kind # "metrics"
      BY <1>6, <3>1 DEF Undisturbed, NoSampleOf
    <3>3. m.kind \notin Ending
      BY <1>4, <3>1 DEF Stays
    <3> QED BY <1>2, <3>2, <3>3 DEF SameWork, Unsampled
  <2> QED BY <1>2, <2>1, <2>2 DEF Undisturbed, NoSampleOf
<1>7. ASSUME NEW i \in 1..n, Past(q, J, i, n)
      PROVE  /\ q[i].kind \notin Ending
             /\ q[i].kind = "metrics" /\ q[i].height # J.height =>
                  Undisturbed(q, u, J, i - 1, n)
  <2>1. Past(p, J, i + 1, n + 1) /\ i + 1 \in 1..(n + 1) /\ (i + 1) - 1 = (i - 1) + 1
          /\ i - 1 \in 0..n /\ q[i] = p[i + 1]
    BY <1>1, <1>7
  <2>2. /\ p[i + 1].kind \notin Ending
        /\ p[i + 1].kind = "metrics" /\ p[i + 1].height # J.height =>
             Undisturbed(p, v, J, (i - 1) + 1, n + 1)
    BY <2>1 DEF Stays
  <2> QED BY <1>6, <2>1, <2>2
<1>8. Stays(q, u, J, n)
  BY <1>5, <1>7 DEF Stays
<1> QED BY <1>6, <1>8

\* The job on display is kept.
LEMMA DisplayedKept ==
  ASSUME Typed, Unborn, Owned, Live, [Next]_vars, session' # "ended", Displayed
  PROVE  Displayed'
<1> DEFINE n == Len(pipe)
<1>1. /\ pipe \in Seq(Events) /\ n \in Nat /\ view \in ViewType /\ Nothing \notin Heights
      /\ slot # Nothing => slot \in Jobs
  BY ScopeBounds DEF Typed, PipeTypes, WorkTypes
<1>2. CASE Silent
  <2>1. SameWork(view', view)
    BY <1>1, <1>2 DEF Silent, GoStale, ViewType, SameWork
  <2>2. /\ pipe' = pipe /\ slot' \in {slot, Nothing}
        /\ \/ report' = report
           \/ report'.step # "slot"
           \/ slot' = slot /\ (slot # Nothing => report'.height = slot.height)
    BY <1>2 DEF Silent
  <2>3. \A i \in 0..n : \A J :
           /\ Stays(pipe, view, J, i) => Stays(pipe', view', J, i)
           /\ Undisturbed(pipe, view, J, i, i) => Undisturbed(pipe', view', J, i, i)
    <3>1. ASSUME NEW i \in 0..n, NEW J
          PROVE  /\ Stays(pipe, view, J, i) => Stays(pipe', view', J, i)
                 /\ Undisturbed(pipe, view, J, i, i) => Undisturbed(pipe', view', J, i, i)
      <4>1. i \in Nat /\ i \in 0..i /\ \A k \in 1..i : pipe'[k] = pipe[k]
        BY <1>1, <2>2
      <4> QED BY <2>1, <4>1, StaysSame
    <3> QED BY <3>1
  <2>4. ASSUME NEW i \in 1..Len(pipe'), pipe'[i].kind = "job_cleared"
        PROVE  Stays(pipe', view', pipe'[i].job, i - 1)
    <3>1. i \in 1..n /\ i - 1 \in 0..n /\ pipe'[i] = pipe[i]
      BY <1>1, <2>2
    <3> QED BY <2>3, <2>4, <3>1 DEF Displayed
  <2>5. ASSUME slot' # Nothing
        PROVE  /\ Stays(pipe', view', slot', Len(pipe'))
               /\ report'.step = "slot" /\ report'.height # slot'.height =>
                    Undisturbed(pipe', view', slot', Len(pipe'), Len(pipe'))
    <3>1. slot' = slot /\ slot # Nothing /\ Len(pipe') = n /\ n \in 0..n
      BY <1>1, <2>2, <2>5
    <3> QED BY <2>2, <2>3, <3>1 DEF Displayed
  <2> QED BY <2>4, <2>5 DEF Displayed
<1>3. ASSUME NEW m \in Events, Moves(m) PROVE Displayed'
  <2>1. Wrote(m) /\ SlotMove(m) /\ ReportMove(m) /\ view' = view
    BY <1>3 DEF Moves, Wrote
  <2>2. /\ Len(pipe') = n + 1 /\ m = pipe'[n + 1] /\ \A i \in 1..n : pipe'[i] = pipe[i]
    BY <1>1, <2>1, PipeAfter
  <2>3. \A i \in 0..n : \A J : Stays(pipe, view, J, i) => Stays(pipe', view', J, i)
    <3>1. ASSUME NEW i \in 0..n, NEW J
          PROVE  Stays(pipe, view, J, i) => Stays(pipe', view', J, i)
      <4>1. i \in Nat /\ (\A k \in 1..i : pipe'[k] = pipe[k]) /\ SameWork(view', view)
        BY <1>1, <2>1, <2>2 DEF SameWork
      <4> QED BY <4>1, StaysSame
    <3> QED BY <3>1
  <2>4. ASSUME NEW i \in 1..Len(pipe'), pipe'[i].kind = "job_cleared"
        PROVE  Stays(pipe', view', pipe'[i].job, i - 1)
    <3>1. CASE i \in 1..n
      <4>1. i - 1 \in 0..n /\ pipe'[i] = pipe[i]
        BY <2>2, <3>1
      <4> QED BY <2>3, <2>4, <3>1, <4>1 DEF Displayed
    <3>2. CASE i = n + 1
      <4>1. m.kind = "job_cleared" /\ m.job = slot /\ slot # Nothing /\ i - 1 = n /\ n \in 0..n
        <5>1. m.kind = "job_cleared" /\ i - 1 = n /\ n \in 0..n
          BY <1>1, <2>2, <2>4, <3>2
        <5> QED BY <2>1, <5>1 DEF SlotMove
      <4> QED BY <2>2, <2>3, <3>2, <4>1 DEF Displayed
    <3> QED BY <1>1, <2>2, <3>1, <3>2
  <2>5. ASSUME slot' # Nothing
        PROVE  /\ Stays(pipe', view', slot', n + 1)
               /\ report'.step = "slot" /\ report'.height # slot'.height =>
                    Undisturbed(pipe', view', slot', n + 1, n + 1)
    <3> DEFINE J == slot'
    <3>1. /\ Publishes(m, J) => Stays(pipe', view, J, n + 1) /\ Undisturbed(pipe', view, J, n + 1, n + 1)
          /\ m.kind \notin Ending /\ Stays(pipe, view, J, n)
              /\ (m.kind = "metrics" /\ m.height # J.height => Undisturbed(pipe, view, J, n, n)) =>
              Stays(pipe', view, J, n + 1)
          /\ m.kind \notin Ending \cup {"metrics"} /\ Undisturbed(pipe, view, J, n, n) =>
              Undisturbed(pipe', view, J, n + 1, n + 1)
      BY <1>1, <2>2, StaysWritten
    <3>2. CASE m.kind = "job"
      <4>1. Publishes(m, J)
        BY <2>1, <3>2 DEF SlotMove, Publishes
      <4> QED BY <2>1, <3>1, <4>1
    <3>3. CASE m.kind # "job"
      <4>1. slot' = slot /\ m.kind \notin Ending
        BY <2>1, <2>5, <3>3 DEF SlotMove, Ending
      <4>2. /\ Stays(pipe, view, J, n)
            /\ report.step = "slot" /\ report.height # J.height =>
                 Undisturbed(pipe, view, J, n, n)
        BY <2>5, <4>1 DEF Displayed
      <4> HIDE DEF J
      <4>3. m.kind = "metrics" /\ m.height # J.height => Undisturbed(pipe, view, J, n, n)
        BY <2>1, <4>2 DEF ReportMove
      <4>4. report'.step = "slot" => report' = report /\ m.kind # "metrics"
        BY <2>1 DEF ReportMove, Asleep
      <4>5. Stays(pipe', view', J, n + 1)
        BY <2>1, <3>1, <4>1, <4>2, <4>3
      <4>6. report'.step = "slot" /\ report'.height # J.height =>
              Undisturbed(pipe', view', J, n + 1, n + 1)
        BY <2>1, <3>1, <4>1, <4>2, <4>4
      <4> QED BY <4>5, <4>6 DEF J
    <3> QED BY <3>2, <3>3
  <2> HIDE DEF n
  <2> QED BY <2>2, <2>4, <2>5 DEF Displayed
<1>4. ASSUME NEW m \in Events, Shows(m) PROVE Displayed'
  <2> DEFINE l == Len(pipe')
  <2>1. Read(m) /\ ~Fatal(m) /\ slot' = slot /\ report' = report
    BY <1>4 DEF Shows, workVars
  <2>2. /\ l \in Nat /\ n = l + 1 /\ pipe[1] = m /\ view' = Apply(view, m)
        /\ \A i \in 1..l : pipe'[i] = pipe[i + 1]
    BY <1>1, <2>1, PipeAfter DEF Read
  <2>3. ASSUME NEW i \in 0..l, NEW J \in Jobs, Stays(pipe, view, J, i + 1)
        PROVE  /\ Stays(pipe', view', J, i)
               /\ \A k \in 0..i : Undisturbed(pipe, view, J, k + 1, i + 1) =>
                                    Undisturbed(pipe', view', J, k, i)
    <3>1. i \in Nat /\ (\A k \in 1..i : pipe'[k] = pipe[k + 1]) /\ ~view.fatal
      BY <2>2 DEF Live, Lives
    <3> QED BY <1>1, <2>1, <2>2, <2>3, <3>1, StaysRead
  <2>4. ASSUME NEW i \in 1..l, pipe'[i].kind = "job_cleared"
        PROVE  Stays(pipe', view', pipe'[i].job, i - 1)
    <3>1. pipe'[i] = pipe[i + 1] /\ i + 1 \in 1..n /\ i - 1 \in 0..l /\ (i + 1) - 1 = (i - 1) + 1
      BY <2>2
    <3>2. pipe[i + 1] \in Events
      BY <1>1, <3>1
    <3>3. pipe[i + 1].job \in Jobs
      BY <2>4, <3>1, <3>2, EventFields
    <3>4. Stays(pipe, view, pipe[i + 1].job, (i - 1) + 1)
      BY <2>4, <3>1 DEF Displayed
    <3> QED BY <2>3, <3>1, <3>3, <3>4
  <2>5. ASSUME slot' # Nothing
        PROVE  /\ Stays(pipe', view', slot', l)
               /\ report'.step = "slot" /\ report'.height # slot'.height =>
                    Undisturbed(pipe', view', slot', l, l)
    <3>1. /\ slot \in Jobs /\ Stays(pipe, view, slot, l + 1) /\ l \in 0..l
          /\ report.step = "slot" /\ report.height # slot.height =>
               Undisturbed(pipe, view, slot, l + 1, l + 1)
      BY <1>1, <2>1, <2>2, <2>5 DEF Displayed
    <3> QED BY <2>1, <2>3, <3>1
  <2> QED BY <2>4, <2>5 DEF Displayed
<1> QED BY <1>2, <1>3, <1>4, LiveSteps


----
\* The invariant: what an engine that has not ended keeps, and one that has.
Knows == LinkKnown /\ Healthy /\ MindsKnown /\ RoundsMade /\ FlowsKnown /\ Displayed
TelemetryInv ==
  /\ Typed /\ Unborn /\ Owned
  /\ session # "ended" => Live /\ Knows

\* All of it holds at first, ...
LEMMA KnowsFirst == Init => Typed /\ Unborn /\ Owned /\ Live /\ Knows
<1> SUFFICES ASSUME Init PROVE Typed /\ Unborn /\ Owned /\ Live /\ Knows
  OBVIOUS
<1>1. /\ session = "starting" /\ slot = Nothing /\ installing = Nothing /\ pipe = <<>>
      /\ view = NewView /\ report = Asleep /\ round = NoRound /\ scope \in Scopes
      /\ mind = [w \in Workers |-> "unready"]
  BY DEF Init
<1>2. Len(pipe) = 0 /\ 1..Len(pipe) = {} /\ 0..Len(pipe) = {0}
  BY <1>1
<1>3. Typed
  <2>1. NoCounts \in CountsType /\ NoRound \in RoundType /\ Asleep \in
          [step : {"asleep", "round", "slot"}, rate : BOOLEAN,
           round : RoundType, height : Heights \cup {Nothing}, counts : CountsType]
    BY DEF NoCounts, CountsType, NoRound, RoundType, Asleep
  <2>2. /\ scope.pipe \in Nat /\ scope.sessions \in Nat /\ scope.installs \in Nat
        /\ scope.flows \in Nat /\ scope.hashes \in Nat /\ scope.troubles \in Nat
    BY <1>1, ScopeBounds
  <2>3. SessionTypes /\ WorkTypes
    BY <2>2 DEF Init, SessionTypes, WorkTypes
  <2>6. RoundTypes
    <3>1. 0 \in 0..scope.hashes
      BY <2>2
    <3>2. round = NoRound /\ done = [h \in Heights |-> 0] /\ interval = FALSE
      BY DEF Init
    <3> QED BY <2>1, <3>1, <3>2 DEF RoundTypes
  <2>4. WorkerTypes /\ ShareTypes /\ ReportTypes
    BY <2>1, <2>2 DEF Init, WorkerTypes, ShareTypes, ReportTypes, Minds
  <2>5. PipeTypes
    BY <1>1, <2>2 DEF PipeTypes
  <2> QED BY <1>1, <2>3, <2>4, <2>5, <2>6, NewViewIs DEF Typed
<1>4. Unborn /\ Owned
  <2>1. Quiet
    BY DEF Init, Quiet
  <2> QED BY <1>1, <2>1 DEF Unborn, Owned
<1>5. Live
  BY <1>1, <1>2, NewViewIs DEF Live, Lives
<1>6. LinkKnown
  <2>1. Up(0) <=> view.link
    BY LatchZero DEF Up
  <2> QED BY <1>1, <1>2, <2>1, NewViewIs DEF LinkKnown
<1>7. Healthy
  BY <1>1, NewViewIs DEF Healthy, HealthOf
<1>8. MindsKnown
  <2> SUFFICES ASSUME NEW w \in Workers
               PROVE  /\ WillBeReady(w) <=> Good(mind[w])
                      /\ WillBeFailed(w) <=> Bad(mind[w])
    BY DEF MindsKnown
  <2>1. ~Good(mind[w]) /\ ~Bad(mind[w])
    BY <1>1 DEF Good, Bad
  <2>2. w \notin view.ready /\ w \notin view.errors
    BY <1>1, NewViewIs
  <2> QED BY <1>2, <2>1, <2>2 DEF WillBeReady, WillBeFailed, Latch
<1>9. RoundsMade
  BY <1>1, <1>2, NewViewIs DEF RoundsMade, Made, MadeOf, NoRound, Asleep
<1>10. FlowsKnown
  <2>1. Len(view.trend) = 0 /\ view.tip = Nothing
    BY <1>1, NewViewIs
  <2>2. \A t : ~TagAt(pipe, view, 0, t)
    BY <2>1 DEF TagAt
  <2>3. NothingBridgesSessions
    BY <2>1 DEF NothingBridgesSessions
  <2> QED BY <1>2, <2>2, <2>3 DEF FlowsKnown
<1>11. Displayed
  BY <1>1, <1>2 DEF Displayed
<1> QED BY <1>3, <1>4, <1>5, <1>6, <1>7, <1>8, <1>9, <1>10, <1>11 DEF Knows

\* ... is kept by every step, ...
LEMMA TelemetryInvKept ==
  ASSUME TelemetryInv, [Next]_vars
  PROVE  TelemetryInv'
<1>1. Typed' /\ Unborn' /\ Owned'
  BY TypedKept, UnbornKept, OwnedKept DEF TelemetryInv
<1>2. ASSUME session' # "ended" PROVE Live' /\ Knows'
  <2>1. session # "ended" /\ Typed /\ Unborn /\ Owned /\ Live /\ Knows
    BY <1>2, StaysAlive DEF TelemetryInv
  <2>2. Live'
    BY <1>2, <2>1, LivesKept
  <2>3. LinkKnown' /\ Healthy'
    BY <1>2, <2>1, LinkKept, HealthKept DEF Knows
  <2>4. MindsKnown' /\ RoundsMade'
    BY <1>2, <2>1, MindsKept, RoundsKept DEF Knows
  <2>5. FlowsKnown' /\ Displayed'
    BY <1>2, <2>1, FlowsKept, DisplayedKept DEF Knows
  <2> QED BY <2>2, <2>3, <2>4, <2>5 DEF Knows
<1> QED BY <1>1, <1>2 DEF TelemetryInv

\* ... and means that the dashboard is true.
LEMMA TelemetryInvMeans == TelemetryInv => DashboardTrue
<1> SUFFICES ASSUME TelemetryInv PROVE DashboardTrue
  OBVIOUS
<1>1. TypeOK
  BY TypedIsTypeOK DEF TelemetryInv
<1>2. CASE session # "ended"
  <2>1. Typed /\ Live /\ Knows /\ pipe \in Seq(Events) /\ Len(pipe) \in Nat /\ Nothing \notin Heights
    BY <1>2, ScopeBounds DEF TelemetryInv, Typed, PipeTypes
  <2>2. LiveWorkKept
    <3> SUFFICES ASSUME slot # Nothing, \A i \in InPipe("job") : pipe[i].job # slot
                 PROVE  view.job = slot.id /\ view.height = slot.height
      BY DEF LiveWorkKept
    <3>1. Past(pipe, slot, 1, Len(pipe))
      BY DEF Past, Publishes, InPipe
    <3> QED BY <2>1, <3>1 DEF Knows, Displayed, Stays, OnDisplay
  <2>3. FoundIsShown
    <3> SUFFICES ASSUME pipe # <<>>, Head(pipe).kind = "job_cleared"
                 PROVE  view.job = Head(pipe).job.id /\ view.height = Head(pipe).job.height
      BY DEF FoundIsShown
    <3>1. Head(pipe) = pipe[1] /\ 1 \in 1..Len(pipe) /\ 1..(1 - 1) = {}
      BY <2>1
    <3>2. Stays(pipe, view, pipe[1].job, 1 - 1)
      BY <2>1, <3>1 DEF Knows, Displayed
    <3> QED BY <3>1, <3>2 DEF Stays, Past, OnDisplay
  <2>4. RoundHonest
    BY <2>1 DEF Knows, RoundsMade, Made, MadeOf, RoundHonest
  <2>5. NothingBridgesSessions
    BY <2>1 DEF Knows, FlowsKnown
  <2>6. WorkersShown
    <3> SUFFICES ASSUME pipe = <<>>
                 PROVE  /\ view.ready = {w \in Workers : mind[w] \in {"ready", "recovered"}}
                        /\ view.errors = {w \in Workers : mind[w] \in {"failing", "panicked"}}
      BY DEF WorkersShown
    <3>1. Len(pipe) = 0
      OBVIOUS
    <3>2. ASSUME NEW w \in Workers
          PROVE  /\ w \in view.ready <=> mind[w] \in {"ready", "recovered"}
                 /\ w \in view.errors <=> mind[w] \in {"failing", "panicked"}
      <4>1. (WillBeReady(w) <=> w \in view.ready) /\ (WillBeFailed(w) <=> w \in view.errors)
        BY <3>1 DEF WillBeReady, WillBeFailed, Latch
      <4> QED BY <2>1, <4>1 DEF Knows, MindsKnown, Good, Bad
    <3>3. view.ready \subseteq Workers /\ view.errors \subseteq Workers
      BY <1>1 DEF TypeOK
    <3> QED BY <3>2, <3>3
  <2>7. PhaseTellsHealth /\ StableMeansHashing
    BY <2>1 DEF Knows, Healthy, HealthOf, PhaseTellsHealth, StableMeansHashing
  <2> QED BY <1>1, <2>2, <2>3, <2>4, <2>5, <2>6, <2>7 DEF DashboardTrue
<1>3. CASE session = "ended"
  <2>1. Quiet /\ slot = Nothing
    BY <1>3 DEF TelemetryInv, Unborn, Quiet
  <2>2. /\ ~view.stable /\ ~view.link /\ view.round = 0 /\ view.trend = <<>>
        /\ pipe = <<[kind |-> "engine_fatal"]>> \/ (pipe = <<>> /\ view.fatal)
    BY <1>3, NewViewIs, DeadViewIs DEF TelemetryInv, Unborn
  <2>3. LiveWorkKept
    BY <2>1 DEF LiveWorkKept
  <2>4. FoundIsShown
    <3>1. pipe # <<>> => Head(pipe) = [kind |-> "engine_fatal"]
      BY <2>2
    <3>2. pipe # <<>> => Head(pipe).kind = "engine_fatal"
      BY <3>1
    <3> QED BY <3>2 DEF FoundIsShown
  <2>5. RoundHonest
    BY <2>1, <2>2 DEF RoundHonest, Quiet, NoRound
  <2>6. NothingBridgesSessions
    <3>1. Len(view.trend) = 0
      BY <2>2
    <3> QED BY <3>1 DEF NothingBridgesSessions
  <2>7. WorkersShown
    <3>1. pipe = <<>> => view.fatal
      BY <2>2
    <3> QED BY <3>1 DEF WorkersShown
  <2>8. PhaseTellsHealth /\ StableMeansHashing
    BY <2>2 DEF PhaseTellsHealth, StableMeansHashing
  <2> QED BY <1>1, <2>3, <2>4, <2>5, <2>6, <2>7, <2>8 DEF DashboardTrue
<1> QED BY <1>2, <1>3

\* The job, the found block, the hashes, the trend and the health of the workers on
\* display are those of the engine, for any number of workers, heights and events,
\* whatever thread writes when (apply_telemetry in gui.rs, the emit calls of main.rs).
THEOREM DashboardIsTrue == Spec => []DashboardTrue
<1>1. Init => TelemetryInv
  BY KnowsFirst DEF TelemetryInv
<1>2. TelemetryInv /\ [Next]_vars => TelemetryInv'
  BY TelemetryInvKept
<1>3. TelemetryInv => DashboardTrue
  BY TelemetryInvMeans
<1> QED BY <1>1, <1>2, <1>3, PTL DEF Spec

=============================================================================
