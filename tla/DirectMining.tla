---------------------------- MODULE DirectMining ----------------------------
(***************************************************************************)
(* Direct mining against one SOV node: the session thread that polls the   *)
(* node and installs templates (run_rpc_session), the worker threads that  *)
(* hash them and submit winning seals (worker_loop), and the State both    *)
(* share.  The node is external and modelled from what the miner asks of   *)
(* it: it hands out templates on its tip, its tip moves and reorganises,   *)
(* it answers a submission, late, or never.                                *)
(*                                                                         *)
(* A step is the code between two points where another thread can observe  *)
(* the difference: an atomic load, a lock taken or released, an RPC sent   *)
(* or answered.                                                            *)
(*                                                                         *)
(* Some definitions follow a variant of themselves that holds a plausible  *)
(* mistake (BumpGenerationForgotten before BumpGeneration).  No action     *)
(* uses a variant: PROJECT.json says which property refutes it.            *)
(***************************************************************************)
EXTENDS Integers, FiniteSets

CONSTANTS
  Workers,      \* worker threads
  Session,      \* the session thread
  Accounts,     \* coinbase accounts a template may pay
  NoAccount,    \* none requested, none confirmed
  Requested,    \* the account the user asked for, or NoAccount
  NoJob,        \* an empty slot
  Wins,         \* <<template id, worker, nonce>> whose digest meets the target
  NonceBound,   \* bound: nonces a worker tries on one job
  MoveBound,    \* bound: times the node's tip changes
  UpsetBound    \* bound: failed polls or templates, panics, late requests, and
                \* timer refreshes of work that is still current

Job == [id : Nat, height : Nat, parent : Nat, pays : Accounts]

ASSUME DirectMiningAssumption ==
  /\ IsFiniteSet(Workers)
  /\ Session \notin Workers
  /\ NoAccount \notin Accounts
  /\ Requested \in Accounts \cup {NoAccount}
  /\ NoJob \notin Job
  /\ Wins \subseteq Nat \X Workers \X Nat
  /\ {NonceBound, MoveBound, UpsetBound} \subseteq Nat

NoGeneration == -1   \* u64::MAX
NoHeight == -1       \* chain_height is None

VARIABLES
  tip,          \* node: height of its tip and the version of that chain
  issued,       \* node: templates handed out so far
  requests,     \* node: submissions it has not processed
  mined,        \* node: seals it accepted into its chain
  job,          \* State.job
  generation,   \* State.generation
  endpoint,     \* State.rpc_endpoint is Some
  submitted, accepted, rejected,   \* State's counters
  sealed,       \* State.sealed_blocks
  announced,    \* ids a "job" event was emitted for
  cleared,      \* ids a "job_cleared" event was emitted for
  spc,          \* session: where it is
  health,       \* session: height of its last sov_health
  chainHeight,  \* session: height it last fetched a template for
  template,     \* session: the template it is installing
  wpc,          \* worker: where it is
  seen,         \* worker: the generation it last loaded
  held,         \* worker: its copy of the job
  nonce,        \* worker: the next nonce to try
  reply,        \* worker: the node's answer, once it arrived
  upsets        \* spent so far, for UpsetBound

nodeVars    == <<tip, issued, requests, mined>>
slotVars    == <<job, generation, endpoint>>
ledgerVars  == <<submitted, accepted, rejected, sealed>>
eventVars   == <<announced, cleared>>
sessionVars == <<spc, health, chainHeight, template>>
workerVars  == <<wpc, seen, held, nonce, reply>>
vars == <<nodeVars, slotVars, ledgerVars, eventVars, sessionVars, workerVars,
          upsets>>

\* A header sealed by a worker: the block the node is asked to accept.
Seal == [job : Job, worker : Workers, nonce : Nat]

SealOf(w) == [job |-> held[w], worker |-> w, nonce |-> nonce[w]]

SessionStates == {"begin", "poll", "fetch", "install", "bump", "dropEndpoint",
                  "dropJob", "dropBump"}

WorkerStates == {"loop", "read", "hit", "submit", "call", "clear",
                 "bump"}

\* Every writer of the slot ends with generation.fetch_add(1).
BumpGenerationForgotten == UNCHANGED generation
BumpGeneration == generation' = generation + 1

\* `if let Some(endpoint) = state.rpc_endpoint.read()` keeps its read guard to
\* the end of the block, across the call and everything after it.
HoldsEndpointForCall(w) == wpc[w] = "call"
HoldsEndpoint(w) == wpc[w] \in {"call", "clear", "bump"}

\* clear_job_if_current keeps the write lock of the slot until it returns.
SlotFree == \A w \in Workers : wpc[w] # "bump"

\* No work, or work on a tip the node has left.
Stale == job # NoJob => job.parent # tip.version

Init ==
  /\ tip = [height |-> 1, version |-> 0]
  /\ issued = 0
  /\ requests = {}
  /\ mined = {}
  /\ job = NoJob
  /\ generation = 0
  /\ endpoint = FALSE
  /\ submitted = 0 /\ accepted = 0 /\ rejected = 0
  /\ sealed = {}
  /\ announced = {} /\ cleared = {}
  /\ spc = "begin"
  /\ health = 0
  /\ chainHeight = NoHeight
  /\ template = NoJob
  /\ wpc = [w \in Workers |-> "loop"]
  /\ seen = [w \in Workers |-> NoGeneration]
  /\ held = [w \in Workers |-> NoJob]
  /\ nonce = [w \in Workers |-> 0]
  /\ reply = [w \in Workers |-> "none"]
  /\ upsets = 0

-----------------------------------------------------------------------------
(* The node.                                                               *)

\* Another miner's block extends the tip, replaces it, or replaces it by a
\* chain one block shorter.
MoveTip ==
  /\ tip.version < MoveBound
  /\ \E h \in {tip.height - 1, tip.height, tip.height + 1} \cap Nat :
       tip' = [height |-> h, version |-> tip.version + 1]
  /\ UNCHANGED <<issued, requests, mined, slotVars, ledgerVars, eventVars,
                 sessionVars, workerVars, upsets>>

Awaits(w, s) == wpc[w] = "call" /\ reply[w] = "none" /\ s = SealOf(w)

\* The answer reaches the worker that waits for it, or is lost; a worker that
\* gave up waiting hears nothing.
Answer(s, verdict) ==
  /\ requests' = requests \ {s}
  /\ \/ reply' = [reply EXCEPT ![s.worker] =
                    IF Awaits(s.worker, s) THEN verdict ELSE @]
     \/ UNCHANGED reply

\* sov_submitBlock on the template's own tip: the sealed block becomes the tip.
AcceptBlock(s) ==
  /\ s \in requests
  /\ s.job.parent = tip.version
  /\ tip.version < MoveBound
  /\ tip' = [height |-> s.job.height, version |-> tip.version + 1]
  /\ mined' = mined \cup {s}
  /\ Answer(s, "ok")
  /\ UNCHANGED <<issued, slotVars, ledgerVars, eventVars, sessionVars,
                 wpc, seen, held, nonce, upsets>>

\* A stale, unknown or duplicate template, or a node that will not take it.
RejectBlock(s) ==
  /\ s \in requests
  /\ Answer(s, "error")
  /\ UNCHANGED <<tip, issued, mined, slotVars, ledgerVars, eventVars,
                 sessionVars, wpc, seen, held, nonce, upsets>>

-----------------------------------------------------------------------------
(* The session thread.                                                     *)

BeginSession ==
  /\ spc = "begin"
  /\ endpoint' = TRUE
  /\ chainHeight' = NoHeight
  /\ spc' = "poll"
  /\ UNCHANGED <<nodeVars, job, generation, ledgerVars, eventVars,
                 health, template, workerVars, upsets>>

\* sov_health answered with a height the session has not fetched work for.
PollNewHeight ==
  /\ spc = "poll"
  /\ chainHeight # tip.height
  /\ health' = tip.height
  /\ spc' = "fetch"
  /\ UNCHANGED <<nodeVars, slotVars, ledgerVars, eventVars, chainHeight,
                 template, workerVars, upsets>>

\* refreshed.elapsed() >= 30 s.  The timer of work that is still current fires
\* as often as UpsetBound lets it.
TimerDueNever == upsets > UpsetBound
TimerDue == Stale \/ upsets < UpsetBound

\* Same height, and the last template is thirty seconds old.  The height alone
\* hides a reorganisation, so this is also how such work is replaced.
PollTimer ==
  /\ spc = "poll"
  /\ chainHeight = tip.height
  /\ TimerDue
  /\ upsets' = IF Stale THEN upsets ELSE upsets + 1
  /\ health' = tip.height
  /\ spc' = "fetch"
  /\ UNCHANGED <<nodeVars, slotVars, ledgerVars, eventVars, chainHeight,
                 template, workerVars>>

\* Same height, and the last template is recent.
PollUnchanged ==
  /\ spc = "poll"
  /\ chainHeight = tip.height
  /\ health' = tip.height
  /\ UNCHANGED <<nodeVars, slotVars, ledgerVars, eventVars, spc, chainHeight,
                 template, workerVars, upsets>>

\* sov_getBlockTemplate.  The node's tip may have moved since sov_health.
OfferedBy(account) ==
  [id |-> issued + 1, height |-> tip.height + 1, parent |-> tip.version,
   pays |-> account]

\* Job::from_rpc and validate_rpc_coinbase: work for another account is refused.
AnyCoinbase(j) == j \in Job
ValidCoinbase(j) == Requested = NoAccount \/ j.pays = Requested

FetchTemplate ==
  /\ spc = "fetch"
  /\ \E account \in Accounts :
       /\ ValidCoinbase(OfferedBy(account))
       /\ template' = OfferedBy(account)
  /\ issued' = issued + 1
  /\ spc' = "install"
  /\ UNCHANGED <<tip, requests, mined, slotVars, ledgerVars, eventVars, health,
                 chainHeight, workerVars, upsets>>

\* The poll fails, or the template is refused: malformed, paying the wrong
\* account, or beyond the memory the gate allows.  The session ends.
SessionError ==
  /\ spc \in {"poll", "fetch"}
  /\ upsets < UpsetBound
  /\ upsets' = upsets + 1
  /\ spc' = "dropEndpoint"
  /\ UNCHANGED <<nodeVars, slotVars, ledgerVars, eventVars, health,
                 chainHeight, template, workerVars>>

\* The "job" event, emitted under the slot's write lock.
JobEventSkipped == UNCHANGED announced
JobEvent == announced' = announced \cup {template.id}

\* The slot is written and the "job" event emitted under one write lock.
InstallJob ==
  /\ spc = "install"
  /\ SlotFree
  /\ job' = template
  /\ JobEvent
  /\ spc' = "bump"
  /\ UNCHANGED <<nodeVars, generation, endpoint, ledgerVars, cleared,
                 health, chainHeight, template, workerVars, upsets>>

\* The counter moves after the lock is gone.  The session records the height
\* it read before it asked for the template.
ReleaseWorkers ==
  /\ spc = "bump"
  /\ BumpGeneration
  /\ chainHeight' = health
  /\ template' = NoJob
  /\ spc' = "poll"
  /\ UNCHANGED <<nodeVars, job, endpoint, ledgerVars, eventVars,
                 health, workerVars, upsets>>

\* Teardown.  The endpoint's write lock waits for every submission in flight.
DropEndpoint ==
  /\ spc = "dropEndpoint"
  /\ \A w \in Workers : ~HoldsEndpoint(w)
  /\ endpoint' = FALSE
  /\ spc' = "dropJob"
  /\ UNCHANGED <<nodeVars, job, generation, ledgerVars, eventVars,
                 health, chainHeight, template, workerVars, upsets>>

DropJob ==
  /\ spc = "dropJob"
  /\ SlotFree
  /\ job' = NoJob
  /\ spc' = "dropBump"
  /\ UNCHANGED <<nodeVars, generation, endpoint, ledgerVars,
                 eventVars, health, chainHeight, template,
                 workerVars, upsets>>

\* run_headless then sleeps and starts the next session.
EndSession ==
  /\ spc = "dropBump"
  /\ BumpGeneration
  /\ spc' = "begin"
  /\ UNCHANGED <<nodeVars, job, endpoint, ledgerVars, eventVars,
                 health, chainHeight, template, workerVars, upsets>>

-----------------------------------------------------------------------------
(* A worker thread.                                                        *)

\* The head of the loop, and the check inside the batch that leads back to it.
LoadGeneration(w) ==
  /\ wpc[w] = "loop"
  /\ generation # seen[w]
  /\ seen' = [seen EXCEPT ![w] = generation]
  /\ wpc' = [wpc EXCEPT ![w] = "read"]
  /\ UNCHANGED <<nodeVars, slotVars, ledgerVars, eventVars, sessionVars, held,
                 nonce, reply, upsets>>

\* The slot is read under its lock; a new job restarts the nonce.
ReadJobRestamped(w) ==
  /\ wpc[w] = "read"
  /\ SlotFree
  /\ held' = [held EXCEPT ![w] = job]
  /\ seen' = [seen EXCEPT ![w] = generation]
  /\ nonce' = [nonce EXCEPT ![w] = IF job = NoJob THEN @ ELSE 0]
  /\ wpc' = [wpc EXCEPT ![w] = "loop"]
  /\ UNCHANGED <<nodeVars, slotVars, ledgerVars, eventVars, sessionVars, reply,
                 upsets>>

ReadJob(w) ==
  /\ wpc[w] = "read"
  /\ SlotFree
  /\ held' = [held EXCEPT ![w] = job]
  /\ nonce' = [nonce EXCEPT ![w] = IF job = NoJob THEN @ ELSE 0]
  /\ wpc' = [wpc EXCEPT ![w] = "loop"]
  /\ UNCHANGED <<nodeVars, slotVars, ledgerVars, eventVars, sessionVars, seen,
                 reply, upsets>>

Hashing(w) ==
  /\ wpc[w] = "loop"
  /\ seen[w] = generation
  /\ held[w] # NoJob
  /\ nonce[w] < NonceBound

MeetsTarget(w) == <<held[w].id, w, nonce[w]>> \in Wins

\* A digest above the target; or the engine failed to compute the seal, and
\* the nonce is skipped whatever it was worth.
Miss(w) ==
  /\ Hashing(w)
  /\ nonce' = [nonce EXCEPT ![w] = @ + 1]
  /\ UNCHANGED <<nodeVars, slotVars, ledgerVars, eventVars, sessionVars, wpc,
                 seen, held, reply, upsets>>

Hit(w) ==
  /\ Hashing(w)
  /\ MeetsTarget(w)
  /\ wpc' = [wpc EXCEPT ![w] = "hit"]
  /\ UNCHANGED <<nodeVars, slotVars, ledgerVars, eventVars, sessionVars, seen,
                 held, nonce, reply, upsets>>

\* Hashing took time: the generation is compared once more.
CheckHit(w) ==
  /\ wpc[w] = "hit"
  /\ seen[w] = generation
  /\ wpc' = [wpc EXCEPT ![w] = "submit"]
  /\ UNCHANGED <<nodeVars, slotVars, ledgerVars, eventVars, sessionVars, seen,
                 held, nonce, reply, upsets>>

\* A seal of replaced work is dropped, and so is one found while no session
\* has an endpoint (the pool path then finds no connection either).
DropHit(w) ==
  /\ \/ wpc[w] = "hit" /\ seen[w] # generation
     \/ wpc[w] = "submit" /\ ~endpoint
  /\ nonce' = [nonce EXCEPT ![w] = @ + 1]
  /\ wpc' = [wpc EXCEPT ![w] = "loop"]
  /\ UNCHANGED <<nodeVars, slotVars, ledgerVars, eventVars, sessionVars, seen,
                 held, reply, upsets>>

CountSubmissionLater == UNCHANGED submitted
CountSubmission == submitted' = submitted + 1

\* sov_submitBlock, called with the endpoint's read guard held.
SubmitBlock(w) ==
  /\ wpc[w] = "submit"
  /\ endpoint
  /\ CountSubmission
  /\ requests' = requests \cup {SealOf(w)}
  /\ wpc' = [wpc EXCEPT ![w] = "call"]
  /\ UNCHANGED <<tip, issued, mined, slotVars, accepted, rejected, sealed,
                 eventVars, sessionVars, seen, held, nonce, reply, upsets>>

\* The reply echoes this height and this sealed hash: validate_rpc_submission.
ValidatedUnlessRefused(w) == reply[w] # "error"
Validated(w) == reply[w] = "ok"

\* The counter, and record_sealed_block.
CountAccepted(w) ==
  /\ wpc[w] = "call"
  /\ Validated(w)
  /\ accepted' = accepted + 1
  /\ sealed' = sealed \cup {SealOf(w)}
  /\ reply' = [reply EXCEPT ![w] = "none"]
  /\ wpc' = [wpc EXCEPT ![w] = "clear"]
  /\ UNCHANGED <<nodeVars, slotVars, submitted, rejected, eventVars,
                 sessionVars, seen, held, nonce, upsets>>

\* DIRECT_RPC_TIMEOUT bounds the call.
DeadlineNever(w) == reply[w] = "late"
Deadline(w) == reply[w] = "none"

\* The node refused, or its answer was lost or unusable, or the call ran into
\* its deadline before the node processed it.  Such a request may still reach
\* the node later.
CountRejected(w) ==
  /\ wpc[w] = "call"
  /\ \/ reply[w] = "error" /\ UNCHANGED <<requests, upsets>>
     \/ Deadline(w) /\ requests' = requests \ {SealOf(w)} /\ UNCHANGED upsets
     \/ /\ Deadline(w) /\ SealOf(w) \in requests /\ UNCHANGED requests
        /\ upsets < UpsetBound /\ upsets' = upsets + 1
  /\ rejected' = rejected + 1
  /\ reply' = [reply EXCEPT ![w] = "none"]
  /\ nonce' = [nonce EXCEPT ![w] = @ + 1]
  /\ wpc' = [wpc EXCEPT ![w] = "loop"]
  /\ UNCHANGED <<tip, issued, mined, slotVars, submitted, accepted, sealed,
                 eventVars, sessionVars, seen, held>>

\* Arc::ptr_eq; job ids are fresh.
AnyJobCurrent(w) == job # NoJob
StillCurrent(w) == job = held[w]

\* clear_job_if_current: the slot is emptied only if it still holds this job.
ClearJob(w) ==
  /\ wpc[w] = "clear"
  /\ SlotFree
  /\ StillCurrent(w)
  /\ job' = NoJob
  /\ wpc' = [wpc EXCEPT ![w] = "bump"]
  /\ UNCHANGED <<nodeVars, generation, endpoint, ledgerVars,
                 eventVars, sessionVars, seen, held, nonce, reply, upsets>>

AnnounceCleared(w) ==
  /\ wpc[w] = "bump"
  /\ BumpGeneration
  /\ cleared' = cleared \cup {held[w].id}
  /\ nonce' = [nonce EXCEPT ![w] = @ + 1]
  /\ wpc' = [wpc EXCEPT ![w] = "loop"]
  /\ UNCHANGED <<nodeVars, job, endpoint, ledgerVars, announced,
                 sessionVars, seen, held, reply, upsets>>

LeaveNewerJob(w) ==
  /\ wpc[w] = "clear"
  /\ SlotFree
  /\ ~StillCurrent(w)
  /\ nonce' = [nonce EXCEPT ![w] = @ + 1]
  /\ wpc' = [wpc EXCEPT ![w] = "loop"]
  /\ UNCHANGED <<nodeVars, slotVars, ledgerVars, eventVars, sessionVars, seen,
                 held, reply, upsets>>

RestartMidSubmit(w) ==
  /\ held[w] # NoJob
  /\ upsets < UpsetBound
  /\ upsets' = upsets + 1
  /\ seen' = [seen EXCEPT ![w] = NoGeneration]
  /\ held' = [held EXCEPT ![w] = NoJob]
  /\ nonce' = [nonce EXCEPT ![w] = 0]
  /\ UNCHANGED <<nodeVars, slotVars, ledgerVars, eventVars, sessionVars, wpc,
                 reply>>

\* worker_supervisor starts worker_loop over after a panic while hashing.
RestartWorker(w) ==
  /\ wpc[w] = "loop"
  /\ held[w] # NoJob
  /\ upsets < UpsetBound
  /\ upsets' = upsets + 1
  /\ seen' = [seen EXCEPT ![w] = NoGeneration]
  /\ held' = [held EXCEPT ![w] = NoJob]
  /\ nonce' = [nonce EXCEPT ![w] = 0]
  /\ UNCHANGED <<nodeVars, slotVars, ledgerVars, eventVars, sessionVars, wpc,
                 reply>>

-----------------------------------------------------------------------------

NodeNext == MoveTip \/ \E s \in requests : AcceptBlock(s) \/ RejectBlock(s)

SessionStep ==
  \/ BeginSession \/ PollNewHeight \/ PollTimer \/ PollUnchanged
  \/ FetchTemplate \/ InstallJob \/ ReleaseWorkers
  \/ DropEndpoint \/ DropJob \/ EndSession

WorkerStep(w) ==
  \/ LoadGeneration(w) \/ ReadJob(w) \/ Miss(w) \/ Hit(w) \/ CheckHit(w)
  \/ DropHit(w) \/ SubmitBlock(w) \/ CountAccepted(w) \/ CountRejected(w)
  \/ ClearJob(w) \/ AnnounceCleared(w) \/ LeaveNewerJob(w)

Next ==
  \/ NodeNext
  \/ SessionStep \/ SessionError
  \/ \E w \in Workers : WorkerStep(w) \/ RestartWorker(w)

Spec == Init /\ [][Next]_vars

\* Every thread keeps running: the session and worker loops have no exit, and
\* every RPC they make has a deadline.  Nothing is assumed of the node.
FairSpec ==
  /\ Spec
  /\ WF_vars(SessionStep)
  /\ \A w \in Workers : WF_vars(WorkerStep(w))

-----------------------------------------------------------------------------

TypeOK ==
  /\ tip \in [height : Nat, version : Nat]
  /\ issued \in Nat
  /\ requests \in SUBSET Seal /\ mined \in SUBSET Seal
  /\ job \in Job \cup {NoJob}
  /\ generation \in Nat
  /\ endpoint \in BOOLEAN
  /\ submitted \in Nat /\ accepted \in Nat /\ rejected \in Nat
  /\ sealed \in SUBSET Seal
  /\ announced \in SUBSET Nat /\ cleared \in SUBSET Nat
  /\ spc \in SessionStates
  /\ health \in Nat
  /\ chainHeight \in Nat \cup {NoHeight}
  /\ template \in Job \cup {NoJob}
  /\ spc \in {"install", "bump"} => template # NoJob
  /\ wpc \in [Workers -> WorkerStates]
  /\ seen \in [Workers -> Nat \cup {NoGeneration}]
  /\ held \in [Workers -> Job \cup {NoJob}]
  /\ \A w \in Workers : wpc[w] \notin {"loop", "read"} => held[w] # NoJob
  /\ nonce \in [Workers -> Nat]
  /\ reply \in [Workers -> {"none", "ok", "error"}]
  /\ upsets \in Nat

\* Of all seals submitted, each was counted once as accepted or rejected or
\* is still in a call: no seal is lost or counted twice, whatever the node
\* answers and whenever it does (worker_loop's counters).
SubmissionsAccounted ==
  submitted = accepted + rejected + Cardinality({w \in Workers : wpc[w] = "call"})

\* A block counted as accepted is one the node has in its chain, and no two
\* accepts are counted for one block: a late, lost or duplicate answer never
\* becomes a block of ours.
AcceptedAreMined ==
  /\ sealed \subseteq mined
  /\ accepted = Cardinality(sealed)

\* The slot is emptied by the session's teardown, or when the chain has moved
\* past the job it holds: an answer to an old submission never takes away work
\* that is still good (State::clear_job_if_current).
CurrentWorkKept ==
  [][job # NoJob /\ job' = NoJob => spc = "dropJob" \/ job.parent # tip.version]_vars

\* A worker hashes no job before its "job" event is out: install_job emits
\* the event while it holds the slot's write lock.
AnnouncedBeforeHashed ==
  \A w \in Workers : held[w] # NoJob => held[w].id \in announced

\* Every block of ours in the node's chain pays the account the user asked
\* for: a template that pays another is refused (validate_rpc_coinbase).
PaysRequested ==
  Requested # NoAccount => \A s \in mined : s.job.pays = Requested

\* Once a session has dropped its endpoint, no submission is in progress, so
\* none finishes in a later session; and between sessions there is no work.
QuietTeardown ==
  ~endpoint =>
    /\ \A w \in Workers : wpc[w] \notin {"call", "clear", "bump"}
    /\ spc = "begin" => job = NoJob

-----------------------------------------------------------------------------
(* What the slot promises, from the abstract module.                       *)

Owing ==
  {w \in Workers : wpc[w] = "bump"} \cup
  IF spc \in {"bump", "dropBump"} THEN {Session} ELSE {}

Slot == INSTANCE WorkSlot WITH
  Worker <- Workers,
  Writer <- Workers \cup {Session},
  slot   <- job,
  owing  <- Owing,
  phase  <- [w \in Workers |-> IF wpc[w] = "read" THEN "reading" ELSE "working"]

\* The session and the workers use the slot as WorkSlot says: the counter is
\* bumped after every change of the slot, and read before the slot is.
WorkSlotSpec == Slot!Spec

\* A worker that finds its generation current is mining the published job,
\* unless a writer is between its slot write and its bump.
Coherent == Slot!Coherent

-----------------------------------------------------------------------------

\* A session that fails always finishes its teardown and starts again, though
\* the endpoint's write lock waits for calls the node may never answer.
TeardownCompletes == spc = "dropEndpoint" ~> spc = "begin"

\* Once the chain stands still and nothing fails any more, every worker ends
\* up on a job built on the tip, and stays there: neither a template fetched
\* while the tip moved, nor a reorganisation the height does not show, nor an
\* emptied slot leaves a worker idle or on stale work for good.
FreshWork == <>[](~Stale /\ \A w \in Workers : held[w] = job)

\* README.md: a BLOCK FOUND confirmation when the node accepts this miner's
\* exact sealed block.  The GUI shows it on the "job_cleared" event.
BlockFoundShown ==
  \A s \in sealed :
    \/ s.job.id \in cleared
    \/ \E w \in Workers : wpc[w] \in {"clear", "bump"} /\ SealOf(w) = s
=============================================================================
